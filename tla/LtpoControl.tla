---------------------------- MODULE LtpoControl ----------------------------
(***************************************************************************)
(* The LTPO control HAL (src/aidl/display/ltpo): SurfaceFlinger asks for a *)
(* refresh rate, the service writes a skip-frame index to the panel's node *)
(* and keeps the rate it last wrote.  init starts and stops the service    *)
(* with persist.sys.sfm.mode; the panel keeps its index meanwhile.         *)
(*                                                                         *)
(* mLock makes setTargetHz and setEnabled exclude each other; within the   *)
(* lock the decision, the write and the store of mCurrentHz are separate   *)
(* steps, between which time passes, the mode changes or the process dies. *)
(***************************************************************************)
EXTENDS Integers, Sequences

CONSTANTS
    kBoostHold,      \* in ticks of the clock
    TargetHz,        \* the rates SurfaceFlinger asks for
    MaxNow,          \* bound: the clock
    MaxDeaths,       \* bound: how often the process is stopped
    WritesFail       \* whether a write to the panel's node may fail

ASSUME LtpoAssumption ==
    /\ kBoostHold \in Nat \ {0}
    /\ TargetHz \subseteq Int
    /\ MaxNow \in Nat
    /\ MaxDeaths \in Nat
    /\ WritesFail \in BOOLEAN

kSteps == << [hz |-> 1, sfm |-> 11], [hz |-> 10, sfm |-> 10],
             [hz |-> 24, sfm |-> 9], [hz |-> 30, sfm |-> 8],
             [hz |-> 60, sfm |-> 7], [hz |-> 120, sfm |-> 16] >>
Steps == {kSteps[i] : i \in 1..6}

VARIABLES
    panel,        \* the skip-frame index the panel holds
    mode,         \* persist.sys.sfm.mode
    running,      \* the service process is alive
    mSfmFd,       \* its node is open
    mEnabled, mCurrentHz, mBoostUntil,
    lock,         \* what the holder of mLock does next: "free", "write", "store"
    best,         \* the step it writes
    now,          \* the clock
    deaths,       \* how often the process has died
    asked,        \* the rate of the last request it obeyed; 0, which every rate
                  \* satisfies, also for none
    boosted,      \* when it last obeyed a request for 120 Hz
    failed        \* whether the last write failed

service == <<running, mSfmFd, mEnabled, mCurrentHz, mBoostUntil, lock, best>>
history == <<asked, boosted, failed>>
vars == <<panel, mode, service, now, deaths, history>>

-----------------------------------------------------------------------------
\* The initialiser of mCurrentHz, and the slip of having none.
NoInitialHz == 0
InitialHz == 120

Init ==
    /\ panel = 16
    /\ mode \in {"idle", "vrr"}
    /\ running = TRUE
    /\ mSfmFd \in BOOLEAN
    /\ mEnabled = mSfmFd
    /\ mCurrentHz = InitialHz
    /\ mBoostUntil = 0
    /\ lock = "free"
    /\ best = kSteps[6]
    /\ now = 1
    /\ deaths = 0
    /\ asked = 0
    /\ boosted = 0 - kBoostHold
    /\ failed = FALSE

\* In idle-only mode, clamp to 1Hz or 120Hz.
Clamped(targetHz) ==
    IF mode = "vrr" THEN targetHz ELSE IF targetHz <= 1 THEN 1 ELSE 120

\* A slip: no hold.
HeldNever(targetHz) == targetHz

\* The hold window of the touch boost.
Held(targetHz) == IF targetHz < 120 /\ now < mBoostUntil THEN 120 ELSE targetHz

Gap(hz, targetHz) == IF hz < targetHz THEN targetHz - hz ELSE hz - targetHz

\* A slip, and what README.md says: the closest step, which may be too slow.
ClosestStep(targetHz) ==
    CHOOSE step \in Steps :
        \A other \in Steps : Gap(step.hz, targetHz) <= Gap(other.hz, targetHz)

\* The first step that is fast enough, or the last.
BestStep(targetHz) ==
    IF \E i \in 1..6 : kSteps[i].hz >= targetHz
    THEN kSteps[CHOOSE i \in 1..6 : /\ kSteps[i].hz >= targetHz
                                    /\ \A j \in 1..(i - 1) : kSteps[j].hz < targetHz]
    ELSE kSteps[6]

\* setTargetHz, up to its write; onIdle and onActive are the requests for
\* 1 Hz and 120 Hz.  A rate the panel is believed to run at is not written.
SetTargetHz(targetHz) ==
    LET clamped == Clamped(targetHz)
        step == BestStep(Held(clamped))
    IN
    /\ running
    /\ lock = "free"
    /\ mEnabled
    /\ mBoostUntil' = IF clamped >= 120 THEN now + kBoostHold ELSE mBoostUntil
    /\ boosted' = IF clamped >= 120 THEN now ELSE boosted
    /\ asked' = targetHz
    /\ failed' = FALSE
    /\ best' = step
    /\ lock' = IF mCurrentHz # step.hz THEN "write" ELSE "free"
    /\ UNCHANGED <<panel, mode, running, mSfmFd, mEnabled, mCurrentHz, now, deaths>>

\* setEnabled, up to the write of 120 Hz when it disables.
SetEnabled(enabled) ==
    /\ running
    /\ lock = "free"
    /\ mEnabled' = enabled
    /\ lock' = IF enabled THEN "free" ELSE "write"
    /\ best' = IF enabled THEN best ELSE kSteps[6]
    /\ asked' = 0
    /\ failed' = FALSE
    /\ UNCHANGED <<panel, mode, running, mSfmFd, mCurrentHz, mBoostUntil, now,
                   deaths, boosted>>

\* A failed write is not stored; the slip is to ignore its result.
AfterFailureStore == "store"
AfterFailure == "free"

\* writeSfm: the node may be closed or refuse (EBUSY); mCurrentHz then stays.
WriteSfm ==
    /\ running
    /\ lock = "write"
    /\ \/ /\ mSfmFd
          /\ panel' = best.sfm
          /\ lock' = "store"
          /\ UNCHANGED failed
       \/ /\ ~mSfmFd \/ WritesFail
          /\ failed' = TRUE
          /\ lock' = AfterFailure
          /\ UNCHANGED panel
    /\ UNCHANGED <<mode, running, mSfmFd, mEnabled, mCurrentHz, mBoostUntil,
                   best, now, deaths, asked, boosted>>

StoreCurrentHz ==
    /\ running
    /\ lock = "store"
    /\ mCurrentHz' = best.hz
    /\ lock' = "free"
    /\ UNCHANGED <<panel, mode, running, mSfmFd, mEnabled, mBoostUntil, best,
                   now, deaths, history>>

-----------------------------------------------------------------------------
(* init and the user.                                                      *)

SetMode(m) ==
    /\ mode' = m
    /\ UNCHANGED <<panel, service, now, deaths, history>>

\* The process is stopped with mode "off", or crashes: no destructor runs.
Die ==
    /\ running
    /\ deaths < MaxDeaths
    /\ deaths' = deaths + 1
    /\ running' = FALSE
    /\ UNCHANGED <<panel, mode, mSfmFd, mEnabled, mCurrentHz, mBoostUntil, lock,
                   best, now, history>>

\* init starts it again; the constructor enables it if the node opens.
Start ==
    /\ ~running
    /\ mode # "off"
    /\ running' = TRUE
    /\ mSfmFd' \in BOOLEAN
    /\ mEnabled' = mSfmFd'
    /\ mCurrentHz' = InitialHz
    /\ mBoostUntil' = 0
    /\ lock' = "free"
    /\ best' = kSteps[6]
    /\ asked' = 0
    /\ boosted' = 0 - kBoostHold
    /\ failed' = FALSE
    /\ UNCHANGED <<panel, mode, now, deaths>>

Tick ==
    /\ now < MaxNow
    /\ now' = now + 1
    /\ UNCHANGED <<panel, mode, service, deaths, history>>

Next ==
    \/ \E hz \in TargetHz : SetTargetHz(hz)
    \/ \E enabled \in BOOLEAN : SetEnabled(enabled)
    \/ WriteSfm
    \/ StoreCurrentHz
    \/ \E m \in {"idle", "vrr", "off"} : SetMode(m)
    \/ Die
    \/ Start
    \/ Tick

Spec == Init /\ [][Next]_vars

-----------------------------------------------------------------------------
\* Every variable keeps its type, and only rates and indices of the step
\* table ever reach mCurrentHz and the panel.
TypeOK ==
    /\ panel \in {step.sfm : step \in Steps}
    /\ mode \in {"idle", "vrr", "off"}
    /\ running \in BOOLEAN
    /\ mSfmFd \in BOOLEAN
    /\ mEnabled \in BOOLEAN
    /\ mCurrentHz \in {step.hz : step \in Steps}
    /\ mBoostUntil \in Nat
    /\ lock \in {"free", "write", "store"}
    /\ best \in Steps
    /\ now \in Nat
    /\ deaths \in 0..MaxDeaths
    /\ asked \in Int
    /\ boosted \in Int
    /\ failed \in BOOLEAN

\* As long as the process has not been replaced, mCurrentHz is the rate the
\* panel runs at whenever mLock is free, failed writes included: otherwise the
\* test against mCurrentHz would skip a write the panel needs.
CacheCoherent ==
    deaths = 0 /\ lock = "free" => [hz |-> mCurrentHz, sfm |-> panel] \in Steps

\* "During the hold, reject any lower target so the animation stays smooth":
\* for kBoostHold after a request for 120 Hz nothing the process does slows the
\* panel down, whatever is requested, toggled or changed in between.
SmoothDuringHold ==
    [][\A fast, slow \in Steps :
         panel = fast.sfm /\ panel' = slow.sfm /\ slow.hz < fast.hz
             => now >= boosted + kBoostHold]_vars

\* "Find lowest supported rate >= targetHz": unless its write failed, a request
\* leaves the panel of a process that was never replaced at least as fast as the
\* content, up to 120 Hz, whatever hold, skipped write or change of mode it met.
\* README.md says "closest supported step", which 11 Hz does not get: the code
\* answers it with 24 Hz, where 10 Hz would be closer and too slow.
NeverTooSlow ==
    deaths = 0 /\ lock = "free" /\ asked # 0 /\ ~failed =>
        \A step \in Steps : step.sfm = panel => step.hz >= asked \/ step.hz = 120

-----------------------------------------------------------------------------
\* README.md: the panel "jumps back to 120Hz on any content update".  After a
\* request for 120 Hz, none of whose writes failed, the panel runs at 120 Hz.
JumpsBack ==
    running /\ lock = "free" /\ asked >= 120 /\ ~failed => panel = 16
=============================================================================
