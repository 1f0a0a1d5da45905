------------------------- MODULE LtpoControlProofs -------------------------
(* Theorems about LtpoControl, for any hold, any set of requested rates and *)
(* any number of ticks and deaths of the process.                           *)
EXTENDS LtpoControl, TLAPS

\* A rate that covers a request: fast enough, or the fastest there is.
Covers(step, targetHz) == step.hz >= targetHz \/ step.hz = 120

\* Only a stopped process is replaced.
AliveUntilKilled == deaths = 0 => running

\* Between the write and the store the panel is ahead of mCurrentHz; otherwise
\* the two are the columns of one row of kSteps.
CacheOrWritten ==
    deaths = 0 => IF lock = "store" THEN panel = best.sfm
                  ELSE [hz |-> mCurrentHz, sfm |-> panel] \in Steps

\* mBoostUntil is the end of the last boost.
HoldRecorded == mBoostUntil = boosted + kBoostHold

\* The lower rate a request is about to write was chosen after the hold.
PendingSmooth == lock = "write" => best.hz = 120 \/ now >= boosted + kBoostHold

\* The step of the last request covers it, and unless its write failed is the
\* step mCurrentHz comes to hold.
RequestCovered == asked # 0 => Covers(best, asked)
RequestStored == lock = "free" /\ asked # 0 /\ ~failed => mCurrentHz = best.hz

IInv == /\ TypeOK
        /\ AliveUntilKilled
        /\ CacheOrWritten
        /\ HoldRecorded
        /\ PendingSmooth
        /\ RequestCovered
        /\ RequestStored

-----------------------------------------------------------------------------
\* The step table, row by row.
LEMMA StepRows ==
    Steps = {[hz |-> 1, sfm |-> 11], [hz |-> 10, sfm |-> 10],
             [hz |-> 24, sfm |-> 9], [hz |-> 30, sfm |-> 8],
             [hz |-> 60, sfm |-> 7], [hz |-> 120, sfm |-> 16]}
<1>1. 1..6 = {1, 2, 3, 4, 5, 6}
  OBVIOUS
<1> QED
  BY <1>1 DEF Steps, kSteps

\* No two rows of kSteps share a skip-frame index.
LEMMA SfmInjective ==
    ASSUME NEW a \in Steps, NEW b \in Steps, a.sfm = b.sfm
    PROVE  a = b
  BY StepRows

\* The search of setTargetHz returns a row of the table that covers its target.
LEMMA BestStepCovers ==
    ASSUME NEW targetHz \in Int
    PROVE  /\ BestStep(targetHz) \in Steps
           /\ Covers(BestStep(targetHz), targetHz)
<1> DEFINE Fast(i) == kSteps[i].hz >= targetHz
           First(i) == Fast(i) /\ \A j \in 1..(i - 1) : kSteps[j].hz < targetHz
<1>1. CASE \E i \in 1..6 : Fast(i)
  <2>1. \E i \in 1..6 : First(i)
    BY <1>1 DEF kSteps
  <2>2. PICK i \in 1..6 : First(i) /\ BestStep(targetHz) = kSteps[i]
    BY <1>1, <2>1, Zenon DEF BestStep
  <2> QED
    BY <2>2 DEF Steps, Covers
<1>2. CASE ~\E i \in 1..6 : Fast(i)
  <2>1. BestStep(targetHz) = kSteps[6]
    BY <1>2 DEF BestStep
  <2> QED
    BY <2>1 DEF Steps, Covers, kSteps
<1> QED
  BY <1>1, <1>2

\* Every rate is an integer of the table.
LEMMA StepTypes ==
    /\ \A step \in Steps : step.hz \in Int /\ step.sfm \in Int
    /\ kSteps[6] \in Steps
    /\ kSteps[6] = [hz |-> 120, sfm |-> 16]
  BY StepRows DEF kSteps

-----------------------------------------------------------------------------
\* The initial states satisfy the inductive invariant.
LEMMA InitIInv == Init => IInv
<1> SUFFICES ASSUME Init PROVE IInv
  OBVIOUS
<1> USE LtpoAssumption, StepTypes DEF Init, InitialHz
<1>0. [hz |-> 120, sfm |-> 16] \in Steps
  BY StepTypes
<1>1. TypeOK
  <2>1. mCurrentHz \in {step.hz : step \in Steps} /\ panel \in {step.sfm : step \in Steps}
    BY <1>0
  <2>2. mBoostUntil \in Nat /\ boosted \in Int /\ deaths \in 0..MaxDeaths /\ asked \in Int
    OBVIOUS
  <2> QED
    BY <2>1, <2>2 DEF TypeOK
<1>2. CacheOrWritten
  BY <1>0 DEF CacheOrWritten
<1>3. AliveUntilKilled /\ HoldRecorded /\ PendingSmooth
  BY DEF AliveUntilKilled, HoldRecorded, PendingSmooth
<1>4. RequestCovered /\ RequestStored
  BY DEF RequestCovered, RequestStored
<1> QED
  BY <1>1, <1>2, <1>3, <1>4 DEF IInv

\* setTargetHz leaves the invariant true: the step it picks covers the rate it
\* was asked for, clamped and held, and a step below 120 Hz means no hold.
LEMMA SetTargetHzIInv ==
    ASSUME IInv, NEW targetHz \in TargetHz, SetTargetHz(targetHz)
    PROVE  IInv'
<1> USE LtpoAssumption DEF IInv
<1> DEFINE clamped == Clamped(targetHz)
           held == Held(clamped)
<1>1. /\ targetHz \in Int
      /\ clamped \in Int
      /\ clamped >= targetHz \/ clamped = 120
  BY DEF Clamped
<1>2. /\ held \in Int
      /\ held >= clamped
      /\ held = clamped \/ held = 120
      /\ held < 120 => now >= mBoostUntil
  BY <1>1 DEF Held, TypeOK
<1>3. /\ best' = BestStep(held)
      /\ best' \in Steps
      /\ best'.hz \in Int
      /\ best'.hz <= 120
      /\ Covers(best', held)
  <2>1. best' = BestStep(held)
    BY DEF SetTargetHz
  <2>2. \A step \in Steps : step.hz \in Int /\ step.hz <= 120
    BY StepRows
  <2> HIDE DEF held
  <2> QED
    BY <1>2, <2>1, <2>2, BestStepCovers
<1> HIDE DEF clamped, held
<1>4. /\ mBoostUntil' = IF clamped >= 120 THEN now + kBoostHold ELSE mBoostUntil
      /\ boosted' = IF clamped >= 120 THEN now ELSE boosted
      /\ asked' = targetHz
      /\ failed' = FALSE
      /\ lock' = IF mCurrentHz # best'.hz THEN "write" ELSE "free"
      /\ lock = "free"
      /\ UNCHANGED <<panel, mode, running, mSfmFd, mEnabled, mCurrentHz, now, deaths>>
  BY DEF SetTargetHz, clamped, held
<1>5. TypeOK'
  <2>1. mBoostUntil' \in Nat /\ boosted' \in Int /\ asked' \in Int
    BY <1>1, <1>4 DEF TypeOK
  <2>2. lock' \in {"free", "write", "store"}
    BY <1>4
  <2> QED
    BY <1>3, <1>4, <2>1, <2>2, Zenon DEF TypeOK
<1>6. AliveUntilKilled'
  BY <1>4 DEF AliveUntilKilled
<1>7. CacheOrWritten'
  BY <1>4 DEF CacheOrWritten
<1>8. HoldRecorded'
  BY <1>1, <1>4 DEF HoldRecorded, TypeOK
<1>9. PendingSmooth'
  <2>1. CASE held >= 120
    BY <1>2, <1>3, <2>1 DEF PendingSmooth, Covers
  <2>2. CASE held < 120
    BY <1>1, <1>2, <1>4, <2>2 DEF PendingSmooth, HoldRecorded, TypeOK
  <2> QED
    BY <1>2, <2>1, <2>2
<1>10. RequestCovered'
  BY <1>1, <1>2, <1>3, <1>4 DEF RequestCovered, Covers
<1>11. RequestStored'
  BY <1>3, <1>4 DEF RequestStored
<1> QED
  BY <1>5, <1>6, <1>7, <1>8, <1>9, <1>10, <1>11

\* Every step of the service, of init and of the clock preserves the inductive
\* invariant.
LEMMA NextIInv == IInv /\ [Next]_vars => IInv'
<1> SUFFICES ASSUME IInv, [Next]_vars PROVE IInv'
  OBVIOUS
<1> USE LtpoAssumption, StepTypes DEF IInv, service, history
<1>1. ASSUME NEW targetHz \in TargetHz, SetTargetHz(targetHz) PROVE IInv'
  BY <1>1, SetTargetHzIInv
<1>2. ASSUME NEW enabled \in BOOLEAN, SetEnabled(enabled) PROVE IInv'
  <2>1. TypeOK'
    <3>1. mBoostUntil' \in Nat /\ asked' \in Int
      BY <1>2 DEF TypeOK, SetEnabled
    <3> QED
      BY <1>2, <3>1, Zenon DEF TypeOK, SetEnabled
  <2>2. AliveUntilKilled'
    BY <1>2 DEF TypeOK, AliveUntilKilled, SetEnabled
  <2>3. CacheOrWritten'
    BY <1>2 DEF TypeOK, CacheOrWritten, AliveUntilKilled, SetEnabled
  <2>4. HoldRecorded'
    BY <1>2 DEF TypeOK, HoldRecorded, SetEnabled
  <2>5. PendingSmooth'
    BY <1>2 DEF TypeOK, PendingSmooth, SetEnabled
  <2>6. RequestCovered'
    BY <1>2 DEF TypeOK, RequestCovered, Covers, SetEnabled
  <2>7. RequestStored'
    BY <1>2 DEF TypeOK, RequestStored, SetEnabled
  <2> QED
    BY <2>1, <2>2, <2>3, <2>4, <2>5, <2>6, <2>7
<1>3. CASE WriteSfm
  <2>1. TypeOK'
    <3>1. asked' \in Int
      BY <1>3 DEF TypeOK, WriteSfm, AfterFailure
    <3> QED
      BY <1>3, <3>1, Zenon DEF TypeOK, WriteSfm, AfterFailure
  <2>2. AliveUntilKilled'
    BY <1>3 DEF TypeOK, AliveUntilKilled, WriteSfm, AfterFailure
  <2>3. CacheOrWritten'
    BY <1>3 DEF TypeOK, CacheOrWritten, AliveUntilKilled, WriteSfm, AfterFailure
  <2>4. HoldRecorded'
    BY <1>3 DEF TypeOK, HoldRecorded, WriteSfm, AfterFailure
  <2>5. PendingSmooth'
    BY <1>3 DEF TypeOK, PendingSmooth, WriteSfm, AfterFailure
  <2>6. RequestCovered'
    BY <1>3 DEF TypeOK, RequestCovered, Covers, WriteSfm, AfterFailure
  <2>7. RequestStored'
    BY <1>3 DEF TypeOK, RequestStored, WriteSfm, AfterFailure
  <2> QED
    BY <2>1, <2>2, <2>3, <2>4, <2>5, <2>6, <2>7
<1>4. CASE StoreCurrentHz
  <2>1. TypeOK'
    <3>1. mCurrentHz' \in {step.hz : step \in Steps}
      BY <1>4 DEF TypeOK, StoreCurrentHz
    <3> QED
      BY <1>4, <3>1, Zenon DEF TypeOK, StoreCurrentHz
  <2>2. AliveUntilKilled'
    BY <1>4 DEF TypeOK, AliveUntilKilled, StoreCurrentHz
  <2>3. CacheOrWritten'
    <3>1. best = [hz |-> best.hz, sfm |-> best.sfm]
      BY StepRows DEF TypeOK
    <3> QED
      BY <1>4, <3>1 DEF TypeOK, CacheOrWritten, StoreCurrentHz
  <2>4. HoldRecorded'
    BY <1>4 DEF TypeOK, HoldRecorded, StoreCurrentHz
  <2>5. PendingSmooth'
    BY <1>4 DEF TypeOK, PendingSmooth, StoreCurrentHz
  <2>6. RequestCovered'
    BY <1>4 DEF TypeOK, RequestCovered, Covers, StoreCurrentHz
  <2>7. RequestStored'
    BY <1>4 DEF TypeOK, RequestStored, StoreCurrentHz
  <2> QED
    BY <2>1, <2>2, <2>3, <2>4, <2>5, <2>6, <2>7
<1>5. ASSUME NEW m \in {"idle", "vrr", "off"}, SetMode(m) PROVE IInv'
  <2>1. TypeOK'
    <3>1. asked' \in Int
      BY <1>5 DEF TypeOK, SetMode
    <3> QED
      BY <1>5, <3>1, Zenon DEF TypeOK, SetMode
  <2>2. AliveUntilKilled'
    BY <1>5 DEF TypeOK, AliveUntilKilled, SetMode
  <2>3. CacheOrWritten'
    BY <1>5 DEF TypeOK, CacheOrWritten, AliveUntilKilled, SetMode
  <2>4. HoldRecorded'
    BY <1>5 DEF TypeOK, HoldRecorded, SetMode
  <2>5. PendingSmooth'
    BY <1>5 DEF TypeOK, PendingSmooth, SetMode
  <2>6. RequestCovered'
    BY <1>5 DEF TypeOK, RequestCovered, Covers, SetMode
  <2>7. RequestStored'
    BY <1>5 DEF TypeOK, RequestStored, SetMode
  <2> QED
    BY <2>1, <2>2, <2>3, <2>4, <2>5, <2>6, <2>7
<1>6. CASE Die
  <2>1. TypeOK'
    <3>1. deaths' \in 0..MaxDeaths
      BY <1>6 DEF TypeOK, Die
    <3> QED
      BY <1>6, <3>1, Zenon DEF TypeOK, Die
  <2>2. AliveUntilKilled'
    BY <1>6 DEF TypeOK, AliveUntilKilled, Die
  <2>3. CacheOrWritten'
    BY <1>6 DEF TypeOK, CacheOrWritten, AliveUntilKilled, Die
  <2>4. HoldRecorded'
    BY <1>6 DEF TypeOK, HoldRecorded, Die
  <2>5. PendingSmooth'
    BY <1>6 DEF TypeOK, PendingSmooth, Die
  <2>6. RequestCovered'
    BY <1>6 DEF TypeOK, RequestCovered, Covers, Die
  <2>7. RequestStored'
    BY <1>6 DEF TypeOK, RequestStored, Die
  <2> QED
    BY <2>1, <2>2, <2>3, <2>4, <2>5, <2>6, <2>7
<1>7. CASE Start
  <2>1. TypeOK'
    <3>1. mBoostUntil' \in Nat /\ boosted' \in Int /\ asked' \in Int
      BY <1>7 DEF TypeOK, Start, InitialHz
    <3>2. mCurrentHz' \in {step.hz : step \in Steps} /\ best' \in Steps
      BY <1>7 DEF Start, InitialHz
    <3> QED
      BY <1>7, <3>1, <3>2, Zenon DEF TypeOK, Start
  <2>2. AliveUntilKilled'
    BY <1>7 DEF TypeOK, AliveUntilKilled, Start, InitialHz
  <2>3. CacheOrWritten'
    BY <1>7 DEF TypeOK, CacheOrWritten, AliveUntilKilled, Start, InitialHz
  <2>4. HoldRecorded'
    BY <1>7 DEF TypeOK, HoldRecorded, Start, InitialHz
  <2>5. PendingSmooth'
    BY <1>7 DEF TypeOK, PendingSmooth, Start, InitialHz
  <2>6. RequestCovered'
    BY <1>7 DEF TypeOK, RequestCovered, Covers, Start, InitialHz
  <2>7. RequestStored'
    BY <1>7 DEF TypeOK, RequestStored, Start, InitialHz
  <2> QED
    BY <2>1, <2>2, <2>3, <2>4, <2>5, <2>6, <2>7
<1>8. CASE Tick
  <2>1. TypeOK'
    <3>1. now' \in Nat
      BY <1>8 DEF TypeOK, Tick
    <3> QED
      BY <1>8, <3>1, Zenon DEF TypeOK, Tick
  <2>2. AliveUntilKilled'
    BY <1>8 DEF TypeOK, AliveUntilKilled, Tick
  <2>3. CacheOrWritten'
    BY <1>8 DEF TypeOK, CacheOrWritten, AliveUntilKilled, Tick
  <2>4. HoldRecorded'
    BY <1>8 DEF TypeOK, HoldRecorded, Tick
  <2>5. PendingSmooth'
    BY <1>8 DEF TypeOK, PendingSmooth, Tick
  <2>6. RequestCovered'
    BY <1>8 DEF TypeOK, RequestCovered, Covers, Tick
  <2>7. RequestStored'
    BY <1>8 DEF TypeOK, RequestStored, Tick
  <2> QED
    BY <2>1, <2>2, <2>3, <2>4, <2>5, <2>6, <2>7
<1>9. CASE UNCHANGED vars
  <2>1. TypeOK'
    <3>1. now' \in Nat
      BY <1>9 DEF TypeOK, vars
    <3> QED
      BY <1>9, <3>1, Zenon DEF TypeOK, vars
  <2>2. AliveUntilKilled'
    BY <1>9 DEF TypeOK, AliveUntilKilled, vars
  <2>3. CacheOrWritten'
    BY <1>9 DEF TypeOK, CacheOrWritten, AliveUntilKilled, vars
  <2>4. HoldRecorded'
    BY <1>9 DEF TypeOK, HoldRecorded, vars
  <2>5. PendingSmooth'
    BY <1>9 DEF TypeOK, PendingSmooth, vars
  <2>6. RequestCovered'
    BY <1>9 DEF TypeOK, RequestCovered, Covers, vars
  <2>7. RequestStored'
    BY <1>9 DEF TypeOK, RequestStored, vars
  <2> QED
    BY <2>1, <2>2, <2>3, <2>4, <2>5, <2>6, <2>7
<1> QED
  BY <1>1, <1>2, <1>3, <1>4, <1>5, <1>6, <1>7, <1>8, <1>9 DEF Next

\* The inductive invariant holds throughout every behaviour of the service.
THEOREM SpecIInv == Spec => []IInv
  BY InitIInv, NextIInv, PTL DEF Spec

\* Type correctness: only rows of kSteps ever reach mCurrentHz and the panel.
THEOREM TypeCorrect == Spec => []TypeOK
<1>1. IInv => TypeOK
  BY DEF IInv
<1> QED
  BY <1>1, SpecIInv, PTL

\* Until the process is replaced, mCurrentHz is what the panel runs at, over
\* failed writes too, so the test that skips a write skips only useless ones.
THEOREM Coherence == Spec => []CacheCoherent
<1>1. IInv => CacheCoherent
  BY DEF IInv, CacheOrWritten, CacheCoherent
<1> QED
  BY <1>1, SpecIInv, PTL

\* A request whose writes did not fail is never served below its rate.
THEOREM FastEnough == Spec => []NeverTooSlow
<1>1. IInv => NeverTooSlow
  <2> SUFFICES ASSUME IInv, deaths = 0, lock = "free", asked # 0, ~failed,
                      NEW step \in Steps, step.sfm = panel
               PROVE  step.hz >= asked \/ step.hz = 120
    BY DEF NeverTooSlow
  <2>1. step = [hz |-> mCurrentHz, sfm |-> panel]
    BY SfmInjective DEF IInv, CacheOrWritten
  <2>2. mCurrentHz = best.hz
    BY DEF IInv, RequestStored
  <2> QED
    BY <2>1, <2>2 DEF IInv, RequestCovered, Covers
<1> QED
  BY <1>1, SpecIInv, PTL

\* While the hold of a boost lasts no step slows the panel down.
THEOREM HoldIsSmooth == Spec => SmoothDuringHold
<1> DEFINE NotSlowed ==
      \A fast, slow \in Steps :
         panel = fast.sfm /\ panel' = slow.sfm /\ slow.hz < fast.hz
             => now >= boosted + kBoostHold
<1>1. IInv /\ [Next]_vars => [NotSlowed]_vars
  <2> SUFFICES ASSUME IInv, Next, NEW fast \in Steps, NEW slow \in Steps,
                      panel = fast.sfm, panel' = slow.sfm, slow.hz < fast.hz
               PROVE  now >= boosted + kBoostHold
    OBVIOUS
  <2>1. panel' # panel
    <3>1. fast # slow
      BY StepTypes
    <3> QED
      BY <3>1, SfmInjective
  <2>2. WriteSfm /\ panel' = best.sfm
    BY <2>1 DEF Next, SetTargetHz, SetEnabled, WriteSfm, StoreCurrentHz,
                SetMode, Die, Start, Tick
  <2>3. slow = best
    BY <2>2, SfmInjective DEF IInv, TypeOK
  <2>4. fast.hz <= 120 /\ slow.hz \in Int /\ fast.hz \in Int
    BY StepRows
  <2>5. lock = "write"
    BY <2>2 DEF WriteSfm
  <2> QED
    BY <2>3, <2>4, <2>5 DEF IInv, PendingSmooth
<1> QED
  BY <1>1, SpecIInv, PTL DEF Spec, SmoothDuringHold
=============================================================================
