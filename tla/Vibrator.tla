------------------------------ MODULE Vibrator ------------------------------
(***************************************************************************)
(* The vibrator HAL (src/aidl/vibrator/Vibrator.cpp) in front of the       *)
(* vendor's looper, which plays patterns one after the other.  The service *)
(* has one binder thread, so a call is one step; every accepted call with  *)
(* a callback leaves a detached thread that sleeps and calls onComplete.   *)
(***************************************************************************)
EXTENDS Integers, Sequences, FiniteSets

CONSTANTS
    RAPID_PERFORM_WINDOW_MS,      \* in ticks of the clock
    RAPID_PERFORM_DRAIN_AFTER,
    Durations,                    \* what the vendor library returns
    MaxCalls,                     \* bound: on, perform and setAmplitude calls
    MaxNow                        \* bound: the clock, but for threads asleep

ASSUME VibratorAssumption ==
    /\ RAPID_PERFORM_WINDOW_MS \in Nat \ {0}
    /\ RAPID_PERFORM_DRAIN_AFTER \in Nat \ {0}
    /\ Durations \subseteq Nat
    /\ MaxCalls \in Nat
    /\ MaxNow \in Nat

VARIABLES
    sLastMode, sLastPerformMs, sRapidPerformCount,
    amplitude,      \* "initial" (0x7F), "app" (setAmplitude) or "full" (0xFF)
    looper,         \* patterns to play: the number of the call that posted each
    sleeping,       \* onComplete threads: [call, due]
    completed,      \* calls whose onComplete has run
    now,
    calls,          \* number of the last call
    accepted,       \* history: calls with a callback that returned ok
    burst           \* history: the performs since the last slow one, in order

statics == <<sLastMode, sLastPerformMs, sRapidPerformCount>>
callbacks == <<sleeping, completed, accepted>>
vars == <<statics, amplitude, looper, callbacks, now, calls, burst>>

-----------------------------------------------------------------------------
\* The constructor, when aac_vibra_init succeeds; the device has been up for
\* longer than the window.
Init ==
    /\ sLastMode = "NONE"
    /\ sLastPerformMs = 0
    /\ sRapidPerformCount = 0
    /\ amplitude = "initial"
    /\ looper = <<>>
    /\ sleeping = {}
    /\ completed = {}
    /\ now = RAPID_PERFORM_WINDOW_MS
    /\ calls = 0
    /\ accepted = {}
    /\ burst = <<>>

NextCall ==
    /\ calls < MaxCalls
    /\ calls' = calls + 1

\* The detached thread of an accepted call; the slip starts none.
CompleteNever(ms) == UNCHANGED sleeping
CompleteAfter(ms) == sleeping' = sleeping \cup {[call |-> calls', due |-> now + ms]}

\* The vendor library takes the pattern posted to the looper and says how long
\* it lasts.
Accepted(ms, callback) ==
    IF callback
    THEN /\ CompleteAfter(ms)
         /\ accepted' = accepted \cup {calls'}
    ELSE UNCHANGED <<sleeping, accepted>>

\* off: both ways of playing are stopped; onComplete threads sleep on.
Off ==
    /\ looper' = <<>>
    /\ UNCHANGED <<statics, amplitude, callbacks, now, calls, burst>>

\* on: a short pulse becomes a prebaked effect, and, when that fails, a pulse
\* like the longer ones; when that fails too, nothing has happened.
On(callback, ms) ==
    /\ NextCall
    /\ \/ /\ looper' = Append(looper, calls')
          /\ Accepted(ms, callback)
          /\ sLastMode' \in {"TIMEOUT", "PREBAKED"}
       \/ UNCHANGED <<looper, sleeping, accepted, sLastMode>>
    /\ UNCHANGED <<sLastPerformMs, sRapidPerformCount, amplitude, completed, now,
                   burst>>

\* The test of the window, and of the depth of the burst; the slips take the
\* first call of a burst for a rapid one, and let one more pass.
IsRapidOnce == now - sLastPerformMs <= RAPID_PERFORM_WINDOW_MS
IsRapid == now - sLastPerformMs < RAPID_PERFORM_WINDOW_MS
DrainsLate == sRapidPerformCount + 1 > RAPID_PERFORM_DRAIN_AFTER
Drains == sRapidPerformCount + 1 >= RAPID_PERFORM_DRAIN_AFTER

\* The count of a burst starts from 0; the slip is off by one.
RestartCountBelow == -1
RestartCount == 0

\* perform of a supported effect.
Perform(callback, ms) ==
    LET drained == IF IsRapid /\ Drains THEN <<>> ELSE looper
        slow == now >= sLastPerformMs + RAPID_PERFORM_WINDOW_MS
    IN  /\ NextCall
        /\ amplitude' = IF sLastMode = "STREAM" THEN "full" ELSE amplitude
        /\ sLastPerformMs' = now
        /\ sRapidPerformCount' = IF IsRapid THEN sRapidPerformCount + 1
                                             ELSE RestartCount
        /\ burst' = Append(IF slow THEN <<>> ELSE burst, calls')
        /\ \/ /\ looper' = Append(drained, calls')
              /\ Accepted(ms, callback)
              /\ sLastMode' = "PREBAKED"
           \/ /\ looper' = drained
              /\ UNCHANGED <<sleeping, accepted, sLastMode>>
        /\ UNCHANGED <<completed, now>>

SetAmplitude ==
    /\ NextCall
    /\ \/ amplitude' = "app" /\ sLastMode' = "STREAM"
       \/ UNCHANGED <<amplitude, sLastMode>>
    /\ UNCHANGED <<sLastPerformMs, sRapidPerformCount, looper, callbacks, now,
                   burst>>

\* A sleeping thread wakes up and calls onComplete.
OnComplete ==
    \E t \in sleeping :
        /\ now >= t.due
        /\ sleeping' = sleeping \ {t}
        /\ completed' = completed \cup {t.call}
        /\ UNCHANGED <<statics, amplitude, looper, accepted, now, calls, burst>>

\* The looper has played its oldest pattern.
Played ==
    /\ looper # <<>>
    /\ looper' = Tail(looper)
    /\ UNCHANGED <<statics, amplitude, callbacks, now, calls, burst>>

Tick ==
    /\ now < MaxNow \/ \E t \in sleeping : now < t.due
    /\ now' = now + 1
    /\ UNCHANGED <<statics, amplitude, looper, callbacks, calls, burst>>

Next ==
    \/ Off
    \/ \E callback \in BOOLEAN, ms \in Durations :
          On(callback, ms) \/ Perform(callback, ms)
    \/ SetAmplitude
    \/ OnComplete
    \/ Played
    \/ Tick

\* A detached thread is scheduled once its sleep is over, and time passes.
Fairness == WF_vars(OnComplete) /\ WF_vars(Tick)

Spec == Init /\ [][Next]_vars

FairSpec == Spec /\ Fairness

-----------------------------------------------------------------------------
\* Every variable keeps its type.
TypeOK ==
    /\ sLastMode \in {"NONE", "TIMEOUT", "PREBAKED", "STREAM"}
    /\ sLastPerformMs \in Nat
    /\ sRapidPerformCount \in Nat
    /\ amplitude \in {"initial", "app", "full"}
    /\ looper \in Seq(Nat)
    /\ sleeping \subseteq [call : Nat, due : Nat]
    /\ completed \subseteq Nat
    /\ now \in Nat
    /\ calls \in 0 .. MaxCalls
    /\ accepted \subseteq Nat
    /\ burst \in Seq(Nat)

Queued(posted) == {i \in 1 .. Len(looper) : \E j \in 1 .. Len(posted) :
                                                posted[j] = looper[i]}

\* "later ones drain so a Niagara-style A-Z swipe doesn't pile up patterns": of
\* one burst, however long, fast or interrupted by failing effects, the looper
\* never holds more than RAPID_PERFORM_DRAIN_AFTER patterns.
BurstNeverPilesUp == Cardinality(Queued(burst)) <= RAPID_PERFORM_DRAIN_AFTER

\* "The first couple of rapid taps run with a clean queue (preserves haptic
\* feedback for fast two-finger typing)": what the first calls of a burst have
\* posted is not drained by the next of them, whatever bursts came before.
FirstTapsPlay ==
    [][Len(burst') <= RAPID_PERFORM_DRAIN_AFTER /\ burst' # burst
         => \A i \in 1 .. Len(looper) : \E j \in 1 .. Len(looper') :
                looper'[j] = looper[i]]_vars

\* A caller that was told its vibration was accepted eventually gets its
\* onComplete, over off, drained bursts and failing calls.
AcceptedCompletes ==
    \A c \in 1 .. MaxCalls : c \in accepted ~> c \in completed
=============================================================================
