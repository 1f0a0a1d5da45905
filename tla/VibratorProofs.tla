--------------------------- MODULE VibratorProofs ---------------------------
(* Theorems about Vibrator, for any window, depth of a burst and durations.  *)
EXTENDS Vibrator, FiniteSetTheorems, SequenceTheorems, TLAPS

\* The counter that decides about draining is one behind the calls of the burst,
\* and before the first call of all there is none: that one is never rapid.
CountIsBurst ==
    IF burst = <<>>
    THEN now >= sLastPerformMs + RAPID_PERFORM_WINDOW_MS
    ELSE Len(burst) = sRapidPerformCount + 1

\* Burst and queue consist of earlier calls.
Past(q, m) == \A i \in 1 .. Len(q) : q[i] <= m
PastCalls == Past(burst, calls) /\ Past(looper, calls)

\* Each call of a burst has posted at most one pattern.
OnePatternEach == Cardinality(Queued(burst)) <= Len(burst)

IInv == /\ TypeOK
        /\ CountIsBurst
        /\ PastCalls
        /\ OnePatternEach
        /\ BurstNeverPilesUp

\* What Append does to a sequence of calls.
LEMMA AppendCall ==
  ASSUME NEW q \in Seq(Nat), NEW c \in Nat
  PROVE  /\ Append(q, c) \in Seq(Nat)
         /\ Append(q, c) # <<>>
         /\ Len(Append(q, c)) = Len(q) + 1
         /\ \A i \in 1 .. Len(q) + 1 :
                Append(q, c)[i] = IF i = Len(q) + 1 THEN c ELSE q[i]
<1>1. Len(q) \in Nat
  OBVIOUS
<1>2. \A i \in 1 .. Len(q) : Append(q, c)[i] = q[i]
  BY AppendProperties
<1>3. Append(q, c)[Len(q) + 1] = c
  BY AppendProperties
<1> QED
  BY <1>1, <1>2, <1>3, AppendProperties

\* A past call is not the next one.
LEMMA PastElement ==
  ASSUME NEW q \in Seq(Nat), NEW m \in Nat, Past(q, m), NEW i \in 1 .. Len(q)
  PROVE  q[i] # m + 1
BY DEF Past

\* Sequence r is the past calls q, and perhaps the new call m + 1.
Follows(r, q, m) ==
    /\ Past(r, m + 1)
    /\ \A i \in 1 .. Len(r) : r[i] = m + 1 <=> i = Len(q) + 1
    /\ \A i \in 1 .. Len(r) : i # Len(q) + 1 => i \in 1 .. Len(q) /\ r[i] = q[i]
    /\ \A i \in 1 .. Len(q) : i \in 1 .. Len(r) /\ r[i] = q[i]

\* What a call that may post does to queue and burst.
LEMMA PastAppend ==
  ASSUME NEW q \in Seq(Nat), NEW m \in Nat, Past(q, m),
         NEW r, r = q \/ r = Append(q, m + 1)
  PROVE  Follows(r, q, m)
<1> USE DEF Past, Follows
<1>1. m + 1 \in Nat /\ Len(q) \in Nat /\ \A i \in 1 .. Len(q) : q[i] \in Nat
  OBVIOUS
<1>2. CASE r = q
  BY <1>1, <1>2
<1>3. CASE r = Append(q, m + 1)
  <2>1. Len(r) = Len(q) + 1
    BY <1>1, <1>3, AppendCall
  <2>2. r[Len(q) + 1] = m + 1
    BY <1>1, <1>3, AppendCall
  <2>3. \A i \in 1 .. Len(q) : r[i] = q[i]
    BY <1>1, <1>3, AppendProperties
  <2>4. \A i \in 1 .. Len(r) : i = Len(q) + 1 \/ i \in 1 .. Len(q)
    BY <1>1, <2>1
  <2>5. \A i \in 1 .. Len(q) : r[i] <= m /\ r[i] # m + 1
    BY <1>1, <2>3
  <2>6. \A i \in 1 .. Len(q) : i \in 1 .. Len(r)
    BY <1>1, <2>1
  <2>7. m + 1 <= m + 1 /\ m <= m + 1
    OBVIOUS
  <2>8. \A i \in 1 .. Len(r) : r[i] <= m + 1
    BY <1>1, <2>2, <2>3, <2>4, <2>5
  <2> QED
    BY <2>2, <2>3, <2>4, <2>5, <2>6, <2>8
<1> QED
  BY <1>2, <1>3

-----------------------------------------------------------------------------
(* How many patterns of a burst a queue holds.                               *)

\* The positions in queue q of the calls of burst b.
Positions(q, b) == {i \in 1 .. Len(q) : \E j \in 1 .. Len(b) : b[j] = q[i]}

\* The positions are a finite set.
LEMMA PositionsFinite ==
  ASSUME NEW q \in Seq(Nat), NEW b \in Seq(Nat)
  PROVE  /\ IsFiniteSet(Positions(q, b))
         /\ Cardinality(Positions(q, b)) \in Nat
<1>1. IsFiniteSet(1 .. Len(q))
  BY FS_Interval
<1>2. IsFiniteSet(Positions(q, b))
  BY <1>1, FS_Subset DEF Positions
<1> QED
  BY <1>2, FS_CardinalityType

\* Without a new position there are no more, and one more adds one.
LEMMA PositionsGrow ==
  ASSUME NEW q \in Seq(Nat), NEW b \in Seq(Nat),
         NEW r \in Seq(Nat), NEW d \in Seq(Nat), NEW k
  PROVE  /\ Positions(r, d) \subseteq Positions(q, b)
               => Cardinality(Positions(r, d)) <= Cardinality(Positions(q, b))
         /\ Positions(r, d) \subseteq Positions(q, b) \cup {k}
               => Cardinality(Positions(r, d)) <= Cardinality(Positions(q, b)) + 1
         /\ Positions(r, d) \subseteq {k} => Cardinality(Positions(r, d)) <= 1
         /\ Positions(r, d) = {} => Cardinality(Positions(r, d)) = 0
<1> DEFINE P == Positions(q, b)
           R == Positions(r, d)
<1>1. IsFiniteSet(P) /\ IsFiniteSet(R) /\ Cardinality(P) \in Nat /\ Cardinality(R) \in Nat
  BY PositionsFinite
<1> HIDE DEF P, R
<1>2. R \subseteq P => Cardinality(R) <= Cardinality(P)
  BY <1>1, FS_Subset
<1>3. /\ IsFiniteSet(P \cup {k})
      /\ Cardinality(P \cup {k}) =
            IF k \in P THEN Cardinality(P) ELSE Cardinality(P) + 1
  BY <1>1, FS_AddElement, Zenon
<1>4. R \subseteq P \cup {k} => Cardinality(R) <= Cardinality(P) + 1
  <2>1. R \in SUBSET (P \cup {k}) => Cardinality(R) <= Cardinality(P \cup {k})
    BY <1>3, FS_Subset, Zenon
  <2> QED
    BY <1>1, <1>3, <2>1
<1>5. R \subseteq {k} => Cardinality(R) <= 1
  <2>1. IsFiniteSet({k}) /\ Cardinality({k}) = 1
    BY FS_Singleton, Zenon
  <2>2. R \in SUBSET {k} => Cardinality(R) <= Cardinality({k})
    BY <2>1, FS_Subset, Zenon
  <2> QED
    BY <2>1, <2>2
<1>6. R = {} => Cardinality(R) = 0
  BY FS_EmptySet
<1> QED
  BY <1>2, <1>4, <1>5, <1>6 DEF P, R

\* The oldest pattern leaves the queue, and the others move up.
LEMMA PositionsTail ==
  ASSUME NEW q \in Seq(Nat), NEW b \in Seq(Nat), q # <<>>
  PROVE  Cardinality(Positions(Tail(q), b)) <= Cardinality(Positions(q, b))
<1> DEFINE P == Positions(q, b)
           R == Positions(Tail(q), b)
           f == [i \in R |-> i + 1]
<1>1. IsFiniteSet(P)
  BY PositionsFinite
<1>2. \A i \in R : i \in Int /\ i + 1 \in P
  BY DEF Positions
<1>3. f \in Injection(R, P)
  <2> HIDE DEF P, R
  <2> QED
    BY <1>2 DEF Injection, IsInjective
<1> HIDE DEF P, R, f
<1>4. Cardinality(R) <= Cardinality(P)
  BY <1>1, <1>3, FS_Injection
<1> QED
  BY <1>4 DEF P, R

-----------------------------------------------------------------------------
\* The initial state satisfies the inductive invariant.
LEMMA InitIInv == Init => IInv
<1> SUFFICES ASSUME Init PROVE IInv
  OBVIOUS
<1> USE VibratorAssumption DEF Init
<1>1. TypeOK /\ CountIsBurst /\ PastCalls
  BY DEF TypeOK, CountIsBurst, PastCalls, Past
<1>2. Cardinality(Queued(burst)) = 0
  BY FS_EmptySet DEF Queued
<1> QED
  BY <1>1, <1>2 DEF IInv, OnePatternEach, BurstNeverPilesUp

\* Every call, completion and pattern played preserves the type invariant.
LEMMA NextTypeOK == TypeOK /\ [Next]_vars => TypeOK'
<1> SUFFICES ASSUME TypeOK, [Next]_vars PROVE TypeOK'
  OBVIOUS
<1> USE VibratorAssumption DEF TypeOK
<1>1. CASE Off
  BY <1>1 DEF Off, statics, callbacks
<1>2. ASSUME NEW callback \in BOOLEAN, NEW ms \in Durations, On(callback, ms)
      PROVE  TypeOK'
  <2>1. calls' \in 0 .. MaxCalls /\ calls' \in Nat
    BY <1>2 DEF On, NextCall
  <2>2. looper' \in Seq(Nat)
    BY <1>2, <2>1, AppendCall DEF On
  <2>3. sleeping' \subseteq [call : Nat, due : Nat] /\ accepted' \subseteq Nat
    <3>1. now + ms \in Nat
      OBVIOUS
    <3>2. [call |-> calls', due |-> now + ms] \in [call : Nat, due : Nat]
      BY <2>1, <3>1
    <3>3. \/ UNCHANGED <<sleeping, accepted>>
          \/ /\ sleeping' = sleeping \cup {[call |-> calls', due |-> now + ms]}
             /\ accepted' = accepted \cup {calls'}
      BY <1>2 DEF On, Accepted, CompleteAfter
    <3> QED
      BY <2>1, <3>2, <3>3
  <2>4. /\ sLastMode' \in {"NONE", "TIMEOUT", "PREBAKED", "STREAM"}
        /\ sLastPerformMs' \in Nat
        /\ sRapidPerformCount' \in Nat
        /\ amplitude' \in {"initial", "app", "full"}
        /\ completed' \subseteq Nat
        /\ now' \in Nat
        /\ burst' \in Seq(Nat)
    BY <1>2 DEF On
  <2> QED
    BY <2>1, <2>2, <2>3, <2>4
<1>3. ASSUME NEW callback \in BOOLEAN, NEW ms \in Durations, Perform(callback, ms)
      PROVE  TypeOK'
  <2>1. calls' \in 0 .. MaxCalls /\ calls' \in Nat
    BY <1>3 DEF Perform, NextCall
  <2>2. <<>> \in Seq(Nat)
    OBVIOUS
  <2>3. looper' \in Seq(Nat) /\ burst' \in Seq(Nat)
    BY <1>3, <2>1, <2>2, AppendCall DEF Perform
  <2>4. sleeping' \subseteq [call : Nat, due : Nat] /\ accepted' \subseteq Nat
    <3>1. now + ms \in Nat
      OBVIOUS
    <3>2. [call |-> calls', due |-> now + ms] \in [call : Nat, due : Nat]
      BY <2>1, <3>1
    <3>3. \/ UNCHANGED <<sleeping, accepted>>
          \/ /\ sleeping' = sleeping \cup {[call |-> calls', due |-> now + ms]}
             /\ accepted' = accepted \cup {calls'}
      BY <1>3 DEF Perform, Accepted, CompleteAfter
    <3> QED
      BY <2>1, <3>2, <3>3
  <2>5. /\ sLastMode' \in {"NONE", "TIMEOUT", "PREBAKED", "STREAM"}
        /\ sLastPerformMs' \in Nat
        /\ sRapidPerformCount' \in Nat
        /\ amplitude' \in {"initial", "app", "full"}
        /\ completed' \subseteq Nat
        /\ now' \in Nat
    BY <1>3 DEF Perform, RestartCount
  <2> QED
    BY <2>1, <2>3, <2>4, <2>5
<1>4. CASE SetAmplitude
  BY <1>4 DEF SetAmplitude, NextCall, callbacks
<1>5. CASE OnComplete
  BY <1>5 DEF OnComplete, statics
<1>6. CASE Played
  BY <1>6 DEF Played, statics, callbacks
<1>7. CASE Tick
  BY <1>7 DEF Tick, statics, callbacks
<1>8. CASE UNCHANGED vars
  BY <1>8 DEF vars, statics, callbacks
<1> QED
  BY <1>1, <1>2, <1>3, <1>4, <1>5, <1>6, <1>7, <1>8 DEF Next

\* A perform leaves the burst's patterns within the calls of the burst and
\* within the depth: a rapid one either empties the queue first or is early
\* enough in the burst.
LEMMA PerformBounded ==
  ASSUME IInv, TypeOK', NEW callback \in BOOLEAN, NEW ms \in Durations,
         Perform(callback, ms)
  PROVE  /\ CountIsBurst' /\ PastCalls'
         /\ Cardinality(Positions(looper', burst')) <= Len(burst')
         /\ Cardinality(Positions(looper', burst')) <= RAPID_PERFORM_DRAIN_AFTER
<1> USE VibratorAssumption DEF IInv, TypeOK
<1> DEFINE c == calls + 1
<1>1. c \in Nat /\ calls' = c /\ sLastPerformMs' = now /\ now' = now
  BY DEF Perform, NextCall
<1>p. /\ calls \in Nat /\ looper \in Seq(Nat) /\ burst \in Seq(Nat)
      /\ Past(looper, calls) /\ Past(burst, calls)
  BY DEF PastCalls
<1>q. looper' = looper \/ looper' = Append(looper, c) => Follows(looper', looper, calls)
  BY <1>p, PastAppend, Zenon
<1>r. burst' = Append(burst, c) => Follows(burst', burst, calls)
  BY <1>p, PastAppend, Zenon
<1>2. CASE ~IsRapid
  <2>1. now >= sLastPerformMs + RAPID_PERFORM_WINDOW_MS
    BY <1>2 DEF IsRapid
  <2>2. burst' = Append(<<>>, c) /\ sRapidPerformCount' = 0
    BY <1>1, <1>2, <2>1 DEF Perform, RestartCount
  <2>3. looper' = looper \/ looper' = Append(looper, c)
    BY <1>1, <1>2 DEF Perform
  <2>4. burst' = <<c>> /\ Len(burst') = 1 /\ burst'[1] = c /\ burst' # <<>>
    BY <1>1, <2>2
  <2>p. Past(looper', c) /\ Past(burst', c)
    <3>1. Past(burst', c)
      BY <1>1, <2>4 DEF Past
    <3> QED
      BY <1>q, <2>3, <3>1 DEF Follows
  <2>5. PastCalls' /\ CountIsBurst'
    BY <1>1, <2>2, <2>4, <2>p DEF PastCalls, CountIsBurst
  <2>6. \A i \in 1 .. Len(looper') : looper'[i] = c => i = Len(looper) + 1
    BY <1>q, <2>3 DEF Follows
  <2>7. Positions(looper', burst') \subseteq {Len(looper) + 1}
    BY <2>4, <2>6 DEF Positions
  <2>8. Cardinality(Positions(looper', burst')) <= 1
    BY <2>7, PositionsGrow
  <2>9. Cardinality(Positions(looper', burst')) \in Nat
    BY PositionsFinite
  <2> QED
    BY <2>4, <2>5, <2>8, <2>9
<1>3. CASE IsRapid
  <2>1. burst # <<>> /\ Len(burst) = sRapidPerformCount + 1
    BY <1>3 DEF IsRapid, CountIsBurst
  <2>2. burst' = Append(burst, c) /\ sRapidPerformCount' = sRapidPerformCount + 1
    BY <1>1, <1>3 DEF Perform, IsRapid
  <2>3. CountIsBurst'
    BY <1>1, <2>1, <2>2, AppendCall DEF CountIsBurst
  <2>4. CASE Drains
    <3>1. looper' \in {<<>>, <<c>>}
      BY <1>1, <1>3, <2>4 DEF Perform
    <3>2. PastCalls'
      <4>1. Past(looper', c)
        BY <1>1, <3>1 DEF Past
      <4>2. Past(burst', c)
        BY <1>r, <2>2 DEF Follows
      <4> QED
        BY <1>1, <4>1, <4>2 DEF PastCalls
    <3>3. Positions(looper', burst') \subseteq {1}
      BY <3>1 DEF Positions
    <3>4. Cardinality(Positions(looper', burst')) <= 1
      BY <3>3, PositionsGrow
    <3>5. Cardinality(Positions(looper', burst')) \in Nat
      BY PositionsFinite
    <3> QED
      BY <2>2, <2>3, <3>2, <3>4, <3>5
  <2>5. CASE ~Drains
    <3>1. looper' = looper \/ looper' = Append(looper, c)
      BY <1>1, <2>5 DEF Perform
    <3>2. PastCalls'
      <4>1. Past(looper', c)
        BY <1>q, <3>1 DEF Follows
      <4>2. Past(burst', c)
        BY <1>r, <2>2 DEF Follows
      <4> QED
        BY <1>1, <4>1, <4>2 DEF PastCalls
    <3>3. Positions(looper', burst') \subseteq Positions(looper, burst) \cup {Len(looper) + 1}
      <4> SUFFICES ASSUME NEW i \in 1 .. Len(looper'), i # Len(looper) + 1,
                          NEW j \in 1 .. Len(burst'), burst'[j] = looper'[i]
                   PROVE  i \in Positions(looper, burst)
        BY DEF Positions
      <4>1. i \in 1 .. Len(looper) /\ looper'[i] = looper[i]
        BY <1>q, <3>1 DEF Follows
      <4>2. j \in 1 .. Len(burst) /\ burst'[j] = burst[j]
        <5>1. looper[i] # calls + 1
          BY <1>p, <4>1, PastElement, Zenon
        <5>2. burst'[j] # calls + 1
          BY <4>1, <5>1, Zenon
        <5> QED
          BY <1>r, <2>2, <5>2 DEF Follows
      <4> QED
        BY <4>1, <4>2 DEF Positions
    <3>4. Cardinality(Positions(looper', burst')) <= Cardinality(Positions(looper, burst)) + 1
      BY <3>3, PositionsGrow
    <3>5. /\ Cardinality(Positions(looper', burst')) \in Nat
          /\ Cardinality(Positions(looper, burst)) \in Nat
      BY PositionsFinite
    <3>6. Cardinality(Positions(looper, burst)) <= Len(burst)
      BY DEF OnePatternEach, Queued, Positions
    <3>7. Len(burst') = Len(burst) + 1 /\ Len(burst') <= RAPID_PERFORM_DRAIN_AFTER
      BY <1>1, <2>1, <2>2, <2>5, AppendCall DEF Drains
    <3> QED
      BY <2>3, <3>2, <3>4, <3>5, <3>6, <3>7
  <2> QED
    BY <2>4, <2>5
<1> QED
  BY <1>2, <1>3

\* Every step preserves the inductive invariant.
LEMMA NextIInv == IInv /\ [Next]_vars => IInv'
<1> SUFFICES ASSUME IInv, [Next]_vars PROVE IInv'
  OBVIOUS
<1>0. TypeOK'
  BY NextTypeOK DEF IInv
<1> DEFINE Bounded == /\ Cardinality(Positions(looper', burst')) <= Len(burst')
                      /\ Cardinality(Positions(looper', burst'))
                           <= RAPID_PERFORM_DRAIN_AFTER
<1>s. SUFFICES CountIsBurst' /\ PastCalls' /\ Bounded
  BY <1>0 DEF IInv, OnePatternEach, BurstNeverPilesUp, Queued, Positions
<1>i. /\ Cardinality(Positions(looper, burst)) \in Nat
      /\ Cardinality(Positions(looper', burst')) \in Nat
      /\ Cardinality(Positions(looper, burst)) <= Len(burst)
      /\ Cardinality(Positions(looper, burst)) <= RAPID_PERFORM_DRAIN_AFTER
  BY <1>0, PositionsFinite
     DEF IInv, TypeOK, OnePatternEach, BurstNeverPilesUp, Queued, Positions
<1> USE VibratorAssumption DEF IInv, TypeOK
<1>1. CASE Off
  <2>1. burst' = burst /\ Positions(looper', burst') = {}
    BY <1>1 DEF Off, Positions
  <2>2. Cardinality(Positions(looper', burst')) = 0
    BY <2>1, <1>0, PositionsGrow
  <2>3. CountIsBurst' /\ PastCalls'
    BY <1>1 DEF Off, CountIsBurst, PastCalls, Past, statics
  <2> QED
    BY <2>1, <2>2, <2>3
<1>2. ASSUME NEW callback \in BOOLEAN, NEW ms \in Durations, On(callback, ms)
      PROVE  CountIsBurst' /\ PastCalls' /\ Bounded
  <2>1. /\ burst' = burst
        /\ calls' = calls + 1
        /\ looper' = looper \/ looper' = Append(looper, calls')
    BY <1>2 DEF On, NextCall
  <2>2. CountIsBurst'
    BY <1>2 DEF On, CountIsBurst
  <2>p. Follows(looper', looper, calls)
    <3>1. calls \in Nat /\ looper \in Seq(Nat) /\ Past(looper, calls)
      BY DEF PastCalls
    <3> QED
      BY <2>1, <3>1, PastAppend, Zenon
  <2>3. PastCalls'
    <3>1. Past(burst, calls + 1)
      BY DEF PastCalls, Past
    <3> QED
      BY <2>1, <2>p, <3>1 DEF PastCalls, Follows
  <2>4. Positions(looper', burst') \subseteq Positions(looper, burst)
    <3> SUFFICES ASSUME NEW i \in 1 .. Len(looper'),
                        NEW j \in 1 .. Len(burst), burst[j] = looper'[i]
                 PROVE  i \in Positions(looper, burst)
      BY <2>1 DEF Positions
    <3>0. burst[j] # calls + 1
      BY DEF PastCalls, Past
    <3>1. i \in 1 .. Len(looper) /\ looper'[i] = looper[i]
      BY <2>p, <3>0 DEF Follows
    <3> QED
      BY <3>1 DEF Positions
  <2>5. Cardinality(Positions(looper', burst')) <= Cardinality(Positions(looper, burst))
    BY <1>0, <2>4, PositionsGrow
  <2> QED
    BY <1>i, <2>1, <2>2, <2>3, <2>5
<1>3. ASSUME NEW callback \in BOOLEAN, NEW ms \in Durations, Perform(callback, ms)
      PROVE  CountIsBurst' /\ PastCalls' /\ Bounded
  BY <1>0, <1>3, PerformBounded
<1>4. CASE SetAmplitude
  <2>1. CountIsBurst' /\ PastCalls'
    BY <1>4 DEF SetAmplitude, NextCall, CountIsBurst, PastCalls, Past
  <2>2. looper' = looper /\ burst' = burst
    BY <1>4 DEF SetAmplitude
  <2> QED
    BY <1>i, <2>1, <2>2
<1>5. CASE OnComplete
  BY <1>5, <1>i DEF OnComplete, CountIsBurst, PastCalls, Past, statics
<1>6. CASE Played
  <2>1. burst' = burst /\ looper # <<>> /\ looper' = Tail(looper)
    BY <1>6 DEF Played
  <2>2. CountIsBurst' /\ PastCalls'
    BY <1>6 DEF Played, CountIsBurst, PastCalls, Past, statics
  <2>3. Cardinality(Positions(looper', burst')) <= Cardinality(Positions(looper, burst))
    BY <2>1, PositionsTail
  <2> QED
    BY <1>i, <2>1, <2>2, <2>3
<1>7. CASE Tick
  BY <1>7, <1>i DEF Tick, CountIsBurst, PastCalls, Past, statics
<1>8. CASE UNCHANGED vars
  BY <1>8, <1>i DEF vars, statics, CountIsBurst, PastCalls
<1> QED
  BY <1>1, <1>2, <1>3, <1>4, <1>5, <1>6, <1>7, <1>8 DEF Next

\* The first calls of a burst leave the queue as it is, but for what they post.
LEMMA FirstTaps ==
  ASSUME IInv, [Next]_vars,
         Len(burst') <= RAPID_PERFORM_DRAIN_AFTER, burst' # burst
  PROVE  \A i \in 1 .. Len(looper) : \E j \in 1 .. Len(looper') :
             looper'[j] = looper[i]
<1> USE VibratorAssumption DEF IInv, TypeOK
<1>1. PICK callback \in BOOLEAN, ms \in Durations : Perform(callback, ms)
  BY DEF Next, vars, Off, On, SetAmplitude, OnComplete, Played, Tick
<1>2. looper' = looper \/ looper' = Append(looper, calls')
  <2>1. CASE IsRapid
    <3>1. Len(burst) = sRapidPerformCount + 1 /\ burst' = Append(burst, calls')
      BY <1>1, <2>1 DEF Perform, IsRapid, CountIsBurst
    <3>2. calls' \in Nat
      BY <1>1 DEF Perform, NextCall
    <3>3. ~Drains
      BY <3>1, <3>2, AppendCall DEF Drains
    <3> QED
      BY <1>1, <3>3 DEF Perform
  <2>2. CASE ~IsRapid
    BY <1>1, <2>2 DEF Perform
  <2> QED
    BY <2>1, <2>2
<1>3. calls' = calls + 1 /\ calls \in Nat
  BY <1>1 DEF Perform, NextCall
<1> SUFFICES ASSUME NEW i \in 1 .. Len(looper)
             PROVE  i \in 1 .. Len(looper') /\ looper'[i] = looper[i]
  OBVIOUS
<1> QED
  <2>1. Past(looper, calls) /\ looper \in Seq(Nat)
    BY DEF PastCalls
  <2>2. looper' = looper \/ looper' = Append(looper, calls + 1)
    BY <1>2, <1>3
  <2>3. Follows(looper', looper, calls)
    BY <1>3, <2>1, <2>2, PastAppend, Zenon
  <2> QED
    BY <2>3 DEF Follows

-----------------------------------------------------------------------------
\* The inductive invariant holds in every execution.
THEOREM SpecIInv == Spec => []IInv
<1>1. Init => IInv
  BY InitIInv
<1>2. IInv /\ [Next]_vars => IInv'
  BY NextIInv
<1> QED
  BY <1>1, <1>2, PTL DEF Spec

\* Every variable of the vibrator service keeps its type.
THEOREM TypeCorrect == Spec => []TypeOK
<1>1. IInv => TypeOK
  BY DEF IInv
<1> QED
  BY <1>1, SpecIInv, PTL

\* perform never lets the patterns of one burst pile up in the looper.
THEOREM BurstBounded == Spec => []BurstNeverPilesUp
<1>1. IInv => BurstNeverPilesUp
  BY DEF IInv
<1> QED
  BY <1>1, SpecIInv, PTL

\* perform drains nothing before RAPID_PERFORM_DRAIN_AFTER calls of a burst.
THEOREM FirstTapsSafe == Spec => FirstTapsPlay
<1>1. IInv /\ [Next]_vars
        => [Len(burst') <= RAPID_PERFORM_DRAIN_AFTER /\ burst' # burst
              => \A i \in 1 .. Len(looper) : \E j \in 1 .. Len(looper') :
                     looper'[j] = looper[i]]_vars
  BY FirstTaps
<1> QED
  BY <1>1, SpecIInv, PTL DEF Spec, FirstTapsPlay
=============================================================================
