------------------------ MODULE EventSequencesProofs ------------------------
(***************************************************************************)
(* Lemmas about EventSequences, for sequences of any length: what each of   *)
(* its operators returns for an empty sequence, for one that grows at the   *)
(* end and for one that loses its head.  They are by induction, which is    *)
(* stated with a set of numbers: the order of the finite sets by inclusion  *)
(* is well-founded, so every set of numbers has a least element.            *)
(***************************************************************************)
EXTENDS EventSequences, FiniteSetTheorems, SequenceTheorems, TLAPS

-----------------------------------------------------------------------------
(* Induction and recursion.                                                *)

\* A set of numbers has a least element: 0 .. n for the n in it are finite sets.
LEMMA Least ==
  ASSUME NEW T, T \subseteq Nat, T # {}
  PROVE  \E n \in T : \A m \in T : n <= m
<1> DEFINE R == StrictSubsetOrdering(Nat)
           U == {0 .. t : t \in T}
<1>1. IsWellFoundedOn(R, FiniteSubsetsOf(Nat))
  BY FS_StrictSubsetOrderingWellFounded
<1>2. U \subseteq FiniteSubsetsOf(Nat) /\ U # {}
  <2>1. \A t \in T : IsFiniteSet(0 .. t) /\ 0 .. t \in SUBSET Nat
    BY FS_Interval
  <2> QED BY <2>1 DEF FiniteSubsetsOf
<1>3. \E x \in U : \A y \in U : ~ (<<y, x>> \in R)
  <2> HIDE DEF R, U
  <2> QED
    BY <1>1, <1>2, WFMin
<1>4. PICK n \in T : \A y \in U : ~ (<<y, 0 .. n>> \in R)
  BY <1>3
<1>5. ASSUME NEW m \in T, ~ (n <= m) PROVE FALSE
  <2>1. 0 .. m \in U /\ 0 .. m \subseteq 0 .. n /\ n \in 0 .. n /\ n \notin 0 .. m
    BY <1>5
  <2>2. 0 .. m \in SUBSET Nat /\ 0 .. n \in SUBSET Nat /\ 0 .. m # 0 .. n
    BY <2>1
  <2>3. <<0 .. m, 0 .. n>> \in R
    BY <2>1, <2>2, Zenon DEF StrictSubsetOrdering
  <2> QED
    BY <1>4, <2>1, <2>3
<1> QED
  BY <1>5

\* Induction: a set that holds 0, and with every number the next, holds all.
LEMMA SetInduction ==
  ASSUME NEW T, 0 \in T, \A n \in Nat : n \in T => n + 1 \in T
  PROVE  Nat \subseteq T
<1> SUFFICES ASSUME ~(Nat \subseteq T) PROVE FALSE
  OBVIOUS
<1> DEFINE U == {n \in Nat : n \notin T}
<1>1. U \subseteq Nat /\ U # {}
  OBVIOUS
<1>2. PICK n \in U : \A m \in U : n <= m
  BY <1>1, Least
<1>3. n # 0 /\ n - 1 \in Nat /\ n - 1 \notin U
  BY <1>2
<1> QED
  BY <1>2, <1>3
\* The function f on 0 .. n that starts with a and goes on by G.
RecursiveBy(f, n, V, a, G) ==
    /\ f \in [0 .. n -> V]
    /\ f[0] = a
    /\ \A i \in 1 .. n : f[i] = G[<<i, f[i-1]>>]

\* A value c that goes on like that as long as it stays in V.
GoesOnBy(c, n, V, a, G) ==
    /\ c[0] = a
    /\ \A i \in 1 .. n : c[i-1] \in V => c[i] = G[<<i, c[i-1]>>]

\* A function that is defined by recursion on 0 .. n exists.
LEMMA RecursionExists ==
  ASSUME NEW V, NEW a \in V, NEW G \in [Nat \X V -> V], NEW n \in Nat
  PROVE  \E f : RecursiveBy(f, n, V, a, G)
<1> DEFINE Is(f, m) == \A i \in 0 .. m : f[i] = IF i = 0 THEN a ELSE G[<<i, f[i-1]>>]
           T == {m \in Nat : \E f \in [0 .. m -> V] : Is(f, m)}
<1>1. 0 \in T
  <2> DEFINE f == [i \in 0 .. 0 |-> a]
  <2>1. f \in [0 .. 0 -> V] /\ Is(f, 0)
    OBVIOUS
  <2> QED
    BY <2>1
<1>2. ASSUME NEW m \in Nat, m \in T
      PROVE  m + 1 \in T
  <2>1. PICK f \in [0 .. m -> V] : Is(f, m)
    BY <1>2
  <2> DEFINE g == [i \in 0 .. m + 1 |-> IF i = m + 1 THEN G[<<m + 1, f[m]>>] ELSE f[i]]
  <2>2. G[<<m + 1, f[m]>>] \in V
    OBVIOUS
  <2>3. g \in [0 .. m + 1 -> V]
    BY <2>2
  <2>4. Is(g, m + 1)
    <3> SUFFICES ASSUME NEW i \in 0 .. m + 1
                 PROVE  g[i] = IF i = 0 THEN a ELSE G[<<i, g[i-1]>>]
      OBVIOUS
    <3>1. CASE i = m + 1
      <4>1. i # 0 /\ i - 1 = m /\ m \in 0 .. m + 1 /\ m # m + 1 /\ i \in 0 .. m + 1
        BY <3>1
      <4>2. g[i] = G[<<m + 1, f[m]>>] /\ g[m] = f[m]
        BY <3>1, <4>1
      <4> QED
        BY <3>1, <4>1, <4>2
    <3>2. CASE i \in 0 .. m
      <4>1. g[i] = f[i] /\ (i # 0 => g[i-1] = f[i-1])
        BY <3>2
      <4>2. f[i] = IF i = 0 THEN a ELSE G[<<i, f[i-1]>>]
        BY <2>1, <3>2
      <4> QED
        BY <4>1, <4>2
    <3> QED
      BY <3>1, <3>2
  <2> HIDE DEF g, Is
  <2> QED
    BY <2>3, <2>4
<1> HIDE DEF T
<1>3. Nat \subseteq T
  BY <1>1, <1>2, SetInduction
<1> QED
  <2>1. PICK f \in [0 .. n -> V] : Is(f, n)
    <3> HIDE DEF Is
    <3>1. n \in T
      BY <1>3
    <3> QED
      BY <3>1 DEF T
  <2>2. f[0] = a
    <3>1. 0 \in 0 .. n
      OBVIOUS
    <3> QED
      BY <2>1, <3>1
  <2>3. \A i \in 1 .. n : f[i] = G[<<i, f[i-1]>>]
    <3> SUFFICES ASSUME NEW i \in 1 .. n
                 PROVE  f[i] = G[<<i, f[i-1]>>]
      OBVIOUS
    <3>1. i \in 0 .. n /\ i # 0
      OBVIOUS
    <3> QED
      BY <2>1, <3>1
  <2> QED
    BY <2>2, <2>3 DEF RecursiveBy

\* ... and there is no other.
LEMMA RecursionUnique ==
  ASSUME NEW V, NEW a, NEW G, NEW n \in Nat, NEW f, NEW c,
         RecursiveBy(f, n, V, a, G), GoesOnBy(c, n, V, a, G)
  PROVE  c[n] = f[n]
<1> DEFINE T == {i \in Nat : i <= n => c[i] = f[i]}
<1>1. 0 \in T
  BY DEF RecursiveBy, GoesOnBy
<1>2. ASSUME NEW i \in Nat, i \in T
      PROVE  i + 1 \in T
  <2> SUFFICES ASSUME i + 1 <= n
               PROVE  c[i+1] = f[i+1]
    OBVIOUS
  <2>1. c[i] = f[i] /\ i \in 0 .. n /\ i + 1 \in 1 .. n /\ (i + 1) - 1 = i
    BY <1>2
  <2>2. f[i] \in V /\ f[i+1] = G[<<i+1, f[i]>>]
    BY <2>1 DEF RecursiveBy
  <2> QED
    BY <2>1, <2>2 DEF GoesOnBy
<1> HIDE DEF T
<1>3. Nat \subseteq T
  BY <1>1, <1>2, SetInduction
<1> QED
  BY <1>3 DEF T

-----------------------------------------------------------------------------
(* The pending events.                                                     *)

\* Concatenation of events is associative.
LEMMA Concat3 ==
  \A x, y, z \in Seq(Events) : (x \o y) \o z = x \o (y \o z)
<1> TAKE x, y, z \in Seq(Events)
<1> QED
  BY ConcatAssociative

\* How Flattened goes on with the next entry.
FlattenStep(q) == [p \in Nat \X Seq(Events) |->
    IF p[1] \in DOMAIN q THEN p[2] \o q[p[1]].events ELSE p[2]]

\* What FlattenStep is, and that it stays within the sequences of events.
LEMMA FlattenStepIs ==
  ASSUME NEW q \in Seq(Entry)
  PROVE  /\ FlattenStep(q) \in [Nat \X Seq(Events) -> Seq(Events)]
         /\ \A i \in 1 .. Len(q), v \in Seq(Events) :
               FlattenStep(q)[<<i, v>>] = v \o q[i].events
<1>1. Len(q) \in Nat /\ DOMAIN q = 1 .. Len(q)
  OBVIOUS
<1>2. \A i \in 1 .. Len(q) : q[i].events \in Seq(Events)
  <2> SUFFICES ASSUME NEW i \in 1 .. Len(q)
               PROVE  q[i].events \in Seq(Events)
    OBVIOUS
  <2>1. q[i] \in Entry
    BY ElementOfSeq
  <2> QED
    BY <2>1 DEF Entry
<1>3. \A i \in 1 .. Len(q), v \in Seq(Events) : v \o q[i].events \in Seq(Events)
  BY <1>2, ConcatProperties
<1> DEFINE V == Seq(Events)
<1> HIDE DEF V
<1>4. \A i \in 1 .. Len(q), v \in V : v \o q[i].events \in V
  BY <1>3 DEF V
<1>5. [p \in Nat \X V |-> IF p[1] \in DOMAIN q THEN p[2] \o q[p[1]].events ELSE p[2]]
         \in [Nat \X V -> V]
  BY <1>1, <1>4
<1>6. ASSUME NEW i \in 1 .. Len(q), NEW v \in V
      PROVE  [p \in Nat \X V |-> IF p[1] \in DOMAIN q
                                  THEN p[2] \o q[p[1]].events ELSE p[2]][<<i, v>>]
                 = v \o q[i].events
  <2>1. <<i, v>> \in Nat \X V /\ i \in DOMAIN q
    BY <1>1
  <2> QED
    BY <2>1
<1> QED
  BY <1>5, <1>6 DEF V, FlattenStep

\* What goes on like that has the value of every such function at the end ...
LEMMA FlattenedUnique ==
  ASSUME NEW q \in Seq(Entry), NEW c, c[0] = <<>>,
         \A i \in 1 .. Len(q) : c[i-1] \in Seq(Events) => c[i] = c[i-1] \o q[i].events
  PROVE  \A f : RecursiveBy(f, Len(q), Seq(Events), <<>>, FlattenStep(q)) =>
                   c[Len(q)] = f[Len(q)]
<1>1. GoesOnBy(c, Len(q), Seq(Events), <<>>, FlattenStep(q))
  <2>1. ASSUME NEW i \in 1 .. Len(q), c[i-1] \in Seq(Events)
        PROVE  c[i] = FlattenStep(q)[<<i, c[i-1]>>]
    BY <2>1, FlattenStepIs
  <2> QED
    BY <2>1 DEF GoesOnBy
<1>2. Len(q) \in Nat
  OBVIOUS
<1> QED
  BY <1>1, <1>2, RecursionUnique

\* ... and Flattened is the value of one of them.
LEMMA FlattenedIs ==
  ASSUME NEW q \in Seq(Entry)
  PROVE  \E f : /\ RecursiveBy(f, Len(q), Seq(Events), <<>>, FlattenStep(q))
                /\ Flattened(q) = f[Len(q)]
<1> DEFINE D(f) == [i \in 0 .. Len(q) |-> IF i = 0 THEN <<>> ELSE f[i-1] \o q[i].events]
<1>1. Len(q) \in Nat /\ <<>> \in Seq(Events)
  OBVIOUS
<1>2. PICK f : RecursiveBy(f, Len(q), Seq(Events), <<>>, FlattenStep(q))
  <2>1. FlattenStep(q) \in [Nat \X Seq(Events) -> Seq(Events)]
    BY FlattenStepIs
  <2> QED
    BY <1>1, <2>1, RecursionExists, Zenon
<1>3. f = D(f)
  <2>1. ASSUME NEW i \in 0 .. Len(q)
        PROVE  f[i] = IF i = 0 THEN <<>> ELSE f[i-1] \o q[i].events
    <3>1. CASE i = 0
      BY <1>2, <3>1 DEF RecursiveBy
    <3>2. CASE i # 0
      <4>1. i \in 1 .. Len(q) /\ i - 1 \in 0 .. Len(q)
        BY <1>1, <3>2
      <4>2. f[i-1] \in Seq(Events) /\ f[i] = FlattenStep(q)[<<i, f[i-1]>>]
        BY <1>2, <4>1 DEF RecursiveBy
      <4>3. f[i] = f[i-1] \o q[i].events
        BY <4>1, <4>2, FlattenStepIs
      <4> QED
        BY <3>2, <4>3
    <3> QED
      BY <3>1, <3>2
  <2>2. f = [i \in 0 .. Len(q) |-> f[i]]
    BY <1>2 DEF RecursiveBy
  <2> QED
    BY <2>1, <2>2, Zenon
<1> DEFINE c == CHOOSE h : h = D(h)
<1>4. c = D(c)
  BY <1>3, Zenon
<1>5. Flattened(q) = c[Len(q)]
  BY DEF Flattened
<1> HIDE DEF c
<1>6. c[0] = <<>>
  <2>1. 0 \in 0 .. Len(q)
    BY <1>1
  <2>2. D(c)[0] = <<>>
    BY <2>1
  <2> QED
    BY <1>4, <2>2, Zenon
<1>7. ASSUME NEW i \in 1 .. Len(q)
      PROVE  c[i] = c[i-1] \o q[i].events
  <2>1. i \in 0 .. Len(q) /\ i # 0
    BY <1>1
  <2>2. D(c)[i] = c[i-1] \o q[i].events
    BY <2>1
  <2> HIDE DEF D
  <2> QED
    BY <1>4, <2>2, Zenon
<1>8. c[Len(q)] = f[Len(q)]
  BY <1>2, <1>6, <1>7, FlattenedUnique
<1> QED
  BY <1>2, <1>5, <1>8

\* It is a sequence of events, and empty when the queue is.
LEMMA FlattenedType ==
  ASSUME NEW q \in Seq(Entry)
  PROVE  /\ Flattened(q) \in Seq(Events)
         /\ q = <<>> => Flattened(q) = <<>>
<1>1. PICK f : /\ RecursiveBy(f, Len(q), Seq(Events), <<>>, FlattenStep(q))
               /\ Flattened(q) = f[Len(q)]
  BY FlattenedIs
<1>2. Len(q) \in 0 .. Len(q) /\ (q = <<>> => Len(q) = 0)
  OBVIOUS
<1> QED
  BY <1>1, <1>2 DEF RecursiveBy

\* An entry that is added adds its events at the end.
LEMMA FlattenedAppend ==
  ASSUME NEW q \in Seq(Entry), NEW e \in Entry
  PROVE  Flattened(Append(q, e)) = Flattened(q) \o e.events
<1> DEFINE r == Append(q, e)
           n == Len(q)
<1>1. /\ r \in Seq(Entry) /\ n \in Nat /\ Len(r) = n + 1 /\ r[n + 1] = e
      /\ \A i \in 1 .. n : r[i] = q[i]
  BY AppendProperties
<1> HIDE DEF r
<1>2. PICK f : /\ RecursiveBy(f, n + 1, Seq(Events), <<>>, FlattenStep(r))
               /\ Flattened(r) = f[n + 1]
  BY <1>1, FlattenedIs
<1>3. ASSUME NEW i \in 1 .. n + 1
      PROVE  f[i-1] \in Seq(Events) /\ f[i] = f[i-1] \o r[i].events
  <2>1. i - 1 \in 0 .. n + 1 /\ i \in 1 .. Len(r)
    BY <1>1
  <2>2. f[i-1] \in Seq(Events) /\ f[i] = FlattenStep(r)[<<i, f[i-1]>>]
    BY <1>2, <2>1 DEF RecursiveBy
  <2> QED
    BY <1>1, <2>1, <2>2, FlattenStepIs
<1>4. PICK g : /\ RecursiveBy(g, n, Seq(Events), <<>>, FlattenStep(q))
               /\ Flattened(q) = g[n]
  BY FlattenedIs
<1>5. f[n] = g[n]
  <2>1. f[0] = <<>>
    BY <1>2 DEF RecursiveBy
  <2>2. ASSUME NEW i \in 1 .. n
        PROVE  f[i] = f[i-1] \o q[i].events
    <3>1. i \in 1 .. n + 1
      BY <1>1
    <3> QED
      BY <1>1, <1>3, <3>1
  <2> QED
    BY <1>4, <2>1, <2>2, FlattenedUnique
<1>6. f[n + 1] = f[n] \o e.events
  <2>1. n + 1 \in 1 .. n + 1 /\ (n + 1) - 1 = n
    BY <1>1
  <2> QED
    BY <1>1, <1>3, <2>1
<1> QED
  BY <1>2, <1>4, <1>5, <1>6 DEF r

\* The events of the first entry come first.
LEMMA FlattenedHead ==
  ASSUME NEW q \in Seq(Entry), q # <<>>
  PROVE  Flattened(q) = Head(q).events \o Flattened(Tail(q))
<1> DEFINE r == Tail(q)
           n == Len(Tail(q))
           a == Head(q).events
           V == Seq(Events)
<1>1. /\ r \in Seq(Entry) /\ n \in Nat /\ Len(q) = n + 1 /\ Len(r) = n
      /\ \A i \in 1 .. n : r[i] = q[i + 1]
      /\ Head(q) = q[1]
  BY HeadTailProperties
<1>2. a \in V
  <2>1. Head(q) \in Entry
    BY HeadTailProperties
  <2> QED
    BY <2>1 DEF Entry
<1> HIDE DEF r, n, a
<1>3. PICK f : /\ RecursiveBy(f, n + 1, V, <<>>, FlattenStep(q))
               /\ Flattened(q) = f[n + 1]
  BY <1>1, FlattenedIs
<1>4. PICK g : /\ RecursiveBy(g, n, V, <<>>, FlattenStep(r))
               /\ Flattened(r) = g[n]
  BY <1>1, FlattenedIs
<1> DEFINE c == [i \in 0 .. n |-> f[i + 1]]
           h == [i \in 0 .. n |-> a \o g[i]]
<1>5. \A i \in 1 .. n : r[i].events \in V
  <2> SUFFICES ASSUME NEW i \in 1 .. n
               PROVE  r[i].events \in V
    OBVIOUS
  <2>1. r[i] \in Entry
    BY <1>1, ElementOfSeq
  <2> QED
    BY <2>1 DEF Entry
<1>6. \A i \in 0 .. n : g[i] \in V
  BY <1>4 DEF RecursiveBy
<1>7. \A i \in 1 .. n : g[i] = g[i-1] \o r[i].events
  <2> SUFFICES ASSUME NEW i \in 1 .. n
               PROVE  g[i] = g[i-1] \o r[i].events
    OBVIOUS
  <2>1. i - 1 \in 0 .. n
    BY <1>1
  <2>2. g[i] = FlattenStep(r)[<<i, g[i-1]>>]
    BY <1>4 DEF RecursiveBy
  <2> QED
    BY <1>1, <1>6, <2>1, <2>2, FlattenStepIs
<1>8. RecursiveBy(h, n, V, a, FlattenStep(r))
  <2>1. \A i \in 0 .. n : a \o g[i] \in V
    BY <1>2, <1>6, ConcatProperties
  <2>2. h \in [0 .. n -> V]
    <3> HIDE DEF V
    <3> QED
      BY <2>1
  <2>3. h[0] = a
    <3>1. g[0] = <<>> /\ 0 \in 0 .. n
      BY <1>1, <1>4 DEF RecursiveBy
    <3>2. a \o <<>> = a
      BY <1>2, ConcatEmptySeq
    <3> QED
      BY <3>1, <3>2
  <2>4. ASSUME NEW i \in 1 .. n
        PROVE  h[i] = FlattenStep(r)[<<i, h[i-1]>>]
    <3>1. i - 1 \in 0 .. n /\ i \in 0 .. n
      BY <1>1
    <3>2. (a \o g[i-1]) \o r[i].events = a \o (g[i-1] \o r[i].events)
      <4>1. g[i-1] \in V /\ r[i].events \in V
        BY <1>5, <1>6, <3>1
      <4> DEFINE x == g[i-1]
                 y == r[i].events
      <4>2. x \in V /\ y \in V
        BY <4>1
      <4> HIDE DEF x, y
      <4>3. (a \o x) \o y = a \o (x \o y)
        BY <1>2, <4>2, Concat3, Zenon
      <4> QED
        BY <4>3 DEF x, y
    <3>3. h[i] = a \o g[i] /\ h[i-1] = a \o g[i-1]
      BY <3>1
    <3>4. h[i] = h[i-1] \o r[i].events
      BY <1>7, <3>2, <3>3
    <3>5. FlattenStep(r)[<<i, h[i-1]>>] = h[i-1] \o r[i].events
      BY <1>1, <2>1, <3>1, <3>3, FlattenStepIs
    <3> QED
      BY <3>4, <3>5
  <2> QED
    BY <2>2, <2>3, <2>4 DEF RecursiveBy
<1>9. GoesOnBy(c, n, V, a, FlattenStep(r))
  <2>1. ASSUME NEW i \in 1 .. n + 1
        PROVE  f[i] = f[i-1] \o q[i].events /\ f[i-1] \in V
    <3>1. i - 1 \in 0 .. n + 1 /\ i \in 1 .. Len(q)
      BY <1>1
    <3>2. f[i-1] \in V /\ f[i] = FlattenStep(q)[<<i, f[i-1]>>]
      BY <1>3, <3>1 DEF RecursiveBy
    <3> QED
      BY <3>1, <3>2, FlattenStepIs
  <2>2. c[0] = a
    <3>1. 1 \in 1 .. n + 1 /\ 0 \in 0 .. n
      BY <1>1
    <3>2. f[1] = f[0] \o q[1].events /\ f[0] = <<>>
      <4>1. f[0] = <<>>
        BY <1>3 DEF RecursiveBy
      <4>2. f[1] = f[1-1] \o q[1].events
        BY <2>1, <3>1
      <4>3. 1 - 1 = 0
        OBVIOUS
      <4> QED
        BY <4>1, <4>2, <4>3, Zenon
    <3>3. <<>> \o a = a
      BY <1>2, ConcatEmptySeq
    <3>4. c[0] = f[1]
      BY <3>1
    <3> QED
      BY <1>1, <3>2, <3>3, <3>4 DEF a
  <2>3. ASSUME NEW i \in 1 .. n, c[i-1] \in V
        PROVE  c[i] = FlattenStep(r)[<<i, c[i-1]>>]
    <3>1. /\ i - 1 \in 0 .. n /\ i \in 0 .. n /\ i + 1 \in 1 .. n + 1
          /\ (i + 1) - 1 = i /\ (i - 1) + 1 = i
      BY <1>1
    <3>2. c[i] = f[i+1] /\ c[i-1] = f[i]
      BY <3>1
    <3>3. f[i+1] = f[i] \o q[i+1].events
      BY <2>1, <3>1
    <3>4. c[i] = c[i-1] \o r[i].events
      BY <1>1, <3>2, <3>3
    <3> QED
      BY <1>1, <2>3, <3>4, FlattenStepIs
  <2> QED
    BY <2>2, <2>3 DEF GoesOnBy
<1>10. c[n] = h[n]
  <2> HIDE DEF c, h, V
  <2> QED
    BY <1>1, <1>8, <1>9, RecursionUnique
<1>11. n \in 0 .. n
  BY <1>1
<1> QED
  BY <1>3, <1>4, <1>10, <1>11 DEF r, a

-----------------------------------------------------------------------------
(* The events passed on.                                                   *)

\* How Passed goes on with the next event.
PassStep(b) == [p \in Nat \X Seq(Events) |->
    IF p[1] \in DOMAIN b /\ b[p[1]] # "putDown" THEN Append(p[2], b[p[1]]) ELSE p[2]]

\* What is passed on of a sequence of events is a sequence of events.
LEMMA PassedType ==
  ASSUME NEW b \in Seq(Events)
  PROVE  Passed(b) \in Seq(Events)
<1> DEFINE n == Len(b)
           V == Seq(Events)
           Next1(i, v) == IF b[i] = "putDown" THEN v ELSE Append(v, b[i])
           D(f) == [i \in 0 .. n |-> IF i = 0 THEN <<>>
                                     ELSE IF b[i] = "putDown" THEN f[i-1]
                                     ELSE Append(f[i-1], b[i])]
<1>1. n \in Nat /\ <<>> \in V /\ DOMAIN b = 1 .. n
  OBVIOUS
<1>2. \A i \in 1 .. n, v \in V : Append(v, b[i]) \in V
  <2> TAKE i \in 1 .. n, v \in V
  <2>1. b[i] \in Events
    BY ElementOfSeq
  <2> QED
    BY <2>1, AppendProperties
<1>3. /\ PassStep(b) \in [Nat \X V -> V]
      /\ \A i \in 1 .. n, v \in V : PassStep(b)[<<i, v>>] = Next1(i, v)
  <2> DEFINE G == [p \in Nat \X V |->
                IF p[1] \in DOMAIN b /\ b[p[1]] # "putDown" THEN Append(p[2], b[p[1]])
                                                            ELSE p[2]]
  <2>1. G = PassStep(b)
    BY DEF PassStep
  <2> HIDE DEF V
  <2>2. G \in [Nat \X V -> V]
    BY <1>1, <1>2
  <2>3. ASSUME NEW i \in 1 .. n, NEW v \in V
        PROVE  G[<<i, v>>] = Next1(i, v)
    <3>1. <<i, v>> \in Nat \X V /\ i \in DOMAIN b
      BY <1>1
    <3> QED
      BY <3>1
  <2> HIDE DEF G
  <2> QED
    BY <2>1, <2>2, <2>3
<1>4. PICK f : RecursiveBy(f, n, V, <<>>, PassStep(b))
  <2> HIDE DEF n, V
  <2> QED
    BY <1>1, <1>3, RecursionExists, Zenon
<1>5. f = D(f)
  <2>1. ASSUME NEW i \in 0 .. n
        PROVE  f[i] = IF i = 0 THEN <<>>
                      ELSE IF b[i] = "putDown" THEN f[i-1] ELSE Append(f[i-1], b[i])
    <3>1. CASE i = 0
      BY <1>4, <3>1 DEF RecursiveBy
    <3>2. CASE i # 0
      <4>1. i \in 1 .. n /\ i - 1 \in 0 .. n
        BY <1>1, <3>2
      <4>2. f[i-1] \in V /\ f[i] = PassStep(b)[<<i, f[i-1]>>]
        BY <1>4, <4>1 DEF RecursiveBy
      <4>3. f[i] = Next1(i, f[i-1])
        BY <1>3, <4>1, <4>2
      <4> QED
        BY <3>2, <4>3
    <3> QED
      BY <3>1, <3>2
  <2>2. f = [i \in 0 .. n |-> f[i]]
    BY <1>4 DEF RecursiveBy
  <2> QED
    BY <2>1, <2>2, Zenon
<1> DEFINE c == CHOOSE h : h = D(h)
<1>6. c = D(c)
  BY <1>5, Zenon
<1>7. Passed(b) = c[n]
  BY DEF Passed
<1> HIDE DEF c
<1>8. GoesOnBy(c, n, V, <<>>, PassStep(b))
  <2>1. c[0] = <<>>
    <3>1. 0 \in 0 .. n
      BY <1>1
    <3>2. D(c)[0] = <<>>
      BY <3>1
    <3> QED
      BY <1>6, <3>2, Zenon
  <2>2. ASSUME NEW i \in 1 .. n, c[i-1] \in V
        PROVE  c[i] = PassStep(b)[<<i, c[i-1]>>]
    <3>1. i \in 0 .. n /\ i # 0
      BY <1>1
    <3>2. D(c)[i] = Next1(i, c[i-1])
      BY <3>1
    <3>3. PassStep(b)[<<i, c[i-1]>>] = Next1(i, c[i-1])
      BY <1>3, <2>2
    <3> HIDE DEF D, Next1
    <3> QED
      BY <1>6, <3>2, <3>3, Zenon
  <2> QED
    BY <2>1, <2>2 DEF GoesOnBy
<1>9. c[n] = f[n]
  <2> HIDE DEF n, V
  <2> QED
    BY <1>1, <1>4, <1>8, RecursionUnique
<1>10. f[n] \in V
  BY <1>1, <1>4 DEF RecursiveBy
<1> QED
  BY <1>7, <1>9, <1>10

-----------------------------------------------------------------------------
(* The number of wake-up events.                                           *)

\* It is a number, 0 for no events, and sums up over two sequences in a row.
LEMMA NumWakeupType ==
  ASSUME NEW x \in Seq(Events)
  PROVE  /\ NumWakeupEvents(x) \in Nat
         /\ IsFiniteSet({i \in DOMAIN x : x[i] = "wake"})
<1>1. DOMAIN x = 1 .. Len(x) /\ Len(x) \in Nat
  OBVIOUS
<1>2. IsFiniteSet(1 .. Len(x))
  BY <1>1, FS_Interval
<1> DEFINE A == {i \in DOMAIN x : x[i] = "wake"}
<1>3. A \in SUBSET (1 .. Len(x))
  BY <1>1
<1>4. IsFiniteSet(A)
  <2> HIDE DEF A
  <2> QED
    BY <1>2, <1>3, FS_Subset, Zenon
<1>5. Cardinality(A) \in Nat
  <2> HIDE DEF A
  <2> QED
    BY <1>4, FS_CardinalityType
<1> QED
  BY <1>4, <1>5 DEF NumWakeupEvents

\* No events, no wake-up events.
LEMMA NumWakeupEmpty == NumWakeupEvents(<<>>) = 0
<1>1. {i \in DOMAIN <<>> : <<>>[i] = "wake"} = {}
  OBVIOUS
<1> QED
  BY <1>1, FS_EmptySet DEF NumWakeupEvents

\* The wake-up events of two sequences in a row are those of both.
LEMMA NumWakeupConcat ==
  ASSUME NEW x \in Seq(Events), NEW y \in Seq(Events)
  PROVE  NumWakeupEvents(x \o y) = NumWakeupEvents(x) + NumWakeupEvents(y)
<1> DEFINE z == x \o y
           k == Len(x)
           A == {i \in DOMAIN x : x[i] = "wake"}
           B == {i \in DOMAIN y : y[i] = "wake"}
           C == {i \in DOMAIN z : z[i] = "wake"}
           S == C \ A
           f == [i \in B |-> i + k]
<1>1. /\ k \in Nat /\ Len(y) \in Nat
      /\ z \in Seq(Events) /\ Len(z) = k + Len(y)
      /\ \A i \in 1 .. k + Len(y) : z[i] = IF i <= k THEN x[i] ELSE y[i - k]
      /\ DOMAIN x = 1 .. k /\ DOMAIN y = 1 .. Len(y) /\ DOMAIN z = 1 .. k + Len(y)
  BY ConcatProperties
<1> HIDE DEF z, k
<1>2. A \subseteq C
  BY <1>1
<1>3. \A i \in S : i - k \in B /\ i = (i - k) + k
  BY <1>1
<1>4. \A i \in B : i + k \in S
  BY <1>1
<1>5. f \in Bijection(B, S)
  <2>1. f \in [B -> S]
    BY <1>4
  <2>2. \A i, j \in B : f[i] = f[j] => i = j
    BY <1>1
  <2>3. \A s \in S : \E i \in B : f[i] = s
    BY <1>3
  <2> HIDE DEF f, B, S
  <2> QED
    BY <2>1, <2>2, <2>3 DEF Bijection, Injection, Surjection, IsInjective
<1>6. IsFiniteSet(A) /\ IsFiniteSet(B) /\ IsFiniteSet(C)
  BY <1>1, NumWakeupType
<1>7. ExistsBijection(B, S)
  BY <1>5 DEF ExistsBijection
<1> HIDE DEF A, B, f
<1>8. IsFiniteSet(S) /\ Cardinality(S) = Cardinality(B)
  <2> HIDE DEF S
  <2> QED
    BY <1>6, <1>7, FS_Bijection
<1>9. C = A \cup S /\ A \cap S = {}
  BY <1>2
<1> HIDE DEF C, S
<1>10. Cardinality(A \cup S) = Cardinality(A) + Cardinality(S)
  <2>1. Cardinality(A \cap S) = 0
    BY <1>9, FS_EmptySet
  <2>2. Cardinality(A \cup S) = Cardinality(A) + Cardinality(S) - Cardinality(A \cap S)
    BY <1>6, <1>8, FS_Union, Zenon
  <2>3. Cardinality(A) \in Nat /\ Cardinality(S) \in Nat
    BY <1>6, <1>8, FS_CardinalityType
  <2> QED
    BY <2>1, <2>2, <2>3
<1>11. Cardinality(C) = Cardinality(A) + Cardinality(B)
  BY <1>8, <1>9, <1>10
<1> QED
  BY <1>11 DEF NumWakeupEvents, A, B, C, z

-----------------------------------------------------------------------------
(* Sums.                                                                   *)

\* How Total goes on with the next number.
AddStep(q) == [p \in Nat \X Nat |-> IF p[1] \in DOMAIN q THEN p[2] + q[p[1]] ELSE p[2]]

\* What AddStep is, and that it stays within the numbers.
LEMMA AddStepIs ==
  ASSUME NEW q \in Seq(Nat)
  PROVE  /\ AddStep(q) \in [Nat \X Nat -> Nat]
         /\ \A i \in 1 .. Len(q), v \in Nat : AddStep(q)[<<i, v>>] = v + q[i]
<1>1. DOMAIN q = 1 .. Len(q) /\ Len(q) \in Nat /\ \A i \in 1 .. Len(q) : q[i] \in Nat
  OBVIOUS
<1>2. \A i \in 1 .. Len(q), v \in Nat : <<i, v>> \in Nat \X Nat /\ i \in DOMAIN q
  BY <1>1
<1> QED
  BY <1>1, <1>2 DEF AddStep

\* What goes on like that has the value of every such function at the end ...
LEMMA TotalUnique ==
  ASSUME NEW q \in Seq(Nat), NEW c, c[0] = 0,
         \A i \in 1 .. Len(q) : c[i-1] \in Nat => c[i] = c[i-1] + q[i]
  PROVE  \A f : RecursiveBy(f, Len(q), Nat, 0, AddStep(q)) => c[Len(q)] = f[Len(q)]
<1>1. GoesOnBy(c, Len(q), Nat, 0, AddStep(q))
  <2>1. ASSUME NEW i \in 1 .. Len(q), c[i-1] \in Nat
        PROVE  c[i] = AddStep(q)[<<i, c[i-1]>>]
    BY <2>1, AddStepIs
  <2> QED
    BY <2>1 DEF GoesOnBy
<1>2. Len(q) \in Nat
  OBVIOUS
<1> QED
  BY <1>1, <1>2, RecursionUnique

\* ... and Total is the value of one of them.
LEMMA TotalIs ==
  ASSUME NEW q \in Seq(Nat)
  PROVE  \E f : /\ RecursiveBy(f, Len(q), Nat, 0, AddStep(q))
                /\ Total(q) = f[Len(q)]
<1> DEFINE D(f) == [i \in 0 .. Len(q) |-> IF i = 0 THEN 0 ELSE f[i-1] + q[i]]
<1>1. Len(q) \in Nat /\ 0 \in Nat
  OBVIOUS
<1>2. PICK f : RecursiveBy(f, Len(q), Nat, 0, AddStep(q))
  <2>1. AddStep(q) \in [Nat \X Nat -> Nat]
    BY AddStepIs
  <2> QED
    BY <1>1, <2>1, RecursionExists, Zenon
<1>3. f = D(f)
  <2>1. ASSUME NEW i \in 0 .. Len(q)
        PROVE  f[i] = IF i = 0 THEN 0 ELSE f[i-1] + q[i]
    <3>1. CASE i = 0
      BY <1>2, <3>1 DEF RecursiveBy
    <3>2. CASE i # 0
      <4>1. i \in 1 .. Len(q) /\ i - 1 \in 0 .. Len(q)
        BY <1>1, <3>2
      <4>2. f[i-1] \in Nat /\ f[i] = AddStep(q)[<<i, f[i-1]>>]
        BY <1>2, <4>1 DEF RecursiveBy
      <4>3. f[i] = f[i-1] + q[i]
        BY <4>1, <4>2, AddStepIs
      <4> QED
        BY <3>2, <4>3
    <3> QED
      BY <3>1, <3>2
  <2>2. f = [i \in 0 .. Len(q) |-> f[i]]
    BY <1>2 DEF RecursiveBy
  <2> QED
    BY <2>1, <2>2, Zenon
<1> DEFINE c == CHOOSE h : h = D(h)
<1>4. c = D(c)
  BY <1>3, Zenon
<1>5. Total(q) = c[Len(q)]
  BY DEF Total
<1> HIDE DEF c
<1>6. c[0] = 0
  <2>1. 0 \in 0 .. Len(q)
    BY <1>1
  <2>2. D(c)[0] = 0
    BY <2>1
  <2> QED
    BY <1>4, <2>2, Zenon
<1>7. ASSUME NEW i \in 1 .. Len(q)
      PROVE  c[i] = c[i-1] + q[i]
  <2>1. i \in 0 .. Len(q) /\ i # 0
    BY <1>1
  <2>2. D(c)[i] = c[i-1] + q[i]
    BY <2>1
  <2> HIDE DEF D
  <2> QED
    BY <1>4, <2>2, Zenon
<1>8. c[Len(q)] = f[Len(q)]
  BY <1>2, <1>6, <1>7, TotalUnique
<1> QED
  BY <1>2, <1>5, <1>8

\* It is a number, and 0 for no numbers.
LEMMA TotalType ==
  ASSUME NEW q \in Seq(Nat)
  PROVE  Total(q) \in Nat /\ (q = <<>> => Total(q) = 0)
<1>1. PICK f : RecursiveBy(f, Len(q), Nat, 0, AddStep(q)) /\ Total(q) = f[Len(q)]
  BY TotalIs
<1>2. Len(q) \in 0 .. Len(q) /\ (q = <<>> => Len(q) = 0)
  OBVIOUS
<1> QED
  BY <1>1, <1>2 DEF RecursiveBy

\* A number that is appended is added.
LEMMA TotalAppend ==
  ASSUME NEW q \in Seq(Nat), NEW e \in Nat
  PROVE  Total(Append(q, e)) = Total(q) + e
<1> DEFINE r == Append(q, e)
           n == Len(q)
<1>1. /\ r \in Seq(Nat) /\ n \in Nat /\ Len(r) = n + 1 /\ r[n + 1] = e
      /\ \A i \in 1 .. n : r[i] = q[i]
  BY AppendProperties
<1> HIDE DEF r
<1>2. PICK f : RecursiveBy(f, n + 1, Nat, 0, AddStep(r)) /\ Total(r) = f[n + 1]
  BY <1>1, TotalIs
<1>3. ASSUME NEW i \in 1 .. n + 1
      PROVE  f[i-1] \in Nat /\ f[i] = f[i-1] + r[i]
  <2>1. i - 1 \in 0 .. n + 1 /\ i \in 1 .. Len(r)
    BY <1>1
  <2>2. f[i-1] \in Nat /\ f[i] = AddStep(r)[<<i, f[i-1]>>]
    BY <1>2, <2>1 DEF RecursiveBy
  <2> QED
    BY <1>1, <2>1, <2>2, AddStepIs
<1>4. PICK g : RecursiveBy(g, n, Nat, 0, AddStep(q)) /\ Total(q) = g[n]
  BY TotalIs
<1>5. f[n] = g[n]
  <2>1. f[0] = 0
    BY <1>2 DEF RecursiveBy
  <2>2. ASSUME NEW i \in 1 .. n
        PROVE  f[i] = f[i-1] + q[i]
    <3>1. i \in 1 .. n + 1
      BY <1>1
    <3> QED
      BY <1>1, <1>3, <3>1
  <2> QED
    BY <1>4, <2>1, <2>2, TotalUnique
<1>6. f[n + 1] = f[n] + e
  <2>1. n + 1 \in 1 .. n + 1 /\ (n + 1) - 1 = n
    BY <1>1
  <2> QED
    BY <1>1, <1>3, <2>1
<1> QED
  BY <1>2, <1>4, <1>5, <1>6 DEF r

\* The sum is the first number and the sum of the others.
LEMMA TotalHead ==
  ASSUME NEW q \in Seq(Nat), q # <<>>
  PROVE  Head(q) \in Nat /\ Total(q) = Head(q) + Total(Tail(q))
<1> DEFINE r == Tail(q)
           n == Len(Tail(q))
           a == Head(q)
<1>1. /\ r \in Seq(Nat) /\ n \in Nat /\ Len(q) = n + 1 /\ Len(r) = n
      /\ \A i \in 1 .. n : r[i] = q[i + 1] /\ r[i] \in Nat
      /\ a = q[1] /\ a \in Nat
  BY HeadTailProperties
<1> HIDE DEF r, n, a
<1>2. PICK f : RecursiveBy(f, n + 1, Nat, 0, AddStep(q)) /\ Total(q) = f[n + 1]
  BY <1>1, TotalIs
<1>3. PICK g : RecursiveBy(g, n, Nat, 0, AddStep(r)) /\ Total(r) = g[n]
  BY <1>1, TotalIs
<1> DEFINE c == [i \in 0 .. n |-> f[i + 1] - a]
<1>4. ASSUME NEW i \in 1 .. n + 1
      PROVE  f[i] = f[i-1] + q[i] /\ f[i-1] \in Nat
  <2>1. i - 1 \in 0 .. n + 1 /\ i \in 1 .. Len(q)
    BY <1>1
  <2>2. f[i-1] \in Nat /\ f[i] = AddStep(q)[<<i, f[i-1]>>]
    BY <1>2, <2>1 DEF RecursiveBy
  <2> QED
    BY <2>1, <2>2, AddStepIs
<1>5. c[0] = 0
  <2>1. 1 \in 1 .. n + 1 /\ 0 \in 0 .. n /\ 1 - 1 = 0
    BY <1>1
  <2>2. f[0] = 0
    BY <1>2 DEF RecursiveBy
  <2>3. f[1] = f[1-1] + q[1]
    BY <1>4, <2>1
  <2>4. f[1] = a
    BY <1>1, <2>2, <2>3
  <2> QED
    BY <1>1, <2>1, <2>4
<1>6. ASSUME NEW i \in 1 .. n
      PROVE  c[i] = c[i-1] + r[i]
  <2>1. /\ i - 1 \in 0 .. n /\ i \in 0 .. n /\ i + 1 \in 1 .. n + 1
        /\ (i + 1) - 1 = i /\ (i - 1) + 1 = i
    BY <1>1
  <2>2. c[i] = f[i+1] - a /\ c[i-1] = f[i] - a
    BY <2>1
  <2>3. f[i+1] = f[i] + q[i+1] /\ f[i] \in Nat
    BY <1>4, <2>1
  <2> QED
    BY <1>1, <2>2, <2>3
<1>7. c[n] = g[n]
  <2> HIDE DEF c
  <2> QED
    BY <1>1, <1>3, <1>5, <1>6, TotalUnique
<1>8. c[n] = f[n+1] - a /\ f[n+1] \in Nat /\ g[n] \in Nat
  <2>1. n \in 0 .. n /\ n + 1 \in 0 .. n + 1
    BY <1>1
  <2> QED
    BY <1>2, <1>3, <2>1 DEF RecursiveBy
<1>9. f[n+1] = a + g[n]
  BY <1>1, <1>7, <1>8
<1> QED
  BY <1>1, <1>2, <1>3, <1>9 DEF r, a

-----------------------------------------------------------------------------
(* Parts of sequences.                                                     *)

\* A sequence of events is its first n events and the rest.
LEMMA SplitSeq ==
  ASSUME NEW x \in Seq(Events), NEW n \in 0 .. Len(x)
  PROVE  /\ SubSeq(x, 1, n) \in Seq(Events) /\ Len(SubSeq(x, 1, n)) = n
         /\ SubSeq(x, n + 1, Len(x)) \in Seq(Events)
         /\ Len(SubSeq(x, n + 1, Len(x))) = Len(x) - n
         /\ SubSeq(x, 1, n) \o SubSeq(x, n + 1, Len(x)) = x
<1>1. Len(x) \in Nat /\ n \in Nat /\ n <= Len(x)
  OBVIOUS
<1>2. \A i \in 1 .. Len(x) : x[i] \in Events
  BY ElementOfSeq
<1>3. SubSeq(x, 1, n) \in Seq(Events) /\ Len(SubSeq(x, 1, n)) = n
  <2>1. \A i \in 1 .. n : x[i] \in Events
    BY <1>1, <1>2
  <2>2. 1 \in Int /\ n \in Int
    BY <1>1
  <2>3. /\ SubSeq(x, 1, n) \in Seq(Events)
        /\ Len(SubSeq(x, 1, n)) = IF 1 <= n THEN n - 1 + 1 ELSE 0
    BY <2>1, <2>2, SubSeqProperties
  <2> QED
    BY <1>1, <2>3
<1>4. /\ SubSeq(x, n + 1, Len(x)) \in Seq(Events)
      /\ Len(SubSeq(x, n + 1, Len(x))) = Len(x) - n
  <2>1. \A i \in n + 1 .. Len(x) : x[i] \in Events
    BY <1>1, <1>2
  <2>2. n + 1 \in Int /\ Len(x) \in Int
    BY <1>1
  <2>3. /\ SubSeq(x, n + 1, Len(x)) \in Seq(Events)
        /\ Len(SubSeq(x, n + 1, Len(x))) =
              IF n + 1 <= Len(x) THEN Len(x) - (n + 1) + 1 ELSE 0
    BY <2>1, <2>2, SubSeqProperties
  <2> QED
    BY <1>1, <2>3
<1>5. SubSeq(x, 1, n) \o SubSeq(x, n + 1, Len(x)) = SubSeq(x, 1, Len(x))
  <2>1. 1 \in 1 .. Len(x) + 1 /\ n \in 1 - 1 .. Len(x) /\ Len(x) \in n .. Len(x)
    BY <1>1
  <2> QED
    BY <2>1, ConcatAdjacentSubSeq
<1>6. SubSeq(x, 1, Len(x)) = x
  BY SubSeqFull
<1> QED
  BY <1>3, <1>4, <1>5, <1>6

\* Taking events off the front of two sequences in a row takes them off the first.
LEMMA RestOfConcat ==
  ASSUME NEW x \in Seq(Events), NEW y \in Seq(Events), NEW n \in 0 .. Len(x)
  PROVE  SubSeq(x \o y, n + 1, Len(x \o y)) = SubSeq(x, n + 1, Len(x)) \o y
<1> DEFINE z == x \o y
           b == SubSeq(x, n + 1, Len(x))
           d == SubSeq(z, n + 1, Len(z))
<1>1. /\ z \in Seq(Events) /\ Len(z) = Len(x) + Len(y) /\ Len(x) \in Nat /\ Len(y) \in Nat
      /\ \A i \in 1 .. Len(x) + Len(y) : z[i] = IF i <= Len(x) THEN x[i] ELSE y[i - Len(x)]
  BY ConcatProperties
<1>2. n \in 0 .. Len(z)
  BY <1>1
<1>3. b \in Seq(Events) /\ Len(b) = Len(x) - n
  BY SplitSeq
<1>4. d \in Seq(Events) /\ Len(d) = Len(z) - n
  BY <1>1, <1>2, SplitSeq
<1>5. \A i \in 1 .. Len(x) - n : b[i] = x[n + i]
  OBVIOUS
<1>6. \A i \in 1 .. Len(z) - n : d[i] = z[n + i]
  BY <1>1, <1>2
<1>7. /\ b \o y \in Seq(Events) /\ Len(b \o y) = Len(b) + Len(y)
      /\ \A i \in 1 .. Len(b) + Len(y) : (b \o y)[i] = IF i <= Len(b) THEN b[i] ELSE y[i - Len(b)]
  BY <1>3, ConcatProperties
<1> HIDE DEF z, b, d
<1>8. Len(d) = Len(b \o y)
  BY <1>1, <1>3, <1>4, <1>7
<1>9. ASSUME NEW i \in 1 .. Len(d)
      PROVE  d[i] = (b \o y)[i]
  <2>1. i \in 1 .. Len(z) - n /\ i \in 1 .. Len(b) + Len(y) /\ n + i \in 1 .. Len(x) + Len(y)
    BY <1>1, <1>3, <1>4
  <2>2. d[i] = z[n + i] /\ (b \o y)[i] = IF i <= Len(b) THEN b[i] ELSE y[i - Len(b)]
    BY <1>6, <1>7, <2>1
  <2>3. z[n + i] = IF n + i <= Len(x) THEN x[n + i] ELSE y[(n + i) - Len(x)]
    BY <1>1, <2>1
  <2>4. CASE n + i <= Len(x)
    BY <1>1, <1>3, <1>5, <2>1, <2>2, <2>3, <2>4
  <2>5. CASE ~ (n + i <= Len(x))
    <3>1. ~ (i <= Len(b)) /\ (n + i) - Len(x) = i - Len(b)
      BY <1>1, <1>3, <2>5
    <3> QED
      BY <2>2, <2>3, <2>5, <3>1
  <2> QED
    BY <2>4, <2>5
<1> QED
  BY <1>4, <1>7, <1>8, <1>9, SeqEqual DEF z, b, d

\* Two sequences in a row are taken apart again where they meet.
LEMMA PartsOfConcat ==
  ASSUME NEW x \in Seq(Events), NEW y \in Seq(Events)
  PROVE  /\ SubSeq(x \o y, 1, Len(x)) = x
         /\ SubSeq(x \o y, Len(x) + 1, Len(x \o y)) = y
<1> DEFINE z == x \o y
           n == Len(x)
           a == SubSeq(z, 1, n)
<1>1. /\ z \in Seq(Events) /\ Len(z) = n + Len(y) /\ n \in Nat /\ Len(y) \in Nat
      /\ \A i \in 1 .. n + Len(y) : z[i] = IF i <= n THEN x[i] ELSE y[i - n]
  BY ConcatProperties
<1>2. n \in 0 .. Len(z) /\ n \in 0 .. Len(x)
  BY <1>1
<1>3. a \in Seq(Events) /\ Len(a) = n
  BY <1>1, <1>2, SplitSeq
<1>4. \A i \in 1 .. n : a[i] = z[i]
  BY <1>1, <1>2
<1>5. SubSeq(z, n + 1, Len(z)) = SubSeq(x, n + 1, n) \o y
  BY <1>2, RestOfConcat
<1>6. SubSeq(x, n + 1, n) = <<>>
  BY <1>1, SubSeqEmpty
<1>7. <<>> \o y = y
  BY ConcatEmptySeq
<1> HIDE DEF z, a
<1>8. \A i \in 1 .. Len(a) : a[i] = x[i]
  BY <1>1, <1>3, <1>4
<1>9. a = x
  BY <1>3, <1>8, SeqEqual
<1> QED
  BY <1>5, <1>6, <1>7, <1>9 DEF z, a
=============================================================================
