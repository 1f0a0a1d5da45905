-------------------------- MODULE EnrollmentsProofs --------------------------
(***************************************************************************)
(* Theorems about Enrollments, for any users, templates, removals, sessions *)
(* and size of the worker's queue.                                          *)
(***************************************************************************)
EXTENDS Enrollments, FiniteSetTheorems, SequenceTheorems, TLAPS

-----------------------------------------------------------------------------
(* The inductive invariant.                                                *)

\* All messages on their way, the one notify has in hand first.
Stream == notifying \o vendor

IsEnum(m) == m.type = "ENUMERATING"
IsEnd(m) == IsEnum(m) /\ m.remaining = 0

\* Nothing happens before the first session, and a removal is of a user.
SessionFirst ==
    /\ cur = 0 => /\ ~open /\ queue = << >> /\ removing = Idle
                  /\ notifying = << >> /\ vendor = << >> /\ group = NoUser
    /\ cur # 0 => group \in Users /\ user \in Users
    /\ removing.ids # << >> => removing.user \in Users
    /\ Len(notifying) <= 1

\* The messages of an enumeration follow each other, counting down.
CountsDown(q) ==
    \A k \in 1 .. Len(q) : IsEnum(q[k]) =>
        \A j \in 0 .. q[k].remaining :
            /\ k + j <= Len(q)
            /\ IsEnum(q[k + j])
            /\ q[k + j].remaining = q[k].remaining - j
            /\ q[k + j].gid = q[k].gid /\ q[k + j].s = q[k].s

\* A message that settles whether user u has template f.
Settles(m, u, f) ==
    /\ m.gid = u
    /\ \/ m.type \in {"REMOVED", "ENROLLING"} /\ m.fid = f
       \/ IsEnd(m)

\* None of q does after the first i messages.
NoneAfter(q, i, u, f) == \A k \in 1 .. Len(q) : k > i => ~Settles(q[k], u, f)

\* f is listed by the enumeration whose last message is q[e].
Lists(q, e, f) == \E j \in 1 .. e : /\ IsEnum(q[j]) /\ j + q[j].remaining = e
                                    /\ q[j].fid = f

\* The enumeration that ends at e is the one being delivered.
AtHead(q, e) == IsEnum(q[1]) /\ e = 1 + q[1].remaining

\* What the message q[i] says about a template f is so in the library.
SaysOne(q, T, i, f) ==
    /\ q[i].type = "REMOVED" /\ q[i].fid = f => f \notin T[q[i].gid]
    /\ q[i].type = "ENROLLING" /\ q[i].fid = f => f \in T[q[i].gid]

\* What the enumeration that ends with q[i] says about it is.
SaysAll(q, T, i, f) == IsEnd(q[i]) => (f \in T[q[i].gid] <=> Lists(q, i, f))

\* What the last message about a template says is so: the enumeration that is
\* being delivered has left part of what it says in the list.
Tells(q, T) ==
    \A i \in 1 .. Len(q) : \A f \in Fids : NoneAfter(q, i, q[i].gid, f) =>
        SaysOne(q, T, i, f) /\ (AtHead(q, i) \/ SaysAll(q, T, i, f))

\* The list holds what has been delivered of the enumeration at the head.
ListTrue(q, T, list) ==
    IF q # << >> /\ IsEnum(q[1])
    THEN \A f \in Fids : NoneAfter(q, 1 + q[1].remaining, q[1].gid, f) =>
            (f \in T[q[1].gid] <=> f \in ToSet(list) \/ Lists(q, 1 + q[1].remaining, f))
    ELSE list = << >>

\* What was told of a user that nothing on its way is about is so.
ToldTrue(q, T, u, told_u) ==
    \A f \in Fids : NoneAfter(q, 0, u, f) => (f \in told_u <=> f \in T[u])

InOrder == CountsDown(Stream)
StreamTells == Tells(Stream, templates)
TornIsLost == torn => \A u \in Users : whole[u] = 0
ListClean == (\E u \in Users : whole[u] # 0) => ListTrue(Stream, templates, enrollments)
WholeTold == \A u \in Users : whole[u] = 2 => ToldTrue(Stream, templates, u, told[u])

\* What is queued or on its way is of this or an earlier session.
UpTo(q, c) == \A i \in 1 .. Len(q) : q[i].s <= c
NoneAhead == UpTo(queue, cur) /\ UpTo(Stream, cur)

\* How many elements of q are in G.
CountIn(q, G) == Cardinality({i \in 1 .. Len(q) : q[i] \in G})

Task == [task : {"enumerate", "remove", "close"}, s : 1 .. MaxSessions,
         user : Users, ids : Seq(Fids \cup {AnyFid})]

EnumTasks(c) == {t \in Task : t.task = "enumerate" /\ t.s = c}
EnumEnds(c) == {m \in MessageSet : IsEnd(m) /\ m.s = c}

\* The open session waits for the enumerations that are queued or on their way.
OwedRight ==
    /\ owed <= calls
    /\ open => owed = CountIn(queue, EnumTasks(cur)) + CountIn(Stream, EnumEnds(cur))
    /\ ~open => owed = 0

Content == InOrder /\ StreamTells /\ TornIsLost /\ ListClean /\ WholeTold

IInv ==
    /\ TypeOK
    /\ SessionFirst
    /\ NoneAhead
    /\ OwedRight
    /\ Content

-----------------------------------------------------------------------------
(* Sequences.                                                              *)

\* What a sequence without its first element is.
LEMMA TailIs ==
  ASSUME NEW S, NEW q \in Seq(S), q # << >>
  PROVE  /\ Len(q) \in Nat \ {0} /\ q[1] \in S /\ Head(q) = q[1]
         /\ Tail(q) \in Seq(S) /\ Len(Tail(q)) = Len(q) - 1
         /\ \A i \in 1 .. Len(q) - 1 : Tail(q)[i] = q[i + 1]
<1>1. /\ Tail(q) \in Seq(S) /\ Len(Tail(q)) = Len(q) - 1
      /\ \A i \in 1 .. Len(Tail(q)) : Tail(q)[i] = q[i + 1]
  BY HeadTailProperties
<1>2. Len(q) \in Nat \ {0} /\ Head(q) = q[1] /\ q[1] \in S
  OBVIOUS
<1> QED
  BY <1>1, <1>2

\* What two sequences in a row are.
LEMMA ConcatIs ==
  ASSUME NEW S, NEW x \in Seq(S), NEW y \in Seq(S)
  PROVE  /\ x \o y \in Seq(S) /\ Len(x \o y) = Len(x) + Len(y)
         /\ Len(x) \in Nat /\ Len(y) \in Nat
         /\ \A i \in 1 .. Len(x) : (x \o y)[i] = x[i]
         /\ \A i \in 1 .. Len(y) : (x \o y)[Len(x) + i] = y[i]
<1>1. Len(x) \in Nat /\ Len(y) \in Nat
  OBVIOUS
<1>2. /\ x \o y \in Seq(S) /\ Len(x \o y) = Len(x) + Len(y)
      /\ \A i \in 1 .. Len(x) + Len(y) :
            (x \o y)[i] = IF i <= Len(x) THEN x[i] ELSE y[i - Len(x)]
  BY ConcatProperties
<1>3. \A i \in 1 .. Len(x) : (x \o y)[i] = x[i]
  BY <1>1, <1>2
<1>4. ASSUME NEW i \in 1 .. Len(y)
      PROVE  (x \o y)[Len(x) + i] = y[i]
  <2>1. /\ Len(x) + i \in 1 .. Len(x) + Len(y) /\ ~ (Len(x) + i <= Len(x))
        /\ (Len(x) + i) - Len(x) = i
    BY <1>1
  <2> QED
    BY <1>2, <2>1
<1> QED
  BY <1>1, <1>2, <1>3, <1>4

\* The first element and the others make up a sequence.
LEMMA HeadFirst ==
  ASSUME NEW S, NEW q \in Seq(S), q # << >>
  PROVE  <<Head(q)>> \o Tail(q) = q
<1> DEFINE r == Tail(q)
           h == <<Head(q)>>
           z == h \o r
<1>1. /\ Len(q) \in Nat \ {0} /\ Head(q) = q[1] /\ q[1] \in S
      /\ r \in Seq(S) /\ Len(r) = Len(q) - 1
      /\ \A i \in 1 .. Len(q) - 1 : r[i] = q[i + 1]
  BY TailIs
<1>2. h \in Seq(S) /\ Len(h) = 1 /\ h[1] = q[1]
  BY <1>1
<1> HIDE DEF r, h
<1>3. /\ z \in Seq(S) /\ Len(z) = 1 + Len(r)
      /\ \A i \in 1 .. Len(h) : z[i] = h[i]
      /\ \A i \in 1 .. Len(r) : z[Len(h) + i] = r[i]
  BY <1>1, <1>2, ConcatIs
<1> HIDE DEF z
<1>4. ASSUME NEW i \in 1 .. Len(z)
      PROVE  z[i] = q[i]
  <2>1. CASE i = 1
    BY <1>2, <1>3, <2>1
  <2>2. CASE i # 1
    <3>1. i - 1 \in 1 .. Len(r) /\ 1 + (i - 1) = i /\ (i - 1) + 1 = i
          /\ i - 1 \in 1 .. Len(q) - 1
      BY <1>1, <1>3, <2>2
    <3>2. z[1 + (i - 1)] = r[i - 1] /\ r[i - 1] = q[(i - 1) + 1]
      BY <1>1, <1>2, <1>3, <3>1
    <3> QED
      BY <3>1, <3>2
  <2> QED
    BY <2>1, <2>2
<1>5. Len(z) = Len(q)
  BY <1>1, <1>3
<1> QED
  BY <1>3, <1>4, <1>5, SeqEqual DEF z, h, r

\* There is a number of elements in G.
LEMMA CountType ==
  ASSUME NEW S, NEW q \in Seq(S), NEW G
  PROVE  /\ CountIn(q, G) \in Nat
         /\ IsFiniteSet({i \in 1 .. Len(q) : q[i] \in G})
         /\ CountIn(q, G) = 0 <=> \A i \in 1 .. Len(q) : q[i] \notin G
<1> DEFINE A == {i \in 1 .. Len(q) : q[i] \in G}
<1>1. IsFiniteSet(1 .. Len(q))
  BY FS_Interval
<1>2. A \in SUBSET (1 .. Len(q))
  OBVIOUS
<1>3. IsFiniteSet(A)
  BY <1>1, <1>2, FS_Subset
<1>4. A = {} <=> \A i \in 1 .. Len(q) : q[i] \notin G
  OBVIOUS
<1>5. CountIn(q, G) = Cardinality(A)
  BY DEF CountIn
<1> HIDE DEF A
<1>6. Cardinality(A) \in Nat /\ (Cardinality(A) = 0 <=> A = {})
  BY <1>3, FS_CardinalityType, FS_EmptySet
<1> QED
  BY <1>3, <1>4, <1>5, <1>6 DEF A

\* Those of two sequences in a row are those of both.
LEMMA CountConcat ==
  ASSUME NEW S, NEW x \in Seq(S), NEW y \in Seq(S), NEW G
  PROVE  CountIn(x \o y, G) = CountIn(x, G) + CountIn(y, G)
<1> DEFINE k == Len(x)
           z == x \o y
           A == {i \in 1 .. Len(x) : x[i] \in G}
           B == {i \in 1 .. Len(y) : y[i] \in G}
           C == {i \in 1 .. Len(z) : z[i] \in G}
           D == C \ A
           f == [i \in B |-> k + i]
<1>1. /\ z \in Seq(S) /\ Len(z) = k + Len(y) /\ k \in Nat /\ Len(y) \in Nat
      /\ \A i \in 1 .. k : z[i] = x[i]
      /\ \A i \in 1 .. Len(y) : z[k + i] = y[i]
  BY ConcatIs
<1>2. /\ IsFiniteSet(A) /\ IsFiniteSet(B) /\ IsFiniteSet(C)
      /\ Cardinality(A) = CountIn(x, G) /\ Cardinality(B) = CountIn(y, G)
      /\ Cardinality(C) = CountIn(z, G)
  BY <1>1, CountType DEF CountIn
<1>3. A \subseteq C /\ A \cap D = {} /\ A \cup D = C
  BY <1>1
<1>4. \A i \in B : k + i \in D
  BY <1>1
<1>5. \A c \in D : c - k \in B /\ k + (c - k) = c
  <2> SUFFICES ASSUME NEW c \in D
               PROVE  c - k \in B /\ k + (c - k) = c
    OBVIOUS
  <2>1. c \in 1 .. k + Len(y) /\ z[c] \in G
    BY <1>1
  <2>2. ~ (c <= k)
    <3> SUFFICES ASSUME c <= k PROVE FALSE
      OBVIOUS
    <3>1. c \in 1 .. k
      BY <1>1, <2>1
    <3>2. c \in A
      BY <1>1, <2>1, <3>1
    <3> QED
      BY <3>2
  <2>3. c - k \in 1 .. Len(y) /\ k + (c - k) = c
    BY <1>1, <2>1, <2>2
  <2> QED
    BY <1>1, <2>1, <2>3
<1>6. f \in Bijection(B, D)
  <2>1. f \in [B -> D]
    BY <1>4
  <2>2. \A i, j \in B : f[i] = f[j] => i = j
    BY <1>1
  <2>3. \A c \in D : \E i \in B : f[i] = c
    BY <1>5
  <2>4. f \in Injection(B, D)
    BY <2>1, <2>2 DEF Injection, IsInjective
  <2>5. f \in Surjection(B, D)
    BY <2>1, <2>3 DEF Surjection
  <2> QED
    BY <2>4, <2>5 DEF Bijection
<1> HIDE DEF A, B, C, D, f, z
<1>7. IsFiniteSet(D) /\ Cardinality(D) = Cardinality(B)
  BY <1>2, <1>6, FS_Bijection DEF ExistsBijection
<1>8. Cardinality(C) = Cardinality(A) + Cardinality(D)
  <2>1. Cardinality(A \cup D) = Cardinality(A) + Cardinality(D) - Cardinality(A \cap D)
    BY <1>2, <1>7, FS_Union
  <2>2. Cardinality(A) \in Nat /\ Cardinality(D) \in Nat
    BY <1>2, <1>7, FS_CardinalityType
  <2>3. Cardinality(A \cap D) = 0
    BY <1>3, FS_EmptySet
  <2>4. Cardinality(C) = Cardinality(A) + Cardinality(D) - 0
    BY <1>3, <2>1, <2>3
  <2> QED
    BY <2>2, <2>4
<1> QED
  BY <1>2, <1>7, <1>8 DEF z

\* Of a single element there is one, or none.
LEMMA CountOne ==
  ASSUME NEW h, NEW G
  PROVE  CountIn(<<h>>, G) = IF h \in G THEN 1 ELSE 0
<1> DEFINE A == {i \in 1 .. Len(<<h>>) : <<h>>[i] \in G}
<1>1. A = IF h \in G THEN {1} ELSE {}
  OBVIOUS
<1>2. CountIn(<<h>>, G) = Cardinality(A)
  BY DEF CountIn
<1> HIDE DEF A
<1> QED
  BY <1>1, <1>2, FS_EmptySet, FS_Singleton

\* Those of a sequence without its first element.
LEMMA CountTail ==
  ASSUME NEW S, NEW q \in Seq(S), q # << >>, NEW G
  PROVE  CountIn(q, G) = CountIn(Tail(q), G) + IF Head(q) \in G THEN 1 ELSE 0
<1> DEFINE h == <<Head(q)>>
           r == Tail(q)
<1>1. h \in Seq(S) /\ r \in Seq(S) /\ h \o r = q
  BY HeadFirst, TailIs
<1>2. CountIn(h, G) = IF Head(q) \in G THEN 1 ELSE 0
  BY CountOne
<1> HIDE DEF h, r
<1>3. CountIn(h \o r, G) = CountIn(h, G) + CountIn(r, G)
  BY <1>1, CountConcat
<1>4. CountIn(r, G) \in Nat /\ CountIn(h, G) \in Nat
  BY <1>1, CountType
<1>5. CountIn(q, G) = CountIn(r, G) + CountIn(h, G)
  BY <1>1, <1>3, <1>4
<1> QED
  BY <1>2, <1>5 DEF r

\* Those of a sequence with one more element.
LEMMA CountAppend ==
  ASSUME NEW S, NEW q \in Seq(S), NEW e \in S, NEW G
  PROVE  CountIn(Append(q, e), G) = CountIn(q, G) + IF e \in G THEN 1 ELSE 0
<1>1. Append(q, e) = q \o <<e>> /\ <<e>> \in Seq(S)
  BY AppendIsConcat
<1>2. CountIn(q \o <<e>>, G) = CountIn(q, G) + CountIn(<<e>>, G)
  BY <1>1, CountConcat
<1> QED
  BY <1>1, <1>2, CountOne

-----------------------------------------------------------------------------
(* Messages leave at the front.                                            *)

\* r is q without its first d messages.
Drops(r, q, d) ==
    /\ d \in Nat /\ Len(r) = Len(q) - d
    /\ \A i \in 1 .. Len(r) : r[i] = q[i + d]

\* No enumeration reaches over the first d messages.
CutsClean(q, d) == \A j \in 1 .. d : IsEnum(q[j]) => j + q[j].remaining <= d

\* What the last message about a template says is so, with no exception.
TellsAll(q, T) ==
    \A i \in 1 .. Len(q) : \A f \in Fids : NoneAfter(q, i, q[i].gid, f) =>
        SaysOne(q, T, i, f) /\ SaysAll(q, T, i, f)

\* What is known of a message.
LEMMA MessageAt ==
  ASSUME NEW q \in Seq(MessageSet), NEW i \in 1 .. Len(q)
  PROVE  /\ q[i] \in MessageSet /\ q[i].remaining \in Nat /\ q[i].gid \in Users
         /\ q[i].fid \in Fids \cup {AnyFid} /\ q[i].s \in 1 .. MaxSessions
<1>1. q[i] \in MessageSet
  OBVIOUS
<1> QED
  BY <1>1 DEF MessageSet

\* What is left of the stream still counts down.
LEMMA DropCountsDown ==
  ASSUME NEW q \in Seq(MessageSet), NEW r \in Seq(MessageSet), NEW d,
         Drops(r, q, d), CountsDown(q)
  PROVE  CountsDown(r)
<1>1. d \in Nat /\ Len(r) \in Nat /\ Len(q) \in Nat /\ Len(r) = Len(q) - d
  BY DEF Drops
<1> SUFFICES ASSUME NEW k \in 1 .. Len(r), IsEnum(r[k]),
                    NEW j \in 0 .. r[k].remaining
             PROVE  /\ k + j <= Len(r)
                    /\ IsEnum(r[k + j])
                    /\ r[k + j].remaining = r[k].remaining - j
                    /\ r[k + j].gid = r[k].gid /\ r[k + j].s = r[k].s
  BY DEF CountsDown
<1>2. r[k] = q[k + d] /\ k + d \in 1 .. Len(q)
  BY <1>1 DEF Drops
<1>3. /\ (k + d) + j <= Len(q)
      /\ IsEnum(q[(k + d) + j])
      /\ q[(k + d) + j].remaining = q[k + d].remaining - j
      /\ q[(k + d) + j].gid = q[k + d].gid /\ q[(k + d) + j].s = q[k + d].s
  BY <1>2 DEF CountsDown
<1>4. j \in Nat
  <2>1. r[k].remaining \in Nat
    BY MessageAt
  <2> QED
    BY <2>1
<1>5. k + j \in 1 .. Len(r) /\ (k + j) + d = (k + d) + j
  BY <1>1, <1>3, <1>4
<1>6. r[k + j] = q[(k + d) + j]
  BY <1>5 DEF Drops
<1> QED
  BY <1>2, <1>3, <1>5, <1>6

\* Nothing settles a template after the first i of them just when nothing did
\* after the first i + d of the whole.
LEMMA DropNoneAfter ==
  ASSUME NEW q \in Seq(MessageSet), NEW r \in Seq(MessageSet), NEW d,
         Drops(r, q, d), NEW i \in Nat, NEW u, NEW f
  PROVE  NoneAfter(r, i, u, f) <=> NoneAfter(q, i + d, u, f)
<1>1. d \in Nat /\ Len(r) \in Nat /\ Len(q) \in Nat /\ Len(r) = Len(q) - d
  BY DEF Drops
<1>2. ASSUME NoneAfter(r, i, u, f), NEW k \in 1 .. Len(q), k > i + d
      PROVE  ~Settles(q[k], u, f)
  <2>1. k - d \in 1 .. Len(r) /\ k - d > i /\ (k - d) + d = k
    BY <1>1, <1>2
  <2>2. r[k - d] = q[(k - d) + d]
    BY <2>1 DEF Drops
  <2>3. r[k - d] = q[k]
    BY <2>1, <2>2
  <2>4. ~Settles(r[k - d], u, f)
    BY <1>2, <2>1 DEF NoneAfter
  <2> QED
    BY <2>3, <2>4
<1>3. ASSUME NoneAfter(q, i + d, u, f), NEW k \in 1 .. Len(r), k > i
      PROVE  ~Settles(r[k], u, f)
  <2>1. k + d \in 1 .. Len(q) /\ k + d > i + d
    BY <1>1, <1>3
  <2>2. r[k] = q[k + d]
    BY DEF Drops
  <2>3. ~Settles(q[k + d], u, f)
    BY <1>3, <2>1 DEF NoneAfter
  <2> QED
    BY <2>2, <2>3
<1>4. NoneAfter(r, i, u, f) => NoneAfter(q, i + d, u, f)
  BY <1>2 DEF NoneAfter
<1>5. NoneAfter(q, i + d, u, f) => NoneAfter(r, i, u, f)
  BY <1>3 DEF NoneAfter
<1> QED
  BY <1>4, <1>5

\* An enumeration lists what it did, unless the first d belonged to it.
LEMMA DropLists ==
  ASSUME NEW q \in Seq(MessageSet), NEW r \in Seq(MessageSet), NEW d,
         Drops(r, q, d), NEW i \in 1 .. Len(r), NEW f,
         \A j \in 1 .. d : IsEnum(q[j]) => j + q[j].remaining # i + d
  PROVE  Lists(r, i, f) <=> Lists(q, i + d, f)
<1>1. d \in Nat /\ Len(r) \in Nat /\ Len(q) \in Nat /\ Len(r) = Len(q) - d
  BY DEF Drops
<1>2. ASSUME NEW j \in 1 .. i, IsEnum(r[j]), j + r[j].remaining = i, r[j].fid = f
      PROVE  Lists(q, i + d, f)
  <2>1. j + d \in 1 .. i + d /\ j \in 1 .. Len(r)
    BY <1>1
  <2>2. r[j] = q[j + d]
    BY <2>1 DEF Drops
  <2> DEFINE n == r[j].remaining
  <2>3. n \in Nat /\ j + n = i /\ j \in Nat /\ i \in Nat
    BY <1>1, <1>2, <2>1, MessageAt
  <2> HIDE DEF n
  <2>4. (j + d) + n = i + d
    BY <1>1, <2>3
  <2> QED
    BY <1>2, <2>1, <2>2, <2>4 DEF Lists, n
<1>3. ASSUME NEW j \in 1 .. i + d, IsEnum(q[j]), j + q[j].remaining = i + d, q[j].fid = f
      PROVE  Lists(r, i, f)
  <2>1. ~ (j <= d)
    BY <1>1, <1>3
  <2>2. j - d \in 1 .. i /\ (j - d) + d = j /\ j - d \in 1 .. Len(r) /\ j \in 1 .. Len(q)
    BY <1>1, <2>1
  <2>3. r[j - d] = q[(j - d) + d]
    BY <2>2 DEF Drops
  <2>4. r[j - d] = q[j]
    BY <2>2, <2>3
  <2> DEFINE n == q[j].remaining
  <2>5. n \in Nat /\ j + n = i + d /\ j \in Nat /\ i \in Nat
    BY <1>1, <1>3, <2>2, MessageAt
  <2> HIDE DEF n
  <2>6. (j - d) + n = i
    BY <1>1, <2>5
  <2> QED
    BY <1>3, <2>2, <2>4, <2>6 DEF Lists, n
<1>4. Lists(r, i, f) => Lists(q, i + d, f)
  BY <1>2 DEF Lists
<1>5. Lists(q, i + d, f) => Lists(r, i, f)
  BY <1>3 DEF Lists
<1> QED
  BY <1>4, <1>5

\* Without an enumeration cut in two, what is left says what is so.
LEMMA DropTells ==
  ASSUME NEW q \in Seq(MessageSet), NEW r \in Seq(MessageSet), NEW d, NEW T,
         Drops(r, q, d), d # 0, CutsClean(q, d), Tells(q, T)
  PROVE  TellsAll(r, T)
<1>1. d \in Nat /\ Len(r) \in Nat /\ Len(q) \in Nat /\ Len(r) = Len(q) - d
  BY DEF Drops
<1> SUFFICES ASSUME NEW i \in 1 .. Len(r), NEW f \in Fids,
                    NoneAfter(r, i, r[i].gid, f)
             PROVE  SaysOne(r, T, i, f) /\ SaysAll(r, T, i, f)
  BY DEF TellsAll
<1>2. i \in Nat /\ i + d \in 1 .. Len(q) /\ i + d > d
  BY <1>1
<1>3. r[i] = q[i + d]
  BY DEF Drops
<1>4. NoneAfter(q, i + d, q[i + d].gid, f)
  BY <1>2, <1>3, DropNoneAfter
<1>5. SaysOne(q, T, i + d, f) /\ (AtHead(q, i + d) \/ SaysAll(q, T, i + d, f))
  BY <1>2, <1>4 DEF Tells
<1>6. ASSUME NEW j \in 1 .. d, IsEnum(q[j])
      PROVE  j + q[j].remaining # i + d
  <2>1. j \in 1 .. Len(q)
    BY <1>1
  <2>2. q[j].remaining \in Nat
    BY <2>1, MessageAt
  <2>3. j + q[j].remaining <= d
    BY <1>6 DEF CutsClean
  <2> QED
    BY <1>1, <1>2, <2>2, <2>3
<1>7. ~AtHead(q, i + d)
  <2>1. 1 \in 1 .. d
    BY <1>1
  <2> QED
    BY <1>6, <2>1 DEF AtHead
<1>8. Lists(r, i, f) <=> Lists(q, i + d, f)
  BY <1>6, DropLists
<1> QED
  BY <1>3, <1>5, <1>7, <1>8 DEF SaysOne, SaysAll

\* With no exception, what it says is so with one; and of the enumeration at its
\* head nothing has been delivered.
LEMMA FreshList ==
  ASSUME NEW r \in Seq(MessageSet), NEW T, TellsAll(r, T), CountsDown(r)
  PROVE  Tells(r, T) /\ ListTrue(r, T, << >>)
<1>1. Tells(r, T)
  BY DEF Tells, TellsAll
<1>2. ASSUME r # << >>, IsEnum(r[1]), NEW f \in Fids,
             NoneAfter(r, 1 + r[1].remaining, r[1].gid, f)
      PROVE  f \in T[r[1].gid] <=> f \in ToSet(<< >>) \/ Lists(r, 1 + r[1].remaining, f)
  <2>1. 1 \in 1 .. Len(r)
    BY <1>2
  <2>2. r[1].remaining \in Nat
    BY <2>1, MessageAt
  <2> DEFINE n == r[1].remaining
  <2>3. /\ 1 + n <= Len(r) /\ IsEnum(r[1 + n]) /\ r[1 + n].remaining = n - n
        /\ r[1 + n].gid = r[1].gid
    BY <1>2, <2>1, <2>2 DEF CountsDown
  <2>4. 1 + n \in 1 .. Len(r) /\ IsEnd(r[1 + n])
    BY <2>2, <2>3 DEF IsEnd
  <2>5. SaysAll(r, T, 1 + n, f)
    BY <1>2, <2>3, <2>4 DEF TellsAll
  <2>6. f \notin ToSet(<< >>)
    BY DEF ToSet
  <2> QED
    BY <2>3, <2>4, <2>5, <2>6 DEF SaysAll
<1> QED
  BY <1>1, <1>2 DEF ListTrue
\* What a list holds with one more element.
LEMMA ToSetAppend ==
  ASSUME NEW S, NEW list \in Seq(S), NEW e \in S, NEW f
  PROVE  f \in ToSet(Append(list, e)) <=> f \in ToSet(list) \/ f = e
<1> DEFINE app == Append(list, e)
<1>1. /\ Len(list) \in Nat /\ Len(app) = Len(list) + 1
      /\ DOMAIN list = 1 .. Len(list) /\ DOMAIN app = 1 .. Len(list) + 1
      /\ \A i \in 1 .. Len(list) : app[i] = list[i]
      /\ app[Len(list) + 1] = e
  OBVIOUS
<1> HIDE DEF app
<1>2. ASSUME f \in ToSet(app) PROVE f \in ToSet(list) \/ f = e
  <2>1. PICK i \in 1 .. Len(list) + 1 : app[i] = f
    BY <1>1, <1>2 DEF ToSet
  <2>2. i \in 1 .. Len(list) \/ i = Len(list) + 1
    BY <1>1
  <2> QED
    BY <1>1, <2>1, <2>2 DEF ToSet
<1>3. ASSUME f \in ToSet(list) PROVE f \in ToSet(app)
  <2>1. PICK i \in 1 .. Len(list) : list[i] = f
    BY <1>1, <1>3 DEF ToSet
  <2>2. i \in 1 .. Len(list) + 1 /\ app[i] = f
    BY <1>1, <2>1
  <2> QED
    BY <1>1, <2>2 DEF ToSet
<1>4. e \in ToSet(app)
  <2>1. Len(list) + 1 \in 1 .. Len(list) + 1
    BY <1>1
  <2> QED
    BY <1>1, <2>1 DEF ToSet
<1> QED
  BY <1>2, <1>3, <1>4 DEF app

\* The enumeration at the head lists its first message and what the others list.
LEMMA ListsFirst ==
  ASSUME NEW q \in Seq(MessageSet), NEW r \in Seq(MessageSet),
         Drops(r, q, 1), q # << >>, IsEnum(q[1]), NEW n \in Nat \ {0},
         q[1].remaining = n, 1 + n <= Len(q), NEW f
  PROVE  Lists(q, 1 + n, f) <=> f = q[1].fid \/ Lists(r, n, f)
<1>1. Len(r) \in Nat /\ Len(q) \in Nat /\ Len(r) = Len(q) - 1
  BY DEF Drops
<1>2. f = q[1].fid => Lists(q, 1 + n, f)
  <2>1. 1 \in 1 .. 1 + n
    OBVIOUS
  <2> QED
    BY <2>1 DEF Lists
<1>3. ASSUME Lists(q, 1 + n, f), f # q[1].fid PROVE Lists(r, n, f)
  <2>1. PICK j \in 1 .. 1 + n : IsEnum(q[j]) /\ j + q[j].remaining = 1 + n /\ q[j].fid = f
    BY <1>3 DEF Lists
  <2> DEFINE m == q[j].remaining
  <2>2. j # 1 /\ j \in 1 .. Len(q)
    BY <1>1, <1>3, <2>1
  <2>3. m \in Nat /\ j + m = 1 + n
    BY <2>1, <2>2, MessageAt
  <2> HIDE DEF m
  <2>4. /\ j - 1 \in 1 .. n /\ j - 1 \in 1 .. Len(r) /\ (j - 1) + 1 = j
        /\ (j - 1) + m = n
    BY <1>1, <2>2, <2>3
  <2>5. r[j - 1] = q[(j - 1) + 1]
    BY <2>4 DEF Drops
  <2>6. r[j - 1] = q[j]
    BY <2>4, <2>5
  <2> QED
    BY <2>1, <2>4, <2>6 DEF Lists, m
<1>4. ASSUME Lists(r, n, f) PROVE Lists(q, 1 + n, f)
  <2>1. PICK j \in 1 .. n : IsEnum(r[j]) /\ j + r[j].remaining = n /\ r[j].fid = f
    BY <1>4 DEF Lists
  <2> DEFINE m == r[j].remaining
  <2>2. j \in 1 .. Len(r)
    BY <1>1
  <2>3. m \in Nat /\ j + m = n
    BY <2>1, <2>2, MessageAt
  <2> HIDE DEF m
  <2>4. j + 1 \in 1 .. 1 + n /\ (j + 1) + m = 1 + n
    BY <2>3
  <2>5. r[j] = q[j + 1]
    BY <2>2 DEF Drops
  <2> QED
    BY <2>1, <2>4, <2>5 DEF Lists, m
<1> QED
  BY <1>2, <1>3, <1>4

\* In the middle of an enumeration, what it has delivered moves to the list.
LEMMA NextOfList ==
  ASSUME NEW q \in Seq(MessageSet), NEW r \in Seq(MessageSet), NEW T,
         Drops(r, q, 1), q # << >>, IsEnum(q[1]), q[1].remaining # 0,
         CountsDown(q), Tells(q, T)
  PROVE  /\ Tells(r, T)
         /\ \A list \in Seq(Fids \cup {AnyFid}) :
                ListTrue(q, T, list) => ListTrue(r, T, Append(list, q[1].fid))
<1> DEFINE n == q[1].remaining
<1>1. Len(r) \in Nat /\ Len(q) \in Nat /\ Len(r) = Len(q) - 1 /\ 1 \in 1 .. Len(q)
  BY DEF Drops
<1>2. n \in Nat /\ n # 0
  BY <1>1, MessageAt
<1>3. 1 \in 0 .. n /\ n \in 0 .. n /\ n - n = 0
  BY <1>2
<1>4. /\ 1 + 1 <= Len(q) /\ IsEnum(q[1 + 1]) /\ q[1 + 1].remaining = n - 1
      /\ q[1 + 1].gid = q[1].gid
      /\ 1 + n <= Len(q) /\ IsEnum(q[1 + n]) /\ q[1 + n].remaining = n - n
      /\ q[1 + n].gid = q[1].gid
  BY <1>1, <1>3 DEF CountsDown
<1>5. 1 \in 1 .. Len(r) /\ r[1] = q[1 + 1] /\ r # << >>
  <2>1. 1 \in 1 .. Len(r)
    BY <1>1, <1>4
  <2> QED
    BY <2>1 DEF Drops
<1>6. IsEnum(r[1]) /\ r[1].gid = q[1].gid /\ 1 + r[1].remaining = n
  BY <1>2, <1>4, <1>5
<1>7. ASSUME NEW i \in 1 .. Len(r), i # n, NEW f
      PROVE  ~AtHead(q, i + 1) /\ (Lists(r, i, f) <=> Lists(q, i + 1, f))
  <2>1. i \in Nat /\ 1 + n # i + 1
    BY <1>1, <1>2, <1>7
  <2>2. \A j \in 1 .. 1 : IsEnum(q[j]) => j + q[j].remaining # i + 1
    BY <2>1
  <2> QED
    BY <2>1, <2>2, DropLists DEF AtHead
<1>8. Tells(r, T)
  <2> SUFFICES ASSUME NEW i \in 1 .. Len(r), NEW f \in Fids,
                      NoneAfter(r, i, r[i].gid, f)
               PROVE  SaysOne(r, T, i, f) /\ (AtHead(r, i) \/ SaysAll(r, T, i, f))
    BY DEF Tells
  <2>1. i \in Nat /\ i + 1 \in 1 .. Len(q)
    BY <1>1
  <2>2. r[i] = q[i + 1]
    BY DEF Drops
  <2>3. NoneAfter(q, i + 1, q[i + 1].gid, f)
    BY <2>1, <2>2, DropNoneAfter
  <2>4. SaysOne(q, T, i + 1, f) /\ (AtHead(q, i + 1) \/ SaysAll(q, T, i + 1, f))
    BY <2>1, <2>3 DEF Tells
  <2>5. SaysOne(r, T, i, f)
    BY <2>2, <2>4 DEF SaysOne
  <2>6. CASE i = n
    BY <1>6, <2>5, <2>6 DEF AtHead
  <2>7. CASE i # n
    BY <1>7, <2>2, <2>4, <2>5, <2>7 DEF SaysAll
  <2> QED
    BY <2>6, <2>7
<1>9. ASSUME NEW list \in Seq(Fids \cup {AnyFid}), ListTrue(q, T, list)
      PROVE  ListTrue(r, T, Append(list, q[1].fid))
  <2> DEFINE app == Append(list, q[1].fid)
  <2>1. ASSUME NEW f \in Fids, NoneAfter(r, n, r[1].gid, f)
        PROVE  f \in T[r[1].gid] <=> f \in ToSet(app) \/ Lists(r, n, f)
    <3>1. NoneAfter(q, n + 1, q[1].gid, f) /\ n + 1 = 1 + n
      BY <1>2, <1>6, <2>1, DropNoneAfter
    <3>2. f \in T[q[1].gid] <=> f \in ToSet(list) \/ Lists(q, 1 + n, f)
      BY <1>9, <3>1 DEF ListTrue
    <3>3. f \in ToSet(app) <=> f \in ToSet(list) \/ f = q[1].fid
      BY <1>1, MessageAt, ToSetAppend
    <3>4. Lists(q, 1 + n, f) <=> f = q[1].fid \/ Lists(r, n, f)
      BY <1>2, <1>4, ListsFirst
    <3> QED
      BY <1>6, <3>2, <3>3, <3>4
  <2> QED
    BY <1>5, <1>6, <2>1 DEF ListTrue
<1> QED
  BY <1>8, <1>9
-----------------------------------------------------------------------------
(* Messages join at the end.                                               *)

\* The messages x say how the templates have changed from T to U.
GoodBlock(x, T, U) ==
    /\ CountsDown(x)
    /\ TellsAll(x, U)
    /\ \A u \in Users : \A f \in Fids :
           NoneAfter(x, 0, u, f) => (f \in U[u] <=> f \in T[u])

\* What follows the first part of a stream is what is left without it.
LEMMA ConcatDrops ==
  ASSUME NEW q \in Seq(MessageSet), NEW x \in Seq(MessageSet)
  PROVE  q \o x \in Seq(MessageSet) /\ Drops(x, q \o x, Len(q))
<1> DEFINE z == q \o x
<1>1. /\ z \in Seq(MessageSet) /\ Len(z) = Len(q) + Len(x)
      /\ Len(q) \in Nat /\ Len(x) \in Nat
      /\ \A i \in 1 .. Len(x) : z[Len(q) + i] = x[i]
  BY ConcatIs
<1> HIDE DEF z
<1>2. ASSUME NEW i \in 1 .. Len(x) PROVE x[i] = z[i + Len(q)]
  <2>1. i + Len(q) = Len(q) + i
    BY <1>1
  <2> QED
    BY <1>1, <2>1
<1>3. Len(x) = Len(z) - Len(q)
  BY <1>1
<1>4. Drops(x, z, Len(q))
  BY <1>1, <1>2, <1>3 DEF Drops
<1> QED
  BY <1>1, <1>4 DEF z

\* Two streams that count down do so in a row.
LEMMA ConcatCountsDown ==
  ASSUME NEW q \in Seq(MessageSet), NEW x \in Seq(MessageSet),
         CountsDown(q), CountsDown(x)
  PROVE  CountsDown(q \o x)
<1> DEFINE z == q \o x
<1>1. /\ z \in Seq(MessageSet) /\ Len(z) = Len(q) + Len(x)
      /\ Len(q) \in Nat /\ Len(x) \in Nat
      /\ \A i \in 1 .. Len(q) : z[i] = q[i]
      /\ \A i \in 1 .. Len(x) : z[Len(q) + i] = x[i]
  BY ConcatIs
<1> HIDE DEF z
<1> SUFFICES ASSUME NEW k \in 1 .. Len(z), IsEnum(z[k]),
                    NEW j \in 0 .. z[k].remaining
             PROVE  /\ k + j <= Len(z)
                    /\ IsEnum(z[k + j])
                    /\ z[k + j].remaining = z[k].remaining - j
                    /\ z[k + j].gid = z[k].gid /\ z[k + j].s = z[k].s
  BY DEF CountsDown, z
<1>2. j \in Nat
  <2>1. z[k].remaining \in Nat
    BY <1>1, MessageAt
  <2> QED
    BY <2>1
<1>3. CASE k <= Len(q)
  <2>1. k \in 1 .. Len(q) /\ z[k] = q[k]
    BY <1>1, <1>3
  <2>2. /\ k + j <= Len(q)
        /\ IsEnum(q[k + j])
        /\ q[k + j].remaining = q[k].remaining - j
        /\ q[k + j].gid = q[k].gid /\ q[k + j].s = q[k].s
    BY <2>1 DEF CountsDown
  <2>3. k + j \in 1 .. Len(q) /\ k + j <= Len(z)
    BY <1>1, <1>2, <2>2
  <2>4. z[k + j] = q[k + j]
    BY <1>1, <2>3
  <2> QED
    BY <2>1, <2>2, <2>3, <2>4
<1>4. CASE ~ (k <= Len(q))
  <2> DEFINE c == k - Len(q)
  <2>1. c \in 1 .. Len(x) /\ Len(q) + c = k
    BY <1>1, <1>4
  <2> HIDE DEF c
  <2>2. z[k] = x[c]
    BY <1>1, <2>1
  <2>3. /\ c + j <= Len(x)
        /\ IsEnum(x[c + j])
        /\ x[c + j].remaining = x[c].remaining - j
        /\ x[c + j].gid = x[c].gid /\ x[c + j].s = x[c].s
    BY <2>1, <2>2 DEF CountsDown
  <2>4. c + j \in 1 .. Len(x) /\ k + j = Len(q) + (c + j) /\ k + j <= Len(z)
    BY <1>1, <1>2, <2>1, <2>3
  <2>5. z[k + j] = x[c + j]
    BY <1>1, <2>4
  <2> QED
    BY <2>2, <2>3, <2>4, <2>5
<1> QED
  BY <1>3, <1>4

\* Nothing settles a template after the first i of q \o x only if nothing in x
\* does and nothing after the first i of q.
LEMMA ConcatNoneAfter ==
  ASSUME NEW q \in Seq(MessageSet), NEW x \in Seq(MessageSet), NEW i \in 0 .. Len(q),
         NEW u, NEW f, NoneAfter(q \o x, i, u, f)
  PROVE  NoneAfter(q, i, u, f) /\ NoneAfter(x, 0, u, f)
<1> DEFINE z == q \o x
<1>1. /\ Len(z) = Len(q) + Len(x) /\ Len(q) \in Nat /\ Len(x) \in Nat
      /\ \A k \in 1 .. Len(q) : z[k] = q[k]
      /\ \A k \in 1 .. Len(x) : z[Len(q) + k] = x[k]
  BY ConcatIs
<1>2. \A k \in 1 .. Len(z) : k > i => ~Settles(z[k], u, f)
  BY DEF NoneAfter
<1> HIDE DEF z
<1>3. ASSUME NEW k \in 1 .. Len(q), k > i PROVE ~Settles(q[k], u, f)
  <2>1. k \in 1 .. Len(z) /\ z[k] = q[k]
    BY <1>1
  <2> QED
    BY <1>2, <1>3, <2>1
<1>4. ASSUME NEW k \in 1 .. Len(x) PROVE ~Settles(x[k], u, f)
  <2>1. Len(q) + k \in 1 .. Len(z) /\ Len(q) + k > i
    BY <1>1
  <2>2. z[Len(q) + k] = x[k]
    BY <1>1
  <2> QED
    BY <1>2, <2>1, <2>2
<1> QED
  BY <1>3, <1>4 DEF NoneAfter

\* An enumeration that ends in q lists the same with more messages behind q.
LEMMA ConcatLists ==
  ASSUME NEW q \in Seq(MessageSet), NEW x \in Seq(MessageSet), NEW i \in 1 .. Len(q), NEW f
  PROVE  Lists(q \o x, i, f) <=> Lists(q, i, f)
<1> DEFINE z == q \o x
<1>1. Len(q) \in Nat /\ \A k \in 1 .. Len(q) : z[k] = q[k]
  BY ConcatIs
<1> HIDE DEF z
<1>2. \A k \in 1 .. i : z[k] = q[k]
  BY <1>1
<1> QED
  BY <1>2 DEF Lists, z

\* More messages at the end that say what has changed keep all of it right.
LEMMA AppendKeeps ==
  ASSUME NEW q \in Seq(MessageSet), NEW x \in Seq(MessageSet), NEW T, NEW U,
         CountsDown(q), Tells(q, T), GoodBlock(x, T, U)
  PROVE  /\ q \o x \in Seq(MessageSet) /\ CountsDown(q \o x) /\ Tells(q \o x, U)
         /\ \A list : ListTrue(q, T, list) => ListTrue(q \o x, U, list)
         /\ \A u \in Users : \A told_u :
                ToldTrue(q, T, u, told_u) => ToldTrue(q \o x, U, u, told_u)
<1> DEFINE z == q \o x
<1>1. /\ z \in Seq(MessageSet) /\ Len(z) = Len(q) + Len(x)
      /\ Len(q) \in Nat /\ Len(x) \in Nat
      /\ \A i \in 1 .. Len(q) : z[i] = q[i]
      /\ \A i \in 1 .. Len(x) : z[Len(q) + i] = x[i]
  BY ConcatIs
<1>2. CountsDown(x) /\ TellsAll(x, U)
  BY DEF GoodBlock
<1>3. CountsDown(z)
  BY <1>2, ConcatCountsDown
<1>4. Drops(x, z, Len(q))
  BY ConcatDrops
<1>5. ASSUME NEW i \in 0 .. Len(q), NEW u \in Users, NEW f \in Fids, NoneAfter(z, i, u, f)
      PROVE  NoneAfter(q, i, u, f) /\ (f \in U[u] <=> f \in T[u])
  <2>1. NoneAfter(q, i, u, f) /\ NoneAfter(x, 0, u, f)
    BY <1>5, ConcatNoneAfter
  <2> QED
    BY <2>1 DEF GoodBlock
<1>6. ASSUME NEW i \in 1 .. Len(q), NEW f
      PROVE  Lists(z, i, f) <=> Lists(q, i, f)
  BY ConcatLists
<1> HIDE DEF z
<1>7. Tells(z, U)
  <2> SUFFICES ASSUME NEW i \in 1 .. Len(z), NEW f \in Fids,
                      NoneAfter(z, i, z[i].gid, f)
               PROVE  SaysOne(z, U, i, f) /\ (AtHead(z, i) \/ SaysAll(z, U, i, f))
    BY DEF Tells
  <2>1. CASE i <= Len(q)
    <3>1. i \in 1 .. Len(q) /\ i \in 0 .. Len(q) /\ 1 \in 1 .. Len(q)
      BY <1>1, <2>1
    <3>2. z[i] = q[i] /\ z[1] = q[1] /\ q[i].gid \in Users
      BY <1>1, <3>1, MessageAt
    <3>3. NoneAfter(q, i, q[i].gid, f) /\ (f \in U[q[i].gid] <=> f \in T[q[i].gid])
      BY <1>5, <3>1, <3>2
    <3>4. SaysOne(q, T, i, f) /\ (AtHead(q, i) \/ SaysAll(q, T, i, f))
      BY <3>1, <3>3 DEF Tells
    <3>5. Lists(z, i, f) <=> Lists(q, i, f)
      BY <1>6, <3>1
    <3>6. SaysOne(z, U, i, f)
      BY <3>2, <3>3, <3>4 DEF SaysOne
    <3>7. AtHead(q, i) => AtHead(z, i)
      BY <3>2 DEF AtHead
    <3>8. SaysAll(q, T, i, f) => SaysAll(z, U, i, f)
      BY <3>2, <3>3, <3>5 DEF SaysAll
    <3> QED
      BY <3>4, <3>6, <3>7, <3>8
  <2>2. CASE ~ (i <= Len(q))
    <3> DEFINE c == i - Len(q)
    <3>1. c \in 1 .. Len(x) /\ Len(q) + c = i /\ c + Len(q) = i /\ c \in Nat
      BY <1>1, <2>2
    <3> HIDE DEF c
    <3>2. z[i] = x[c]
      BY <1>1, <3>1
    <3>3. NoneAfter(x, c, x[c].gid, f)
      BY <1>1, <1>4, <3>1, <3>2, DropNoneAfter
    <3>4. SaysOne(x, U, c, f) /\ SaysAll(x, U, c, f)
      BY <1>2, <3>1, <3>3 DEF TellsAll
    <3>5. ASSUME NEW j \in 1 .. Len(q), IsEnum(z[j])
          PROVE  j + z[j].remaining # c + Len(q)
      <4> DEFINE n == q[j].remaining
      <4>1. z[j] = q[j] /\ n \in Nat
        BY <1>1, MessageAt
      <4>2. n \in 0 .. n
        BY <4>1
      <4>3. j + n <= Len(q)
        BY <3>5, <4>1, <4>2 DEF CountsDown
      <4>4. j + n # c + Len(q)
        <5> HIDE DEF n
        <5> QED
          BY <1>1, <3>1, <4>1, <4>3
      <4> QED
        BY <4>1, <4>4
    <3>6. Lists(x, c, f) <=> Lists(z, c + Len(q), f)
      BY <1>1, <1>4, <3>1, <3>5, DropLists
    <3> QED
      BY <3>1, <3>2, <3>4, <3>6 DEF SaysOne, SaysAll
  <2> QED
    BY <2>1, <2>2
<1>8. ASSUME NEW list, ListTrue(q, T, list) PROVE ListTrue(z, U, list)
  <2>1. CASE q = << >>
    <3>1. z = x
      BY <2>1 DEF z
    <3>2. list = << >>
      BY <1>8, <2>1 DEF ListTrue
    <3> QED
      BY <1>2, <3>1, <3>2, FreshList
  <2>2. CASE q # << >>
    <3>1. 1 \in 1 .. Len(q) /\ z[1] = q[1] /\ z # << >>
      BY <1>1, <2>2
    <3>2. CASE ~IsEnum(q[1])
      BY <1>8, <2>2, <3>1, <3>2 DEF ListTrue
    <3>3. CASE IsEnum(q[1])
      <4> DEFINE n == q[1].remaining
      <4>1. n \in Nat /\ q[1].gid \in Users
        BY <3>1, MessageAt
      <4>2. n \in 0 .. n
        BY <4>1
      <4>3. 1 + n <= Len(q)
        BY <3>1, <3>3, <4>2 DEF CountsDown
      <4>4. 1 + n \in 1 .. Len(q) /\ 1 + n \in 0 .. Len(q)
        BY <1>1, <4>1, <4>3
      <4>5. ASSUME NEW f \in Fids, NoneAfter(z, 1 + n, q[1].gid, f)
            PROVE  f \in U[q[1].gid] <=> f \in ToSet(list) \/ Lists(z, 1 + n, f)
        <5>1. /\ NoneAfter(q, 1 + n, q[1].gid, f)
              /\ f \in U[q[1].gid] <=> f \in T[q[1].gid]
          BY <1>5, <4>1, <4>4, <4>5
        <5>2. Lists(z, 1 + n, f) <=> Lists(q, 1 + n, f)
          BY <1>6, <4>4
        <5>3. f \in T[q[1].gid] <=> f \in ToSet(list) \/ Lists(q, 1 + n, f)
          BY <1>8, <2>2, <3>3, <5>1 DEF ListTrue
        <5> QED
          BY <5>1, <5>2, <5>3
      <4> QED
        BY <3>1, <3>3, <4>5 DEF ListTrue
    <3> QED
      BY <3>2, <3>3
  <2> QED
    BY <2>1, <2>2
<1>9. ASSUME NEW u \in Users, NEW told_u, ToldTrue(q, T, u, told_u)
      PROVE  ToldTrue(z, U, u, told_u)
  <2>1. 0 \in 0 .. Len(q)
    BY <1>1
  <2> QED
    BY <1>5, <1>9, <2>1 DEF ToldTrue
<1> QED
  BY <1>1, <1>3, <1>7, <1>8, <1>9 DEF z
-----------------------------------------------------------------------------
(* What the library sends.                                                 *)

\* A finite set has been put in order.
LEMMA OrderedIs ==
  ASSUME NEW S, IsFiniteSet(S)
  PROVE  /\ SetToSeq(S) \in Seq(S) /\ Len(SetToSeq(S)) = Cardinality(S)
         /\ \A e \in S : \E i \in 1 .. Len(SetToSeq(S)) : SetToSeq(S)[i] = e
<1> DEFINE n == Cardinality(S)
           ordered == SetToSeq(S)
<1>1. n \in Nat
  BY FS_CardinalityType
<1>2. IsFiniteSet(1 .. n) /\ Cardinality(1 .. n) = n
  BY <1>1, FS_Interval
<1>3. \E b : b \in Bijection(1 .. n, S)
  BY <1>2, FS_SameCardinalityBij DEF ExistsBijection
<1>4. \E b \in [1 .. n -> S] : IsInjective(b)
  BY <1>3 DEF Bijection, Injection
<1>5. ordered \in [1 .. n -> S] /\ IsInjective(ordered)
  BY <1>4 DEF SetToSeq
<1> HIDE DEF ordered
<1>6. ordered \in Injection(1 .. n, S)
  BY <1>5 DEF Injection
<1>7. ordered \in Surjection(1 .. n, S)
  BY <1>2, <1>6, FS_Injection
<1>8. ordered \in Seq(S) /\ Len(ordered) = n
  BY <1>1, <1>5, LenProperties, SeqDef
<1>9. \A e \in S : \E i \in 1 .. n : ordered[i] = e
  BY <1>7 DEF Surjection
<1> QED
  BY <1>8, <1>9 DEF ordered

\* x has a message about each of the templates fids of user g.
OnePerFid(x, type, g, fids, s) ==
    /\ Len(x) = Cardinality(fids)
    /\ \A i \in 1 .. Len(x) : x[i].type = type /\ x[i].gid = g
                              /\ x[i].remaining = Len(x) - i
                              /\ x[i].fid \in fids /\ x[i].s = s
    /\ \A f \in fids : \E i \in 1 .. Len(x) : x[i].fid = f

\* So have the messages of the library.
LEMMA MessagesAre ==
  ASSUME NEW type \in {"ENUMERATING", "REMOVED"}, NEW fids \in SUBSET Fids,
         NEW s \in 1 .. MaxSessions, group \in Users
  PROVE  /\ Messages(type, fids, s) \in Seq(MessageSet)
         /\ OnePerFid(Messages(type, fids, s), type, group, fids, s)
<1> DEFINE ordered == SetToSeq(fids)
           n == Len(ordered)
           x == Messages(type, fids, s)
<1>1. IsFiniteSet(fids)
  BY FS_Subset, EnrollmentsAssumption
<1>2. /\ ordered \in Seq(fids) /\ n = Cardinality(fids)
      /\ \A e \in fids : \E i \in 1 .. n : ordered[i] = e
  BY <1>1, OrderedIs
<1>3. x = [i \in DOMAIN ordered |-> Message(type, ordered[i], n - i, s)]
  BY DEF Messages
<1> HIDE DEF ordered, x
<1>4. n \in Nat /\ DOMAIN ordered = 1 .. n /\ \A i \in 1 .. n : ordered[i] \in fids
  BY <1>2
<1> HIDE DEF n
<1>5. ASSUME NEW i \in 1 .. n PROVE Message(type, ordered[i], n - i, s) \in MessageSet
  <2>1. n - i \in Nat
    BY <1>4
  <2>2. ordered[i] \in Fids \cup {AnyFid}
    BY <1>4
  <2> QED
    BY <2>1, <2>2 DEF Message, MessageSet
<1>6. x = [i \in 1 .. n |-> Message(type, ordered[i], n - i, s)]
  BY <1>3, <1>4
<1>7. x \in [1 .. n -> MessageSet]
  BY <1>5, <1>6
<1>8. x \in Seq(MessageSet) /\ Len(x) = n
  BY <1>4, <1>7, LenProperties, SeqDef
<1>9. ASSUME NEW i \in 1 .. n
      PROVE  x[i].type = type /\ x[i].gid = group /\ x[i].remaining = n - i
             /\ x[i].fid = ordered[i] /\ x[i].s = s
  <2>1. x[i] = Message(type, ordered[i], n - i, s)
    BY <1>6
  <2> QED
    BY <2>1 DEF Message
<1>10. \A f \in fids : \E i \in 1 .. n : x[i].fid = f
  BY <1>2, <1>9
<1> QED
  BY <1>2, <1>4, <1>8, <1>9, <1>10 DEF x, OnePerFid

\* x enumerates the templates F of the user g for session s.
Enumerates(x, g, F, s) ==
    /\ Len(x) # 0
    /\ \A i \in 1 .. Len(x) : /\ IsEnum(x[i]) /\ x[i].gid = g /\ x[i].s = s
                              /\ x[i].remaining = Len(x) - i
    /\ \A f \in Fids : f \in F <=> \E i \in 1 .. Len(x) : x[i].fid = f

\* The library's enumeration does that, also with no templates.
LEMMA EnumerationIs ==
  ASSUME templates \in [Users -> SUBSET Fids], group \in Users,
         NEW s \in 1 .. MaxSessions
  PROVE  /\ Enumeration(s) \in Seq(MessageSet)
         /\ Enumerates(Enumeration(s), group, templates[group], s)
<1>1. CASE templates[group] = {}
  <2> DEFINE m == Message("ENUMERATING", AnyFid, 0, s)
  <2>1. m \in MessageSet /\ m.fid = AnyFid /\ IsEnum(m) /\ m.gid = group /\ m.s = s
        /\ m.remaining = 0
    BY DEF Message, MessageSet, IsEnum
  <2>2. Enumeration(s) = <<m>>
    BY <1>1 DEF Enumeration
  <2> HIDE DEF m
  <2>3. <<m>> \in Seq(MessageSet) /\ Len(<<m>>) = 1 /\ <<m>>[1] = m
    BY <2>1
  <2>4. AnyFid \notin Fids
    BY EnrollmentsAssumption
  <2>5. \A i \in 1 .. 1 : i = 1
    OBVIOUS
  <2>6. Enumerates(<<m>>, group, {}, s)
    BY <2>1, <2>3, <2>4, <2>5 DEF Enumerates
  <2> QED
    BY <1>1, <2>2, <2>3, <2>6
<1>2. CASE templates[group] # {}
  <2> DEFINE F == templates[group]
             x == Messages("ENUMERATING", F, s)
  <2>1. F \in SUBSET Fids /\ "ENUMERATING" \in {"ENUMERATING", "REMOVED"}
    OBVIOUS
  <2>2. x \in Seq(MessageSet) /\ OnePerFid(x, "ENUMERATING", group, F, s)
    BY <2>1, MessagesAre
  <2>3. Enumeration(s) = x
    BY <1>2 DEF Enumeration
  <2> HIDE DEF F, x
  <2>4. IsFiniteSet(F)
    BY <2>1, FS_Subset, EnrollmentsAssumption
  <2>5. Len(x) # 0
    BY <1>2, <2>2, <2>4, FS_EmptySet DEF F, OnePerFid
  <2>6. Enumerates(x, group, F, s)
    BY <2>2, <2>5 DEF Enumerates, IsEnum, OnePerFid
  <2> QED
    BY <2>2, <2>3, <2>6 DEF F
<1> QED
  BY <1>1, <1>2

\* An enumeration says what it should.
LEMMA EnumerationIsGood ==
  ASSUME NEW x \in Seq(MessageSet), NEW T, NEW g, NEW s, Enumerates(x, g, T[g], s)
  PROVE  GoodBlock(x, T, T)
<1> DEFINE n == Len(x)
<1>1. n \in Nat
  OBVIOUS
<1>2. \A i \in 1 .. n : /\ IsEnum(x[i]) /\ x[i].gid = g /\ x[i].s = s
                        /\ x[i].remaining = n - i
  BY DEF Enumerates
<1>3. CountsDown(x)
  <2> SUFFICES ASSUME NEW k \in 1 .. n, NEW j \in 0 .. x[k].remaining
               PROVE  /\ k + j <= n
                      /\ IsEnum(x[k + j])
                      /\ x[k + j].remaining = x[k].remaining - j
                      /\ x[k + j].gid = x[k].gid /\ x[k + j].s = x[k].s
    BY DEF CountsDown
  <2> HIDE DEF n
  <2>1. x[k].remaining = n - k
    BY <1>2
  <2>2. j \in 0 .. n - k
    BY <2>1
  <2>3. k + j \in 1 .. n /\ n - (k + j) = (n - k) - j /\ k + j <= n
    BY <1>1, <2>2
  <2>4. IsEnum(x[k + j]) /\ x[k + j].gid = g /\ x[k + j].s = s
        /\ x[k + j].remaining = n - (k + j)
    BY <1>2, <2>3
  <2> QED
    BY <1>2, <2>1, <2>3, <2>4
<1>4. TellsAll(x, T)
  <2> SUFFICES ASSUME NEW i \in 1 .. n, NEW f \in Fids
               PROVE  SaysOne(x, T, i, f) /\ SaysAll(x, T, i, f)
    BY DEF TellsAll
  <2>1. SaysOne(x, T, i, f)
    BY <1>2 DEF SaysOne, IsEnum
  <2>2. ASSUME IsEnd(x[i]) PROVE f \in T[x[i].gid] <=> Lists(x, i, f)
    <3>1. x[i].remaining = n - i /\ x[i].remaining = 0
      BY <1>2, <2>2 DEF IsEnd
    <3>2. i = n
      BY <1>1, <3>1
    <3>3. \A k \in 1 .. n : k + x[k].remaining = n
      <4> TAKE k \in 1 .. n
      <4>1. x[k].remaining = n - k
        BY <1>2
      <4>2. k + (n - k) = n
        BY <1>1
      <4> QED
        BY <4>1, <4>2
    <3>4. Lists(x, i, f) <=> \E k \in 1 .. n : x[k].fid = f
      BY <1>2, <3>2, <3>3 DEF Lists
    <3> QED
      BY <1>2, <3>4 DEF Enumerates
  <2> QED
    BY <2>1, <2>2 DEF SaysAll
<1> QED
  BY <1>3, <1>4 DEF GoodBlock

\* x is a whole enumeration for session s.
OneRun(x, s) ==
    /\ Len(x) # 0
    /\ \A i \in 1 .. Len(x) : IsEnum(x[i]) /\ x[i].s = s /\ x[i].remaining = Len(x) - i

\* It has one last message.
LEMMA OneEnd ==
  ASSUME NEW x \in Seq(MessageSet), NEW s, NEW c, OneRun(x, s)
  PROVE  CountIn(x, EnumEnds(c)) = IF s = c THEN 1 ELSE 0
<1> DEFINE n == Len(x)
           A == {i \in 1 .. n : x[i] \in EnumEnds(c)}
<1>1. n \in Nat /\ n # 0
  BY DEF OneRun
<1>2. ASSUME NEW i \in 1 .. n PROVE x[i] \in EnumEnds(c) <=> i = n /\ s = c
  <2>1. x[i] \in MessageSet /\ IsEnum(x[i]) /\ x[i].s = s /\ x[i].remaining = n - i
    BY DEF OneRun
  <2>2. n - i = 0 <=> i = n
    BY <1>1
  <2> QED
    BY <2>1, <2>2 DEF EnumEnds, IsEnd
<1>3. CountIn(x, EnumEnds(c)) = Cardinality(A)
  BY DEF CountIn
<1> HIDE DEF n
<1>4. n \in 1 .. n
  BY <1>1
<1>5. A = IF s = c THEN {n} ELSE {}
  BY <1>2, <1>4
<1> HIDE DEF A
<1> QED
  BY <1>3, <1>5, FS_EmptySet, FS_Singleton
\* The messages of a removal say what it has removed.
LEMMA RemovalIsGood ==
  ASSUME NEW x \in Seq(MessageSet), NEW T \in [Users -> SUBSET Fids], NEW U,
         NEW g, NEW v \in Users, NEW F, NEW s, F = {} \/ v = g,
         OnePerFid(x, "REMOVED", g, F, s), U = [T EXCEPT ![v] = @ \ F]
  PROVE  GoodBlock(x, T, U)
<1>1. \A i \in 1 .. Len(x) : x[i].type = "REMOVED" /\ x[i].gid = g /\ x[i].fid \in F
  BY DEF OnePerFid
<1>2. U[v] = T[v] \ F /\ \A u \in Users : u # v => U[u] = T[u]
  OBVIOUS
<1>3. CountsDown(x)
  BY <1>1 DEF CountsDown, IsEnum
<1>4. ASSUME NEW i \in 1 .. Len(x), NEW f \in Fids
      PROVE  SaysOne(x, U, i, f) /\ SaysAll(x, U, i, f)
  <2>1. x[i].type = "REMOVED" /\ x[i].gid = g /\ x[i].fid \in F
    BY <1>1
  <2>2. v = g
    BY <2>1
  <2>3. SaysAll(x, U, i, f)
    BY <2>1 DEF SaysAll, IsEnd, IsEnum
  <2>4. SaysOne(x, U, i, f)
    BY <1>2, <2>1, <2>2 DEF SaysOne
  <2> QED
    BY <2>3, <2>4
<1>5. ASSUME NEW u \in Users, NEW f \in Fids, NoneAfter(x, 0, u, f)
      PROVE  f \in U[u] <=> f \in T[u]
  <2>1. CASE u # v
    BY <1>2, <2>1
  <2>2. CASE u = v /\ f \notin F
    BY <1>2, <2>2
  <2>3. CASE u = v /\ f \in F
    <3>1. PICK i \in 1 .. Len(x) : x[i].fid = f
      BY <2>3 DEF OnePerFid
    <3>2. Settles(x[i], u, f)
      BY <1>1, <2>3, <3>1 DEF Settles
    <3>3. i > 0
      OBVIOUS
    <3> QED
      BY <1>5, <3>2, <3>3 DEF NoneAfter
  <2> QED
    BY <2>1, <2>2, <2>3
<1> QED
  BY <1>3, <1>4, <1>5 DEF GoodBlock, TellsAll

\* So does the message of an enrollment.
LEMMA EnrollmentIsGood ==
  ASSUME NEW m \in MessageSet, NEW T \in [Users -> SUBSET Fids], NEW U, NEW g \in Users,
         m.type = "ENROLLING", m.gid = g, U = [T EXCEPT ![g] = @ \cup {m.fid}]
  PROVE  GoodBlock(<<m>>, T, U)
<1> DEFINE x == <<m>>
<1>1. Len(x) = 1 /\ x[1] = m /\ 1 .. 1 = {1}
  OBVIOUS
<1> HIDE DEF x
<1>2. U[g] = T[g] \cup {m.fid} /\ \A u \in Users : u # g => U[u] = T[u]
  OBVIOUS
<1>3. CountsDown(x)
  BY <1>1 DEF CountsDown, IsEnum
<1>4. ASSUME NEW f \in Fids PROVE SaysOne(x, U, 1, f) /\ SaysAll(x, U, 1, f)
  BY <1>1, <1>2 DEF SaysOne, SaysAll, IsEnd, IsEnum
<1>5. ASSUME NEW u \in Users, NEW f \in Fids, NoneAfter(x, 0, u, f)
      PROVE  f \in U[u] <=> f \in T[u]
  <2>1. ~Settles(m, u, f)
    BY <1>1, <1>5 DEF NoneAfter
  <2>2. u # g \/ f # m.fid
    BY <2>1 DEF Settles
  <2> QED
    BY <1>2, <2>2
<1>6. TellsAll(x, U)
  BY <1>1, <1>4 DEF TellsAll
<1> QED
  BY <1>3, <1>5, <1>6 DEF GoodBlock, x

\* A stream and its parts before and after the first e messages.
LEMMA SplitAt ==
  ASSUME NEW q \in Seq(MessageSet), NEW e \in 1 .. Len(q)
  PROVE  /\ SubSeq(q, 1, e) \in Seq(MessageSet) /\ Len(SubSeq(q, 1, e)) = e
         /\ \A i \in 1 .. e : SubSeq(q, 1, e)[i] = q[i]
         /\ SubSeq(q, e + 1, Len(q)) \in Seq(MessageSet)
         /\ Drops(SubSeq(q, e + 1, Len(q)), q, e)
         /\ SubSeq(q, 1, e) \o SubSeq(q, e + 1, Len(q)) = q
<1> DEFINE n == Len(q)
           x == SubSeq(q, 1, e)
           r == SubSeq(q, e + 1, n)
<1>1. n \in Nat /\ e \in Int /\ e + 1 \in Int /\ n \in Int /\ e <= n
  OBVIOUS
<1>2. (\A i \in 1 .. e : q[i] \in MessageSet) /\ (\A i \in e + 1 .. n : q[i] \in MessageSet)
  OBVIOUS
<1>3. /\ x \in Seq(MessageSet) /\ Len(x) = IF 1 <= e THEN e - 1 + 1 ELSE 0
      /\ \A i \in 1 .. e - 1 + 1 : x[i] = q[1 + i - 1]
  BY <1>1, <1>2, SubSeqProperties
<1>4. /\ r \in Seq(MessageSet) /\ Len(r) = IF e + 1 <= n THEN n - (e + 1) + 1 ELSE 0
      /\ \A i \in 1 .. n - (e + 1) + 1 : r[i] = q[(e + 1) + i - 1]
  BY <1>1, <1>2, SubSeqProperties
<1>5. x \o r = q
  <2>1. 1 \in 1 .. n + 1 /\ e \in 1 - 1 .. n /\ n \in e .. n
    BY <1>1
  <2>2. x \o r = SubSeq(q, 1, n)
    BY <2>1, ConcatAdjacentSubSeq
  <2> QED
    BY <2>2, SubSeqFull
<1> HIDE DEF x, r, n
<1>6. Len(x) = e
  BY <1>1, <1>3
<1>7. ASSUME NEW i \in 1 .. e PROVE x[i] = q[i]
  <2>1. i \in 1 .. e - 1 + 1 /\ 1 + i - 1 = i
    BY <1>1
  <2>2. x[i] = q[1 + i - 1]
    BY <1>3, <2>1
  <2> QED
    BY <2>1, <2>2
<1>8. Len(r) = n - e
  BY <1>1, <1>4
<1>9. ASSUME NEW i \in 1 .. Len(r) PROVE r[i] = q[i + e]
  <2>1. i \in 1 .. n - (e + 1) + 1 /\ (e + 1) + i - 1 = i + e
    BY <1>1, <1>8
  <2>2. r[i] = q[(e + 1) + i - 1]
    BY <1>4, <2>1
  <2> QED
    BY <2>1, <2>2
<1>10. Drops(r, q, e)
  BY <1>1, <1>8, <1>9 DEF Drops, n
<1> QED
  BY <1>3, <1>4, <1>5, <1>6, <1>7, <1>10 DEF x, r, n

\* What is left of a sequence is of no later session than the whole.
LEMMA DropUpTo ==
  ASSUME NEW q \in Seq(MessageSet), NEW r \in Seq(MessageSet), NEW d,
         Drops(r, q, d), NEW c, UpTo(q, c)
  PROVE  UpTo(r, c)
<1>1. d \in Nat /\ Len(r) \in Nat /\ Len(q) \in Nat /\ Len(r) = Len(q) - d
  BY DEF Drops
<1>2. ASSUME NEW i \in 1 .. Len(r) PROVE r[i].s <= c
  <2>1. r[i] = q[i + d] /\ i + d \in 1 .. Len(q)
    BY <1>1 DEF Drops
  <2> QED
    BY <2>1 DEF UpTo
<1> QED
  BY <1>2 DEF UpTo

\* Nor are two sequences in a row if both are not.
LEMMA ConcatUpTo ==
  ASSUME NEW S, NEW q \in Seq(S), NEW x \in Seq(S), NEW c, UpTo(q, c), UpTo(x, c)
  PROVE  UpTo(q \o x, c)
<1> DEFINE z == q \o x
<1>1. /\ Len(z) = Len(q) + Len(x) /\ Len(q) \in Nat /\ Len(x) \in Nat
      /\ \A i \in 1 .. Len(q) : z[i] = q[i]
      /\ \A i \in 1 .. Len(x) : z[Len(q) + i] = x[i]
  BY ConcatIs
<1> HIDE DEF z
<1>2. ASSUME NEW k \in 1 .. Len(z) PROVE z[k].s <= c
  <2>1. CASE k <= Len(q)
    <3>1. k \in 1 .. Len(q)
      BY <1>1, <2>1
    <3> QED
      BY <1>1, <3>1 DEF UpTo
  <2>2. CASE ~ (k <= Len(q))
    <3>1. k - Len(q) \in 1 .. Len(x) /\ Len(q) + (k - Len(q)) = k
      BY <1>1, <2>2
    <3>2. z[Len(q) + (k - Len(q))] = x[k - Len(q)]
      BY <1>1, <3>1
    <3> QED
      BY <3>1, <3>2 DEF UpTo
  <2> QED
    BY <2>1, <2>2
<1> QED
  BY <1>2 DEF UpTo, z

\* z is q with m in place of the enumeration at its head.
Broken(q, m, z) ==
    z = <<m>> \o SubSeq(q, (1 + q[1].remaining) + 1, Len(q))

\* What was on its way stays as true as it was, with one enumeration less to end.
StaysInOrder(q, z, T) ==
    /\ z \in Seq(MessageSet) /\ CountsDown(z) /\ Tells(z, T)
    /\ \A c \in Nat : UpTo(q, c) => UpTo(z, c)
    /\ \A c : CountIn(q, EnumEnds(c)) = CountIn(z, EnumEnds(c))
                                          + IF q[1].s = c THEN 1 ELSE 0

\* An enumeration broken off, with an error in its place, leaves a stream that is
\* in order and has one enumeration less to end.
LEMMA BreakOffKeeps ==
  ASSUME NEW q \in Seq(MessageSet), NEW T, NEW m \in MessageSet, q # << >>,
         IsEnum(q[1]), m.type = "ERROR", m.s = q[1].s, CountsDown(q), Tells(q, T),
         NEW z, Broken(q, m, z)
  PROVE  StaysInOrder(q, z, T)
<1> DEFINE n == q[1].remaining
           e == 1 + n
           x == SubSeq(q, 1, e)
           r == SubSeq(q, e + 1, Len(q))
           h == <<m>>
<1>1. n \in Nat /\ Len(q) \in Nat /\ 1 \in 1 .. Len(q)
  <2>1. 1 \in 1 .. Len(q) /\ Len(q) \in Nat
    OBVIOUS
  <2> QED
    BY <2>1, MessageAt
<1>2. \A j \in 0 .. n : /\ 1 + j <= Len(q) /\ IsEnum(q[1 + j])
                        /\ q[1 + j].remaining = n - j
                        /\ q[1 + j].gid = q[1].gid /\ q[1 + j].s = q[1].s
  BY <1>1 DEF CountsDown
<1>3. n \in 0 .. n /\ 1 + n <= Len(q)
  BY <1>1, <1>2
<1> HIDE DEF n
<1>4. e = 1 + n /\ e \in 1 .. Len(q)
  BY <1>1, <1>3
<1> HIDE DEF e
<1>5. ASSUME NEW i \in 1 .. e
      PROVE  IsEnum(q[i]) /\ q[i].remaining = e - i /\ q[i].s = q[1].s
  <2>1. i - 1 \in 0 .. n /\ 1 + (i - 1) = i /\ n - (i - 1) = e - i
    BY <1>1, <1>4
  <2>2. IsEnum(q[1 + (i - 1)]) /\ q[1 + (i - 1)].remaining = n - (i - 1)
        /\ q[1 + (i - 1)].s = q[1].s
    BY <1>2, <2>1
  <2> QED
    BY <2>1, <2>2
<1>6. /\ x \in Seq(MessageSet) /\ Len(x) = e /\ \A i \in 1 .. e : x[i] = q[i]
      /\ r \in Seq(MessageSet) /\ Drops(r, q, e) /\ x \o r = q
  BY <1>4, SplitAt
<1> HIDE DEF x, r
<1>7. CutsClean(q, e)
  <2> SUFFICES ASSUME NEW j \in 1 .. e PROVE j + q[j].remaining <= e
    BY DEF CutsClean
  <2>1. q[j].remaining = e - j
    BY <1>5
  <2>2. j + (e - j) <= e
    BY <1>4
  <2> QED
    BY <2>1, <2>2
<1>8. CountsDown(r) /\ TellsAll(r, T)
  <2>1. e # 0
    BY <1>4
  <2> QED
    BY <1>6, <1>7, <2>1, DropCountsDown, DropTells
<1>9. h \in Seq(MessageSet) /\ Len(h) = 1 /\ h[1] = m /\ 1 .. 1 = {1}
  OBVIOUS
<1> HIDE DEF h
<1>10. CountsDown(h) /\ Tells(h, T)
  BY <1>9 DEF CountsDown, Tells, SaysOne, SaysAll, IsEnd, IsEnum
<1>11. GoodBlock(r, T, T)
  BY <1>8 DEF GoodBlock
<1>12. h \o r \in Seq(MessageSet) /\ CountsDown(h \o r) /\ Tells(h \o r, T)
  BY <1>6, <1>9, <1>10, <1>11, AppendKeeps
<1>13. ASSUME NEW c \in Nat, UpTo(q, c) PROVE UpTo(h \o r, c)
  <2>1. UpTo(r, c)
    BY <1>6, <1>13, DropUpTo
  <2>2. UpTo(h, c)
    BY <1>1, <1>9, <1>13 DEF UpTo
  <2> QED
    BY <1>6, <1>9, <2>1, <2>2, ConcatUpTo
<1>14. ASSUME NEW c
       PROVE  CountIn(q, EnumEnds(c)) = CountIn(h \o r, EnumEnds(c))
                                          + IF q[1].s = c THEN 1 ELSE 0
  <2> DEFINE G == EnumEnds(c)
             a == IF q[1].s = c THEN 1 ELSE 0
  <2>1. CountIn(x, G) = a
    <3>1. Len(x) # 0
      BY <1>4, <1>6
    <3>2. \A i \in 1 .. Len(x) : IsEnum(x[i]) /\ x[i].s = q[1].s
                                 /\ x[i].remaining = Len(x) - i
      BY <1>5, <1>6
    <3>3. OneRun(x, q[1].s) /\ x \in Seq(MessageSet)
      BY <1>6, <3>1, <3>2 DEF OneRun
    <3> QED
      BY <3>3, OneEnd
  <2>2. m \notin G
    BY DEF EnumEnds, IsEnd, IsEnum
  <2>3. CountIn(h, G) = 0
    <3>1. CountIn(<<m>>, G) = IF m \in G THEN 1 ELSE 0
      BY CountOne
    <3> QED
      BY <2>2, <3>1 DEF h
  <2> HIDE DEF G
  <2>4. CountIn(h \o r, G) = CountIn(h, G) + CountIn(r, G)
    BY <1>6, <1>9, CountConcat
  <2>5. CountIn(x \o r, G) = CountIn(x, G) + CountIn(r, G)
    <3>1. x \in Seq(MessageSet) /\ r \in Seq(MessageSet)
      BY <1>6
    <3> QED
      BY <3>1, CountConcat
  <2>6. CountIn(r, G) \in Nat /\ a \in Nat
    BY <1>6, CountType
  <2> HIDE DEF a
  <2>7. CountIn(q, G) = a + CountIn(r, G) /\ CountIn(h \o r, G) = 0 + CountIn(r, G)
    BY <1>6, <2>1, <2>3, <2>4, <2>5
  <2>8. CountIn(q, G) = CountIn(h \o r, G) + a
    BY <2>6, <2>7
  <2> QED
    BY <2>8 DEF G, a
<1>15. z = h \o r
  BY DEF Broken, h, r, e, n
<1> QED
  BY <1>12, <1>13, <1>14, <1>15 DEF StaysInOrder
-----------------------------------------------------------------------------
(* What the steps do to the stream.                                        *)

\* The stream is one of messages.
LEMMA StreamType ==
  ASSUME TypeOK
  PROVE  Stream \in Seq(MessageSet) /\ notifying \in Seq(MessageSet)
         /\ vendor \in Seq(MessageSet)
<1>1. notifying \in Seq(MessageSet) /\ vendor \in Seq(MessageSet)
  BY DEF TypeOK
<1> QED
  BY <1>1, ConcatIs DEF Stream

\* With an empty hand it is what the library has to send.
LEMMA EmptyHand ==
  ASSUME TypeOK, notifying = << >>
  PROVE  Stream = vendor
<1>1. vendor \in Seq(MessageSet)
  BY DEF TypeOK
<1> QED
  BY <1>1 DEF Stream

\* A step that sends nothing and delivers nothing.
LEMMA QuietKeeps ==
  ASSUME Content, Stream' = Stream, UNCHANGED <<templates, enrollments, told, torn, whole>>
  PROVE  Content'
<1>1. InOrder' /\ StreamTells' /\ TornIsLost'
  BY DEF Content, InOrder, StreamTells, TornIsLost
<1>2. ListClean'
  BY DEF Content, ListClean
<1>3. WholeTold'
  BY DEF Content, WholeTold
<1> QED
  BY <1>1, <1>2, <1>3 DEF Content

\* A step in which the library has done something and will say so.
LEMMA SendKeeps ==
  ASSUME IInv, NEW x \in Seq(MessageSet), GoodBlock(x, templates, templates'),
         Stream' = Stream \o x, UNCHANGED <<enrollments, told, torn, whole>>
  PROVE  Content'
<1>1. Stream \in Seq(MessageSet) /\ CountsDown(Stream) /\ Tells(Stream, templates)
  BY StreamType DEF IInv, Content, InOrder, StreamTells
<1>2. /\ CountsDown(Stream \o x) /\ Tells(Stream \o x, templates')
      /\ \A list : ListTrue(Stream, templates, list)
                       => ListTrue(Stream \o x, templates', list)
      /\ \A u \in Users : \A told_u : ToldTrue(Stream, templates, u, told_u)
                                      => ToldTrue(Stream \o x, templates', u, told_u)
  BY <1>1, AppendKeeps
<1>3. InOrder' /\ StreamTells'
  BY <1>2 DEF InOrder, StreamTells
<1>4. TornIsLost'
  BY DEF IInv, Content, TornIsLost
<1>5. ListClean'
  BY <1>2 DEF IInv, Content, ListClean
<1>6. WholeTold'
  <2> SUFFICES ASSUME NEW u \in Users, whole'[u] = 2
               PROVE  ToldTrue(Stream', templates', u, told'[u])
    BY DEF WholeTold
  <2>1. ToldTrue(Stream, templates, u, told[u])
    BY DEF IInv, Content, WholeTold
  <2> QED
    BY <1>2, <2>1
<1> QED
  BY <1>3, <1>4, <1>5, <1>6 DEF Content
\* The first message has left the stream, and the library has done nothing.
FirstGone ==
    /\ Stream # << >> /\ Stream \in Seq(MessageSet) /\ Stream' \in Seq(MessageSet)
    /\ Drops(Stream', Stream, 1) /\ templates' = templates

\* What is left is in order and says what is so; the list may start anew after the
\* end of an enumeration, and holds one more in the middle of it.
LEMMA FirstGoneKeeps ==
  ASSUME IInv, FirstGone
  PROVE  /\ InOrder' /\ StreamTells'
         /\ ~IsEnum(Stream[1]) \/ IsEnd(Stream[1]) => ListTrue(Stream', templates', << >>)
         /\ IsEnum(Stream[1]) /\ ~IsEnd(Stream[1]) =>
                (ListTrue(Stream, templates, enrollments)
                 => ListTrue(Stream', templates', Append(enrollments, Stream[1].fid)))
<1> DEFINE q == Stream
           r == Stream'
           T == templates
<1>1. /\ q # << >> /\ q \in Seq(MessageSet) /\ r \in Seq(MessageSet) /\ Drops(r, q, 1)
      /\ templates' = T
  BY DEF FirstGone
<1>2. CountsDown(q) /\ Tells(q, T)
  BY DEF IInv, Content, InOrder, StreamTells
<1>3. enrollments \in Seq(Fids \cup {AnyFid})
  BY DEF IInv, TypeOK
<1> HIDE DEF q, r, T
<1>4. CountsDown(r)
  BY <1>1, <1>2, DropCountsDown
<1>5. ASSUME ~IsEnum(q[1]) \/ IsEnd(q[1])
      PROVE  Tells(r, T) /\ ListTrue(r, T, << >>)
  <2>1. CutsClean(q, 1)
    <3> SUFFICES ASSUME NEW j \in 1 .. 1, IsEnum(q[j]) PROVE j + q[j].remaining <= 1
      BY DEF CutsClean
    <3>1. j = 1
      OBVIOUS
    <3>2. q[1].remaining = 0
      BY <1>5, <3>1 DEF IsEnd
    <3> QED
      BY <3>1, <3>2
  <2>2. TellsAll(r, T)
    BY <1>1, <1>2, <2>1, DropTells
  <2> QED
    BY <1>1, <1>4, <2>2, FreshList
<1>6. ASSUME IsEnum(q[1]), ~IsEnd(q[1])
      PROVE  /\ Tells(r, T)
             /\ ListTrue(q, T, enrollments) => ListTrue(r, T, Append(enrollments, q[1].fid))
  <2>1. q[1].remaining # 0
    BY <1>6 DEF IsEnd
  <2>2. /\ Tells(r, T)
        /\ \A list \in Seq(Fids \cup {AnyFid}) :
               ListTrue(q, T, list) => ListTrue(r, T, Append(list, q[1].fid))
    BY <1>1, <1>2, <1>6, <2>1, NextOfList
  <2> QED
    BY <1>3, <2>2
<1>7. Tells(r, T)
  BY <1>5, <1>6
<1> QED
  BY <1>1, <1>4, <1>5, <1>6, <1>7 DEF InOrder, StreamTells, q, r, T

\* What was told of a user is right if it is so for the templates that no message
\* but the first settles.
LEMMA FirstTold ==
  ASSUME FirstGone, NEW u, NEW told_u,
         \A f \in Fids : NoneAfter(Stream, 1, u, f) => (f \in told_u <=> f \in templates[u])
  PROVE  ToldTrue(Stream', templates', u, told_u)
<1> DEFINE q == Stream
           r == Stream'
<1>1. q \in Seq(MessageSet) /\ r \in Seq(MessageSet) /\ Drops(r, q, 1) /\ templates' = templates
  BY DEF FirstGone
<1> HIDE DEF q, r
<1>2. ASSUME NEW f \in Fids, NoneAfter(r, 0, u, f) PROVE NoneAfter(q, 1, u, f)
  <2>1. 0 \in Nat /\ 0 + 1 = 1
    OBVIOUS
  <2>2. NoneAfter(r, 0, u, f) <=> NoneAfter(q, 0 + 1, u, f)
    BY <1>1, <2>1, DropNoneAfter
  <2> QED
    BY <1>2, <2>1, <2>2
<1> QED
  BY <1>1, <1>2 DEF ToldTrue, q, r

\* A template the first message does not settle either.
LEMMA NotTheFirst ==
  ASSUME NEW q \in Seq(MessageSet), q # << >>, NEW u, NEW f, NoneAfter(q, 1, u, f),
         ~Settles(q[1], u, f)
  PROVE  NoneAfter(q, 0, u, f)
<1> SUFFICES ASSUME NEW k \in 1 .. Len(q) PROVE ~Settles(q[k], u, f)
  BY DEF NoneAfter
<1>1. k = 1 \/ k > 1
  OBVIOUS
<1> QED
  BY <1>1 DEF NoneAfter

\* A message was lost: no user counts as told in whole.
LEMMA LostKeeps ==
  ASSUME IInv, FirstGone, whole' = [u \in Users |-> 0]
  PROVE  Content'
<1>1. InOrder' /\ StreamTells'
  BY FirstGoneKeeps
<1>2. TornIsLost' /\ ListClean' /\ WholeTold'
  BY DEF TornIsLost, ListClean, WholeTold
<1> QED
  BY <1>1, <1>2 DEF Content

\* A message that is of no enumeration leaves the list as it was, empty.
LEMMA OtherKeeps ==
  ASSUME IInv, FirstGone, ~IsEnum(Stream[1]), UNCHANGED <<enrollments, torn, whole>>,
         \A u \in Users : whole[u] = 2 => ToldTrue(Stream', templates', u, told'[u])
  PROVE  Content'
<1>1. InOrder' /\ StreamTells' /\ ListTrue(Stream', templates', << >>)
  BY FirstGoneKeeps
<1>2. TornIsLost'
  BY DEF IInv, Content, TornIsLost
<1>3. ListClean'
  <2> SUFFICES ASSUME \E u \in Users : whole'[u] # 0
               PROVE  ListTrue(Stream', templates', enrollments')
    BY DEF ListClean
  <2>1. ListTrue(Stream, templates, enrollments)
    BY DEF IInv, Content, ListClean
  <2>2. enrollments = << >>
    BY <2>1 DEF ListTrue
  <2> QED
    BY <1>1, <2>2
<1>4. WholeTold'
  BY DEF WholeTold
<1> QED
  BY <1>1, <1>2, <1>3, <1>4 DEF Content

\* A removal told to the session of its user.
LEMMA RemovedKeeps ==
  ASSUME IInv, FirstGone, Stream[1].type = "REMOVED", Stream[1].gid = user, user \in Users,
         told' = [told EXCEPT ![user] = @ \ {Stream[1].fid}],
         UNCHANGED <<enrollments, torn, whole>>
  PROVE  Content'
<1> DEFINE q == Stream
           m == q[1]
<1>1. q \in Seq(MessageSet) /\ q # << >> /\ Tells(q, templates)
  BY DEF FirstGone, IInv, Content, StreamTells
<1>2. ~IsEnum(m)
  BY DEF IsEnum
<1>3. told \in [Users -> SUBSET (Fids \cup {AnyFid})]
  BY DEF IInv, TypeOK
<1>4. ASSUME NEW u \in Users, whole[u] = 2
      PROVE  ToldTrue(Stream', templates', u, told'[u])
  <2>1. ToldTrue(q, templates, u, told[u])
    BY <1>4 DEF IInv, Content, WholeTold
  <2>2. ASSUME NEW f \in Fids, NoneAfter(q, 1, u, f)
        PROVE  f \in told'[u] <=> f \in templates[u]
    <3>1. CASE u = user /\ f = m.fid
      <4>1. 1 \in 1 .. Len(q)
        BY <1>1
      <4>2. SaysOne(q, templates, 1, f)
        BY <1>1, <2>2, <3>1, <4>1 DEF Tells
      <4>3. f \notin templates[u]
        BY <3>1, <4>2 DEF SaysOne
      <4>4. f \notin told'[u]
        BY <1>3, <3>1
      <4> QED
        BY <4>3, <4>4
    <3>2. CASE ~ (u = user /\ f = m.fid)
      <4>1. ~Settles(m, u, f)
        BY <1>2, <3>2 DEF Settles, IsEnd
      <4>2. NoneAfter(q, 0, u, f)
        BY <1>1, <2>2, <4>1, NotTheFirst
      <4>3. f \in told[u] <=> f \in templates[u]
        BY <2>1, <4>2 DEF ToldTrue
      <4>4. f \in told'[u] <=> f \in told[u]
        BY <1>3, <3>2
      <4> QED
        BY <4>3, <4>4
    <3> QED
      BY <3>1, <3>2
  <2> QED
    BY <2>2, FirstTold
<1> QED
  BY <1>2, <1>4, OtherKeeps

\* An enrollment told to the session of its user.
LEMMA EnrollingKeeps ==
  ASSUME IInv, FirstGone, Stream[1].type = "ENROLLING", Stream[1].gid = user, user \in Users,
         told' = [told EXCEPT ![user] = @ \cup {Stream[1].fid}],
         UNCHANGED <<enrollments, torn, whole>>
  PROVE  Content'
<1> DEFINE q == Stream
           m == q[1]
<1>1. q \in Seq(MessageSet) /\ q # << >> /\ Tells(q, templates)
  BY DEF FirstGone, IInv, Content, StreamTells
<1>2. ~IsEnum(m)
  BY DEF IsEnum
<1>3. told \in [Users -> SUBSET (Fids \cup {AnyFid})]
  BY DEF IInv, TypeOK
<1>4. ASSUME NEW u \in Users, whole[u] = 2
      PROVE  ToldTrue(Stream', templates', u, told'[u])
  <2>1. ToldTrue(q, templates, u, told[u])
    BY <1>4 DEF IInv, Content, WholeTold
  <2>2. ASSUME NEW f \in Fids, NoneAfter(q, 1, u, f)
        PROVE  f \in told'[u] <=> f \in templates[u]
    <3>1. CASE u = user /\ f = m.fid
      <4>1. 1 \in 1 .. Len(q)
        BY <1>1
      <4>2. SaysOne(q, templates, 1, f)
        BY <1>1, <2>2, <3>1, <4>1 DEF Tells
      <4>3. f \in templates[u]
        BY <3>1, <4>2 DEF SaysOne
      <4>4. f \in told'[u]
        BY <1>3, <3>1
      <4> QED
        BY <4>3, <4>4
    <3>2. CASE ~ (u = user /\ f = m.fid)
      <4>1. ~Settles(m, u, f)
        BY <1>2, <3>2 DEF Settles, IsEnd
      <4>2. NoneAfter(q, 0, u, f)
        BY <1>1, <2>2, <4>1, NotTheFirst
      <4>3. f \in told[u] <=> f \in templates[u]
        BY <2>1, <4>2 DEF ToldTrue
      <4>4. f \in told'[u] <=> f \in told[u]
        BY <1>3, <3>2
      <4> QED
        BY <4>3, <4>4
    <3> QED
      BY <3>1, <3>2
  <2> QED
    BY <2>2, FirstTold
<1> QED
  BY <1>2, <1>4, OtherKeeps

\* An error tells nothing.
LEMMA ErrorKeeps ==
  ASSUME IInv, FirstGone, Stream[1].type = "ERROR",
         UNCHANGED <<enrollments, told, torn, whole>>
  PROVE  Content'
<1> DEFINE q == Stream
           m == q[1]
<1>1. q \in Seq(MessageSet) /\ q # << >>
  BY DEF FirstGone
<1>2. ~IsEnum(m)
  BY DEF IsEnum
<1>3. ASSUME NEW u \in Users, whole[u] = 2
      PROVE  ToldTrue(Stream', templates', u, told'[u])
  <2>1. ToldTrue(q, templates, u, told[u])
    BY <1>3 DEF IInv, Content, WholeTold
  <2>2. ASSUME NEW f \in Fids, NoneAfter(q, 1, u, f)
        PROVE  f \in told'[u] <=> f \in templates[u]
    <3>1. ~Settles(m, u, f)
      BY <1>2 DEF Settles, IsEnd
    <3>2. NoneAfter(q, 0, u, f)
      BY <1>1, <2>2, <3>1, NotTheFirst
    <3> QED
      BY <2>1, <3>2 DEF ToldTrue
  <2> QED
    BY <2>2, FirstTold
<1> QED
  BY <1>2, <1>3, OtherKeeps
\* A message of an enumeration, not the last, for the session of its user.
LEMMA ListedKeeps ==
  ASSUME IInv, FirstGone, IsEnum(Stream[1]), Stream[1].remaining # 0,
         enrollments' = Append(enrollments, Stream[1].fid),
         UNCHANGED <<told, torn, whole>>
  PROVE  Content'
<1> DEFINE q == Stream
           m == q[1]
<1>1. q \in Seq(MessageSet) /\ q # << >>
  BY DEF FirstGone
<1>2. ~IsEnd(m)
  BY DEF IsEnd
<1>3. /\ InOrder' /\ StreamTells'
      /\ ListTrue(Stream, templates, enrollments)
             => ListTrue(Stream', templates', Append(enrollments, Stream[1].fid))
  BY <1>2, FirstGoneKeeps
<1>4. TornIsLost'
  BY DEF IInv, Content, TornIsLost
<1>5. ListClean'
  BY <1>3 DEF IInv, Content, ListClean
<1>6. ASSUME NEW u \in Users, whole[u] = 2
      PROVE  ToldTrue(Stream', templates', u, told'[u])
  <2>1. ToldTrue(q, templates, u, told[u])
    BY <1>6 DEF IInv, Content, WholeTold
  <2>2. ASSUME NEW f \in Fids, NoneAfter(q, 1, u, f)
        PROVE  f \in told'[u] <=> f \in templates[u]
    <3>1. ~Settles(m, u, f)
      BY <1>2 DEF Settles, IsEnum
    <3>2. NoneAfter(q, 0, u, f)
      BY <1>1, <2>2, <3>1, NotTheFirst
    <3> QED
      BY <2>1, <3>2 DEF ToldTrue
  <2> QED
    BY <2>2, FirstTold
<1>7. WholeTold'
  BY <1>6 DEF WholeTold
<1> QED
  BY <1>3, <1>4, <1>5, <1>7 DEF Content

\* The last message of an enumeration, for the session of its user: that what was
\* told is right rests on the list, and on nothing of the enumeration being lost.
LEMMA ReportedKeeps ==
  ASSUME IInv, FirstGone, IsEnd(Stream[1]), Stream[1].gid = user, user \in Users,
         told' = [told EXCEPT ![user] = ToSet(Append(enrollments, Stream[1].fid))],
         enrollments' = << >>, torn' = FALSE,
         whole' = IF torn \/ whole[user] = 2 THEN whole
                  ELSE [whole EXCEPT ![user] = @ + 1]
  PROVE  Content'
<1> DEFINE q == Stream
           m == q[1]
<1>1. q \in Seq(MessageSet) /\ q # << >> /\ 1 \in 1 .. Len(q)
  BY DEF FirstGone
<1>2. /\ whole \in [Users -> 0 .. 2] /\ enrollments \in Seq(Fids \cup {AnyFid})
      /\ told \in [Users -> SUBSET (Fids \cup {AnyFid})]
  BY DEF IInv, TypeOK
<1>3. InOrder' /\ StreamTells' /\ ListTrue(Stream', templates', << >>)
  BY FirstGoneKeeps
<1>4. TornIsLost' /\ ListClean'
  BY <1>3 DEF TornIsLost, ListClean
<1>5. ASSUME NEW u \in Users, whole'[u] = 2, u # user
      PROVE  ToldTrue(Stream', templates', u, told'[u])
  <2>1. whole[u] = 2 /\ told'[u] = told[u]
    BY <1>2, <1>5
  <2>2. ToldTrue(q, templates, u, told[u])
    BY <2>1 DEF IInv, Content, WholeTold
  <2>3. ASSUME NEW f \in Fids, NoneAfter(q, 1, u, f)
        PROVE  f \in told'[u] <=> f \in templates[u]
    <3>1. ~Settles(m, u, f)
      BY <1>5 DEF Settles
    <3>2. NoneAfter(q, 0, u, f)
      BY <1>1, <2>3, <3>1, NotTheFirst
    <3> QED
      BY <2>1, <2>2, <3>2 DEF ToldTrue
  <2> QED
    BY <2>3, FirstTold
<1>6. ASSUME whole'[user] = 2
      PROVE  ToldTrue(Stream', templates', user, told'[user])
  <2>1. whole[user] # 0
    <3>1. CASE torn
      BY <1>6, <3>1 DEF IInv, Content, TornIsLost
    <3>2. CASE ~torn /\ whole[user] # 2
      <4>1. whole'[user] = whole[user] + 1
        BY <1>2, <3>2
      <4> QED
        BY <1>2, <1>6, <4>1
    <3>3. CASE whole[user] = 2
      BY <3>3
    <3> QED
      BY <3>1, <3>2, <3>3
  <2>2. ListTrue(q, templates, enrollments)
    BY <2>1 DEF IInv, Content, ListClean
  <2>3. IsEnum(m) /\ m.remaining = 0 /\ 1 + m.remaining = 1
    BY DEF IsEnd
  <2>4. told'[user] = ToSet(Append(enrollments, m.fid))
    BY <1>2
  <2>5. ASSUME NEW f \in Fids, NoneAfter(q, 1, user, f)
        PROVE  f \in told'[user] <=> f \in templates[user]
    <3>1. f \in templates[user] <=> f \in ToSet(enrollments) \/ Lists(q, 1, f)
      BY <1>1, <2>2, <2>3, <2>5 DEF ListTrue
    <3>2. Lists(q, 1, f) <=> f = m.fid
      BY <2>3 DEF Lists
    <3>3. m.fid \in Fids \cup {AnyFid}
      BY <1>1, MessageAt
    <3>4. f \in ToSet(Append(enrollments, m.fid)) <=> f \in ToSet(enrollments) \/ f = m.fid
      BY <1>2, <3>3, ToSetAppend
    <3> QED
      BY <2>4, <3>1, <3>2, <3>4
  <2> QED
    BY <2>5, FirstTold
<1>7. WholeTold'
  BY <1>5, <1>6 DEF WholeTold
<1> QED
  BY <1>3, <1>4, <1>7 DEF Content
-----------------------------------------------------------------------------
(* The framework's steps.                                                  *)

\* Whatever has begun, a session was there to begin it.
LEMMA Begun ==
  ASSUME IInv, \/ open \/ queue # << >> \/ removing # Idle
               \/ notifying # << >> \/ vendor # << >> \/ group # NoUser
  PROVE  cur \in 1 .. MaxSessions /\ cur \in Nat /\ group \in Users /\ user \in Users
<1>1. cur # 0 /\ cur \in 0 .. MaxSessions /\ MaxSessions \in Nat
  BY EnrollmentsAssumption DEF IInv, TypeOK, SessionFirst
<1>2. group \in Users /\ user \in Users
  BY <1>1 DEF IInv, SessionFirst
<1> QED
  BY <1>1, <1>2

\* What is of no later session than c is none of the next.
LEMMA UpToMore ==
  ASSUME NEW q, NEW c \in Nat, \A i \in 1 .. Len(q) : q[i].s \in Nat, UpTo(q, c)
  PROVE  UpTo(q, c + 1) /\ \A i \in 1 .. Len(q) : q[i].s # c + 1
<1> SUFFICES ASSUME NEW i \in 1 .. Len(q) PROVE q[i].s <= c + 1 /\ q[i].s # c + 1
  BY DEF UpTo
<1> DEFINE n == q[i].s
<1>1. n \in Nat /\ n <= c
  BY DEF UpTo
<1> HIDE DEF n
<1>2. n <= c + 1 /\ n # c + 1
  BY <1>1
<1> QED
  BY <1>2 DEF n

\* What is known of a queued task.
LEMMA TaskAt ==
  ASSUME NEW q \in Seq(Task), NEW i \in 1 .. Len(q)
  PROVE  q[i] \in Task /\ q[i].s \in 1 .. MaxSessions
<1>1. q[i] \in Task
  OBVIOUS
<1> QED
  BY <1>1 DEF Task

\* A new session: all that is queued or on its way is of an earlier one.
LEMMA CreateSessionStep ==
  ASSUME IInv, NEW u \in Users, CreateSession(u)
  PROVE  IInv'
<1>1. /\ cur \in Nat /\ cur + 1 \in 1 .. MaxSessions /\ cur + 1 \in 0 .. MaxSessions
      /\ cur + 1 # 0 /\ cur' = cur + 1
  BY EnrollmentsAssumption DEF IInv, TypeOK, CreateSession
<1>2. queue \in Seq(Task) /\ Stream \in Seq(MessageSet)
  BY StreamType DEF IInv, TypeOK, Task
<1>3. Stream' = Stream
  BY DEF CreateSession, Stream
<1>4. TypeOK'
  BY <1>1 DEF IInv, TypeOK, CreateSession, library, session, worker, framework, history
<1>5. SessionFirst'
  BY <1>1 DEF IInv, SessionFirst, CreateSession, library, session, worker, framework, history
<1>6. /\ UpTo(queue, cur + 1) /\ \A i \in 1 .. Len(queue) : queue[i].s # cur + 1
      /\ UpTo(Stream, cur + 1) /\ \A i \in 1 .. Len(Stream) : Stream[i].s # cur + 1
  <2>1. UpTo(queue, cur) /\ UpTo(Stream, cur)
    BY DEF IInv, NoneAhead
  <2>2. \A i \in 1 .. Len(queue) : queue[i].s \in Nat
    BY <1>2, TaskAt
  <2>3. \A i \in 1 .. Len(Stream) : Stream[i].s \in Nat
    BY <1>2, MessageAt
  <2> QED
    BY <1>1, <2>1, <2>2, <2>3, UpToMore
<1>7. UNCHANGED queue
  BY DEF CreateSession, worker
<1>8. NoneAhead'
  BY <1>1, <1>3, <1>6, <1>7 DEF NoneAhead
<1>9. OwedRight'
  <2>1. owed' = 0 /\ calls' = calls /\ owed <= calls /\ owed = 0
    BY DEF CreateSession, IInv, OwedRight, framework
  <2>2. CountIn(queue, EnumTasks(cur + 1)) = 0
    <3>1. \A i \in 1 .. Len(queue) : queue[i] \notin EnumTasks(cur + 1)
      BY <1>6 DEF EnumTasks
    <3> QED
      BY <1>2, <3>1, CountType
  <2>3. CountIn(Stream, EnumEnds(cur + 1)) = 0
    <3>1. \A i \in 1 .. Len(Stream) : Stream[i] \notin EnumEnds(cur + 1)
      BY <1>6 DEF EnumEnds
    <3> QED
      BY <1>2, <3>1, CountType
  <2> QED
    BY <1>1, <1>3, <1>7, <2>1, <2>2, <2>3 DEF OwedRight
<1>10. Content'
  <2>1. UNCHANGED <<templates, enrollments, told, torn, whole>>
    BY DEF CreateSession, library, framework, history
  <2> QED
    BY <1>3, <2>1, QuietKeeps DEF IInv
<1> QED
  BY <1>4, <1>5, <1>8, <1>9, <1>10 DEF IInv

\* A task joins the queue unless that is full.
LEMMA ScheduleKeeps ==
  ASSUME IInv, NEW task \in {"enumerate", "remove", "close"},
         NEW ids \in Seq(Fids \cup {AnyFid}), open, Schedule(task, ids)
  PROVE  /\ queue' \in Seq(Task) /\ Len(queue') <= WORKER_QUEUE_SIZE /\ UpTo(queue', cur)
         /\ CountIn(queue', EnumTasks(cur)) =
                CountIn(queue, EnumTasks(cur))
                    + IF ~Full /\ task = "enumerate" THEN 1 ELSE 0
<1> DEFINE t == [task |-> task, s |-> cur, user |-> user, ids |-> ids]
           G == EnumTasks(cur)
<1>1. cur \in 1 .. MaxSessions /\ cur \in Nat /\ user \in Users
  BY Begun
<1>2. t \in Task /\ t.s = cur /\ t.task = task
  BY <1>1 DEF Task
<1>3. queue \in Seq(Task) /\ Len(queue) <= WORKER_QUEUE_SIZE /\ UpTo(queue, cur)
  BY DEF IInv, TypeOK, Task, NoneAhead
<1>4. t \in G <=> task = "enumerate"
  BY <1>2 DEF EnumTasks
<1>5. queue' = IF Full THEN queue ELSE Append(queue, t)
  BY DEF Schedule
<1> HIDE DEF t, G
<1>6. CountIn(queue, G) \in Nat
  BY <1>3, CountType
<1>7. CASE Full
  BY <1>3, <1>5, <1>6, <1>7 DEF G
<1>8. CASE ~Full
  <2>1. queue' = Append(queue, t)
    BY <1>5, <1>8
  <2>2. /\ Append(queue, t) \in Seq(Task) /\ Len(Append(queue, t)) = Len(queue) + 1
        /\ Len(queue) \in Nat
    BY <1>2, <1>3
  <2>3. Len(queue) + 1 <= WORKER_QUEUE_SIZE
    BY <1>8, <2>2, EnrollmentsAssumption DEF Full
  <2>4. UpTo(Append(queue, t), cur)
    <3>1. <<t>> \in Seq(Task) /\ Append(queue, t) = queue \o <<t>>
      BY <1>2, <1>3, AppendIsConcat
    <3>2. UpTo(<<t>>, cur)
      BY <1>1, <1>2 DEF UpTo
    <3> QED
      BY <1>3, <3>1, <3>2, ConcatUpTo
  <2>5. CountIn(Append(queue, t), G) = CountIn(queue, G) + IF t \in G THEN 1 ELSE 0
    BY <1>2, <1>3, CountAppend
  <2> QED
    BY <1>4, <1>8, <2>1, <2>2, <2>3, <2>4, <2>5 DEF G
<1> QED
  BY <1>7, <1>8
\* A call of the framework's that schedules a task.
LEMMA EnumerateEnrollmentsStep ==
  ASSUME IInv, enumerateEnrollments
  PROVE  IInv'
<1> USE DEF library, session, worker, framework, history
<1>1. << >> \in Seq(Fids \cup {AnyFid}) /\ open /\ Schedule("enumerate", << >>)
  BY DEF enumerateEnrollments
<1>2. /\ queue' \in Seq(Task) /\ Len(queue') <= WORKER_QUEUE_SIZE /\ UpTo(queue', cur)
      /\ CountIn(queue', EnumTasks(cur)) =
             CountIn(queue, EnumTasks(cur)) + IF ~Full THEN 1 ELSE 0
  BY <1>1, ScheduleKeeps
<1>3. Stream' = Stream /\ cur' = cur /\ open' = open
  BY DEF enumerateEnrollments, Stream
<1>4. /\ calls \in 0 .. MaxCalls /\ calls < MaxCalls /\ calls' = calls + 1 /\ MaxCalls \in Nat
      /\ owed \in 0 .. MaxCalls /\ owed <= calls
      /\ owed' = IF Full THEN owed ELSE owed + 1
  BY EnrollmentsAssumption DEF IInv, TypeOK, OwedRight, enumerateEnrollments
<1>5. calls' \in 0 .. MaxCalls /\ owed' \in 0 .. MaxCalls /\ owed' <= calls'
  BY <1>4
<1>6. TypeOK'
  BY <1>2, <1>5 DEF IInv, TypeOK, enumerateEnrollments, Task
<1>7. SessionFirst'
  BY <1>1 DEF IInv, SessionFirst, enumerateEnrollments
<1>8. NoneAhead'
  BY <1>2, <1>3 DEF IInv, NoneAhead
<1>9. OwedRight'
  <2> DEFINE a == CountIn(queue, EnumTasks(cur))
             b == CountIn(Stream, EnumEnds(cur))
  <2>1. queue \in Seq(Task) /\ Stream \in Seq(MessageSet)
    BY StreamType DEF IInv, TypeOK, Task
  <2>2. a \in Nat /\ b \in Nat
    BY <2>1, CountType
  <2>3. owed = a + b
    BY <1>1 DEF IInv, OwedRight
  <2>4. CountIn(queue', EnumTasks(cur)) = a + IF ~Full THEN 1 ELSE 0
    BY <1>2
  <2> HIDE DEF a
  <2>5. owed' = CountIn(queue', EnumTasks(cur)) + b
    <3> HIDE DEF b
    <3> QED
      BY <1>4, <2>2, <2>3, <2>4
  <2> QED
    BY <1>1, <1>3, <1>5, <2>5 DEF OwedRight
<1>10. Content'
  <2>1. UNCHANGED <<templates, enrollments, told, torn, whole>>
    BY DEF enumerateEnrollments
  <2> QED
    BY <1>3, <2>1, QuietKeeps DEF IInv
<1> QED
  BY <1>6, <1>7, <1>8, <1>9, <1>10 DEF IInv

\* Another one.
LEMMA RemoveEnrollmentsStep ==
  ASSUME IInv, NEW ids \in Removals, removeEnrollments(ids)
  PROVE  IInv'
<1> USE DEF library, session, worker, framework, history
<1>1. ids \in Seq(Fids \cup {AnyFid}) /\ open /\ Schedule("remove", ids)
  BY EnrollmentsAssumption DEF removeEnrollments
<1>2. /\ queue' \in Seq(Task) /\ Len(queue') <= WORKER_QUEUE_SIZE /\ UpTo(queue', cur)
      /\ CountIn(queue', EnumTasks(cur)) = CountIn(queue, EnumTasks(cur)) + 0
  BY <1>1, ScheduleKeeps
<1>3. Stream' = Stream /\ cur' = cur /\ open' = open /\ owed' = owed
  BY DEF removeEnrollments, Stream
<1>4. /\ calls \in 0 .. MaxCalls /\ calls < MaxCalls /\ calls' = calls + 1 /\ MaxCalls \in Nat
      /\ owed \in 0 .. MaxCalls /\ owed <= calls
  BY EnrollmentsAssumption DEF IInv, TypeOK, OwedRight, removeEnrollments
<1>5. calls' \in 0 .. MaxCalls /\ owed <= calls'
  BY <1>4
<1>6. TypeOK'
  BY <1>2, <1>5 DEF IInv, TypeOK, removeEnrollments, Task
<1>7. SessionFirst'
  BY <1>1 DEF IInv, SessionFirst, removeEnrollments
<1>8. NoneAhead'
  BY <1>2, <1>3 DEF IInv, NoneAhead
<1>9. OwedRight'
  <2>1. queue \in Seq(Task)
    BY DEF IInv, TypeOK, Task
  <2>2. CountIn(queue, EnumTasks(cur)) \in Nat
    BY <2>1, CountType
  <2>3. CountIn(queue', EnumTasks(cur)) = CountIn(queue, EnumTasks(cur))
    BY <1>2, <2>2
  <2> QED
    BY <1>3, <1>5, <2>3 DEF IInv, OwedRight
<1>10. Content'
  <2>1. UNCHANGED <<templates, enrollments, told, torn, whole>>
    BY DEF removeEnrollments
  <2> QED
    BY <1>3, <2>1, QuietKeeps DEF IInv
<1> QED
  BY <1>6, <1>7, <1>8, <1>9, <1>10 DEF IInv

\* A closed session waits for nothing.
LEMMA CloseStep ==
  ASSUME IInv, close
  PROVE  IInv'
<1> USE DEF library, session, worker, framework, history
<1>1. << >> \in Seq(Fids \cup {AnyFid}) /\ open /\ Schedule("close", << >>)
  BY DEF close
<1>2. queue' \in Seq(Task) /\ Len(queue') <= WORKER_QUEUE_SIZE /\ UpTo(queue', cur)
  BY <1>1, ScheduleKeeps
<1>3. Stream' = Stream /\ cur' = cur /\ open' = FALSE /\ owed' = 0 /\ calls' = calls
  BY DEF close, Stream
<1>4. calls \in 0 .. MaxCalls /\ MaxCalls \in Nat /\ 0 \in 0 .. MaxCalls /\ 0 <= calls
  BY EnrollmentsAssumption DEF IInv, TypeOK
<1>5. TypeOK'
  BY <1>2, <1>3, <1>4 DEF IInv, TypeOK, close, Task
<1>6. SessionFirst'
  BY <1>1, <1>3 DEF IInv, SessionFirst, close
<1>7. NoneAhead'
  BY <1>2, <1>3 DEF IInv, NoneAhead
<1>8. OwedRight'
  BY <1>3, <1>4 DEF OwedRight
<1>9. Content'
  <2>1. UNCHANGED <<templates, enrollments, told, torn, whole>>
    BY DEF close
  <2> QED
    BY <1>3, <2>1, QuietKeeps DEF IInv
<1> QED
  BY <1>5, <1>6, <1>7, <1>8, <1>9 DEF IInv

-----------------------------------------------------------------------------
(* The worker's steps.                                                     *)

\* A task leaves the queue.
LEMMA TaskTaken ==
  ASSUME IInv, queue # << >>, queue' = Tail(queue)
  PROVE  /\ queue' \in Seq(Task) /\ Len(queue') <= WORKER_QUEUE_SIZE /\ UpTo(queue', cur)
         /\ Head(queue) \in Task /\ Head(queue).s <= cur /\ Head(queue).s \in 1 .. MaxSessions
         /\ CountIn(queue, EnumTasks(cur)) =
                CountIn(queue', EnumTasks(cur))
                    + IF Head(queue).task = "enumerate" /\ Head(queue).s = cur THEN 1 ELSE 0
<1>1. queue \in Seq(Task) /\ Len(queue) <= WORKER_QUEUE_SIZE /\ UpTo(queue, cur)
  BY DEF IInv, TypeOK, Task, NoneAhead
<1>2. /\ Len(queue) \in Nat \ {0} /\ queue[1] \in Task /\ Head(queue) = queue[1]
      /\ Tail(queue) \in Seq(Task) /\ Len(Tail(queue)) = Len(queue) - 1
      /\ \A i \in 1 .. Len(queue) - 1 : Tail(queue)[i] = queue[i + 1]
  BY <1>1, TailIs
<1>3. Len(queue') <= WORKER_QUEUE_SIZE
  BY <1>1, <1>2, EnrollmentsAssumption
<1>4. UpTo(queue', cur)
  <2> SUFFICES ASSUME NEW i \in 1 .. Len(queue) - 1 PROVE queue[i + 1].s <= cur
    BY <1>2 DEF UpTo
  <2>1. i + 1 \in 1 .. Len(queue)
    BY <1>2
  <2> QED
    BY <1>1, <2>1 DEF UpTo
<1>5. Head(queue).s <= cur /\ Head(queue).s \in 1 .. MaxSessions
  <2>1. 1 \in 1 .. Len(queue)
    BY <1>2
  <2> QED
    BY <1>1, <1>2, <2>1, TaskAt DEF UpTo
<1>6. Head(queue) \in EnumTasks(cur) <=> Head(queue).task = "enumerate" /\ Head(queue).s = cur
  BY <1>2 DEF EnumTasks
<1>7. CountIn(queue, EnumTasks(cur)) =
          CountIn(Tail(queue), EnumTasks(cur)) + IF Head(queue) \in EnumTasks(cur) THEN 1 ELSE 0
  BY <1>1, CountTail
<1> QED
  BY <1>2, <1>3, <1>4, <1>5, <1>6, <1>7
\* The library has more to send: the stream grows at its end.
LEMMA Sent ==
  ASSUME IInv, NEW x \in Seq(MessageSet), notifying' = notifying, vendor' = vendor \o x,
         UpTo(x, cur)
  PROVE  /\ vendor' \in Seq(MessageSet) /\ Stream' = Stream \o x /\ UpTo(Stream', cur)
         /\ \A G : CountIn(Stream', G) = CountIn(Stream, G) + CountIn(x, G)
         /\ \A G : CountIn(Stream, G) \in Nat
<1>1. /\ notifying \in Seq(MessageSet) /\ vendor \in Seq(MessageSet)
      /\ Stream \in Seq(MessageSet)
  BY StreamType DEF IInv
<1>2. vendor \o x \in Seq(MessageSet)
  BY <1>1, ConcatIs
<1>3. notifying \o (vendor \o x) = (notifying \o vendor) \o x
  BY <1>1, ConcatAssociative
<1>4. Stream' = Stream \o x
  BY <1>3 DEF Stream
<1>5. UpTo(Stream, cur)
  BY DEF IInv, NoneAhead
<1>6. UpTo(Stream \o x, cur)
  BY <1>1, <1>5, ConcatUpTo
<1>7. \A G : CountIn(Stream \o x, G) = CountIn(Stream, G) + CountIn(x, G)
  BY <1>1, CountConcat
<1>8. \A G : CountIn(Stream, G) \in Nat
  BY <1>1, CountType
<1> QED
  BY <1>2, <1>4, <1>6, <1>7, <1>8

\* An enumeration begins, or the library refuses it.
LEMMA EnumerateStep ==
  ASSUME IInv, Enumerate
  PROVE  IInv'
<1> USE DEF library, session, worker, framework, history
<1> DEFINE c == Head(queue).s
           x == Enumeration(c)
           a == CountIn(queue', EnumTasks(cur))
           b == CountIn(Stream, EnumEnds(cur))
<1>1. /\ queue # << >> /\ queue' = Tail(queue) /\ Head(queue).task = "enumerate"
      /\ cur' = cur /\ open' = open /\ calls' = calls /\ notifying' = notifying
      /\ UNCHANGED <<templates, enrollments, told, torn, whole>>
  BY DEF Enumerate
<1>2. cur \in Nat /\ group \in Users /\ cur # 0
  BY <1>1, Begun
<1>3. /\ queue' \in Seq(Task) /\ Len(queue') <= WORKER_QUEUE_SIZE /\ UpTo(queue', cur)
      /\ c <= cur /\ c \in 1 .. MaxSessions
      /\ CountIn(queue, EnumTasks(cur)) = a + IF c = cur THEN 1 ELSE 0
  BY <1>1, TaskTaken
<1>4. /\ owed \in 0 .. MaxCalls /\ owed <= calls /\ calls \in 0 .. MaxCalls /\ MaxCalls \in Nat
      /\ open => owed = CountIn(queue, EnumTasks(cur)) + b
      /\ ~open => owed = 0
  BY EnrollmentsAssumption DEF IInv, TypeOK, OwedRight
<1>5. a \in Nat /\ b \in Nat
  BY <1>3, StreamType, CountType DEF IInv
<1>6. SessionFirst'
  BY <1>1, <1>2 DEF IInv, SessionFirst, Enumerate
<1>7. CASE vendor' = vendor \o x /\ owed' = owed
  <2>1. x \in Seq(MessageSet) /\ Enumerates(x, group, templates[group], c)
    <3>1. templates \in [Users -> SUBSET Fids]
      BY DEF IInv, TypeOK
    <3> QED
      BY <1>2, <1>3, <3>1, EnumerationIs
  <2> HIDE DEF x
  <2>2. GoodBlock(x, templates, templates)
    BY <2>1, EnumerationIsGood
  <2>3. CountIn(x, EnumEnds(cur)) = IF c = cur THEN 1 ELSE 0
    <3>1. OneRun(x, c)
      BY <2>1 DEF OneRun, Enumerates
    <3> QED
      BY <2>1, <3>1, OneEnd
  <2>4. UpTo(x, cur)
    <3>1. \A i \in 1 .. Len(x) : x[i].s = c
      BY <2>1 DEF Enumerates
    <3> QED
      BY <1>3, <3>1 DEF UpTo
  <2>5. /\ vendor' \in Seq(MessageSet) /\ Stream' = Stream \o x /\ UpTo(Stream', cur)
        /\ CountIn(Stream', EnumEnds(cur)) = b + CountIn(x, EnumEnds(cur))
    BY <1>1, <1>7, <2>1, <2>4, Sent
  <2>6. TypeOK'
    BY <1>3, <1>7, <2>5 DEF IInv, TypeOK, Enumerate, Task
  <2>7. NoneAhead'
    BY <1>1, <1>3, <2>5 DEF NoneAhead
  <2>8. OwedRight'
    <3>1. a + CountIn(Stream', EnumEnds(cur)) = CountIn(queue, EnumTasks(cur)) + b
      <4> HIDE DEF a, b, c
      <4>1. CASE c = cur
        BY <1>3, <1>5, <2>3, <2>5, <4>1
      <4>2. CASE c # cur
        BY <1>3, <1>5, <2>3, <2>5, <4>2
      <4> QED
        BY <4>1, <4>2
    <3> QED
      BY <1>1, <1>4, <1>7, <3>1 DEF OwedRight
  <2>9. Content'
    BY <1>1, <2>1, <2>2, <2>5, SendKeeps
  <2> QED
    BY <1>6, <2>6, <2>7, <2>8, <2>9 DEF IInv
<1>8. CASE vendor' = vendor /\ owed' = IF c = cur /\ open THEN owed - 1 ELSE owed
  <2>1. Stream' = Stream
    BY <1>1, <1>8 DEF Stream
  <2>2. NoneAhead'
    BY <1>1, <1>3, <2>1 DEF IInv, NoneAhead
  <2>3. open => owed' = a + b
    <3> HIDE DEF a, b, c
    <3>1. CASE c = cur
      BY <1>3, <1>4, <1>5, <1>8, <3>1
    <3>2. CASE c # cur
      BY <1>3, <1>4, <1>5, <1>8, <3>2
    <3> QED
      BY <3>1, <3>2
  <2>4. owed' \in 0 .. MaxCalls /\ owed' <= calls /\ (~open => owed' = 0)
    <3> HIDE DEF a, b, c
    <3>1. CASE open
      <4>1. owed' \in Nat /\ owed' <= owed
        BY <1>4, <1>5, <1>8, <2>3, <3>1
      <4> QED
        BY <1>4, <3>1, <4>1
    <3>2. CASE ~open
      BY <1>4, <1>8, <3>2
    <3> QED
      BY <3>1, <3>2
  <2>5. TypeOK'
    BY <1>3, <1>8, <2>4 DEF IInv, TypeOK, Enumerate, Task
  <2>6. OwedRight'
    BY <1>1, <2>1, <2>3, <2>4 DEF OwedRight
  <2>7. Content'
    BY <1>1, <2>1, QuietKeeps DEF IInv
  <2> QED
    BY <1>6, <2>2, <2>5, <2>6, <2>7 DEF IInv
<1> QED
  BY <1>7, <1>8 DEF Enumerate

\* What a step of the worker leaves as it was when it only takes a task that is
\* no enumeration, or none.
LEMMA OwedAsBefore ==
  ASSUME IInv, cur' = cur, open' = open, owed' = owed, calls' = calls,
         CountIn(queue', EnumTasks(cur)) = CountIn(queue, EnumTasks(cur)),
         CountIn(Stream', EnumEnds(cur)) = CountIn(Stream, EnumEnds(cur))
  PROVE  OwedRight'
  BY DEF IInv, OwedRight

\* The worker begins with a removal.
LEMMA TakeRemovalStep ==
  ASSUME IInv, TakeRemoval
  PROVE  IInv'
<1> USE DEF library, session, worker, framework, history
<1> DEFINE a == CountIn(queue', EnumTasks(cur))
<1>1. /\ queue # << >> /\ queue' = Tail(queue) /\ Head(queue).task = "remove"
      /\ UNCHANGED <<cur, open, owed, calls, notifying, vendor>>
      /\ UNCHANGED <<templates, enrollments, told, torn, whole>>
  BY DEF TakeRemoval
<1>2. cur \in Nat /\ group \in Users /\ cur # 0
  BY <1>1, Begun
<1>3. /\ queue' \in Seq(Task) /\ Len(queue') <= WORKER_QUEUE_SIZE /\ UpTo(queue', cur)
      /\ Head(queue) \in Task /\ CountIn(queue, EnumTasks(cur)) = a + 0
  BY <1>1, TaskTaken
<1>4. Stream' = Stream
  BY <1>1 DEF Stream
<1>5. Head(queue).user \in Users /\ Head(queue).ids \in Seq(Fids \cup {AnyFid})
  BY <1>3 DEF Task
<1>6. /\ removing' \in [user : Users \cup {NoUser}, ids : Seq(Fids \cup {AnyFid})]
      /\ removing'.user \in Users
  BY <1>5 DEF TakeRemoval
<1>7. TypeOK'
  BY <1>3, <1>6 DEF IInv, TypeOK, TakeRemoval, Task
<1>8. SessionFirst'
  BY <1>1, <1>2, <1>6 DEF IInv, SessionFirst, TakeRemoval
<1>9. NoneAhead'
  BY <1>1, <1>3, <1>4 DEF IInv, NoneAhead
<1>10. OwedRight'
  <2>1. a \in Nat
    BY <1>3, CountType
  <2>2. a = CountIn(queue, EnumTasks(cur))
    BY <1>3, <2>1
  <2> QED
    BY <1>1, <1>4, <2>2, OwedAsBefore
<1>11. Content'
  BY <1>1, <1>4, QuietKeeps DEF IInv
<1> QED
  BY <1>7, <1>8, <1>9, <1>10, <1>11 DEF IInv

\* The task of close.
LEMMA CloseTaskStep ==
  ASSUME IInv, CloseTask
  PROVE  IInv'
<1> USE DEF library, session, worker, framework, history
<1> DEFINE a == CountIn(queue', EnumTasks(cur))
<1>1. /\ queue # << >> /\ queue' = Tail(queue) /\ Head(queue).task = "close"
      /\ UNCHANGED <<cur, open, owed, calls, notifying, vendor>>
      /\ UNCHANGED <<templates, enrollments, told, torn, whole>>
  BY DEF CloseTask
<1>2. cur \in Nat /\ group \in Users /\ cur # 0
  BY <1>1, Begun
<1>3. /\ queue' \in Seq(Task) /\ Len(queue') <= WORKER_QUEUE_SIZE /\ UpTo(queue', cur)
      /\ CountIn(queue, EnumTasks(cur)) = a + 0
  BY <1>1, TaskTaken
<1>4. Stream' = Stream
  BY <1>1 DEF Stream
<1>5. TypeOK'
  BY <1>3 DEF IInv, TypeOK, CloseTask, Task
<1>6. SessionFirst'
  BY <1>1, <1>2 DEF IInv, SessionFirst, CloseTask
<1>7. NoneAhead'
  BY <1>1, <1>3, <1>4 DEF IInv, NoneAhead
<1>8. OwedRight'
  <2>1. a \in Nat
    BY <1>3, CountType
  <2>2. a = CountIn(queue, EnumTasks(cur))
    BY <1>3, <2>1
  <2> QED
    BY <1>1, <1>4, <2>2, OwedAsBefore
<1>9. Content'
  BY <1>1, <1>4, QuietKeeps DEF IInv
<1> QED
  BY <1>5, <1>6, <1>7, <1>8, <1>9 DEF IInv

\* The worker is done with a removal.
LEMMA RemovalDoneStep ==
  ASSUME IInv, RemovalDone
  PROVE  IInv'
<1> USE DEF library, session, worker, framework, history
<1>1. /\ UNCHANGED <<queue, cur, open, owed, calls, notifying, vendor>>
      /\ UNCHANGED <<templates, enrollments, told, torn, whole>>
      /\ removing' = Idle
  BY DEF RemovalDone
<1>2. Stream' = Stream
  BY <1>1 DEF Stream
<1>3. Idle \in [user : Users \cup {NoUser}, ids : Seq(Fids \cup {AnyFid})] /\ Idle.ids = << >>
  BY DEF Idle
<1>4. TypeOK'
  BY <1>3 DEF IInv, TypeOK, RemovalDone
<1>5. SessionFirst'
  BY <1>1, <1>3 DEF IInv, SessionFirst, RemovalDone
<1>6. NoneAhead' /\ OwedRight'
  BY <1>1, <1>2 DEF IInv, NoneAhead, OwedRight
<1>7. Content'
  BY <1>1, <1>2, QuietKeeps DEF IInv
<1> QED
  BY <1>4, <1>5, <1>6, <1>7 DEF IInv
\* The next id of a removal: the library removes what it finds and will say so, or
\* refuses.
LEMMA RemoveNextStep ==
  ASSUME IInv, RemoveNext
  PROVE  IInv'
<1> USE DEF library, session, worker, framework, history
<1> DEFINE F == Found(removing.user, Head(removing.ids))
           x == Messages("REMOVED", F, cur)
<1>1. /\ removing.ids # << >> /\ removing' = [removing EXCEPT !.ids = Tail(@)]
      /\ UNCHANGED <<queue, cur, open, owed, calls, notifying, group>>
      /\ UNCHANGED <<enrollments, told, torn, whole>>
  BY DEF RemoveNext
<1>2. removing \in [user : Users \cup {NoUser}, ids : Seq(Fids \cup {AnyFid})]
  BY DEF IInv, TypeOK
<1>3. removing # Idle
  BY <1>1 DEF Idle
<1>4. cur \in 1 .. MaxSessions /\ cur \in Nat /\ cur # 0 /\ group \in Users
  BY <1>3, Begun
<1>5. removing.user \in Users
  BY <1>1 DEF IInv, SessionFirst
<1>6. /\ Tail(removing.ids) \in Seq(Fids \cup {AnyFid})
      /\ Head(removing.ids) \in Fids \cup {AnyFid}
  BY <1>1, <1>2, TailIs
<1>7. /\ removing' \in [user : Users \cup {NoUser}, ids : Seq(Fids \cup {AnyFid})]
      /\ removing'.user \in Users
  BY <1>1, <1>2, <1>5, <1>6
<1>8. SessionFirst'
  BY <1>1, <1>4, <1>7 DEF IInv, SessionFirst, RemoveNext
<1>9. templates \in [Users -> SUBSET Fids]
  BY DEF IInv, TypeOK
<1>10. CASE /\ templates' = [templates EXCEPT ![removing.user] = @ \ F]
            /\ vendor' = vendor \o x
  <2>1. F \in SUBSET Fids /\ (F = {} \/ removing.user = group)
    BY <1>5, <1>6, <1>9 DEF Found
  <2>2. x \in Seq(MessageSet) /\ OnePerFid(x, "REMOVED", group, F, cur)
    BY <1>4, <2>1, MessagesAre
  <2> HIDE DEF F, x
  <2>3. GoodBlock(x, templates, templates')
    BY <1>5, <1>9, <1>10, <2>1, <2>2, RemovalIsGood
  <2>4. UpTo(x, cur)
    <3>1. \A i \in 1 .. Len(x) : x[i].s = cur
      BY <2>2 DEF OnePerFid
    <3> QED
      BY <1>4, <3>1 DEF UpTo
  <2>5. CountIn(x, EnumEnds(cur)) = 0
    <3>1. \A i \in 1 .. Len(x) : x[i] \notin EnumEnds(cur)
      BY <2>2 DEF OnePerFid, EnumEnds, IsEnd, IsEnum
    <3> QED
      BY <2>2, <3>1, CountType
  <2>6. /\ vendor' \in Seq(MessageSet) /\ Stream' = Stream \o x /\ UpTo(Stream', cur)
        /\ CountIn(Stream', EnumEnds(cur)) = CountIn(Stream, EnumEnds(cur)) + 0
        /\ CountIn(Stream, EnumEnds(cur)) \in Nat
    BY <1>1, <1>10, <2>2, <2>4, <2>5, Sent
  <2>7. templates' \in [Users -> SUBSET Fids]
    BY <1>5, <1>9, <1>10
  <2>8. TypeOK'
    BY <1>7, <2>6, <2>7 DEF IInv, TypeOK, RemoveNext
  <2>9. NoneAhead'
    BY <1>1, <2>6 DEF IInv, NoneAhead
  <2>10. OwedRight'
    <3>1. CountIn(Stream', EnumEnds(cur)) = CountIn(Stream, EnumEnds(cur))
      BY <2>6
    <3> QED
      BY <1>1, <3>1, OwedAsBefore
  <2>11. Content'
    BY <1>1, <2>2, <2>3, <2>6, SendKeeps
  <2> QED
    BY <1>8, <2>8, <2>9, <2>10, <2>11 DEF IInv
<1>11. CASE UNCHANGED <<templates, vendor>>
  <2>1. Stream' = Stream
    BY <1>1, <1>11 DEF Stream
  <2>2. TypeOK'
    BY <1>7, <1>11 DEF IInv, TypeOK, RemoveNext
  <2>3. NoneAhead' /\ OwedRight'
    BY <1>1, <2>1 DEF IInv, NoneAhead, OwedRight
  <2>4. Content'
    BY <1>1, <1>11, <2>1, QuietKeeps DEF IInv
  <2> QED
    BY <1>8, <2>2, <2>3, <2>4 DEF IInv
<1> QED
  BY <1>10, <1>11 DEF RemoveNext

-----------------------------------------------------------------------------
(* The steps of the library's thread.                                      *)

\* A new template, and the message about it.
LEMMA EnrollStep ==
  ASSUME IInv, NEW fid \in Fids, Enroll(fid)
  PROVE  IInv'
<1> USE DEF library, session, worker, framework, history
<1> DEFINE m == Message("ENROLLING", fid, 0, cur)
           x == <<m>>
<1>1. /\ group # NoUser /\ calls < MaxCalls /\ calls' = calls + 1
      /\ templates' = [templates EXCEPT ![group] = @ \cup {fid}]
      /\ vendor' = Append(vendor, m)
      /\ UNCHANGED <<queue, removing, cur, open, owed, notifying, group>>
      /\ UNCHANGED <<enrollments, told, torn, whole>>
  BY DEF Enroll
<1>2. cur \in 1 .. MaxSessions /\ cur \in Nat /\ cur # 0 /\ group \in Users
  BY <1>1, Begun
<1>3. /\ m \in MessageSet /\ m.type = "ENROLLING" /\ m.gid = group /\ m.fid = fid
      /\ m.s = cur
  BY <1>2 DEF Message, MessageSet
<1> HIDE DEF m
<1>4. templates \in [Users -> SUBSET Fids] /\ vendor \in Seq(MessageSet)
  BY DEF IInv, TypeOK
<1>5. x \in Seq(MessageSet) /\ vendor' = vendor \o x
  BY <1>1, <1>3, <1>4, AppendIsConcat
<1>6. GoodBlock(x, templates, templates')
  BY <1>1, <1>2, <1>3, <1>4, EnrollmentIsGood
<1>7. UpTo(x, cur)
  BY <1>2, <1>3 DEF UpTo
<1>8. CountIn(x, EnumEnds(cur)) = 0
  <2>1. m \notin EnumEnds(cur)
    BY <1>3 DEF EnumEnds, IsEnd, IsEnum
  <2> QED
    BY <2>1, CountOne
<1> HIDE DEF x
<1>9. /\ vendor' \in Seq(MessageSet) /\ Stream' = Stream \o x /\ UpTo(Stream', cur)
      /\ CountIn(Stream', EnumEnds(cur)) = CountIn(Stream, EnumEnds(cur)) + 0
      /\ CountIn(Stream, EnumEnds(cur)) \in Nat
  BY <1>1, <1>5, <1>7, <1>8, Sent
<1>10. templates' \in [Users -> SUBSET Fids]
  BY <1>1, <1>2, <1>4
<1>11. /\ calls \in 0 .. MaxCalls /\ MaxCalls \in Nat /\ owed \in 0 .. MaxCalls
       /\ owed <= calls
  BY EnrollmentsAssumption DEF IInv, TypeOK, OwedRight
<1>12. calls' \in 0 .. MaxCalls /\ owed <= calls'
  BY <1>1, <1>11
<1>13. TypeOK'
  BY <1>9, <1>10, <1>12 DEF IInv, TypeOK, Enroll
<1>14. SessionFirst'
  BY <1>1, <1>2 DEF IInv, SessionFirst, Enroll
<1>15. NoneAhead'
  BY <1>1, <1>9 DEF IInv, NoneAhead
<1>16. OwedRight'
  <2>1. CountIn(Stream', EnumEnds(cur)) = CountIn(Stream, EnumEnds(cur))
    BY <1>9
  <2> QED
    BY <1>1, <1>12, <2>1 DEF IInv, OwedRight
<1>17. Content'
  BY <1>1, <1>5, <1>6, <1>9, SendKeeps
<1> QED
  BY <1>13, <1>14, <1>15, <1>16, <1>17 DEF IInv

\* The first message whose enumeration is over is the end of the one at the head.
LEMMA EndOfFirst ==
  ASSUME NEW q \in Seq(MessageSet), q # << >>, IsEnum(q[1]), CountsDown(q)
  PROVE  (CHOOSE i \in DOMAIN q : /\ q[i].remaining = 0
                                  /\ \A j \in 1 .. i - 1 : q[j].remaining # 0)
             = 1 + q[1].remaining
<1> DEFINE n == q[1].remaining
           P(i) == q[i].remaining = 0 /\ \A j \in 1 .. i - 1 : q[j].remaining # 0
<1>1. 1 \in 1 .. Len(q) /\ Len(q) \in Nat /\ DOMAIN q = 1 .. Len(q)
  OBVIOUS
<1>2. n \in Nat
  BY <1>1, MessageAt
<1>3. \A j \in 0 .. n : 1 + j <= Len(q) /\ q[1 + j].remaining = n - j
  BY <1>1 DEF CountsDown
<1> HIDE DEF n
<1>4. ASSUME NEW i \in 1 .. 1 + n PROVE q[i].remaining = (1 + n) - i
  <2>1. i - 1 \in 0 .. n /\ 1 + (i - 1) = i /\ n - (i - 1) = (1 + n) - i
    BY <1>2
  <2>2. q[1 + (i - 1)].remaining = n - (i - 1)
    BY <1>3, <2>1
  <2> QED
    BY <2>1, <2>2
<1>5. 1 + n \in 1 .. Len(q) /\ 1 + n \in 1 .. 1 + n
  <2>1. n \in 0 .. n
    BY <1>2
  <2>2. 1 + n <= Len(q)
    BY <1>3, <2>1
  <2> QED
    BY <1>1, <1>2, <2>2
<1>6. P(1 + n)
  <2>1. q[1 + n].remaining = (1 + n) - (1 + n)
    BY <1>4, <1>5
  <2>2. q[1 + n].remaining = 0
    BY <1>2, <2>1
  <2>3. ASSUME NEW j \in 1 .. (1 + n) - 1 PROVE q[j].remaining # 0
    <3>1. j \in 1 .. 1 + n /\ (1 + n) - j # 0
      BY <1>2
    <3> QED
      BY <1>4, <3>1
  <2> QED
    BY <2>2, <2>3
<1>7. ASSUME NEW i \in 1 .. Len(q), P(i) PROVE i = 1 + n
  <2>1. CASE i < 1 + n
    <3>1. i \in 1 .. 1 + n /\ (1 + n) - i # 0
      BY <1>1, <1>2, <2>1
    <3>2. q[i].remaining = (1 + n) - i
      BY <1>4, <3>1
    <3> QED
      BY <1>7, <3>1, <3>2
  <2>2. CASE i > 1 + n
    <3>1. 1 + n \in 1 .. i - 1
      BY <1>1, <1>2, <2>2
    <3> QED
      BY <1>6, <1>7, <3>1
  <2> QED
    BY <1>1, <1>2, <2>1, <2>2
<1> HIDE DEF P
<1>8. (CHOOSE i \in DOMAIN q : P(i)) = 1 + n
  BY <1>1, <1>5, <1>6, <1>7
<1> QED
  BY <1>8 DEF P, n
\* With an empty hand after it, too.
LEMMA EmptyHandAfter ==
  ASSUME notifying' = << >>, vendor' \in Seq(MessageSet)
  PROVE  Stream' = vendor'
  BY DEF Stream

\* One enumeration less is owed, if it was the open session's.
LEMMA OwedLess ==
  ASSUME IInv, cur' = cur, open' = open, calls' = calls, queue' = queue, NEW mine,
         Stream \in Seq(MessageSet), Stream' \in Seq(MessageSet), mine \in BOOLEAN,
         CountIn(Stream, EnumEnds(cur)) =
             CountIn(Stream', EnumEnds(cur)) + IF mine THEN 1 ELSE 0,
         owed' = IF mine /\ open THEN owed - 1 ELSE owed
  PROVE  OwedRight' /\ owed' \in 0 .. MaxCalls
<1> DEFINE a == CountIn(queue, EnumTasks(cur))
           b == CountIn(Stream, EnumEnds(cur))
           c == CountIn(Stream', EnumEnds(cur))
<1>1. /\ owed \in 0 .. MaxCalls /\ owed <= calls /\ calls \in 0 .. MaxCalls /\ MaxCalls \in Nat
      /\ (open => owed = a + b) /\ (~open => owed = 0) /\ queue \in Seq(Task)
  BY EnrollmentsAssumption DEF IInv, TypeOK, OwedRight, Task
<1>2. a \in Nat /\ b \in Nat /\ c \in Nat
  BY <1>1, CountType
<1>3. b = c + IF mine THEN 1 ELSE 0
  OBVIOUS
<1> HIDE DEF a, b, c
<1>4. CASE open
  <2>1. owed' = a + c /\ owed' <= owed
    <3>1. CASE mine
      BY <1>1, <1>2, <1>3, <1>4, <3>1
    <3>2. CASE ~mine
      BY <1>1, <1>2, <1>3, <1>4, <3>2
    <3> QED
      BY <3>1, <3>2
  <2>2. owed' \in 0 .. MaxCalls /\ owed' <= calls
    BY <1>1, <1>2, <2>1
  <2> QED
    BY <1>4, <2>1, <2>2 DEF OwedRight, a, c
<1>5. CASE ~open
  BY <1>1, <1>5 DEF OwedRight
<1> QED
  BY <1>4, <1>5

\* An enumeration is broken off.
LEMMA BreakOffStep ==
  ASSUME IInv, BreakOff
  PROVE  IInv'
<1> USE DEF library, session, worker, framework, history
<1> DEFINE q == vendor
           m == Message("ERROR", AnyFid, 0, Head(vendor).s)
           mine == Head(vendor).s = cur
<1>1. /\ notifying = << >> /\ vendor # << >> /\ Head(vendor).type = "ENUMERATING"
      /\ owed' = IF mine /\ open THEN owed - 1 ELSE owed
      /\ whole' = [u \in Users |-> 0]
      /\ UNCHANGED <<queue, removing, cur, open, calls, notifying, group, templates>>
  BY DEF BreakOff
<1>2. Stream = q /\ q \in Seq(MessageSet)
  BY <1>1, EmptyHand, StreamType DEF IInv
<1>3. CountsDown(q) /\ Tells(q, templates) /\ UpTo(q, cur)
  BY <1>2 DEF IInv, Content, InOrder, StreamTells, NoneAhead
<1>4. cur \in Nat /\ cur # 0 /\ group \in Users /\ cur \in 1 .. MaxSessions
  BY <1>1, Begun
<1>5. Head(q) = q[1] /\ 1 \in 1 .. Len(q)
  BY <1>1, <1>2
<1>6. IsEnum(q[1]) /\ q[1].s \in 1 .. MaxSessions
  BY <1>1, <1>2, <1>5, MessageAt DEF IsEnum
<1>7. m \in MessageSet /\ m.type = "ERROR" /\ m.s = q[1].s
  BY <1>4, <1>5, <1>6 DEF Message, MessageSet
<1>8. Broken(q, m, vendor')
  <2>1. (CHOOSE i \in DOMAIN q : /\ q[i].remaining = 0
                                 /\ \A j \in 1 .. i - 1 : q[j].remaining # 0)
            = 1 + q[1].remaining
    BY <1>1, <1>2, <1>3, <1>6, EndOfFirst
  <2> QED
    BY <2>1 DEF BreakOff, Broken
<1> HIDE DEF m
<1>9. /\ vendor' \in Seq(MessageSet) /\ CountsDown(vendor') /\ Tells(vendor', templates)
      /\ UpTo(vendor', cur)
      /\ CountIn(q, EnumEnds(cur)) = CountIn(vendor', EnumEnds(cur))
                                       + IF q[1].s = cur THEN 1 ELSE 0
  <2>1. q # << >> /\ q \in Seq(MessageSet) /\ CountsDown(q) /\ Tells(q, templates)
        /\ IsEnum(q[1])
    BY <1>1, <1>2, <1>3, <1>6
  <2> HIDE DEF q
  <2>2. StaysInOrder(q, vendor', templates)
    BY <1>7, <1>8, <2>1, BreakOffKeeps
  <2> QED
    BY <1>3, <1>4, <2>2 DEF StaysInOrder
<1>10. Stream' = vendor'
  BY <1>1, <1>9, EmptyHandAfter
<1>11. OwedRight' /\ owed' \in 0 .. MaxCalls
  <2>1. mine \in BOOLEAN
    OBVIOUS
  <2>2. CountIn(Stream, EnumEnds(cur)) = CountIn(Stream', EnumEnds(cur))
                                           + IF mine THEN 1 ELSE 0
    BY <1>2, <1>5, <1>9, <1>10
  <2> HIDE DEF mine
  <2> QED
    BY <1>1, <1>2, <1>9, <1>10, <2>1, <2>2, OwedLess
<1>12. TypeOK'
  <2>1. torn' \in BOOLEAN
    BY DEF BreakOff
  <2>2. 0 \in 0 .. 2
    OBVIOUS
  <2>3. whole' \in [Users -> 0 .. 2]
    BY <1>1, <2>2
  <2> QED
    BY <1>9, <1>11, <2>1, <2>3 DEF IInv, TypeOK, BreakOff
<1>13. SessionFirst'
  BY <1>1, <1>4 DEF IInv, SessionFirst, BreakOff
<1>14. NoneAhead'
  BY <1>1, <1>9, <1>10 DEF IInv, NoneAhead
<1>15. Content'
  <2>1. InOrder' /\ StreamTells'
    BY <1>1, <1>9, <1>10 DEF InOrder, StreamTells
  <2>2. TornIsLost' /\ ListClean' /\ WholeTold'
    BY <1>1 DEF TornIsLost, ListClean, WholeTold
  <2> QED
    BY <2>1, <2>2 DEF Content
<1> QED
  BY <1>11, <1>12, <1>13, <1>14, <1>15 DEF IInv

\* notify takes the first message in hand.
LEMMA NotifyStep ==
  ASSUME IInv, Notify
  PROVE  IInv'
<1> USE DEF library, session, worker, framework, history
<1>1. /\ notifying = << >> /\ vendor # << >> /\ open
      /\ notifying' = <<Head(vendor)>> /\ vendor' = Tail(vendor)
      /\ UNCHANGED <<queue, removing, cur, open, calls, owed, group, templates>>
      /\ UNCHANGED <<enrollments, told, torn, whole>>
  BY DEF Notify
<1>2. Stream = vendor /\ vendor \in Seq(MessageSet)
  BY <1>1, EmptyHand, StreamType DEF IInv
<1>3. <<Head(vendor)>> \o Tail(vendor) = vendor
  BY <1>1, <1>2, HeadFirst
<1>4. Stream' = Stream
  BY <1>1, <1>2, <1>3 DEF Stream
<1>5. cur # 0
  BY <1>1, Begun
<1>6. /\ Tail(vendor) \in Seq(MessageSet) /\ <<Head(vendor)>> \in Seq(MessageSet)
      /\ Len(<<Head(vendor)>>) <= 1
  BY <1>1, <1>2, TailIs
<1>7. TypeOK'
  BY <1>1, <1>6 DEF IInv, TypeOK, Notify
<1>8. SessionFirst'
  BY <1>1, <1>5, <1>6 DEF IInv, SessionFirst, Notify
<1>9. NoneAhead' /\ OwedRight'
  BY <1>1, <1>4 DEF IInv, NoneAhead, OwedRight
<1>10. Content'
  BY <1>1, <1>4, QuietKeeps DEF IInv
<1> QED
  BY <1>7, <1>8, <1>9, <1>10 DEF IInv

\* A message in hand that has been delivered was the first of the stream.
LEMMA HandDelivered ==
  ASSUME IInv, notifying # << >>, notifying' = << >>, UNCHANGED library
  PROVE  /\ FirstGone /\ Stream[1] = Head(notifying) /\ Head(notifying) \in MessageSet
         /\ \A G : CountIn(Stream, G) = CountIn(Stream', G)
                                          + IF Head(notifying) \in G THEN 1 ELSE 0
         /\ UpTo(Stream', cur)
<1> DEFINE m == Head(notifying)
           h == <<m>>
<1>1. notifying \in Seq(MessageSet) /\ vendor \in Seq(MessageSet) /\ Len(notifying) <= 1
  BY DEF IInv, TypeOK, SessionFirst
<1>2. notifying[1] \in MessageSet /\ m = notifying[1] /\ Len(notifying) = 1
  <2>1. Len(notifying) \in Nat \ {0} /\ notifying[1] \in MessageSet /\ m = notifying[1]
    BY <1>1, TailIs
  <2>2. Len(notifying) = 1
    <3> DEFINE l == Len(notifying)
    <3>1. l \in Nat \ {0} /\ l <= 1
      BY <1>1, <2>1
    <3> HIDE DEF l
    <3>2. l = 1
      BY <3>1
    <3> QED
      BY <3>2 DEF l
  <2> QED
    BY <2>1, <2>2
<1>3. notifying = h
  BY <1>1, <1>2
<1>4. h \in Seq(MessageSet) /\ Len(h) = 1 /\ h[1] = m
  BY <1>2
<1>5. vendor' = vendor /\ templates' = templates
  BY DEF library
<1>6. Stream = h \o vendor
  BY <1>3 DEF Stream
<1>7. Stream' = vendor
  BY <1>1, <1>5 DEF Stream
<1>8. \A G : CountIn(h, G) = IF m \in G THEN 1 ELSE 0
  BY CountOne
<1> HIDE DEF h, m
<1>9. /\ Stream \in Seq(MessageSet) /\ Len(Stream) = Len(h) + Len(vendor) /\ Len(vendor) \in Nat
      /\ \A i \in 1 .. Len(h) : Stream[i] = h[i]
  BY <1>1, <1>4, <1>6, ConcatIs
<1>10. Stream # << >> /\ Stream[1] = m
  BY <1>4, <1>9
<1>11. Drops(vendor, Stream, 1)
  BY <1>1, <1>4, <1>6, ConcatDrops
<1>12. FirstGone
  BY <1>1, <1>5, <1>7, <1>9, <1>10, <1>11 DEF FirstGone
<1>13. ASSUME NEW G
       PROVE  CountIn(Stream, G) = CountIn(Stream', G) + IF m \in G THEN 1 ELSE 0
  <2>1. CountIn(h \o vendor, G) = CountIn(h, G) + CountIn(vendor, G)
    BY <1>1, <1>4, CountConcat
  <2>2. CountIn(h, G) \in Nat /\ CountIn(vendor, G) \in Nat
    BY <1>1, <1>4, CountType
  <2>3. CountIn(Stream, G) = CountIn(vendor, G) + CountIn(h, G)
    BY <1>6, <2>1, <2>2
  <2> QED
    BY <1>7, <1>8, <2>3
<1>14. UpTo(Stream', cur)
  <2>1. UpTo(Stream, cur)
    BY DEF IInv, NoneAhead
  <2>2. UpTo(vendor, cur)
    BY <1>1, <1>9, <1>11, <2>1, DropUpTo
  <2> QED
    BY <1>7, <2>2
<1>15. m \in MessageSet
  BY <1>2 DEF m
<1> QED
  BY <1>10, <1>12, <1>13, <1>14, <1>15 DEF m
\* What a lost message does to the histories.
LEMMA LostType ==
  ASSUME IInv, NEW m, Lost(m)
  PROVE  torn' \in BOOLEAN /\ whole' \in [Users -> 0 .. 2]
<1>1. torn \in BOOLEAN /\ whole \in [Users -> 0 .. 2]
  BY DEF IInv, TypeOK
<1>2. torn' \in BOOLEAN
  <2>1. torn' = IF m.type = "ENUMERATING" THEN m.remaining # 0 ELSE torn
    BY DEF Lost
  <2>2. (m.remaining # 0) \in BOOLEAN
    OBVIOUS
  <2> QED
    BY <1>1, <2>1, <2>2, Zenon
<1>3. whole' \in [Users -> 0 .. 2]
  <2>1. 0 \in 0 .. 2
    OBVIOUS
  <2>2. [u \in Users |-> 0] \in [Users -> 0 .. 2]
    BY <2>1
  <2> QED
    BY <1>1, <2>2 DEF Lost
<1> QED
  BY <1>2, <1>3

\* The message at the head was lost.
LEMMA FirstLost ==
  ASSUME IInv, FirstGone, Lost(Stream[1]),
         Stream[1].type = "ERROR" => UNCHANGED <<enrollments, told>>
  PROVE  Content'
<1>1. CASE Stream[1].type # "ERROR"
  <2>1. whole' = [u \in Users |-> 0]
    BY <1>1 DEF Lost
  <2> QED
    BY <2>1, LostKeeps
<1>2. CASE Stream[1].type = "ERROR"
  <2>1. UNCHANGED <<enrollments, told, torn, whole>>
    BY <1>2 DEF Lost
  <2> QED
    BY <1>2, <2>1, ErrorKeeps
<1> QED
  BY <1>1, <1>2

\* A message no session is open for.
LEMMA DiscardStep ==
  ASSUME IInv, Discard
  PROVE  IInv'
<1> USE DEF library, session, worker, framework, history
<1>1. /\ notifying = << >> /\ vendor # << >> /\ ~open
      /\ notifying' = << >> /\ vendor' = Tail(vendor) /\ Lost(Head(vendor))
      /\ UNCHANGED <<queue, removing, cur, open, calls, owed, group, templates>>
      /\ UNCHANGED <<enrollments, told>>
  BY DEF Discard
<1>2. Stream = vendor /\ vendor \in Seq(MessageSet)
  BY <1>1, EmptyHand, StreamType DEF IInv
<1>3. /\ Len(vendor) \in Nat \ {0} /\ Head(vendor) = vendor[1]
      /\ Tail(vendor) \in Seq(MessageSet) /\ Len(Tail(vendor)) = Len(vendor) - 1
      /\ \A i \in 1 .. Len(vendor) - 1 : Tail(vendor)[i] = vendor[i + 1]
  BY <1>1, <1>2, TailIs
<1>4. vendor' \in Seq(MessageSet)
  BY <1>1, <1>3
<1>5. Stream' = vendor'
  BY <1>1, <1>4, EmptyHandAfter
<1>6. Drops(Tail(vendor), vendor, 1)
  BY <1>3 DEF Drops
<1>7. FirstGone
  BY <1>1, <1>2, <1>4, <1>5, <1>6 DEF FirstGone
<1>8. cur # 0
  BY <1>1, Begun
<1>9. torn' \in BOOLEAN /\ whole' \in [Users -> 0 .. 2]
  BY <1>1, LostType
<1>10. TypeOK'
  BY <1>1, <1>4, <1>9 DEF IInv, TypeOK, Discard
<1>11. SessionFirst'
  BY <1>1, <1>8 DEF IInv, SessionFirst, Discard
<1>12. NoneAhead'
  <2>1. UpTo(Stream, cur) /\ UpTo(queue, cur)
    BY DEF IInv, NoneAhead
  <2>2. UpTo(Stream', cur)
    BY <1>7, <2>1, DropUpTo DEF FirstGone
  <2> QED
    BY <1>1, <2>1, <2>2 DEF NoneAhead
<1>13. OwedRight'
  BY <1>1 DEF IInv, OwedRight
<1>14. Content'
  <2>1. Lost(Stream[1])
    BY <1>1, <1>2, <1>3
  <2> QED
    BY <1>1, <1>7, <2>1, FirstLost
<1> QED
  BY <1>10, <1>11, <1>12, <1>13, <1>14 DEF IInv

\* What is kept by any delivery.
LEMMA DeliveredKeeps ==
  ASSUME IInv, NEW type, Delivered(type),
         told' \in [Users -> SUBSET (Fids \cup {AnyFid})],
         enrollments' \in Seq(Fids \cup {AnyFid}),
         owed' \in 0 .. MaxCalls, OwedRight', torn' \in BOOLEAN, whole' \in [Users -> 0 .. 2],
         none' \in [Users -> BOOLEAN], Content'
  PROVE  IInv'
<1> USE DEF library, session, worker, framework, history
<1>1. /\ notifying # << >> /\ notifying' = << >>
      /\ UNCHANGED <<templates, group, vendor, cur, user, open, queue, removing, calls>>
  BY DEF Delivered
<1>2. UpTo(Stream', cur)
  BY <1>1, HandDelivered
<1>3. cur # 0
  BY <1>1, Begun
<1>4. << >> \in Seq(MessageSet) /\ Len(<< >>) <= 1
  OBVIOUS
<1>5. TypeOK'
  BY <1>1, <1>4 DEF IInv, TypeOK
<1>6. SessionFirst'
  BY <1>1, <1>3, <1>4 DEF IInv, SessionFirst
<1>7. NoneAhead'
  BY <1>1, <1>2 DEF IInv, NoneAhead
<1> QED
  BY <1>5, <1>6, <1>7 DEF IInv

\* What is owed after a delivery.
LEMMA DeliveredOwed ==
  ASSUME IInv, NEW type, Delivered(type),
         owed' = IF Head(notifying) \in EnumEnds(cur) /\ open THEN owed - 1 ELSE owed
  PROVE  OwedRight' /\ owed' \in 0 .. MaxCalls
<1> DEFINE mine == Head(notifying) \in EnumEnds(cur)
<1>1. /\ notifying # << >> /\ notifying' = << >> /\ UNCHANGED library
      /\ UNCHANGED <<cur, open, queue, calls>>
  BY DEF Delivered, session, worker
<1>2. /\ FirstGone
      /\ CountIn(Stream, EnumEnds(cur)) = CountIn(Stream', EnumEnds(cur))
                                            + IF mine THEN 1 ELSE 0
  BY <1>1, HandDelivered
<1>3. mine \in BOOLEAN
  OBVIOUS
<1>4. owed' = IF mine /\ open THEN owed - 1 ELSE owed
  OBVIOUS
<1> HIDE DEF mine
<1>5. Stream \in Seq(MessageSet) /\ Stream' \in Seq(MessageSet)
  BY <1>2 DEF FirstGone
<1> QED
  BY <1>1, <1>2, <1>3, <1>4, <1>5, OwedLess
\* What is known when a message is delivered.
LEMMA Delivering ==
  ASSUME IInv, NEW type, Delivered(type)
  PROVE  /\ FirstGone /\ Stream[1] = Head(notifying) /\ Head(notifying) \in MessageSet
         /\ Head(notifying).type = type /\ user \in Users
         /\ Head(notifying).fid \in Fids \cup {AnyFid}
         /\ told \in [Users -> SUBSET (Fids \cup {AnyFid})]
         /\ enrollments \in Seq(Fids \cup {AnyFid})
         /\ torn \in BOOLEAN /\ whole \in [Users -> 0 .. 2] /\ none \in [Users -> BOOLEAN]
<1>1. /\ notifying # << >> /\ notifying' = << >> /\ UNCHANGED library
      /\ Head(notifying).type = type
  BY DEF Delivered
<1>2. FirstGone /\ Stream[1] = Head(notifying) /\ Head(notifying) \in MessageSet
  BY <1>1, HandDelivered
<1>3. Head(notifying).fid \in Fids \cup {AnyFid}
  BY <1>2 DEF MessageSet
<1>4. user \in Users
  BY <1>1, Begun
<1>5. /\ told \in [Users -> SUBSET (Fids \cup {AnyFid})]
      /\ enrollments \in Seq(Fids \cup {AnyFid})
      /\ torn \in BOOLEAN /\ whole \in [Users -> 0 .. 2] /\ none \in [Users -> BOOLEAN]
  BY DEF IInv, TypeOK
<1> QED
  BY <1>1, <1>2, <1>3, <1>4, <1>5

\* A message that ends no enumeration leaves what is owed.
LEMMA OtherOwed ==
  ASSUME IInv, NEW type, Delivered(type), type # "ENUMERATING", owed' = owed
  PROVE  OwedRight' /\ owed' \in 0 .. MaxCalls
<1>1. Head(notifying).type = type
  BY DEF Delivered
<1>2. Head(notifying) \notin EnumEnds(cur)
  BY <1>1 DEF EnumEnds, IsEnd, IsEnum
<1>3. owed' = IF Head(notifying) \in EnumEnds(cur) /\ open THEN owed - 1 ELSE owed
  BY <1>2
<1> QED
  BY <1>3, DeliveredOwed

\* A removal is delivered.
LEMMA DeliverRemovedStep ==
  ASSUME IInv, DeliverRemoved
  PROVE  IInv'
<1> DEFINE m == Head(notifying)
<1>1. /\ Delivered("REMOVED") /\ told' = [told EXCEPT ![user] = @ \ {m.fid}]
      /\ UNCHANGED <<enrollments, owed, none>>
      /\ IF m.gid # user THEN Lost(m) ELSE UNCHANGED <<torn, whole>>
  BY DEF DeliverRemoved, history
<1>2. /\ FirstGone /\ Stream[1] = m /\ m.type = "REMOVED" /\ user \in Users
      /\ told \in [Users -> SUBSET (Fids \cup {AnyFid})]
      /\ enrollments \in Seq(Fids \cup {AnyFid})
      /\ torn \in BOOLEAN /\ whole \in [Users -> 0 .. 2] /\ none \in [Users -> BOOLEAN]
  BY <1>1, Delivering
<1>3. OwedRight' /\ owed' \in 0 .. MaxCalls
  BY <1>1, OtherOwed
<1>4. told' \in [Users -> SUBSET (Fids \cup {AnyFid})]
  BY <1>1, <1>2
<1>5. CASE m.gid # user
  <2>1. Lost(m)
    BY <1>1, <1>5
  <2>2. torn' \in BOOLEAN /\ whole' \in [Users -> 0 .. 2]
    BY <2>1, LostType
  <2>3. Content'
    BY <1>2, <2>1, FirstLost
  <2> QED
    BY <1>1, <1>2, <1>3, <1>4, <2>2, <2>3, DeliveredKeeps
<1>6. CASE m.gid = user
  <2>1. UNCHANGED <<torn, whole>>
    BY <1>1, <1>6
  <2>2. Content'
    BY <1>1, <1>2, <1>6, <2>1, RemovedKeeps
  <2> QED
    BY <1>1, <1>2, <1>3, <1>4, <2>1, <2>2, DeliveredKeeps
<1> QED
  BY <1>5, <1>6

\* An enrollment is.
LEMMA DeliverEnrollingStep ==
  ASSUME IInv, DeliverEnrolling
  PROVE  IInv'
<1> DEFINE m == Head(notifying)
<1>1. /\ Delivered("ENROLLING") /\ told' = [told EXCEPT ![user] = @ \cup {m.fid}]
      /\ UNCHANGED <<enrollments, owed, none>>
      /\ IF m.gid # user THEN Lost(m) ELSE UNCHANGED <<torn, whole>>
  BY DEF DeliverEnrolling, history
<1>2. /\ FirstGone /\ Stream[1] = m /\ m.type = "ENROLLING" /\ user \in Users
      /\ m.fid \in Fids \cup {AnyFid}
      /\ told \in [Users -> SUBSET (Fids \cup {AnyFid})]
      /\ enrollments \in Seq(Fids \cup {AnyFid})
      /\ torn \in BOOLEAN /\ whole \in [Users -> 0 .. 2] /\ none \in [Users -> BOOLEAN]
  BY <1>1, Delivering
<1>3. OwedRight' /\ owed' \in 0 .. MaxCalls
  BY <1>1, OtherOwed
<1>4. told' \in [Users -> SUBSET (Fids \cup {AnyFid})]
  BY <1>1, <1>2
<1>5. CASE m.gid # user
  <2>1. Lost(m)
    BY <1>1, <1>5
  <2>2. torn' \in BOOLEAN /\ whole' \in [Users -> 0 .. 2]
    BY <2>1, LostType
  <2>3. Content'
    BY <1>2, <2>1, FirstLost
  <2> QED
    BY <1>1, <1>2, <1>3, <1>4, <2>2, <2>3, DeliveredKeeps
<1>6. CASE m.gid = user
  <2>1. UNCHANGED <<torn, whole>>
    BY <1>1, <1>6
  <2>2. Content'
    BY <1>1, <1>2, <1>6, <2>1, EnrollingKeeps
  <2> QED
    BY <1>1, <1>2, <1>3, <1>4, <2>1, <2>2, DeliveredKeeps
<1> QED
  BY <1>5, <1>6

\* An error is.
LEMMA DeliverErrorStep ==
  ASSUME IInv, DeliverError
  PROVE  IInv'
<1>1. Delivered("ERROR") /\ UNCHANGED <<enrollments, told, owed, torn, whole, none>>
  BY DEF DeliverError, history
<1>2. /\ FirstGone /\ Stream[1].type = "ERROR"
      /\ told \in [Users -> SUBSET (Fids \cup {AnyFid})]
      /\ enrollments \in Seq(Fids \cup {AnyFid})
      /\ torn \in BOOLEAN /\ whole \in [Users -> 0 .. 2] /\ none \in [Users -> BOOLEAN]
  BY <1>1, Delivering
<1>3. OwedRight' /\ owed' \in 0 .. MaxCalls
  BY <1>1, OtherOwed
<1>4. Content'
  BY <1>1, <1>2, ErrorKeeps
<1> QED
  BY <1>1, <1>2, <1>3, <1>4, DeliveredKeeps

\* A message of an enumeration is: the list grows, or is reported and emptied.
LEMMA DeliverEnumeratingStep ==
  ASSUME IInv, DeliverEnumerating
  PROVE  IInv'
<1> DEFINE m == Head(notifying)
           list == Append(enrollments, m.fid)
<1>1. /\ Delivered("ENUMERATING")
      /\ m.remaining = 0 =>
             /\ told' = [told EXCEPT ![user] = ToSet(list)] /\ enrollments' = << >>
             /\ owed' = IF m.s = cur /\ open THEN owed - 1 ELSE owed
             /\ none' = [none EXCEPT ![user] = m.fid = AnyFid]
      /\ m.remaining # 0 => enrollments' = list /\ UNCHANGED <<told, owed, none>>
      /\ IF m.gid # user THEN Lost(m)
         ELSE /\ torn' = (torn /\ m.remaining # 0)
              /\ whole' = IF m.remaining # 0 \/ torn \/ whole[user] = 2 THEN whole
                          ELSE [whole EXCEPT ![user] = @ + 1]
  BY DEF DeliverEnumerating, IsLast, Emptied
<1>2. /\ FirstGone /\ Stream[1] = m /\ m.type = "ENUMERATING" /\ user \in Users
      /\ m \in MessageSet /\ m.fid \in Fids \cup {AnyFid}
      /\ told \in [Users -> SUBSET (Fids \cup {AnyFid})]
      /\ enrollments \in Seq(Fids \cup {AnyFid})
      /\ torn \in BOOLEAN /\ whole \in [Users -> 0 .. 2] /\ none \in [Users -> BOOLEAN]
  BY <1>1, Delivering
<1>3. OwedRight' /\ owed' \in 0 .. MaxCalls
  <2>1. m \in EnumEnds(cur) <=> m.remaining = 0 /\ m.s = cur
    BY <1>2 DEF EnumEnds, IsEnd, IsEnum
  <2>2. owed' = IF m \in EnumEnds(cur) /\ open THEN owed - 1 ELSE owed
    BY <1>1, <2>1
  <2> QED
    BY <1>1, <2>2, DeliveredOwed
<1>4. list \in Seq(Fids \cup {AnyFid}) /\ ToSet(list) \in SUBSET (Fids \cup {AnyFid})
  <2>1. list \in Seq(Fids \cup {AnyFid})
    BY <1>2
  <2> HIDE DEF list
  <2>2. ToSet(list) \in SUBSET (Fids \cup {AnyFid})
    BY <2>1 DEF ToSet
  <2> QED
    BY <2>1, <2>2
<1>5. /\ told' \in [Users -> SUBSET (Fids \cup {AnyFid})]
      /\ enrollments' \in Seq(Fids \cup {AnyFid})
      /\ none' \in [Users -> BOOLEAN]
  <2> HIDE DEF list
  <2>1. << >> \in Seq(Fids \cup {AnyFid})
    OBVIOUS
  <2>2. CASE m.remaining = 0
    BY <1>1, <1>2, <1>4, <2>1, <2>2
  <2>3. CASE m.remaining # 0
    BY <1>1, <1>2, <1>4, <2>3
  <2> QED
    BY <2>2, <2>3
<1>6. CASE m.gid # user
  <2>1. Lost(m)
    BY <1>1, <1>6
  <2>2. torn' \in BOOLEAN /\ whole' \in [Users -> 0 .. 2]
    BY <2>1, LostType
  <2>3. Content'
    BY <1>2, <2>1, FirstLost
  <2> QED
    BY <1>1, <1>3, <1>5, <2>2, <2>3, DeliveredKeeps
<1>7. CASE m.gid = user /\ m.remaining # 0
  <2>1. torn' = torn /\ whole' = whole /\ told' = told /\ enrollments' = list
    BY <1>1, <1>2, <1>7
  <2>2. IsEnum(Stream[1]) /\ Stream[1].remaining # 0
    BY <1>2, <1>7 DEF IsEnum
  <2>3. Content'
    BY <1>2, <2>1, <2>2, ListedKeeps
  <2> QED
    BY <1>1, <1>2, <1>3, <1>5, <2>1, <2>3, DeliveredKeeps
<1>8. CASE m.gid = user /\ m.remaining = 0
  <2>1. /\ told' = [told EXCEPT ![user] = ToSet(list)] /\ enrollments' = << >>
        /\ torn' = FALSE
        /\ whole' = IF torn \/ whole[user] = 2 THEN whole
                    ELSE [whole EXCEPT ![user] = @ + 1]
    BY <1>1, <1>2, <1>8
  <2>2. IsEnd(Stream[1]) /\ Stream[1].gid = user
    BY <1>2, <1>8 DEF IsEnd, IsEnum
  <2>3. Content'
    BY <1>2, <2>1, <2>2, ReportedKeeps
  <2>4. torn' \in BOOLEAN
    BY <2>1
  <2>5. whole' \in [Users -> 0 .. 2]
    <3>1. CASE torn \/ whole[user] = 2
      BY <1>2, <2>1, <3>1
    <3>2. CASE ~ (torn \/ whole[user] = 2)
      <4>1. whole[user] + 1 \in 0 .. 2
        BY <1>2, <3>2
      <4> QED
        BY <1>2, <2>1, <3>2, <4>1
    <3> QED
      BY <3>1, <3>2
  <2> QED
    BY <1>1, <1>3, <1>5, <2>3, <2>4, <2>5, DeliveredKeeps
<1> QED
  BY <1>6, <1>7, <1>8

-----------------------------------------------------------------------------
(* The theorems.                                                           *)

\* It holds at first, with nothing on its way and the framework told of all.
LEMMA InitIInv ==
  ASSUME Init
  PROVE  IInv
<1>1. templates \in [Users -> SUBSET Fids] /\ MaxSessions \in Nat /\ MaxCalls \in Nat
  BY EnrollmentsAssumption DEF Init
<1>2. Stream = << >>
  BY DEF Init, Stream
<1>3. /\ 0 \in 0 .. MaxSessions /\ 0 \in 0 .. MaxCalls /\ 2 \in 0 .. 2
      /\ 0 <= WORKER_QUEUE_SIZE
  BY <1>1, EnrollmentsAssumption
<1>4. TypeOK
  <2>1. /\ << >> \in Seq(Task) /\ << >> \in Seq(MessageSet) /\ << >> \in Seq(Fids \cup {AnyFid})
        /\ Len(<< >>) = 0
    OBVIOUS
  <2>2. Idle \in [user : Users \cup {NoUser}, ids : Seq(Fids \cup {AnyFid})]
    BY DEF Idle
  <2>3. told \in [Users -> SUBSET (Fids \cup {AnyFid})]
    BY <1>1 DEF Init
  <2>4. whole \in [Users -> 0 .. 2] /\ none \in [Users -> BOOLEAN]
    BY <1>3 DEF Init
  <2> QED
    BY <1>1, <1>3, <2>1, <2>2, <2>3, <2>4 DEF Init, TypeOK, Task
<1>5. SessionFirst
  BY DEF Init, SessionFirst, Idle
<1>6. NoneAhead
  BY <1>2 DEF Init, NoneAhead, UpTo
<1>7. OwedRight
  BY DEF Init, OwedRight
<1>8. InOrder /\ StreamTells
  BY <1>2 DEF InOrder, StreamTells, CountsDown, Tells
<1>9. TornIsLost
  BY DEF Init, TornIsLost
<1>10. ListClean
  BY <1>2 DEF Init, ListClean, ListTrue
<1>11. WholeTold
  BY DEF Init, WholeTold, ToldTrue
<1> QED
  BY <1>4, <1>5, <1>6, <1>7, <1>8, <1>9, <1>10, <1>11 DEF IInv, Content

\* A step that changes nothing keeps it.
LEMMA StutterIInv ==
  ASSUME IInv, UNCHANGED vars
  PROVE  IInv'
<1> USE DEF vars, library, session, worker, framework, history
<1>1. Stream' = Stream
  BY DEF Stream
<1>2. TypeOK' /\ SessionFirst'
  BY DEF IInv, TypeOK, SessionFirst
<1>3. NoneAhead' /\ OwedRight'
  BY <1>1 DEF IInv, NoneAhead, OwedRight
<1>4. Content'
  BY <1>1, QuietKeeps DEF IInv
<1> QED
  BY <1>2, <1>3, <1>4 DEF IInv

\* So does every step.
LEMMA NextIInv ==
  ASSUME IInv, [Next]_vars
  PROVE  IInv'
<1>1. ASSUME NEW u \in Users, CreateSession(u) PROVE IInv'
  BY <1>1, CreateSessionStep
<1>2. ASSUME enumerateEnrollments PROVE IInv'
  BY <1>2, EnumerateEnrollmentsStep
<1>3. ASSUME NEW ids \in Removals, removeEnrollments(ids) PROVE IInv'
  BY <1>3, RemoveEnrollmentsStep
<1>4. ASSUME close PROVE IInv'
  BY <1>4, CloseStep
<1>5. ASSUME Work PROVE IInv'
  BY <1>5, EnumerateStep, TakeRemovalStep, RemoveNextStep, RemovalDoneStep, CloseTaskStep
  DEF Work
<1>6. ASSUME NEW fid \in Fids, Enroll(fid) PROVE IInv'
  BY <1>6, EnrollStep
<1>7. ASSUME BreakOff PROVE IInv'
  BY <1>7, BreakOffStep
<1>8. ASSUME Notify \/ Discard PROVE IInv'
  BY <1>8, NotifyStep, DiscardStep
<1>9. ASSUME Deliver PROVE IInv'
  BY <1>9, DeliverEnumeratingStep, DeliverRemovedStep, DeliverEnrollingStep, DeliverErrorStep
  DEF Deliver
<1>10. ASSUME UNCHANGED vars PROVE IInv'
  BY <1>10, StutterIInv
<1> QED
  BY <1>1, <1>2, <1>3, <1>4, <1>5, <1>6, <1>7, <1>8, <1>9, <1>10 DEF Next

\* The inductive invariant always holds: what is on its way from the library is
\* in order, says what is so, and completes what the list of Session::notify and
\* the framework have of it.
THEOREM SpecIInv == Spec => []IInv
<1>1. Init => IInv
  BY InitIInv
<1>2. IInv /\ [Next]_vars => IInv'
  BY NextIInv
<1> QED
  BY <1>1, <1>2, PTL DEF Spec

\* Every variable keeps its type, for queues of any size: schedule never fills
\* the worker's queue past its size, and a session never waits for fewer
\* enumerations than none.
THEOREM TypeCorrect == Spec => []TypeOK
<1>1. IInv => TypeOK
  BY DEF IInv
<1> QED
  BY <1>1, SpecIInv, PTL

-----------------------------------------------------------------------------
(* The id 0.                                                               *)

\* A message has the id 0 only as an error or as an enumeration of nothing.
Clean == {m \in MessageSet : m.fid = AnyFid => m.type = "ERROR" \/ IsEnd(m)}

\* So the list never holds it, and it was told if and only if it came last.
NoneTold ==
    /\ vendor \in Seq(Clean) /\ notifying \in Seq(Clean)
    /\ AnyFid \notin ToSet(enrollments)
    /\ \A u \in Users : AnyFid \in told[u] <=> none[u]

\* A sequence whose elements are clean is one of clean elements.
LEMMA CleanSeq ==
  ASSUME NEW q \in Seq(MessageSet), \A i \in 1 .. Len(q) : q[i] \in Clean
  PROVE  q \in Seq(Clean)
<1>1. Len(q) \in Nat /\ q \in [1 .. Len(q) -> MessageSet]
  BY LenProperties
<1>2. q \in [1 .. Len(q) -> Clean]
  BY <1>1
<1> QED
  BY <1>1, <1>2, SeqDef

\* The library's messages about templates are clean.
LEMMA MessagesClean ==
  ASSUME NEW type \in {"ENUMERATING", "REMOVED"}, NEW fids \in SUBSET Fids,
         NEW s \in 1 .. MaxSessions, group \in Users
  PROVE  Messages(type, fids, s) \in Seq(Clean)
<1> DEFINE x == Messages(type, fids, s)
<1>1. x \in Seq(MessageSet) /\ OnePerFid(x, type, group, fids, s)
  BY MessagesAre
<1>2. AnyFid \notin Fids
  BY EnrollmentsAssumption
<1> HIDE DEF x
<1>3. ASSUME NEW i \in 1 .. Len(x) PROVE x[i] \in Clean
  <2>1. x[i] \in MessageSet /\ x[i].fid \in fids
    BY <1>1, MessageAt DEF OnePerFid
  <2>2. x[i].fid # AnyFid
    BY <1>2, <2>1
  <2> QED
    BY <2>1, <2>2 DEF Clean
<1>4. x \in Seq(Clean)
  BY <1>1, <1>3, CleanSeq
<1> QED
  BY <1>4 DEF x

\* So is an enumeration, also of nothing.
LEMMA EnumerationClean ==
  ASSUME templates \in [Users -> SUBSET Fids], group \in Users,
         NEW s \in 1 .. MaxSessions
  PROVE  Enumeration(s) \in Seq(Clean)
<1>1. CASE templates[group] = {}
  <2> DEFINE m == Message("ENUMERATING", AnyFid, 0, s)
  <2>1. m \in Clean
    BY DEF Message, MessageSet, IsEnum, IsEnd, Clean
  <2>2. Enumeration(s) = <<m>>
    BY <1>1 DEF Enumeration
  <2> HIDE DEF m
  <2> QED
    BY <2>1, <2>2
<1>2. CASE templates[group] # {}
  <2>1. Enumeration(s) = Messages("ENUMERATING", templates[group], s)
    BY <1>2 DEF Enumeration
  <2>2. /\ templates[group] \in SUBSET Fids
        /\ "ENUMERATING" \in {"ENUMERATING", "REMOVED"}
    OBVIOUS
  <2> QED
    BY <2>1, <2>2, MessagesClean
<1> QED
  BY <1>1, <1>2

\* What the library sends keeps the stream clean.
LEMMA SentClean ==
  ASSUME NoneTold, NEW x \in Seq(Clean), vendor' = vendor \o x,
         UNCHANGED <<notifying, enrollments, told, none>>
  PROVE  NoneTold'
<1>1. vendor \o x \in Seq(Clean)
  BY ConcatIs DEF NoneTold
<1> QED
  BY <1>1 DEF NoneTold

\* Every delivery keeps what was told: only a last message may be of nothing.
LEMMA DeliverNone ==
  ASSUME IInv, NoneTold, Deliver
  PROVE  NoneTold'
<1> DEFINE m == Head(notifying)
<1>0. /\ notifying # << >> /\ notifying' = << >> /\ vendor' = vendor
  BY DEF Deliver, DeliverEnumerating, DeliverRemoved, DeliverEnrolling, DeliverError,
         Delivered, library
<1>1. /\ m \in Clean /\ user \in Users
      /\ told \in [Users -> SUBSET (Fids \cup {AnyFid})] /\ none \in [Users -> BOOLEAN]
      /\ enrollments \in Seq(Fids \cup {AnyFid}) /\ m.fid \in Fids \cup {AnyFid}
  <2>1. m \in Clean
    BY <1>0, TailIs DEF NoneTold
  <2>2. m.fid \in Fids \cup {AnyFid}
    BY <2>1 DEF Clean, MessageSet
  <2>3. user \in Users
    BY <1>0, Begun
  <2> QED
    BY <2>1, <2>2, <2>3 DEF IInv, TypeOK
<1>2. vendor' \in Seq(Clean) /\ notifying' \in Seq(Clean)
  BY <1>0 DEF NoneTold
<1>3. AnyFid \notin ToSet(enrollments) /\ \A u \in Users : AnyFid \in told[u] <=> none[u]
  BY DEF NoneTold
<1>4. CASE DeliverRemoved \/ DeliverEnrolling
  <2>1. /\ m.type \in {"REMOVED", "ENROLLING"} /\ enrollments' = enrollments /\ none' = none
        /\ \/ told' = [told EXCEPT ![user] = @ \ {m.fid}]
           \/ told' = [told EXCEPT ![user] = @ \cup {m.fid}]
    BY <1>4 DEF DeliverRemoved, DeliverEnrolling, Delivered
  <2>2. m.fid # AnyFid
    BY <1>1, <2>1 DEF Clean, IsEnd, IsEnum
  <2> HIDE DEF m
  <2>3. \A u \in Users : AnyFid \in told'[u] <=> AnyFid \in told[u]
    BY <1>1, <2>1, <2>2
  <2> QED
    BY <1>2, <1>3, <2>1, <2>3 DEF NoneTold
<1>5. CASE DeliverError
  <2>1. UNCHANGED <<enrollments, told, none>>
    BY <1>5 DEF DeliverError, history
  <2> QED
    BY <1>2, <1>3, <2>1 DEF NoneTold
<1>6. CASE DeliverEnumerating
  <2> DEFINE list == Append(enrollments, m.fid)
  <2>1. /\ m.type = "ENUMERATING"
        /\ m.remaining = 0 => /\ told' = [told EXCEPT ![user] = ToSet(list)]
                              /\ enrollments' = << >>
                              /\ none' = [none EXCEPT ![user] = m.fid = AnyFid]
        /\ m.remaining # 0 => enrollments' = list /\ told' = told /\ none' = none
    BY <1>6 DEF DeliverEnumerating, Delivered, IsLast, Emptied
  <2>2. AnyFid \in ToSet(list) <=> m.fid = AnyFid
    BY <1>1, <1>3, ToSetAppend
  <2>3. CASE m.remaining = 0
    <3>1. AnyFid \notin ToSet(enrollments')
      BY <2>1, <2>3 DEF ToSet
    <3> HIDE DEF list, m
    <3>2. ASSUME NEW u \in Users PROVE AnyFid \in told'[u] <=> none'[u]
      <4>1. CASE u = user
        <5>1. told'[u] = ToSet(list) /\ none'[u] = (m.fid = AnyFid)
          BY <1>1, <2>1, <2>3, <4>1
        <5> QED
          BY <2>2, <5>1
      <4>2. CASE u # user
        <5>1. told'[u] = told[u] /\ none'[u] = none[u]
          BY <1>1, <2>1, <2>3, <4>2
        <5> QED
          BY <1>3, <5>1
      <4> QED
        BY <4>1, <4>2
    <3> QED
      BY <1>2, <3>1, <3>2 DEF NoneTold
  <2>4. CASE m.remaining # 0
    <3>1. m.fid # AnyFid
      BY <1>1, <2>1, <2>4 DEF Clean, IsEnd
    <3> HIDE DEF list, m
    <3>2. AnyFid \notin ToSet(enrollments')
      BY <2>1, <2>2, <2>4, <3>1
    <3> QED
      BY <1>2, <1>3, <2>1, <2>4, <3>2 DEF NoneTold
  <2> QED
    BY <2>3, <2>4
<1> QED
  BY <1>4, <1>5, <1>6 DEF Deliver

\* So does every step.
LEMMA NextNone ==
  ASSUME IInv, NoneTold, [Next]_vars
  PROVE  NoneTold'
<1>0. /\ vendor \in Seq(MessageSet) /\ templates \in [Users -> SUBSET Fids]
      /\ vendor \in Seq(Clean) /\ notifying \in Seq(Clean)
  BY DEF IInv, TypeOK, NoneTold
<1>1. CASE UNCHANGED <<vendor, notifying, enrollments, told, none>>
  BY <1>1 DEF NoneTold
<1>2. CASE Enumerate
  <2>1. /\ queue # << >> /\ UNCHANGED <<notifying, enrollments, told, none>>
        /\ vendor' = vendor \o Enumeration(Head(queue).s) \/ vendor' = vendor
    BY <1>2 DEF Enumerate, history
  <2>2. group \in Users /\ Head(queue).s \in 1 .. MaxSessions
    BY <2>1, Begun, TaskTaken, <1>2 DEF Enumerate
  <2>3. Enumeration(Head(queue).s) \in Seq(Clean)
    BY <1>0, <2>2, EnumerationClean
  <2> QED
    BY <1>1, <2>1, <2>3, SentClean
<1>3. CASE RemoveNext
  <2> DEFINE F == Found(removing.user, Head(removing.ids))
  <2>1. /\ removing.ids # << >> /\ UNCHANGED <<notifying, enrollments, told, none>>
        /\ vendor' = vendor \o Messages("REMOVED", F, cur) \/ vendor' = vendor
    BY <1>3 DEF RemoveNext, history, framework
  <2>2. removing # Idle /\ removing.user \in Users
    BY <2>1 DEF Idle, IInv, SessionFirst
  <2>3. group \in Users /\ cur \in 1 .. MaxSessions
    BY <2>2, Begun
  <2>4. F \in SUBSET Fids
    BY <1>0, <2>2 DEF Found
  <2> HIDE DEF F
  <2>5. Messages("REMOVED", F, cur) \in Seq(Clean)
    <3>1. "REMOVED" \in {"ENUMERATING", "REMOVED"}
      OBVIOUS
    <3> QED
      BY <2>3, <2>4, <3>1, MessagesClean
  <2> QED
    BY <1>1, <2>1, <2>5, SentClean
<1>4. ASSUME NEW fid \in Fids, Enroll(fid)
      PROVE  NoneTold'
  <2> DEFINE m == Message("ENROLLING", fid, 0, cur)
  <2>1. /\ group # NoUser /\ vendor' = Append(vendor, m)
        /\ UNCHANGED <<notifying, enrollments, told, none>>
    BY <1>4 DEF Enroll, history
  <2>2. group \in Users /\ cur \in 1 .. MaxSessions
    BY <2>1, Begun
  <2>3. m \in Clean
    BY <2>2, EnrollmentsAssumption DEF Message, MessageSet, Clean
  <2> HIDE DEF m
  <2>4. vendor' \in Seq(Clean)
    BY <1>0, <2>1, <2>3
  <2> QED
    BY <2>1, <2>4 DEF NoneTold
<1>5. CASE BreakOff
  <2> DEFINE m == Message("ERROR", AnyFid, 0, Head(vendor).s)
             last == CHOOSE i \in DOMAIN vendor :
                   /\ vendor[i].remaining = 0
                   /\ \A j \in 1 .. i - 1 : vendor[j].remaining # 0
             rest == SubSeq(vendor, last + 1, Len(vendor))
  <2>1. /\ notifying = << >> /\ vendor # << >> /\ Head(vendor).type = "ENUMERATING"
        /\ vendor' = <<m>> \o rest
        /\ UNCHANGED <<notifying, enrollments, told, none>>
    BY <1>5 DEF BreakOff
  <2>2. Head(vendor) = vendor[1] /\ IsEnum(vendor[1]) /\ group \in Users
        /\ vendor[1].s \in 1 .. MaxSessions /\ vendor[1].remaining \in Nat
    <3>1. Head(vendor) = vendor[1] /\ vendor[1] \in MessageSet
      BY <1>0, <2>1, TailIs
    <3> QED
      BY <2>1, <3>1, Begun DEF MessageSet, IsEnum
  <2>3. last = 1 + vendor[1].remaining
    <3>1. CountsDown(vendor)
      BY <2>1, EmptyHand DEF IInv, Content, InOrder
    <3> QED
      BY <1>0, <2>1, <2>2, <3>1, EndOfFirst
  <2>4. <<m>> \in Seq(Clean)
    <3>1. m \in Clean
      BY <2>2 DEF Message, MessageSet, Clean
    <3> HIDE DEF m
    <3> QED
      BY <3>1
  <2>5. rest \in Seq(Clean)
    <3>a. vendor[1].remaining \in Nat
      BY <2>2
    <3>b. Len(vendor) \in Int
      BY <1>0
    <3>c. last + 1 \in Int /\ last + 1 >= 1
      <4> DEFINE n == vendor[1].remaining
      <4>1. n \in Nat /\ last = 1 + n
        BY <3>a, <2>3
      <4> HIDE DEF n, last
      <4> QED
        BY <4>1
    <3>1. last + 1 \in Int /\ last + 1 >= 1 /\ Len(vendor) \in Int
      BY <3>b, <3>c
    <3>2. \A i \in last + 1 .. Len(vendor) : vendor[i] \in Clean
      <4> HIDE DEF last
      <4>1. \A i \in 1 .. Len(vendor) : vendor[i] \in Clean
        BY <1>0
      <4> QED
        BY <3>1, <4>1
    <3> HIDE DEF last
    <3> QED
      BY <1>0, <3>1, <3>2, SubSeqProperties
  <2> HIDE DEF m, rest, last
  <2>6. <<m>> \o rest \in Seq(Clean)
    BY <2>4, <2>5, ConcatIs
  <2> QED
    BY <2>1, <2>6 DEF NoneTold
<1>6. CASE Notify \/ Discard
  <2>1. /\ vendor # << >> /\ vendor' = Tail(vendor)
        /\ notifying' = notifying \/ notifying' = <<Head(vendor)>>
        /\ UNCHANGED <<enrollments, told, none>>
    BY <1>6 DEF Notify, Discard, framework, history
  <2>2. Tail(vendor) \in Seq(Clean) /\ Head(vendor) \in Clean
    BY <1>0, <2>1, TailIs
  <2>3. <<Head(vendor)>> \in Seq(Clean)
    BY <2>2
  <2> QED
    BY <2>1, <2>2, <2>3 DEF NoneTold
<1>7. CASE Deliver
  BY <1>7, DeliverNone
<1>8. CASE \/ \E u \in Users : CreateSession(u)
           \/ enumerateEnrollments
           \/ \E ids \in Removals : removeEnrollments(ids)
           \/ close \/ TakeRemoval \/ RemovalDone \/ CloseTask
           \/ UNCHANGED vars
  BY <1>1, <1>8
  DEF CreateSession, enumerateEnrollments, removeEnrollments, close, TakeRemoval,
      RemovalDone, CloseTask, vars, library, framework, history
<1> QED
  BY <1>2, <1>3, <1>4, <1>5, <1>6, <1>7, <1>8 DEF Next, Work

\* Two enumerations that Session::notify has reported in whole put the framework
\* right about a user, whatever was lost, broken off or given to another user's
\* session before: it was told the user's templates and, exactly if the last list
\* said that there were none, the id 0 beside them.
THEOREM ToldIsExact == Spec => []ToldExactly
<1>1. ASSUME IInv, NoneTold, vendor = << >>, notifying = << >>, NEW u \in Users, whole[u] = 2
      PROVE  told[u] = templates[u] \cup (IF none[u] THEN {AnyFid} ELSE {})
  <2>1. Stream = << >>
    BY <1>1 DEF Stream
  <2>2. ToldTrue(Stream, templates, u, told[u])
    BY <1>1 DEF IInv, Content, WholeTold
  <2>3. \A f \in Fids : f \in told[u] <=> f \in templates[u]
    BY <2>1, <2>2 DEF ToldTrue, NoneAfter
  <2>4. told[u] \subseteq Fids \cup {AnyFid} /\ templates[u] \subseteq Fids /\ AnyFid \notin Fids
    BY <1>1, EnrollmentsAssumption DEF IInv, TypeOK
  <2>5. AnyFid \in told[u] <=> none[u]
    BY <1>1 DEF NoneTold
  <2> QED
    BY <2>3, <2>4, <2>5
<1>2. IInv /\ NoneTold => ToldExactly
  BY <1>1 DEF ToldExactly
<1>3. Init => NoneTold
  <2> SUFFICES ASSUME Init
               PROVE  NoneTold
    OBVIOUS
  <2>1. \A u \in Users : told[u] \subseteq Fids /\ ~ none[u]
    BY EnrollmentsAssumption DEF Init
  <2>2. AnyFid \notin Fids
    BY EnrollmentsAssumption
  <2>3. AnyFid \notin ToSet(enrollments)
    BY DEF Init, ToSet
  <2> QED
    BY <2>1, <2>2, <2>3 DEF Init, NoneTold
<1>4. IInv /\ NoneTold /\ [Next]_vars => NoneTold'
  BY NextNone
<1>5. Spec => []NoneTold
  BY <1>3, <1>4, SpecIInv, PTL DEF Spec
<1> QED
  BY <1>2, <1>5, SpecIInv, PTL
=============================================================================
