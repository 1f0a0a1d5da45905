--------------------------- MODULE HalProxyProofs ---------------------------
(***************************************************************************)
(* Proofs about HalProxy, for any number of posting threads, any batches,   *)
(* any capacity of the queues and any timeout: the wakelock is held as long *)
(* as it is counted, the wake-up events under way are counted, the size of  *)
(* the pending queue is right, initialize clears it safely, and the event   *)
(* queue and the pending queue implement EventChannel.                      *)
(***************************************************************************)
EXTENDS HalProxy, EventSequencesProofs

-----------------------------------------------------------------------------
(* The inductive invariant.                                                *)

\* No time lies ahead, and a lock was counted before the count's last change.
Clocks ==
    /\ mWakelockTimeoutStartTime <= now
    /\ mWakelockTimeoutResetTime <= now
    /\ \A p \in Posters : poster[p].locked => poster[p].start <= mWakelockTimeoutStartTime

\* initialize has the threads stopped while it joins them and until it restarts
\* them.
StoppedWhile ==
    /\ initializing \in {"stop", "join", "disable"} => ~mThreadsRun
    /\ initializing = "disable" => pendingThread \in {"off", "done"}

\* Outside the moment after the restart a sensor that is not on holds no lock and
\* is not about to write: it can only have begun to post with the threads stopped.
OffIsQuiet ==
    \A p \in Posters : sensor[p] # "on" /\ initializing # "reset" =>
        /\ ~mThreadsRun
        /\ ~poster[p].locked
        /\ poster[p].pc # "enqueue"

\* The thread that writes and pops has something to write.
WritesPending ==
    pendingThread \in {"write", "pop"} => mPendingWriteEventsQueue # <<>>

\* What is about to be written is what a batch leaves.
PostsBatch ==
    \A p \in Posters :
        /\ poster[p].pc = "post" => poster[p].events \in Batches
        /\ poster[p].pc = "enqueue" => \E b \in Batches : poster[p].events = Passed(b)

IInv ==
    /\ TypeOK
    /\ Clocks
    /\ StoppedWhile
    /\ OffIsQuiet
    /\ WritesPending
    /\ PostsBatch
    /\ CountedMeansHeld
    /\ SizeIsPending
    /\ WakeEventsCounted

-----------------------------------------------------------------------------
(* The operators.                                                          *)

\* The smaller of two numbers.
LEMMA MinOfTwo ==
  ASSUME NEW a \in Int, NEW b \in Int
  PROVE  Min({a, b}) = IF a <= b THEN a ELSE b
<1> DEFINE m == IF a <= b THEN a ELSE b
<1>1. m \in {a, b} /\ \A y \in {a, b} : m <= y
  OBVIOUS
<1>2. \A x \in {a, b} : (\A y \in {a, b} : x <= y) => x = m
  OBVIOUS
<1> QED
  BY <1>1, <1>2 DEF Min

\* decrementRefCountAndMaybeReleaseWakelock takes at most what it is asked to, and
\* releases the wakelock only with the last one.
LEMMA Decremented ==
  ASSUME TypeOK, NEW delta \in Nat, NEW start \in Nat,
         decrementRefCountAndMaybeReleaseWakelock(delta, start)
  PROVE  /\ mWakelockRefCount' \in Nat
         /\ held' \in BOOLEAN
         /\ mWakelockRefCount' >= mWakelockRefCount - delta
         /\ start < mWakelockTimeoutResetTime => mWakelockRefCount' = mWakelockRefCount
         /\ CountedMeansHeld => CountedMeansHeld'
<1>1. mWakelockRefCount \in Nat /\ mWakelockTimeoutResetTime \in Nat /\ held \in BOOLEAN
  BY DEF TypeOK
<1> DEFINE acts == /\ mThreadsRun
                   /\ mWakelockRefCount # 0
                   /\ start >= mWakelockTimeoutResetTime
           m == Min({mWakelockRefCount, delta})
<1>2. m \in Nat /\ m <= mWakelockRefCount /\ m <= delta
  BY <1>1, MinOfTwo
<1>3. /\ mWakelockRefCount' = IF acts THEN mWakelockRefCount - m ELSE mWakelockRefCount
      /\ held' = (held /\ ~(acts /\ mWakelockRefCount' = 0))
  BY DEF decrementRefCountAndMaybeReleaseWakelock
<1> HIDE DEF m
<1>4. /\ mWakelockRefCount' \in Nat /\ mWakelockRefCount' <= mWakelockRefCount
      /\ mWakelockRefCount' >= mWakelockRefCount - delta
      /\ start < mWakelockTimeoutResetTime => mWakelockRefCount' = mWakelockRefCount
  BY <1>1, <1>2, <1>3
<1>5. held' \in BOOLEAN
  BY <1>3
<1>6. CountedMeansHeld => CountedMeansHeld'
  <2> SUFFICES ASSUME CountedMeansHeld, mWakelockRefCount' > 0
               PROVE  held'
    BY DEF CountedMeansHeld
  <2>1. mWakelockRefCount > 0 /\ mWakelockRefCount' # 0
    BY <1>1, <1>4
  <2>2. held
    BY <2>1 DEF CountedMeansHeld
  <2> QED
    BY <1>3, <2>1, <2>2, Zenon
<1> QED
  BY <1>4, <1>5, <1>6

\* incrementRefCountAndMaybeAcquireWakelock leaves the wakelock held.
LEMMA Incremented ==
  ASSUME TypeOK, NEW delta \in Nat, incrementRefCountAndMaybeAcquireWakelock(delta)
  PROVE  /\ mWakelockRefCount' \in Nat
         /\ mWakelockRefCount' = mWakelockRefCount + delta
         /\ mWakelockTimeoutStartTime' = now
         /\ mWakelockTimeoutResetTime' = mWakelockTimeoutResetTime
         /\ held' \in BOOLEAN
         /\ CountedMeansHeld => CountedMeansHeld'
<1>1. mWakelockRefCount \in Nat /\ held \in BOOLEAN
  BY DEF TypeOK
<1>2. /\ mWakelockRefCount' = mWakelockRefCount + delta
      /\ mWakelockTimeoutStartTime' = now
      /\ mWakelockTimeoutResetTime' = mWakelockTimeoutResetTime
      /\ held' = (held \/ mWakelockRefCount = 0)
  BY DEF incrementRefCountAndMaybeAcquireWakelock
<1>3. held' \in BOOLEAN
  BY <1>2
<1>4. CountedMeansHeld => CountedMeansHeld'
  <2> SUFFICES ASSUME CountedMeansHeld
               PROVE  held'
    BY DEF CountedMeansHeld
  <2>1. mWakelockRefCount = 0 \/ mWakelockRefCount > 0
    BY <1>1
  <2> QED
    BY <1>2, <2>1, Zenon DEF CountedMeansHeld
<1> QED
  BY <1>1, <1>2, <1>3, <1>4

\* The reset takes all that is counted, if the threads run.
LEMMA Reset ==
  ASSUME TypeOK, resetSharedWakelock
  PROVE  /\ mWakelockRefCount' \in Nat
         /\ mWakelockTimeoutStartTime' = mWakelockTimeoutStartTime
         /\ mWakelockTimeoutResetTime' = now
         /\ held' \in BOOLEAN
         /\ CountedMeansHeld => CountedMeansHeld'
<1>1. mWakelockRefCount \in Nat /\ mWakelockTimeoutResetTime \in Nat
  BY DEF TypeOK
<1>2. decrementRefCountAndMaybeReleaseWakelock(mWakelockRefCount,
                                               mWakelockTimeoutResetTime)
  BY DEF resetSharedWakelock
<1> QED
  BY <1>1, <1>2, Decremented DEF resetSharedWakelock

\* What is written at once fits the batch and the event queue.
LEMMA WritableFits ==
  ASSUME TypeOK, NEW events \in Seq(Events)
  PROVE  /\ DirectlyWritable(events) \in 0 .. Len(events)
         /\ Len(mEventQueue) + DirectlyWritable(events) <= EventQueueSize
<1>1. /\ Len(events) \in Nat /\ Len(mEventQueue) \in Nat
      /\ Len(mEventQueue) <= EventQueueSize /\ EventQueueSize \in Nat
  BY HalProxyAssumption DEF TypeOK
<1>2. EventQueueSize - Len(mEventQueue) \in Nat
  BY <1>1
<1> QED
  BY <1>1, <1>2, MinOfTwo DEF DirectlyWritable

\* The first pending entry, and how much of it one write takes.
LEMMA FrontIs ==
  ASSUME TypeOK, mPendingWriteEventsQueue # <<>>
  PROVE  /\ Head(mPendingWriteEventsQueue) \in Entry
         /\ Head(mPendingWriteEventsQueue).events \in Seq(Events)
         /\ Head(mPendingWriteEventsQueue).numWakeup \in Nat
         /\ Tail(mPendingWriteEventsQueue) \in Seq(Entry)
         /\ NumToWrite \in 0 .. Len(Head(mPendingWriteEventsQueue).events)
         /\ NumToWrite <= EventQueueSize
         /\ Len(Head(mPendingWriteEventsQueue).events) <= EventQueueSize =>
               NumToWrite = Len(Head(mPendingWriteEventsQueue).events)
         /\ FrontEvents \in Seq(Events)
         /\ Len(FrontEvents) = NumToWrite
<1> DEFINE e == Head(mPendingWriteEventsQueue)
<1>1. e \in Entry /\ Tail(mPendingWriteEventsQueue) \in Seq(Entry)
  BY HeadTailProperties DEF TypeOK
<1>2. e.events \in Seq(Events) /\ e.numWakeup \in Nat
  BY <1>1 DEF Entry
<1>3. Len(e.events) \in Nat /\ EventQueueSize \in Nat
  BY <1>2, HalProxyAssumption
<1>4. /\ NumToWrite \in 0 .. Len(e.events) /\ NumToWrite <= EventQueueSize
      /\ Len(e.events) <= EventQueueSize => NumToWrite = Len(e.events)
  BY <1>3, MinOfTwo DEF NumToWrite
<1>5. FrontEvents \in Seq(Events) /\ Len(FrontEvents) = NumToWrite
  BY <1>2, <1>4, SplitSeq DEF FrontEvents
<1> QED
  BY <1>1, <1>2, <1>4, <1>5

-----------------------------------------------------------------------------
(* Types.                                                                  *)

\* The types of what each part of the proxy keeps.
LockType ==
    /\ mWakelockRefCount \in Nat
    /\ mWakelockTimeoutStartTime \in Nat
    /\ mWakelockTimeoutResetTime \in Nat
    /\ held \in BOOLEAN

QueueType ==
    /\ mEventQueue \in Seq(Events) /\ Len(mEventQueue) <= EventQueueSize
    /\ mWakeLockQueue \in Seq(Nat)
    /\ mPendingWriteEventsQueue \in Seq(Entry)
    /\ mSizePendingWriteEventsQueue \in Int

PostingType ==
    /\ sensor \in [Posters -> {"on", "off", "late"}]
    /\ poster \in [Posters -> Posting]
    /\ posts \in Nat

ThreadType ==
    /\ now \in Nat
    /\ mThreadsRun \in BOOLEAN
    /\ initializing \in {"no", "stop", "join", "disable", "reset"}
    /\ inits \in Nat
    /\ pendingThread \in {"off", "test", "doze", "sleep", "write", "pop", "done"}
    /\ wakelockThread \in {"off", "test", "doze", "sleep", "read", "done"}
    /\ readUntil \in Nat \cup {Never}
    /\ notified \subseteq {"pending", "wakelock"}
    /\ unacked \in Nat
    /\ writtenOff \in BOOLEAN

\* Together they are the type invariant.
LEMMA TypeParts == TypeOK <=> LockType /\ QueueType /\ PostingType /\ ThreadType
  BY DEF TypeOK, LockType, QueueType, PostingType, ThreadType

\* The lock keeps its type.
LEMMA LockStep ==
  ASSUME TypeOK, WritesPending, [Next]_vars
  PROVE  LockType' /\ (CountedMeansHeld => CountedMeansHeld')
<1> DEFINE Goal == LockType' /\ (CountedMeansHeld => CountedMeansHeld')
<1>1. ASSUME UNCHANGED lock
      PROVE  Goal
  BY <1>1 DEF lock, TypeOK, LockType, CountedMeansHeld
<1>2. now \in Nat /\ mWakelockTimeoutStartTime \in Nat /\ mWakelockTimeoutResetTime \in Nat
  BY DEF TypeOK
<1>3. ASSUME NEW delta \in Nat, incrementRefCountAndMaybeAcquireWakelock(delta)
      PROVE  Goal
  BY <1>2, <1>3, Incremented DEF LockType
<1>4. ASSUME NEW delta \in Nat, NEW start \in Nat,
             decrementRefCountAndMaybeReleaseWakelock(delta, start),
             UNCHANGED <<mWakelockTimeoutStartTime, mWakelockTimeoutResetTime>>
      PROVE  Goal
  BY <1>2, <1>4, Decremented DEF LockType
<1>5. ASSUME resetSharedWakelock
      PROVE  Goal
  BY <1>2, <1>5, Reset DEF LockType
<1> HIDE DEF Goal
<1>6. ASSUME NEW p \in Posters, NEW events \in Batches, CreateScopedWakelock(p, events)
      PROVE  Goal
  BY <1>1, <1>3, <1>6 DEF CreateScopedWakelock
<1>7. ASSUME NEW p \in Posters, PostEventsToMessageQueue(p)
      PROVE  Goal
  <2>1. NumWakeupEvents(poster[p].events) \in Nat
    BY NumWakeupType DEF TypeOK, Posting
  <2> QED
    BY <1>1, <1>3, <1>7, <2>1 DEF PostEventsToMessageQueue
<1>8. ASSUME NEW p \in Posters, Unlock(p)
      PROVE  Goal
  <2>1. poster[p].start \in Nat
    BY DEF TypeOK, Posting
  <2> QED
    BY <1>1, <1>4, <1>8, <2>1 DEF Unlock
<1>9. ASSUME PendingWriteFails
      PROVE  Goal
  <2> DEFINE front == Head(mPendingWriteEventsQueue)
             delta == IF Len(front.events) > EventQueueSize
                      THEN NumWakeupEvents(FrontEvents) ELSE front.numWakeup
  <2>1. mPendingWriteEventsQueue # <<>>
    BY <1>9 DEF PendingWriteFails, WritesPending
  <2>2. delta \in Nat
    BY <2>1, FrontIs, NumWakeupType
  <2>3. \/ UNCHANGED lock
        \/ /\ decrementRefCountAndMaybeReleaseWakelock(delta, mWakelockTimeoutResetTime)
           /\ UNCHANGED <<mWakelockTimeoutStartTime, mWakelockTimeoutResetTime>>
    BY <1>9 DEF PendingWriteFails
  <2> HIDE DEF delta
  <2> QED
    BY <1>1, <1>2, <1>4, <2>2, <2>3
<1>10. ASSUME WakelockTest
       PROVE  Goal
  BY <1>1, <1>5, <1>10 DEF WakelockTest
<1>11. ASSUME WakelockRead
       PROVE  Goal
  <2>1. Head(mWakeLockQueue) \in Nat
    BY <1>11, HeadTailProperties DEF WakelockRead, TypeOK
  <2> QED
    BY <1>2, <1>4, <1>11, <2>1 DEF WakelockRead
<1>12. ASSUME ThreadsJoined
       PROVE  Goal
  BY <1>5, <1>12 DEF ThreadsJoined
<1>13. ASSUME UNCHANGED vars
       PROVE  Goal
  BY <1>1, <1>13 DEF vars
<1> QED
  BY <1>1, <1>6, <1>7, <1>8, <1>9, <1>10, <1>11, <1>12, <1>13
  DEF Next, PostEvents, DisableSensor, PendingTest, PendingSleep, PendingWake,
      PendingWrite, PendingPop, WakelockSleep, WakelockWake, WakelockReadTimesOut,
      StopThreads, WakeThreads, Restart, InitializeSubHals, FrameworkRead,
      FrameworkAck, Tick, Goal

-----------------------------------------------------------------------------
(* What the operations do to the pending events.                           *)

\* The pending events behind those that one write takes.
AfterFront ==
    LET events == Head(mPendingWriteEventsQueue).events
    IN  SubSeq(events, NumToWrite + 1, Len(events))
            \o Flattened(Tail(mPendingWriteEventsQueue))

\* The pending events are those that one write takes and those behind them.
LEMMA FrontFirst ==
  ASSUME TypeOK, mPendingWriteEventsQueue # <<>>
  PROVE  /\ AfterFront \in Seq(Events)
         /\ Pending = FrontEvents \o AfterFront
         /\ Len(Pending) = NumToWrite + Len(AfterFront)
         /\ SubSeq(Pending, NumToWrite + 1, Len(Pending)) = AfterFront
<1> DEFINE q == mPendingWriteEventsQueue
           events == Head(q).events
           n == NumToWrite
           rest == SubSeq(events, n + 1, Len(events))
           others == Flattened(Tail(q))
<1>1. /\ events \in Seq(Events) /\ Tail(q) \in Seq(Entry) /\ n \in 0 .. Len(events)
      /\ FrontEvents \in Seq(Events) /\ Len(FrontEvents) = n
  BY FrontIs
<1>2. others \in Seq(Events)
  BY <1>1, FlattenedType
<1>3. rest \in Seq(Events) /\ FrontEvents \o rest = events
  BY <1>1, SplitSeq DEF FrontEvents
<1>4. Pending = events \o others
  BY FlattenedHead DEF Pending, TypeOK
<1>5. AfterFront = rest \o others
  BY DEF AfterFront
<1> HIDE DEF events, rest, others, n
<1>6. AfterFront \in Seq(Events)
  BY <1>2, <1>3, <1>5, ConcatProperties
<1>7. Pending = FrontEvents \o AfterFront
  <2>1. (FrontEvents \o rest) \o others = FrontEvents \o (rest \o others)
    BY <1>1, <1>2, <1>3, Concat3, Zenon
  <2> QED
    BY <1>3, <1>4, <1>5, <2>1
<1>8. Len(Pending) = n + Len(AfterFront)
  BY <1>1, <1>6, <1>7, ConcatProperties
<1>9. SubSeq(events \o others, n + 1, Len(events \o others)) = rest \o others
  BY <1>1, <1>2, RestOfConcat DEF rest
<1> QED
  BY <1>4, <1>5, <1>6, <1>7, <1>8, <1>9 DEF n

\* What is held back: all that is pending, or what is behind the front.
LEMMA HeldBackIs ==
  ASSUME TypeOK, WritesPending
  PROVE  /\ Pending \in Seq(Events)
         /\ HeldBack \in Seq(Events)
         /\ pendingThread # "pop" => HeldBack = Pending
         /\ pendingThread = "pop" => HeldBack = AfterFront
         /\ Len(Pending) <= Len(HeldBack) + EventQueueSize
<1>1. Pending \in Seq(Events)
  BY FlattenedType DEF Pending, TypeOK
<1>2. EventQueueSize \in Nat
  BY HalProxyAssumption
<1>3. CASE pendingThread # "pop"
  <2>1. HeldBack = Pending
    BY <1>3 DEF HeldBack
  <2> QED
    BY <1>1, <1>2, <1>3, <2>1
<1>4. CASE pendingThread = "pop"
  <2>1. mPendingWriteEventsQueue # <<>>
    BY <1>4 DEF WritesPending
  <2>2. HeldBack = AfterFront
    BY <1>4, <2>1, FrontFirst DEF HeldBack
  <2>3. NumToWrite \in Nat /\ NumToWrite <= EventQueueSize
    <3>1. NumToWrite \in 0 .. Len(Head(mPendingWriteEventsQueue).events)
      BY <2>1, FrontIs
    <3>2. NumToWrite <= EventQueueSize
      BY <2>1, FrontIs
    <3> QED
      BY <3>1, <3>2
  <2>4. AfterFront \in Seq(Events) /\ Len(Pending) = NumToWrite + Len(AfterFront)
    BY <2>1, FrontFirst
  <2>5. Len(AfterFront) \in Nat
    BY <2>4
  <2>6. Len(Pending) <= Len(AfterFront) + EventQueueSize
    BY <1>2, <2>3, <2>4, <2>5
  <2> QED
    BY <1>1, <1>4, <2>2, <2>4, <2>6
<1> QED
  BY <1>3, <1>4

\* writeBlocking, whether it succeeds or times out, takes the front off.
LEMMA WriteTakesFront ==
  ASSUME TypeOK, WritesPending, pendingThread = "write", pendingThread' = "pop",
         mPendingWriteEventsQueue' = mPendingWriteEventsQueue
  PROVE  /\ HeldBack = FrontEvents \o AfterFront
         /\ HeldBack' = AfterFront
         /\ Pending' = Pending
<1>1. mPendingWriteEventsQueue # <<>>
  BY DEF WritesPending
<1>2. HeldBack = Pending
  BY HeldBackIs
<1>3. NumToWrite' = NumToWrite /\ Pending' = Pending
  BY DEF NumToWrite, Pending
<1>4. HeldBack' = SubSeq(Pending, NumToWrite + 1, Len(Pending))
  BY <1>3 DEF HeldBack
<1> QED
  BY <1>1, <1>2, <1>3, <1>4, FrontFirst

\* Popping them leaves what is held back as it is.
LEMMA PopKeeps ==
  ASSUME TypeOK, WritesPending, pendingThread = "pop", pendingThread' = "test", Popped
  PROVE  /\ mPendingWriteEventsQueue' \in Seq(Entry)
         /\ Pending' = AfterFront
         /\ HeldBack = AfterFront
         /\ HeldBack' = AfterFront
<1> DEFINE q == mPendingWriteEventsQueue
           front == Head(q)
           rest == SubSeq(front.events, NumToWrite + 1, Len(front.events))
           new == [front EXCEPT !.events = rest]
<1>1. q # <<>>
  BY DEF WritesPending
<1>2. /\ front \in Entry /\ front.events \in Seq(Events) /\ Tail(q) \in Seq(Entry)
      /\ NumToWrite \in 0 .. Len(front.events)
  BY <1>1, FrontIs
<1>3. rest \in Seq(Events) /\ Len(rest) = Len(front.events) - NumToWrite
  BY <1>2, SplitSeq
<1>4. AfterFront = rest \o Flattened(Tail(q))
  BY DEF AfterFront
<1>5. HeldBack = AfterFront /\ HeldBack' = Pending'
  BY HeldBackIs DEF HeldBack
<1>6. q' \in Seq(Entry) /\ Flattened(q') = AfterFront
  <2>1. CASE Len(front.events) > EventQueueSize
    <3>1. new \in Entry /\ new.events = rest
      BY <1>2, <1>3 DEF Entry
    <3>2. q' = <<new>> \o Tail(q)
      BY <2>1 DEF Popped
    <3> HIDE DEF new, rest, front
    <3>3. /\ <<new>> \o Tail(q) \in Seq(Entry) /\ <<new>> \o Tail(q) # <<>>
          /\ Head(<<new>> \o Tail(q)) = new /\ Tail(<<new>> \o Tail(q)) = Tail(q)
      <4> DEFINE s == Tail(q)
                 z == <<new>> \o s
      <4>1. s \in Seq(Entry) /\ <<new>> \in Seq(Entry) /\ Len(<<new>>) = 1
        BY <1>2, <3>1
      <4> HIDE DEF s
      <4>2. /\ z \in Seq(Entry) /\ Len(z) = 1 + Len(s)
            /\ \A i \in 1 .. 1 + Len(s) : z[i] = IF i <= 1 THEN <<new>>[i] ELSE s[i - 1]
        BY <4>1, ConcatProperties
      <4>3. Len(s) \in Nat
        BY <4>1
      <4>4. z # <<>> /\ Head(z) = new
        BY <4>2, <4>3
      <4>5. /\ Tail(z) \in Seq(Entry) /\ Len(Tail(z)) = Len(z) - 1
            /\ \A i \in 1 .. Len(Tail(z)) : Tail(z)[i] = z[i + 1]
        BY <4>2, <4>4, HeadTailProperties
      <4>6. Len(Tail(z)) = Len(s)
        BY <4>2, <4>3, <4>5
      <4> HIDE DEF z
      <4>7. \A i \in 1 .. Len(Tail(z)) : Tail(z)[i] = s[i]
        BY <4>2, <4>3, <4>5, <4>6
      <4>8. Tail(z) = s
        BY <4>1, <4>5, <4>6, <4>7, SeqEqual
      <4> QED
        BY <4>2, <4>4, <4>8 DEF z, s
    <3>4. Flattened(<<new>> \o Tail(q)) = new.events \o Flattened(Tail(q))
      BY <3>3, FlattenedHead
    <3> QED
      BY <1>4, <3>1, <3>2, <3>3, <3>4
  <2>2. CASE ~ (Len(front.events) > EventQueueSize)
    <3>1. q' = Tail(q)
      BY <2>2 DEF Popped
    <3>2. Len(front.events) \in Nat /\ EventQueueSize \in Nat
      BY <1>2, HalProxyAssumption
    <3>3. NumToWrite = Len(front.events)
      BY <1>1, <2>2, <3>2, FrontIs
    <3>4. Len(rest) = 0
      BY <1>3, <3>2, <3>3
    <3> HIDE DEF rest
    <3>5. rest = <<>>
      BY <1>3, <3>4, EmptySeq
    <3>6. Flattened(Tail(q)) \in Seq(Events)
      BY <1>2, FlattenedType
    <3>7. <<>> \o Flattened(Tail(q)) = Flattened(Tail(q))
      BY <3>6, ConcatEmptySeq
    <3> QED
      BY <1>2, <1>4, <3>1, <3>5, <3>7
  <2> QED
    BY <2>1, <2>2
<1> QED
  BY <1>5, <1>6 DEF Pending

\* What postEventsToMessageQueue writes at once of the events of p, what it
\* leaves, and what of that it holds back.
WrittenOf(p) == SubSeq(poster[p].events, 1, DirectlyWritable(poster[p].events))
LeftOf(p) == SubSeq(poster[p].events, DirectlyWritable(poster[p].events) + 1,
                    Len(poster[p].events))
HeldOf(p) == IF LeftOf(p) # <<>> /\ MayBeHeldBack(Len(LeftOf(p))) THEN LeftOf(p)
                                                                ELSE <<>>

\* Those are sequences of events, the first two make up the batch, and nothing is
\* written at once while something is pending.
LEMMA PostedParts ==
  ASSUME TypeOK, NEW p \in Posters
  PROVE  /\ poster[p].events \in Seq(Events)
         /\ WrittenOf(p) \in Seq(Events) /\ LeftOf(p) \in Seq(Events)
         /\ HeldOf(p) \in Seq(Events)
         /\ poster[p].events = WrittenOf(p) \o LeftOf(p)
         /\ Len(mEventQueue) + Len(WrittenOf(p)) <= EventQueueSize
         /\ mPendingWriteEventsQueue # <<>> => WrittenOf(p) = <<>>
<1> DEFINE events == poster[p].events
           n == DirectlyWritable(events)
<1>1. events \in Seq(Events)
  BY DEF TypeOK, Posting
<1>2. n \in 0 .. Len(events) /\ Len(mEventQueue) + n <= EventQueueSize
  BY <1>1, WritableFits
<1>3. /\ WrittenOf(p) \in Seq(Events) /\ Len(WrittenOf(p)) = n
      /\ LeftOf(p) \in Seq(Events) /\ events = WrittenOf(p) \o LeftOf(p)
  BY <1>1, <1>2, SplitSeq DEF WrittenOf, LeftOf
<1>4. HeldOf(p) \in Seq(Events)
  BY <1>3 DEF HeldOf
<1>5. mPendingWriteEventsQueue # <<>> => n = 0
  BY DEF DirectlyWritable
<1> HIDE DEF n, events
<1>6. n = 0 => WrittenOf(p) = <<>>
  BY <1>3, EmptySeq
<1> QED
  BY <1>1, <1>2, <1>3, <1>4, <1>5, <1>6 DEF events

\* The event queue and the pending queue grow at their ends.
LEMMA PostAppends ==
  ASSUME TypeOK, WritesPending, NEW p \in Posters, PostEventsToMessageQueue(p)
  PROVE  /\ mEventQueue' = mEventQueue \o WrittenOf(p)
         /\ mPendingWriteEventsQueue' \in Seq(Entry)
         /\ Pending' = Pending \o HeldOf(p)
         /\ HeldBack' = HeldBack \o HeldOf(p)
         /\ mPendingWriteEventsQueue # <<>> => mPendingWriteEventsQueue' # <<>>
<1> DEFINE q == mPendingWriteEventsQueue
           wakes == NumWakeupEvents(poster[p].events)
           entry == [events |-> LeftOf(p), numWakeup |-> wakes]
           holdsBack == LeftOf(p) # <<>> /\ MayBeHeldBack(Len(LeftOf(p)))
<1>0. /\ q \in Seq(Entry) /\ LeftOf(p) \in Seq(Events) /\ HeldOf(p) \in Seq(Events)
      /\ Pending \in Seq(Events) /\ HeldBack \in Seq(Events)
  BY PostedParts, HeldBackIs DEF TypeOK
<1>1. mEventQueue' = mEventQueue \o WrittenOf(p) /\ pendingThread' = pendingThread
  BY DEF PostEventsToMessageQueue, WrittenOf
<1>2. CASE holdsBack
  <2>1. q' = Append(q, entry) /\ HeldOf(p) = LeftOf(p)
    BY <1>2 DEF PostEventsToMessageQueue, LeftOf, HeldOf
  <2>2. wakes \in Nat
    BY PostedParts, NumWakeupType
  <2>3. entry \in Entry /\ entry.events = LeftOf(p)
    BY <1>0, <2>2 DEF Entry
  <2> HIDE DEF entry
  <2>4. q' \in Seq(Entry) /\ q' # <<>>
    BY <1>0, <2>1, <2>3, AppendProperties
  <2>5. Pending' = Pending \o HeldOf(p)
    <3>1. Flattened(Append(q, entry)) = Flattened(q) \o entry.events
      BY <1>0, <2>3, FlattenedAppend
    <3> QED
      BY <2>1, <2>3, <3>1 DEF Pending
  <2>6. CASE pendingThread = "pop"
    <3>1. q # <<>>
      BY <2>6 DEF WritesPending
    <3>2. Head(q') = Head(q)
      BY <1>0, <2>1, <3>1, HeadTailAppend
    <3>3. NumToWrite' = NumToWrite
      BY <3>2 DEF NumToWrite
    <3>4. HeldBack' = SubSeq(Pending', NumToWrite + 1, Len(Pending'))
      BY <1>1, <2>6, <3>3 DEF HeldBack
    <3>5. NumToWrite \in 0 .. Len(Pending)
      <4>1. NumToWrite \in Nat
        <5>1. NumToWrite \in 0 .. Len(Head(q).events)
          BY <3>1, FrontIs
        <5> QED
          BY <5>1
      <4>2. AfterFront \in Seq(Events) /\ Len(Pending) = NumToWrite + Len(AfterFront)
        BY <3>1, FrontFirst
      <4>3. Len(AfterFront) \in Nat
        BY <4>2
      <4> QED
        BY <4>1, <4>2, <4>3
    <3>6. HeldBack = SubSeq(Pending, NumToWrite + 1, Len(Pending))
      BY <2>6 DEF HeldBack
    <3> DEFINE x == Pending
               y == HeldOf(p)
               n == NumToWrite
    <3>7. x \in Seq(Events) /\ y \in Seq(Events) /\ n \in 0 .. Len(x)
      BY <1>0, <3>5
    <3> HIDE DEF x, y, n
    <3>8. SubSeq(x \o y, n + 1, Len(x \o y)) = SubSeq(x, n + 1, Len(x)) \o y
      BY <3>7, RestOfConcat
    <3>9. HeldBack' = HeldBack \o HeldOf(p)
      BY <2>5, <3>4, <3>6, <3>8 DEF x, y, n
    <3> QED
      BY <1>1, <2>4, <2>5, <3>9
  <2>7. CASE pendingThread # "pop"
    <3>1. HeldBack' = Pending' /\ HeldBack = Pending
      BY <1>1, <2>7 DEF HeldBack
    <3> QED
      BY <1>1, <2>4, <2>5, <3>1
  <2> QED
    BY <2>6, <2>7
<1>3. CASE ~ holdsBack
  <2>1. q' = q /\ HeldOf(p) = <<>>
    BY <1>3 DEF PostEventsToMessageQueue, LeftOf, HeldOf, pending
  <2>2. Pending' = Pending /\ HeldBack' = HeldBack
    BY <1>1, <2>1 DEF Pending, HeldBack, NumToWrite
  <2>3. Pending \o <<>> = Pending /\ HeldBack \o <<>> = HeldBack
    BY <1>0, ConcatEmptySeq
  <2> QED
    BY <1>0, <1>1, <2>1, <2>2, <2>3
<1> QED
  BY <1>2, <1>3

-----------------------------------------------------------------------------
(* The queues.                                                             *)

\* The queues keep their types, the size is that of what is pending, and the
\* thread that writes has something to write.
LEMMA QueueStep ==
  ASSUME TypeOK, WritesPending, SizeIsPending, [Next]_vars
  PROVE  QueueType' /\ WritesPending' /\ SizeIsPending'
<1> DEFINE Goal == QueueType' /\ WritesPending' /\ SizeIsPending'
<1>0. /\ QueueType /\ EventQueueSize \in Nat /\ kMaxSizePendingWriteEventsQueue \in Nat
      /\ Len(mEventQueue) \in Nat /\ Pending \in Seq(Events) /\ Len(Pending) \in Nat
      /\ mSizePendingWriteEventsQueue = Len(Pending)
      /\ mSizePendingWriteEventsQueue <= kMaxSizePendingWriteEventsQueue
  BY TypeParts, HalProxyAssumption, HeldBackIs DEF QueueType, SizeIsPending
<1>1. ASSUME UNCHANGED queues,
             pendingThread' \in {"write", "pop"} =>
                 mPendingWriteEventsQueue # <<>>
      PROVE  Goal
  BY <1>0, <1>1 DEF queues, pending, QueueType, WritesPending, SizeIsPending, Pending
<1>2. ASSUME UNCHANGED <<queues, pendingThread>>
      PROVE  Goal
  BY <1>1, <1>2 DEF WritesPending
<1>3. ASSUME UNCHANGED <<pending, pendingThread>>,
             mEventQueue' \in Seq(Events), Len(mEventQueue') <= EventQueueSize,
             mWakeLockQueue' \in Seq(Nat)
      PROVE  Goal
  BY <1>0, <1>3 DEF pending, QueueType, WritesPending, SizeIsPending, Pending
<1>4. ASSUME NEW p \in Posters, PostEventsToMessageQueue(p)
      PROVE  Goal
  <2>1. mEventQueue' \in Seq(Events) /\ Len(mEventQueue') <= EventQueueSize
    <3>1. mEventQueue' = mEventQueue \o WrittenOf(p)
      BY <1>4, PostAppends
    <3>2. /\ WrittenOf(p) \in Seq(Events)
          /\ Len(mEventQueue) + Len(WrittenOf(p)) <= EventQueueSize
      BY PostedParts
    <3> QED
      BY <1>0, <3>1, <3>2, ConcatProperties DEF QueueType
  <2>2. mPendingWriteEventsQueue' \in Seq(Entry) /\ mWakeLockQueue' \in Seq(Nat)
    BY <1>0, <1>4, PostAppends DEF PostEventsToMessageQueue, QueueType
  <2>3. WritesPending'
    BY <1>4, PostAppends DEF WritesPending, PostEventsToMessageQueue
  <2>4. LeftOf(p) \in Seq(Events) /\ HeldOf(p) \in Seq(Events)
    BY PostedParts
  <2>5. Len(Pending') = Len(Pending) + Len(HeldOf(p))
    BY <1>0, <1>4, <2>4, PostAppends, ConcatProperties
  <2>6. CASE LeftOf(p) # <<>> /\ MayBeHeldBack(Len(LeftOf(p)))
    <3>1. /\ HeldOf(p) = LeftOf(p)
          /\ mSizePendingWriteEventsQueue' = mSizePendingWriteEventsQueue + Len(LeftOf(p))
      BY <1>4, <2>6 DEF HeldOf, PostEventsToMessageQueue, LeftOf
    <3>2. Len(LeftOf(p)) \in Nat
      BY <2>4
    <3>3. mSizePendingWriteEventsQueue' = Len(Pending')
      BY <1>0, <2>5, <3>1, <3>2
    <3>4. mSizePendingWriteEventsQueue' <= kMaxSizePendingWriteEventsQueue
      BY <2>6, <3>1 DEF MayBeHeldBack
    <3>5. mSizePendingWriteEventsQueue' \in Int
      BY <1>0, <3>1, <3>2
    <3> QED
      BY <2>1, <2>2, <2>3, <3>3, <3>4, <3>5 DEF QueueType, SizeIsPending
  <2>7. CASE ~ (LeftOf(p) # <<>> /\ MayBeHeldBack(Len(LeftOf(p))))
    <3>1. /\ HeldOf(p) = <<>>
          /\ mSizePendingWriteEventsQueue' = mSizePendingWriteEventsQueue
      BY <1>4, <2>7 DEF HeldOf, PostEventsToMessageQueue, LeftOf, pending
    <3>2. mSizePendingWriteEventsQueue' = Len(Pending')
      BY <1>0, <2>5, <3>1
    <3> QED
      BY <1>0, <2>1, <2>2, <2>3, <3>1, <3>2 DEF QueueType, SizeIsPending
  <2> QED
    BY <2>6, <2>7
<1>5. ASSUME PendingWrite
      PROVE  Goal
  <2>1. mPendingWriteEventsQueue # <<>>
    BY <1>5 DEF PendingWrite, WritesPending
  <2>2. FrontEvents \in Seq(Events) /\ Len(FrontEvents) = NumToWrite
    BY <2>1, FrontIs
  <2>3. mEventQueue' \in Seq(Events) /\ Len(mEventQueue') <= EventQueueSize
    BY <1>0, <1>5, <2>2, ConcatProperties DEF PendingWrite, QueueType
  <2> QED
    BY <1>0, <1>5, <2>1, <2>3
    DEF PendingWrite, pending, QueueType, WritesPending, SizeIsPending, Pending
<1>6. ASSUME PendingWriteFails
      PROVE  Goal
  BY <1>1, <1>6 DEF PendingWriteFails, WritesPending
<1>7. ASSUME PendingPop
      PROVE  Goal
  <2>1. mPendingWriteEventsQueue' \in Seq(Entry) /\ Pending' = AfterFront
    BY <1>7, PopKeeps DEF PendingPop
  <2>2. mPendingWriteEventsQueue # <<>>
    BY <1>7 DEF PendingPop, WritesPending
  <2>3. NumToWrite \in Nat
    <3>1. NumToWrite \in 0 .. Len(Head(mPendingWriteEventsQueue).events)
      BY <2>2, FrontIs
    <3> QED
      BY <3>1
  <2>4. AfterFront \in Seq(Events) /\ Len(Pending) = NumToWrite + Len(AfterFront)
    BY <2>2, FrontFirst
  <2>5. Len(AfterFront) \in Nat
    BY <2>4
  <2>6. mSizePendingWriteEventsQueue' = mSizePendingWriteEventsQueue - NumToWrite
    BY <1>7 DEF PendingPop, Popped
  <2>7. /\ mSizePendingWriteEventsQueue' \in Int
        /\ mSizePendingWriteEventsQueue' = Len(AfterFront)
        /\ mSizePendingWriteEventsQueue' <= kMaxSizePendingWriteEventsQueue
    BY <1>0, <2>3, <2>4, <2>5, <2>6
  <2> QED
    BY <1>0, <1>7, <2>1, <2>7 DEF PendingPop, QueueType, WritesPending, SizeIsPending
<1>8. ASSUME WakelockRead
      PROVE  Goal
  <2>1. mWakeLockQueue' \in Seq(Nat)
    BY <1>0, <1>8, HeadTailProperties DEF WakelockRead, QueueType
  <2> QED
    BY <1>0, <1>3, <1>8, <2>1 DEF WakelockRead, QueueType
<1>9. ASSUME WakeThreads
      PROVE  Goal
  <2>1. mWakeLockQueue' \in Seq(Nat)
    BY <1>0, <1>9, AppendProperties DEF WakeThreads, QueueType
  <2>2. mEventQueue' \in Seq(Events) /\ Len(mEventQueue') <= EventQueueSize
    BY <1>0, <1>9, EmptySeq DEF WakeThreads
  <2> QED
    BY <1>3, <1>9, <2>1, <2>2 DEF WakeThreads
<1>10. ASSUME Restart
       PROVE  Goal
  <2>1. /\ mPendingWriteEventsQueue' = <<>> /\ mEventQueue' = <<>>
        /\ mWakeLockQueue' = <<>> /\ mSizePendingWriteEventsQueue' = 0
        /\ pendingThread' = "test"
    BY <1>10 DEF Restart
  <2>2. /\ <<>> \in Seq(Entry) /\ <<>> \in Seq(Events) /\ <<>> \in Seq(Nat)
        /\ Len(<<>>) = 0
    BY EmptySeq
  <2>3. Pending' = <<>>
    BY <2>1, <2>2, FlattenedType DEF Pending
  <2> QED
    BY <1>0, <2>1, <2>2, <2>3 DEF QueueType, WritesPending, SizeIsPending
<1>11. ASSUME NEW n \in 1 .. EventQueueSize, FrameworkRead(n)
       PROVE  Goal
  <2>1. n \in 0 .. Len(mEventQueue)
    BY <1>0, <1>11 DEF FrameworkRead
  <2>2. mEventQueue' \in Seq(Events) /\ Len(mEventQueue') = Len(mEventQueue) - n
    BY <1>0, <1>11, <2>1, SplitSeq DEF FrameworkRead, QueueType
  <2>3. Len(mEventQueue') <= EventQueueSize
    BY <1>0, <2>1, <2>2 DEF QueueType
  <2> QED
    BY <1>0, <1>3, <1>11, <2>2, <2>3 DEF FrameworkRead, threads, QueueType
<1>12. ASSUME FrameworkAck
       PROVE  Goal
  <2>1. mWakeLockQueue' \in Seq(Nat)
    <3>1. unacked \in Nat
      BY DEF TypeOK
    <3> QED
      BY <1>0, <1>12, <3>1, AppendProperties DEF FrameworkAck, QueueType
  <2> QED
    BY <1>0, <1>3, <1>12, <2>1 DEF FrameworkAck, threads, QueueType
<1>13. ASSUME PendingTest \/ PendingSleep \/ PendingWake
       PROVE  Goal
  BY <1>1, <1>13 DEF PendingTest, PendingSleep, PendingWake
<1> HIDE DEF Goal
<1>14. Goal
  BY <1>2, <1>4, <1>5, <1>6, <1>7, <1>8, <1>9, <1>10, <1>11, <1>12, <1>13
  DEF Next, vars, threads, CreateScopedWakelock, PostEvents, Unlock, DisableSensor,
      WakelockTest, WakelockSleep, WakelockWake, WakelockReadTimesOut, StopThreads,
      ThreadsJoined, InitializeSubHals, Tick
<1> QED
  BY <1>14 DEF Goal

-----------------------------------------------------------------------------
(* The posting threads and the sensors.                                    *)

\* What a step does to a posting thread: it begins to post, passes on what it
\* posts, or drops it, or ends.
LEMMA PosterStep ==
  ASSUME TypeOK, PostsBatch, [Next]_vars
  PROVE  \A p \in Posters :
            \/ poster'[p] = poster[p]
            \/ /\ poster[p] = Idle /\ sensor[p] # "off"
               /\ \E events \in Batches :
                     poster'[p] = [pc |-> "post", events |-> events,
                                   locked |-> poster'[p].locked,
                                   start |-> poster'[p].start]
               /\ \/ /\ mThreadsRun /\ poster'[p].locked = TRUE /\ poster'[p].start = now
                     /\ mWakelockTimeoutStartTime' = now
                  \/ poster'[p].locked = FALSE /\ poster'[p].start = 0
            \/ /\ poster[p].pc = "post" /\ mThreadsRun
               /\ poster'[p] = [poster[p] EXCEPT !.pc = "enqueue",
                                                !.events = Passed(poster[p].events)]
            \/ poster'[p] = [poster[p] EXCEPT !.pc = "unlock", !.events = <<>>]
            \/ poster'[p] = Idle
<1> SUFFICES ASSUME NEW p \in Posters
             PROVE  \/ poster'[p] = poster[p]
                    \/ /\ poster[p] = Idle /\ sensor[p] # "off"
                       /\ \E events \in Batches :
                             poster'[p] = [pc |-> "post", events |-> events,
                                           locked |-> poster'[p].locked,
                                           start |-> poster'[p].start]
                       /\ \/ /\ mThreadsRun /\ poster'[p].locked = TRUE
                             /\ poster'[p].start = now /\ mWakelockTimeoutStartTime' = now
                          \/ poster'[p].locked = FALSE /\ poster'[p].start = 0
                    \/ /\ poster[p].pc = "post" /\ mThreadsRun
                       /\ poster'[p] = [poster[p] EXCEPT !.pc = "enqueue",
                                           !.events = Passed(poster[p].events)]
                    \/ poster'[p] = [poster[p] EXCEPT !.pc = "unlock", !.events = <<>>]
                    \/ poster'[p] = Idle
  OBVIOUS
<1>0. poster \in [Posters -> Posting]
  BY DEF TypeOK
<1>1. ASSUME NEW r \in Posters, NEW v, poster' = [poster EXCEPT ![r] = v]
      PROVE  poster'[p] = IF p = r THEN v ELSE poster[p]
  BY <1>0, <1>1
<1>2. ASSUME NEW r \in Posters, NEW events \in Batches, CreateScopedWakelock(r, events)
      PROVE  \/ poster'[p] = poster[p]
             \/ /\ poster[p] = Idle /\ sensor[p] # "off"
                /\ \E b \in Batches :
                      poster'[p] = [pc |-> "post", events |-> b,
                                    locked |-> poster'[p].locked,
                                    start |-> poster'[p].start]
                /\ \/ /\ mThreadsRun /\ poster'[p].locked = TRUE
                      /\ poster'[p].start = now /\ mWakelockTimeoutStartTime' = now
                   \/ poster'[p].locked = FALSE /\ poster'[p].start = 0
  <2> DEFINE locks == mThreadsRun /\ \E e \in {"wake", "putDown"} : Contains(events, e)
             v == [pc |-> "post", events |-> events, locked |-> locks,
                   start |-> IF locks THEN now ELSE 0]
  <2>1. poster' = [poster EXCEPT ![r] = v] /\ poster[r] = Idle /\ sensor[r] # "off"
    BY <1>2 DEF CreateScopedWakelock
  <2>2. locks => mWakelockTimeoutStartTime' = now
    BY <1>2 DEF CreateScopedWakelock, incrementRefCountAndMaybeAcquireWakelock
  <2>3. poster'[p] = IF p = r THEN v ELSE poster[p]
    <3> HIDE DEF v
    <3> QED
      BY <1>1, <2>1
  <2>4. v.locked = locks /\ v.start = IF locks THEN now ELSE 0
    OBVIOUS
  <2>5. locks \in BOOLEAN /\ (locks => mThreadsRun)
    OBVIOUS
  <2>6. v = [pc |-> "post", events |-> events, locked |-> v.locked, start |-> v.start]
    OBVIOUS
  <2> HIDE DEF v, locks
  <2>7. \/ v.locked = TRUE /\ v.start = now /\ mThreadsRun /\ mWakelockTimeoutStartTime' = now
        \/ v.locked = FALSE /\ v.start = 0
    BY <2>2, <2>4, <2>5
  <2>8. CASE p = r
    BY <2>1, <2>3, <2>6, <2>7, <2>8
  <2>9. CASE p # r
    BY <2>3, <2>9
  <2> QED
    BY <2>8, <2>9
<1>3. ASSUME NEW r \in Posters, PostEvents(r)
      PROVE  \/ poster'[p] = poster[p]
             \/ /\ poster[p].pc = "post" /\ mThreadsRun
                /\ poster'[p] = [poster[p] EXCEPT !.pc = "enqueue",
                                                 !.events = Passed(poster[p].events)]
             \/ poster'[p] = [poster[p] EXCEPT !.pc = "unlock", !.events = <<>>]
  BY <1>0, <1>3 DEF PostEvents
<1>4. ASSUME NEW r \in Posters, PostEventsToMessageQueue(r)
      PROVE  \/ poster'[p] = poster[p]
             \/ poster'[p] = [poster[p] EXCEPT !.pc = "unlock", !.events = <<>>]
  BY <1>0, <1>4 DEF PostEventsToMessageQueue
<1>5. ASSUME NEW r \in Posters, Unlock(r)
      PROVE  poster'[p] = poster[p] \/ poster'[p] = Idle
  BY <1>0, <1>5 DEF Unlock
<1>6. CASE UNCHANGED poster
  BY <1>6
<1> QED
  BY <1>2, <1>3, <1>4, <1>5, <1>6
  DEF Next, vars, posting, DisableSensor, InitializeSubHals,
      PendingTest, PendingSleep, PendingWake, PendingWrite, PendingWriteFails,
      PendingPop, WakelockTest, WakelockSleep, WakelockWake, WakelockRead,
      WakelockReadTimesOut, StopThreads, WakeThreads, ThreadsJoined, Restart,
      FrameworkRead, FrameworkAck, Tick

\* A posting thread keeps its type and posts what a batch leaves.
LEMMA PosterKept ==
  ASSUME TypeOK, PostsBatch, [Next]_vars
  PROVE  (\A p \in Posters : poster'[p] \in Posting) /\ PostsBatch'
<1> DEFINE Kept(q) == /\ poster'[q] \in Posting
                      /\ poster'[q].pc = "post" => poster'[q].events \in Batches
                      /\ poster'[q].pc = "enqueue" =>
                            \E b \in Batches : poster'[q].events = Passed(b)
<1>0. now \in Nat /\ <<>> \in Seq(Events) /\ Batches \subseteq Seq(Events)
  BY HalProxyAssumption, EmptySeq DEF TypeOK
<1>1. ASSUME NEW p \in Posters
      PROVE  Kept(p)
  <2>0. /\ poster[p] \in Posting
        /\ poster[p].pc = "post" => poster[p].events \in Batches
        /\ poster[p].pc = "enqueue" => \E b \in Batches : poster[p].events = Passed(b)
    BY DEF TypeOK, PostsBatch
  <2>1. CASE poster'[p] = poster[p]
    BY <2>0, <2>1
  <2>2. CASE /\ \E events \in Batches :
                   poster'[p] = [pc |-> "post", events |-> events,
                                 locked |-> poster'[p].locked,
                                 start |-> poster'[p].start]
             /\ \/ poster'[p].locked = TRUE /\ poster'[p].start = now
                \/ poster'[p].locked = FALSE /\ poster'[p].start = 0
    <3>1. PICK events \in Batches :
                 poster'[p] = [pc |-> "post", events |-> events,
                               locked |-> poster'[p].locked, start |-> poster'[p].start]
      BY <2>2
    <3>2. poster'[p].locked \in BOOLEAN
      BY <2>2, Zenon
    <3>3. poster'[p].start \in Nat
      <4>1. poster'[p].start = now \/ poster'[p].start = 0
        BY <2>2
      <4> QED
        BY <1>0, <4>1
    <3> QED
      BY <1>0, <3>1, <3>2, <3>3 DEF Posting
  <2>3. CASE /\ poster[p].pc = "post"
             /\ poster'[p] = [poster[p] EXCEPT !.pc = "enqueue",
                                              !.events = Passed(poster[p].events)]
    <3>1. poster[p].events \in Batches /\ Passed(poster[p].events) \in Seq(Events)
      BY <1>0, <2>0, <2>3, PassedType
    <3>2. /\ poster'[p] \in Posting /\ poster'[p].pc = "enqueue"
          /\ poster'[p].events = Passed(poster[p].events)
      BY <2>0, <2>3, <3>1 DEF Posting
    <3> QED
      BY <3>1, <3>2
  <2>4. CASE poster'[p] = [poster[p] EXCEPT !.pc = "unlock", !.events = <<>>]
    <3>1. poster'[p] \in Posting /\ poster'[p].pc = "unlock"
      BY <1>0, <2>0, <2>4 DEF Posting
    <3> QED
      BY <3>1
  <2>5. CASE poster'[p] = Idle
    BY <1>0, <2>5 DEF Posting, Idle
  <2> HIDE DEF Kept
  <2> QED
    BY <2>1, <2>2, <2>3, <2>4, <2>5, PosterStep
<1> QED
  BY <1>1 DEF PostsBatch

\* The posting threads and the sensors keep their types.
LEMMA PostingStep ==
  ASSUME TypeOK, PostsBatch, [Next]_vars
  PROVE  PostingType' /\ PostsBatch'
<1>0. sensor \in [Posters -> {"on", "off", "late"}] /\ poster \in [Posters -> Posting]
      /\ posts \in Nat
  BY DEF TypeOK
<1>1. poster' = [p \in Posters |-> poster'[p]]
  BY <1>0 DEF Next, vars, posting, CreateScopedWakelock, PostEvents,
      PostEventsToMessageQueue, Unlock, DisableSensor, InitializeSubHals,
      PendingTest, PendingSleep, PendingWake, PendingWrite, PendingWriteFails,
      PendingPop, WakelockTest, WakelockSleep, WakelockWake, WakelockRead,
      WakelockReadTimesOut, StopThreads, WakeThreads, ThreadsJoined, Restart,
      FrameworkRead, FrameworkAck, Tick
<1>2. poster' \in [Posters -> Posting]
  <2>1. \A p \in Posters : poster'[p] \in Posting
    BY PosterKept
  <2> QED
    BY <1>1, <2>1
<1>3. posts' \in Nat
  <2>1. posts' = posts \/ posts' = posts + 1
    BY DEF Next, vars, posting, CreateScopedWakelock, PostEvents,
        PostEventsToMessageQueue, Unlock, DisableSensor, InitializeSubHals,
        PendingTest, PendingSleep, PendingWake, PendingWrite, PendingWriteFails,
        PendingPop, WakelockTest, WakelockSleep, WakelockWake, WakelockRead,
        WakelockReadTimesOut, StopThreads, WakeThreads, ThreadsJoined, Restart,
        FrameworkRead, FrameworkAck, Tick
  <2> QED
    BY <1>0, <2>1
<1>4. sensor' \in [Posters -> {"on", "off", "late"}]
  <2>1. ASSUME NEW p \in Posters, NEW v \in {"on", "off", "late"},
               sensor' = [sensor EXCEPT ![p] = v]
        PROVE  sensor' \in [Posters -> {"on", "off", "late"}]
    BY <1>0, <2>1
  <2>2. ASSUME NEW p \in Posters, NEW events \in Batches, CreateScopedWakelock(p, events)
        PROVE  sensor' \in [Posters -> {"on", "off", "late"}]
    <3>1. sensor[p] \in {"on", "off", "late"}
      BY <1>0
    <3>2. sensor' = [sensor EXCEPT ![p] = IF sensor[p] = "late" THEN "off" ELSE sensor[p]]
      BY <2>2 DEF CreateScopedWakelock
    <3> QED
      BY <2>1, <3>1, <3>2
  <2>3. ASSUME NEW p \in Posters, DisableSensor(p)
        PROVE  sensor' \in [Posters -> {"on", "off", "late"}]
    BY <2>1, <2>3 DEF DisableSensor
  <2>4. ASSUME InitializeSubHals
        PROVE  sensor' \in [Posters -> {"on", "off", "late"}]
    BY <2>4 DEF InitializeSubHals
  <2>5. CASE UNCHANGED sensor
    BY <1>0, <2>5
  <2> QED
    BY <2>2, <2>3, <2>4, <2>5 DEF Next, vars, posting, PostEvents,
      PostEventsToMessageQueue, Unlock,
      PendingTest, PendingSleep, PendingWake, PendingWrite, PendingWriteFails,
      PendingPop, WakelockTest, WakelockSleep, WakelockWake, WakelockRead,
      WakelockReadTimesOut, StopThreads, WakeThreads, ThreadsJoined, Restart,
      FrameworkRead, FrameworkAck, Tick
<1> QED
  BY <1>2, <1>3, <1>4, PosterKept DEF PostingType

\* The threads, initialize and the framework keep their types.
LEMMA ThreadStep ==
  ASSUME TypeOK, WritesPending, [Next]_vars
  PROVE  ThreadType'
<1>0. ThreadType /\ LockType /\ kWakelockTimeout \in Nat
  BY TypeParts, HalProxyAssumption
<1>1. unacked' \in Nat
  <2>1. ASSUME NEW n \in 1 .. EventQueueSize, FrameworkRead(n)
        PROVE  unacked' \in Nat
    <3>1. n \in 0 .. Len(mEventQueue) /\ mEventQueue \in Seq(Events)
      BY <2>1, HalProxyAssumption DEF FrameworkRead, TypeOK
    <3>2. NumWakeupEvents(SubSeq(mEventQueue, 1, n)) \in Nat
      BY <3>1, SplitSeq, NumWakeupType
    <3> QED
      BY <1>0, <2>1, <3>2 DEF FrameworkRead, ThreadType
  <2>2. CASE unacked' = unacked \/ unacked' = 0
    BY <1>0, <2>2 DEF ThreadType
  <2> QED
    BY <2>1, <2>2 DEF Next, vars, framework, CreateScopedWakelock, PostEvents,
      PostEventsToMessageQueue, Unlock, DisableSensor, InitializeSubHals,
      PendingTest, PendingSleep, PendingWake, PendingWrite, PendingWriteFails,
      PendingPop, WakelockTest, WakelockSleep, WakelockWake, WakelockRead,
      WakelockReadTimesOut, StopThreads, WakeThreads, ThreadsJoined, Restart,
      FrameworkAck, Tick
<1>2. writtenOff' \in BOOLEAN
  <2>1. writtenOff \in BOOLEAN
    BY <1>0 DEF ThreadType
  <2> QED
    BY <2>1 DEF Next, vars, framework, CreateScopedWakelock, PostEvents,
      PostEventsToMessageQueue, Unlock, DisableSensor, InitializeSubHals,
      PendingTest, PendingSleep, PendingWake, PendingWrite, PendingWriteFails,
      PendingPop, WakelockTest, WakelockSleep, WakelockWake, WakelockRead,
      WakelockReadTimesOut, StopThreads, WakeThreads, ThreadsJoined, Restart,
      FrameworkRead, FrameworkAck, Tick
<1>3. readUntil' \in Nat \cup {Never}
  <2>1. ASSUME WakelockTest
        PROVE  readUntil' \in Nat \cup {Never}
    BY <1>0, <2>1 DEF WakelockTest, ThreadType, LockType
  <2> QED
    BY <1>0, <2>1 DEF Next, vars, threads, CreateScopedWakelock, PostEvents,
      PostEventsToMessageQueue, Unlock, DisableSensor, InitializeSubHals,
      PendingTest, PendingSleep, PendingWake, PendingWrite, PendingWriteFails,
      PendingPop, WakelockSleep, WakelockWake, WakelockRead,
      WakelockReadTimesOut, StopThreads, WakeThreads, ThreadsJoined, Restart,
      FrameworkRead, FrameworkAck, Tick, ThreadType
<1>4. notified' \subseteq {"pending", "wakelock"}
  <2>1. notified \subseteq {"pending", "wakelock"}
    BY <1>0 DEF ThreadType
  <2>2. /\ Notify("pending", pendingThread) \subseteq {"pending"}
        /\ Notify("wakelock", wakelockThread) \subseteq {"wakelock"}
        /\ Woken \subseteq {"wakelock"}
    BY DEF Notify, Woken
  <2> QED
    BY <2>1, <2>2 DEF Next, vars, threads, CreateScopedWakelock, PostEvents,
      PostEventsToMessageQueue, Unlock, DisableSensor, InitializeSubHals,
      PendingTest, PendingSleep, PendingWake, PendingWrite, PendingWriteFails,
      PendingPop, WakelockTest, WakelockSleep, WakelockWake, WakelockRead,
      WakelockReadTimesOut, StopThreads, WakeThreads, ThreadsJoined, Restart,
      FrameworkRead, FrameworkAck, Tick
<1>5. now' \in Nat /\ inits' \in Nat
  <2>1. (now' = now \/ now' = now + 1) /\ (inits' = inits \/ inits' = inits + 1)
    BY DEF Next, vars, binder, CreateScopedWakelock, PostEvents,
      PostEventsToMessageQueue, Unlock, DisableSensor, InitializeSubHals,
      PendingTest, PendingSleep, PendingWake, PendingWrite, PendingWriteFails,
      PendingPop, WakelockTest, WakelockSleep, WakelockWake, WakelockRead,
      WakelockReadTimesOut, StopThreads, WakeThreads, ThreadsJoined, Restart,
      FrameworkRead, FrameworkAck, Tick
  <2> QED
    BY <1>0, <2>1 DEF ThreadType
<1>6. initializing' \in {"no", "stop", "join", "disable", "reset"}
  BY <1>0 DEF Next, vars, binder, ThreadType, CreateScopedWakelock, PostEvents,
      PostEventsToMessageQueue, Unlock, DisableSensor, InitializeSubHals,
      PendingTest, PendingSleep, PendingWake, PendingWrite, PendingWriteFails,
      PendingPop, WakelockTest, WakelockSleep, WakelockWake, WakelockRead,
      WakelockReadTimesOut, StopThreads, WakeThreads, ThreadsJoined, Restart,
      FrameworkRead, FrameworkAck, Tick
<1>7. pendingThread' \in {"off", "test", "doze", "sleep", "write", "pop", "done"}
  BY <1>0 DEF Next, vars, threads, ThreadType, CreateScopedWakelock, PostEvents,
      PostEventsToMessageQueue, Unlock, DisableSensor, InitializeSubHals,
      PendingTest, PendingSleep, PendingWake, PendingWrite, PendingWriteFails,
      PendingPop, WakelockTest, WakelockSleep, WakelockWake, WakelockRead,
      WakelockReadTimesOut, StopThreads, WakeThreads, ThreadsJoined, Restart,
      FrameworkRead, FrameworkAck, Tick
<1>8. wakelockThread' \in {"off", "test", "doze", "sleep", "read", "done"}
  BY <1>0 DEF Next, vars, threads, ThreadType, CreateScopedWakelock, PostEvents,
      PostEventsToMessageQueue, Unlock, DisableSensor, InitializeSubHals,
      PendingTest, PendingSleep, PendingWake, PendingWrite, PendingWriteFails,
      PendingPop, WakelockTest, WakelockSleep, WakelockWake, WakelockRead,
      WakelockReadTimesOut, StopThreads, WakeThreads, ThreadsJoined, Restart,
      FrameworkRead, FrameworkAck, Tick
<1>9. mThreadsRun' \in BOOLEAN
  BY <1>0 DEF Next, vars, binder, CreateScopedWakelock, PostEvents,
      PostEventsToMessageQueue, Unlock, DisableSensor, InitializeSubHals,
      PendingTest, PendingSleep, PendingWake, PendingWrite, PendingWriteFails,
      PendingPop, WakelockTest, WakelockSleep, WakelockWake, WakelockRead,
      WakelockReadTimesOut, StopThreads, WakeThreads, ThreadsJoined, Restart,
      FrameworkRead, FrameworkAck, Tick, ThreadType
<1> QED
  BY <1>1, <1>2, <1>3, <1>4, <1>5, <1>6, <1>7, <1>8, <1>9 DEF ThreadType

-----------------------------------------------------------------------------
(* Times and stopped threads.                                              *)

\* The clock goes on, and the other times change only to the present one.
LEMMA TimesStep ==
  ASSUME [Next]_vars
  PROVE  /\ now' = now \/ now' = now + 1
         /\ \/ mWakelockTimeoutStartTime' = mWakelockTimeoutStartTime
            \/ mWakelockTimeoutStartTime' = now
         /\ \/ mWakelockTimeoutResetTime' = mWakelockTimeoutResetTime
            \/ mWakelockTimeoutResetTime' = now
<1>1. now' = now \/ now' = now + 1
  BY DEF Next, vars, CreateScopedWakelock, PostEvents,
      PostEventsToMessageQueue, Unlock, DisableSensor, InitializeSubHals,
      PendingTest, PendingSleep, PendingWake, PendingWrite, PendingWriteFails,
      PendingPop, WakelockTest, WakelockSleep, WakelockWake, WakelockRead,
      WakelockReadTimesOut, StopThreads, WakeThreads, ThreadsJoined, Restart,
      FrameworkRead, FrameworkAck, Tick
<1>2. \/ mWakelockTimeoutStartTime' = mWakelockTimeoutStartTime
      \/ mWakelockTimeoutStartTime' = now
  BY DEF Next, vars, lock, incrementRefCountAndMaybeAcquireWakelock,
      resetSharedWakelock, CreateScopedWakelock, PostEvents,
      PostEventsToMessageQueue, Unlock, DisableSensor, InitializeSubHals,
      PendingTest, PendingSleep, PendingWake, PendingWrite, PendingWriteFails,
      PendingPop, WakelockTest, WakelockSleep, WakelockWake, WakelockRead,
      WakelockReadTimesOut, StopThreads, WakeThreads, ThreadsJoined, Restart,
      FrameworkRead, FrameworkAck, Tick
<1>3. \/ mWakelockTimeoutResetTime' = mWakelockTimeoutResetTime
      \/ mWakelockTimeoutResetTime' = now
  BY DEF Next, vars, lock, incrementRefCountAndMaybeAcquireWakelock,
      resetSharedWakelock, CreateScopedWakelock, PostEvents,
      PostEventsToMessageQueue, Unlock, DisableSensor, InitializeSubHals,
      PendingTest, PendingSleep, PendingWake, PendingWrite, PendingWriteFails,
      PendingPop, WakelockTest, WakelockSleep, WakelockWake, WakelockRead,
      WakelockReadTimesOut, StopThreads, WakeThreads, ThreadsJoined, Restart,
      FrameworkRead, FrameworkAck, Tick
<1> QED
  BY <1>1, <1>2, <1>3

\* No time comes to lie ahead.
LEMMA ClocksStep ==
  ASSUME TypeOK, PostsBatch, Clocks, [Next]_vars
  PROVE  Clocks'
<1>0. /\ now \in Nat /\ mWakelockTimeoutStartTime \in Nat /\ mWakelockTimeoutResetTime \in Nat
      /\ mWakelockTimeoutStartTime <= now /\ mWakelockTimeoutResetTime <= now
  BY DEF TypeOK, Clocks
<1>1. /\ mWakelockTimeoutStartTime' <= now' /\ mWakelockTimeoutResetTime' <= now'
      /\ mWakelockTimeoutStartTime <= mWakelockTimeoutStartTime'
      /\ mWakelockTimeoutStartTime' \in Nat
  BY <1>0, TimesStep
<1>2. ASSUME NEW p \in Posters, poster'[p].locked
      PROVE  poster'[p].start <= mWakelockTimeoutStartTime'
  <2>0. poster[p] \in Posting /\ (poster[p].locked =>
                                    poster[p].start <= mWakelockTimeoutStartTime)
    BY DEF TypeOK, Clocks
  <2>1. \/ poster'[p].locked = poster[p].locked /\ poster'[p].start = poster[p].start
        \/ poster'[p].start = now /\ mWakelockTimeoutStartTime' = now
        \/ poster'[p].locked = FALSE
    <3>1. ASSUME NEW b, poster'[p] = [poster[p] EXCEPT !.pc = "enqueue", !.events = b]
          PROVE  poster'[p].locked = poster[p].locked /\ poster'[p].start = poster[p].start
      BY <2>0, <3>1 DEF Posting
    <3>2. ASSUME poster'[p] = [poster[p] EXCEPT !.pc = "unlock", !.events = <<>>]
          PROVE  poster'[p].locked = poster[p].locked /\ poster'[p].start = poster[p].start
      BY <2>0, <3>2 DEF Posting
    <3>3. Idle.locked = FALSE
      BY DEF Idle
    <3> QED
      BY <3>1, <3>2, <3>3, PosterStep
  <2>2. poster[p].start \in Nat
    BY <2>0 DEF Posting
  <2>3. CASE poster'[p].locked = poster[p].locked /\ poster'[p].start = poster[p].start
    <3>1. poster[p].start <= mWakelockTimeoutStartTime
      BY <1>2, <2>0, <2>3, Zenon
    <3> QED
      BY <1>0, <1>1, <2>2, <2>3, <3>1
  <2>4. CASE poster'[p].start = now /\ mWakelockTimeoutStartTime' = now
    BY <1>0, <2>4
  <2>5. CASE poster'[p].locked = FALSE
    BY <1>2, <2>5
  <2> QED
    BY <2>1, <2>3, <2>4, <2>5
<1> QED
  BY <1>1, <1>2 DEF Clocks

\* The threads run or do not as initialize says.
LEMMA StoppedStep ==
  ASSUME StoppedWhile, [Next]_vars
  PROVE  StoppedWhile'
<1>1. initializing' \in {"stop", "join", "disable"} => ~mThreadsRun'
  BY DEF StoppedWhile, Next, vars, binder, CreateScopedWakelock, PostEvents,
      PostEventsToMessageQueue, Unlock, DisableSensor, InitializeSubHals,
      PendingTest, PendingSleep, PendingWake, PendingWrite, PendingWriteFails,
      PendingPop, WakelockTest, WakelockSleep, WakelockWake, WakelockRead,
      WakelockReadTimesOut, StopThreads, WakeThreads, ThreadsJoined, Restart,
      FrameworkRead, FrameworkAck, Tick
<1>2. initializing' = "disable" => pendingThread' \in {"off", "done"}
  BY DEF StoppedWhile, Next, vars, binder, threads, CreateScopedWakelock, PostEvents,
      PostEventsToMessageQueue, Unlock, DisableSensor, InitializeSubHals,
      PendingTest, PendingSleep, PendingWake, PendingWrite, PendingWriteFails,
      PendingPop, WakelockTest, WakelockSleep, WakelockWake, WakelockRead,
      WakelockReadTimesOut, StopThreads, WakeThreads, ThreadsJoined, Restart,
      FrameworkRead, FrameworkAck, Tick
<1> QED
  BY <1>1, <1>2 DEF StoppedWhile

\* A sensor that is not on stays quiet until initialize restarts the threads.
LEMMA QuietStep ==
  ASSUME TypeOK, PostsBatch, StoppedWhile, OffIsQuiet, [Next]_vars
  PROVE  OffIsQuiet'
<1> SUFFICES ASSUME NEW p \in Posters, sensor'[p] # "on", initializing' # "reset"
             PROVE  ~mThreadsRun' /\ ~poster'[p].locked /\ poster'[p].pc # "enqueue"
  BY DEF OffIsQuiet
<1>0. /\ sensor \in [Posters -> {"on", "off", "late"}]
      /\ poster \in [Posters -> Posting] /\ poster[p] \in Posting
  BY DEF TypeOK
<1>1. initializing # "reset"
  BY <1>0 DEF Next, vars, binder, CreateScopedWakelock, PostEvents,
      PostEventsToMessageQueue, Unlock, DisableSensor, InitializeSubHals,
      PendingTest, PendingSleep, PendingWake, PendingWrite, PendingWriteFails,
      PendingPop, WakelockTest, WakelockSleep, WakelockWake, WakelockRead,
      WakelockReadTimesOut, StopThreads, WakeThreads, ThreadsJoined, Restart,
      FrameworkRead, FrameworkAck, Tick
<1>2. ASSUME sensor[p] # "on"
      PROVE  ~mThreadsRun' /\ ~poster'[p].locked /\ poster'[p].pc # "enqueue"
  <2>1. ~mThreadsRun /\ ~poster[p].locked /\ poster[p].pc # "enqueue"
    BY <1>1, <1>2 DEF OffIsQuiet
  <2>2. ~mThreadsRun'
    BY <2>1 DEF Next, vars, binder, CreateScopedWakelock, PostEvents,
      PostEventsToMessageQueue, Unlock, DisableSensor, InitializeSubHals,
      PendingTest, PendingSleep, PendingWake, PendingWrite, PendingWriteFails,
      PendingPop, WakelockTest, WakelockSleep, WakelockWake, WakelockRead,
      WakelockReadTimesOut, StopThreads, WakeThreads, ThreadsJoined, Restart,
      FrameworkRead, FrameworkAck, Tick
  <2>3. ~poster'[p].locked /\ poster'[p].pc # "enqueue"
    <3>1. CASE poster'[p] = poster[p]
      BY <2>1, <3>1
    <3>2. CASE \E events \in Batches :
                  /\ poster'[p] = [pc |-> "post", events |-> events,
                                   locked |-> poster'[p].locked, start |-> poster'[p].start]
                  /\ poster'[p].locked = FALSE
      BY <3>2
    <3>3. CASE poster'[p] = [poster[p] EXCEPT !.pc = "unlock", !.events = <<>>]
      <4>1. poster'[p].locked = poster[p].locked /\ poster'[p].pc = "unlock"
        BY <1>0, <3>3 DEF Posting
      <4> QED
        BY <2>1, <4>1
    <3>4. CASE poster'[p] = Idle
      BY <3>4 DEF Idle
    <3> QED
      BY <2>1, <3>1, <3>2, <3>3, <3>4, PosterStep
  <2> QED
    BY <2>2, <2>3
<1>3. ASSUME sensor[p] = "on"
      PROVE  ~mThreadsRun' /\ ~poster'[p].locked /\ poster'[p].pc # "enqueue"
  <2>1. ASSUME NEW r \in Posters, NEW v, sensor' = [sensor EXCEPT ![r] = v]
        PROVE  sensor'[p] = IF p = r THEN v ELSE sensor[p]
    BY <1>0, <2>1
  <2>2. ASSUME NEW r \in Posters, NEW events \in Batches, CreateScopedWakelock(r, events)
        PROVE  FALSE
    <3>1. sensor' = [sensor EXCEPT ![r] = IF sensor[r] = "late" THEN "off" ELSE sensor[r]]
      BY <2>2 DEF CreateScopedWakelock
    <3> QED
      BY <1>3, <2>1, <3>1
  <2>3. CASE DisableSensor(p)
    <3>1. poster'[p] = Idle /\ mThreadsRun' = mThreadsRun /\ initializing = "disable"
      BY <2>3 DEF DisableSensor, binder
    <3> QED
      BY <3>1 DEF StoppedWhile, Idle
  <2>4. ASSUME NEW r \in Posters, DisableSensor(r), r # p
        PROVE  FALSE
    BY <1>3, <2>1, <2>4 DEF DisableSensor
  <2>5. CASE UNCHANGED sensor
    BY <1>3, <2>5
  <2>6. CASE InitializeSubHals
    BY <2>6 DEF InitializeSubHals
  <2> QED
    BY <2>2, <2>3, <2>4, <2>5, <2>6 DEF Next, vars, posting, PostEvents,
      PostEventsToMessageQueue, Unlock,
      PendingTest, PendingSleep, PendingWake, PendingWrite, PendingWriteFails,
      PendingPop, WakelockTest, WakelockSleep, WakelockWake, WakelockRead,
      WakelockReadTimesOut, StopThreads, WakeThreads, ThreadsJoined, Restart,
      FrameworkRead, FrameworkAck, Tick
<1> QED
  BY <1>0, <1>2, <1>3

-----------------------------------------------------------------------------
(* Wake-up events are counted.                                             *)

\* The sub-HALs' locks that the count still stands for.
CountedLocks ==
    {p \in Posters : poster[p].locked /\ poster[p].start >= mWakelockTimeoutResetTime}

\* WakeEventsCounted in terms of them.
LEMMA CountedIs ==
  /\ WakeEventsCounted <=>
        (mThreadsRun /\ ~writtenOff =>
            Underway + Cardinality(CountedLocks) <= mWakelockRefCount)
  /\ WakeEventsCounted' <=>
        (mThreadsRun' /\ ~writtenOff' =>
            Underway' + Cardinality(CountedLocks') <= mWakelockRefCount')
  BY DEF WakeEventsCounted, CountedLocks

\* There are finitely many.
LEMMA LocksFinite == IsFiniteSet(CountedLocks) /\ Cardinality(CountedLocks) \in Nat
<1>1. CountedLocks \subseteq Posters /\ IsFiniteSet(Posters)
  BY HalProxyAssumption DEF CountedLocks
<1>2. IsFiniteSet(CountedLocks)
  BY <1>1, FS_Subset
<1> QED
  BY <1>2, FS_CardinalityType

\* Wake-up events under way are a number of them.
LEMMA UnderwayType ==
  ASSUME TypeOK, WritesPending
  PROVE  /\ NumWakeupEvents(mEventQueue) \in Nat /\ NumWakeupEvents(HeldBack) \in Nat
         /\ unacked \in Nat /\ Total(mWakeLockQueue) \in Nat
         /\ Underway \in Nat
<1>1. NumWakeupEvents(mEventQueue) \in Nat
  BY NumWakeupType DEF TypeOK
<1>2. NumWakeupEvents(HeldBack) \in Nat
  BY NumWakeupType, HeldBackIs
<1>3. unacked \in Nat
  BY DEF TypeOK
<1>4. Total(mWakeLockQueue) \in Nat
  BY TotalType DEF TypeOK
<1> QED
  BY <1>1, <1>2, <1>3, <1>4 DEF Underway

\* A step that leaves the queues alone leaves the events under way as they are.
LEMMA UnderwayKept ==
  ASSUME UNCHANGED <<queues, unacked>>,
         \/ pendingThread' = pendingThread
         \/ pendingThread # "pop" /\ pendingThread' # "pop"
  PROVE  Underway' = Underway
<1>1. HeldBack' = HeldBack
  BY DEF queues, pending, HeldBack, Pending, NumToWrite
<1> QED
  BY <1>1 DEF Underway, queues

\* A post adds at most its wake-up events.
LEMMA PostAdds ==
  ASSUME TypeOK, WritesPending, NEW p \in Posters, PostEventsToMessageQueue(p)
  PROVE  /\ NumWakeupEvents(poster[p].events) \in Nat
         /\ Underway' \in Nat
         /\ Underway' <= Underway + NumWakeupEvents(poster[p].events)
<1> DEFINE w == NumWakeupEvents(WrittenOf(p))
           l == NumWakeupEvents(LeftOf(p))
           h == NumWakeupEvents(HeldOf(p))
<1>1. /\ WrittenOf(p) \in Seq(Events) /\ LeftOf(p) \in Seq(Events)
      /\ HeldOf(p) \in Seq(Events) /\ poster[p].events = WrittenOf(p) \o LeftOf(p)
  BY PostedParts
<1>2. mEventQueue \in Seq(Events) /\ HeldBack \in Seq(Events)
  BY HeldBackIs DEF TypeOK
<1>3. w \in Nat /\ l \in Nat /\ h \in Nat
  BY <1>1, NumWakeupType
<1>4. NumWakeupEvents(poster[p].events) = w + l
  BY <1>1, NumWakeupConcat
<1>5. h = l \/ h = 0
  BY NumWakeupEmpty DEF HeldOf
<1>6. mEventQueue' = mEventQueue \o WrittenOf(p) /\ HeldBack' = HeldBack \o HeldOf(p)
  BY PostAppends
<1>7. NumWakeupEvents(mEventQueue') = NumWakeupEvents(mEventQueue) + w
  BY <1>1, <1>2, <1>6, NumWakeupConcat
<1>8. NumWakeupEvents(HeldBack') = NumWakeupEvents(HeldBack) + h
  BY <1>1, <1>2, <1>6, NumWakeupConcat
<1>9. mWakeLockQueue' = mWakeLockQueue /\ unacked' = unacked
  BY DEF PostEventsToMessageQueue
<1>10. Underway' = NumWakeupEvents(mEventQueue') + NumWakeupEvents(HeldBack')
                       + unacked + Total(mWakeLockQueue)
  BY <1>9 DEF Underway
<1> HIDE DEF w, l, h
<1>11. /\ NumWakeupEvents(mEventQueue) \in Nat /\ NumWakeupEvents(HeldBack) \in Nat
       /\ unacked \in Nat /\ Total(mWakeLockQueue) \in Nat
       /\ Underway = NumWakeupEvents(mEventQueue) + NumWakeupEvents(HeldBack)
                       + unacked + Total(mWakeLockQueue)
  BY UnderwayType DEF Underway
<1> QED
  BY <1>3, <1>4, <1>5, <1>7, <1>8, <1>10, <1>11

\* A write that succeeds moves the front on, and one that fails drops it.
LEMMA WriteMoves ==
  ASSUME TypeOK, WritesPending, pendingThread = "write", pendingThread' = "pop",
         UNCHANGED <<mPendingWriteEventsQueue, mWakeLockQueue, unacked>>
  PROVE  /\ NumWakeupEvents(FrontEvents) \in Nat
         /\ mEventQueue' = mEventQueue \o FrontEvents => Underway' = Underway
         /\ mEventQueue' = mEventQueue =>
               Underway' = Underway - NumWakeupEvents(FrontEvents)
<1> DEFINE f == NumWakeupEvents(FrontEvents)
           a == NumWakeupEvents(AfterFront)
<1>1. mPendingWriteEventsQueue # <<>>
  BY DEF WritesPending
<1>2. FrontEvents \in Seq(Events)
  BY <1>1, FrontIs
<1>3. AfterFront \in Seq(Events)
  BY <1>1, FrontFirst
<1>4. mEventQueue \in Seq(Events)
  BY DEF TypeOK
<1>5. f \in Nat /\ a \in Nat
  BY <1>2, <1>3, NumWakeupType
<1>6. HeldBack = FrontEvents \o AfterFront /\ HeldBack' = AfterFront
  BY WriteTakesFront
<1>7. NumWakeupEvents(HeldBack) = f + a /\ NumWakeupEvents(HeldBack') = a
  BY <1>2, <1>3, <1>6, NumWakeupConcat
<1>8. mEventQueue' = mEventQueue \o FrontEvents =>
         NumWakeupEvents(mEventQueue') = NumWakeupEvents(mEventQueue) + f
  BY <1>2, <1>4, NumWakeupConcat
<1>9. Underway' = NumWakeupEvents(mEventQueue') + a + unacked + Total(mWakeLockQueue)
  BY <1>7 DEF Underway
<1> HIDE DEF f, a
<1>10. /\ NumWakeupEvents(mEventQueue) \in Nat
       /\ unacked \in Nat /\ Total(mWakeLockQueue) \in Nat
       /\ Underway = NumWakeupEvents(mEventQueue) + (f + a)
                       + unacked + Total(mWakeLockQueue)
  BY <1>7, UnderwayType DEF Underway
<1>11. mEventQueue' = mEventQueue \o FrontEvents => Underway' = Underway
  BY <1>5, <1>8, <1>9, <1>10
<1>12. mEventQueue' = mEventQueue => Underway' = Underway - f
  BY <1>5, <1>9, <1>10
<1> QED
  BY <1>5, <1>11, <1>12 DEF f

\* The framework's reads and confirmations keep the events under way, and what
\* the wakelock thread reads takes them off.
LEMMA AcksMove ==
  ASSUME TypeOK, WritesPending
  PROVE  /\ \A n \in 1 .. EventQueueSize : FrameworkRead(n) => Underway' = Underway
         /\ FrameworkAck => Underway' = Underway
         /\ WakelockRead => /\ Head(mWakeLockQueue) \in Nat
                            /\ Underway' = Underway - Head(mWakeLockQueue)
<1> DEFINE N(x) == NumWakeupEvents(x)
<1>0. /\ mEventQueue \in Seq(Events) /\ mWakeLockQueue \in Seq(Nat)
      /\ N(mEventQueue) \in Nat /\ N(HeldBack) \in Nat
      /\ unacked \in Nat /\ Total(mWakeLockQueue) \in Nat
      /\ Underway = N(mEventQueue) + N(HeldBack) + unacked + Total(mWakeLockQueue)
      /\ Underway' = N(mEventQueue') + N(HeldBack') + unacked' + Total(mWakeLockQueue')
  BY UnderwayType DEF TypeOK, Underway
<1>1. ASSUME UNCHANGED <<pending, pendingThread>>
      PROVE  HeldBack' = HeldBack
  BY <1>1 DEF pending, HeldBack, Pending, NumToWrite
<1>2. ASSUME NEW n \in 1 .. EventQueueSize, FrameworkRead(n)
      PROVE  Underway' = Underway
  <2> DEFINE x == SubSeq(mEventQueue, 1, n)
             y == SubSeq(mEventQueue, n + 1, Len(mEventQueue))
  <2>1. n \in 0 .. Len(mEventQueue)
    BY <1>0, <1>2, HalProxyAssumption DEF FrameworkRead
  <2>2. x \in Seq(Events) /\ y \in Seq(Events) /\ mEventQueue = x \o y
    BY <1>0, <2>1, SplitSeq
  <2>3. /\ mEventQueue' = y /\ unacked' = unacked + N(x)
        /\ mWakeLockQueue' = mWakeLockQueue /\ HeldBack' = HeldBack
    BY <1>1, <1>2 DEF FrameworkRead, threads
  <2> HIDE DEF x, y
  <2>4. N(mEventQueue) = N(x) + N(y)
    BY <2>2, NumWakeupConcat
  <2>5. N(x) \in Nat /\ N(y) \in Nat
    BY <2>2, NumWakeupType
  <2>6. Underway' = N(y) + N(HeldBack) + (unacked + N(x)) + Total(mWakeLockQueue)
    BY <1>0, <2>3
  <2> HIDE DEF N
  <2> QED
    BY <1>0, <2>4, <2>5, <2>6
<1>3. ASSUME FrameworkAck
      PROVE  Underway' = Underway
  <2>1. /\ mWakeLockQueue' = Append(mWakeLockQueue, unacked) /\ unacked' = 0
        /\ mEventQueue' = mEventQueue /\ HeldBack' = HeldBack
    BY <1>1, <1>3 DEF FrameworkAck, threads
  <2>2. Total(mWakeLockQueue') = Total(mWakeLockQueue) + unacked
    BY <1>0, <2>1, TotalAppend
  <2> HIDE DEF N
  <2> QED
    BY <1>0, <2>1, <2>2
<1>4. ASSUME WakelockRead
      PROVE  /\ Head(mWakeLockQueue) \in Nat
             /\ Underway' = Underway - Head(mWakeLockQueue)
  <2>1. /\ mWakeLockQueue # <<>> /\ mWakeLockQueue' = Tail(mWakeLockQueue)
        /\ unacked' = unacked /\ mEventQueue' = mEventQueue /\ HeldBack' = HeldBack
    BY <1>1, <1>4 DEF WakelockRead, framework
  <2>2. /\ Head(mWakeLockQueue) \in Nat
        /\ Total(mWakeLockQueue) = Head(mWakeLockQueue) + Total(mWakeLockQueue')
    BY <1>0, <2>1, TotalHead
  <2>3. Total(mWakeLockQueue') \in Nat
    <3>1. Tail(mWakeLockQueue) \in Seq(Nat)
      BY <1>0, <2>1, HeadTailProperties
    <3> QED
      BY <2>1, <3>1, TotalType
  <2> DEFINE t == Total(mWakeLockQueue')
             h == Head(mWakeLockQueue)
  <2>4. Underway' = N(mEventQueue) + N(HeldBack) + unacked + t
    BY <1>0, <2>1
  <2>5. t \in Nat /\ h \in Nat /\ Total(mWakeLockQueue) = h + t
    BY <2>2, <2>3
  <2> HIDE DEF N, t, h
  <2>6. Underway' = Underway - h
    BY <1>0, <2>4, <2>5
  <2> QED
    BY <2>5, <2>6 DEF h
<1> QED
  BY <1>2, <1>3, <1>4

\* A step that takes no new lock and no later reset does not add a counted one.
LEMMA LocksKept ==
  ASSUME TypeOK, PostsBatch, [Next]_vars,
         UNCHANGED mWakelockTimeoutResetTime,
         \A p \in Posters : poster'[p].locked =>
             poster[p].locked /\ poster'[p].start = poster[p].start
  PROVE  Cardinality(CountedLocks') \in Nat
         /\ Cardinality(CountedLocks') <= Cardinality(CountedLocks)
<1>1. CountedLocks' \subseteq CountedLocks
  BY DEF CountedLocks
<1> QED
  BY <1>1, LocksFinite, FS_Subset, FS_CardinalityType

\* The wake-up events stay counted.
LEMMA WakeStep ==
  ASSUME TypeOK, Clocks, StoppedWhile, OffIsQuiet, WritesPending, PostsBatch,
         WakeEventsCounted, [Next]_vars
  PROVE  WakeEventsCounted'
<1> DEFINE U == Underway
           C == Cardinality(CountedLocks)
           R == mWakelockRefCount
           Z == mWakelockTimeoutResetTime
           Goal == mThreadsRun' /\ ~writtenOff' =>
                      Underway' + Cardinality(CountedLocks') <= mWakelockRefCount'
<1>0. /\ U \in Nat /\ C \in Nat /\ R \in Nat /\ Z \in Nat /\ now \in Nat
      /\ mThreadsRun /\ ~writtenOff => U + C <= R
      /\ poster \in [Posters -> Posting]
  BY UnderwayType, LocksFinite, CountedIs DEF TypeOK
<1>1. ASSUME UNCHANGED <<mThreadsRun, writtenOff, mWakelockRefCount>>,
             Underway' = Underway, CountedLocks' = CountedLocks
      PROVE  Goal
  BY <1>0, <1>1
<1>2. ASSUME UNCHANGED <<poster, mWakelockTimeoutResetTime>>
      PROVE  CountedLocks' = CountedLocks
  BY <1>2 DEF CountedLocks
<1>3. ASSUME NEW p \in Posters, NEW events \in Batches, CreateScopedWakelock(p, events)
      PROVE  Goal
  <2> DEFINE locks == mThreadsRun /\ \E e \in {"wake", "putDown"} : Contains(events, e)
             v == [pc |-> "post", events |-> events, locked |-> locks,
                   start |-> IF locks THEN now ELSE 0]
  <2>1. Underway' = U
    BY <1>3, UnderwayKept DEF CreateScopedWakelock, framework
  <2>2. poster' = [poster EXCEPT ![p] = v] /\ v.locked = locks /\ poster[p] = Idle
    BY <1>3 DEF CreateScopedWakelock
  <2>3. UNCHANGED <<mThreadsRun, writtenOff, mWakelockTimeoutResetTime>>
    BY <1>3 DEF CreateScopedWakelock, binder, framework, lock,
                incrementRefCountAndMaybeAcquireWakelock
  <2>4. CASE locks
    <3>1. mWakelockRefCount' = R + 1
      BY <1>3, <2>4 DEF CreateScopedWakelock, incrementRefCountAndMaybeAcquireWakelock
    <3> HIDE DEF v, locks
    <3>2. \A r \in Posters : r # p => poster'[r] = poster[r]
      BY <1>0, <2>2
    <3>3. CountedLocks' \subseteq CountedLocks \cup {p}
      BY <2>3, <3>2 DEF CountedLocks
    <3>4. /\ IsFiniteSet(CountedLocks \cup {p})
          /\ Cardinality(CountedLocks \cup {p}) = C
             \/ Cardinality(CountedLocks \cup {p}) = C + 1
      BY LocksFinite, FS_AddElement
    <3>5. /\ Cardinality(CountedLocks') \in Nat
          /\ Cardinality(CountedLocks') <= Cardinality(CountedLocks \cup {p})
      BY <3>3, <3>4, FS_Subset, FS_CardinalityType
    <3>6. Cardinality(CountedLocks') <= C + 1
      BY <1>0, <3>4, <3>5
    <3> HIDE DEF U, C, R
    <3> QED
      BY <1>0, <2>1, <2>3, <3>1, <3>5, <3>6
  <2>5. CASE ~ locks
    <3>1. mWakelockRefCount' = R
      BY <1>3, <2>5 DEF CreateScopedWakelock, lock
    <3>2. poster'[p].locked = FALSE
      BY <1>0, <2>2, <2>5
    <3> HIDE DEF v, locks
    <3>3. \A r \in Posters : r # p => poster'[r] = poster[r]
      BY <1>0, <2>2
    <3>4. \A r \in Posters : poster'[r].locked =>
             poster[r].locked /\ poster'[r].start = poster[r].start
      BY <3>2, <3>3
    <3>5. Cardinality(CountedLocks') \in Nat /\ Cardinality(CountedLocks') <= C
      BY <2>3, <3>4, LocksKept
    <3> HIDE DEF U, C, R
    <3> QED
      BY <1>0, <2>1, <2>3, <3>1, <3>5
  <2> QED
    BY <2>4, <2>5
<1>4. ASSUME NEW p \in Posters, PostEvents(p)
      PROVE  Goal
  <2>1. \A r \in Posters : poster'[r].locked = poster[r].locked
                           /\ poster'[r].start = poster[r].start
    BY <1>0, <1>4 DEF PostEvents, Posting
  <2>2. Underway' = U
    BY <1>4, UnderwayKept DEF PostEvents, threads, framework
  <2>3. UNCHANGED <<mThreadsRun, writtenOff, mWakelockRefCount, mWakelockTimeoutResetTime>>
    BY <1>4 DEF PostEvents, binder, framework, lock
  <2>4. Cardinality(CountedLocks') \in Nat /\ Cardinality(CountedLocks') <= C
    BY <2>1, <2>3, LocksKept
  <2> HIDE DEF U, C, R
  <2> QED
    BY <1>0, <2>2, <2>3, <2>4 DEF R
<1>5. ASSUME NEW p \in Posters, PostEventsToMessageQueue(p)
      PROVE  Goal
  <2> DEFINE w == NumWakeupEvents(poster[p].events)
  <2>1. w \in Nat /\ Underway' \in Nat /\ Underway' <= U + w
    BY <1>5, PostAdds
  <2>2. \A r \in Posters : poster'[r].locked = poster[r].locked
                           /\ poster'[r].start = poster[r].start
    BY <1>0, <1>5 DEF PostEventsToMessageQueue, Posting
  <2>3. UNCHANGED <<mThreadsRun, mWakelockTimeoutResetTime>>
    BY <1>5 DEF PostEventsToMessageQueue, binder, lock,
                incrementRefCountAndMaybeAcquireWakelock
  <2>4. Cardinality(CountedLocks') \in Nat /\ Cardinality(CountedLocks') <= C
    BY <2>2, <2>3, LocksKept
  <2>5. writtenOff' = (writtenOff \/ (w > 0 /\ ~poster[p].locked))
    BY <1>5 DEF PostEventsToMessageQueue
  <2>6. mThreadsRun /\ poster[p].locked => mWakelockRefCount' = R + w
    BY <1>5 DEF PostEventsToMessageQueue, incrementRefCountAndMaybeAcquireWakelock
  <2>7. mThreadsRun /\ ~poster[p].locked => mWakelockRefCount' = R
    BY <1>5 DEF PostEventsToMessageQueue, lock
  <2> HIDE DEF U, C, R, w
  <2> SUFFICES ASSUME mThreadsRun', ~writtenOff'
               PROVE  Underway' + Cardinality(CountedLocks') <= mWakelockRefCount'
    OBVIOUS
  <2>8. mThreadsRun /\ ~writtenOff
    BY <2>3, <2>5
  <2>9. CASE poster[p].locked
    <3>1. mWakelockRefCount' = R + w
      BY <2>6, <2>8, <2>9
    <3> QED
      BY <1>0, <2>1, <2>4, <2>8, <3>1
  <2>10. CASE ~ poster[p].locked
    <3>1. mWakelockRefCount' = R /\ ~(w > 0)
      BY <2>5, <2>7, <2>8, <2>10
    <3> QED
      BY <1>0, <2>1, <2>4, <2>8, <3>1
  <2> QED
    BY <2>9, <2>10
<1>6. ASSUME NEW p \in Posters, Unlock(p)
      PROVE  Goal
  <2>1. Underway' = U
    BY <1>6, UnderwayKept DEF Unlock, threads, framework
  <2>2. UNCHANGED <<mThreadsRun, writtenOff, mWakelockTimeoutResetTime>>
    BY <1>6 DEF Unlock, binder, framework, lock
  <2>3. poster' = [poster EXCEPT ![p] = Idle] /\ Idle.locked = FALSE
    BY <1>6 DEF Unlock, Idle
  <2>4. poster'[p].locked = FALSE /\ \A r \in Posters : r # p => poster'[r] = poster[r]
    BY <1>0, <2>3
  <2>5. \A r \in Posters : poster'[r].locked =>
           poster[r].locked /\ poster'[r].start = poster[r].start
    BY <2>4
  <2>6. Cardinality(CountedLocks') \in Nat /\ Cardinality(CountedLocks') <= C
    BY <2>2, <2>5, LocksKept
  <2>7. CASE p \in CountedLocks
    <3>1. CountedLocks' \subseteq CountedLocks \ {p}
      BY <2>2, <2>4 DEF CountedLocks
    <3>2. /\ IsFiniteSet(CountedLocks \ {p})
          /\ Cardinality(CountedLocks \ {p}) = C - 1
      BY <2>7, LocksFinite, FS_RemoveElement
    <3>3. Cardinality(CountedLocks') <= C - 1
      BY <3>1, <3>2, FS_Subset
    <3>4. poster[p].locked /\ poster[p].start \in Nat
      BY <1>0, <2>7 DEF CountedLocks, Posting
    <3>5. decrementRefCountAndMaybeReleaseWakelock(1, poster[p].start)
      BY <1>6, <3>4 DEF Unlock
    <3>6. mWakelockRefCount' \in Nat /\ mWakelockRefCount' >= R - 1
      BY <3>4, <3>5, Decremented
    <3> HIDE DEF U, C, R
    <3> QED
      BY <1>0, <2>1, <2>2, <2>6, <3>3, <3>6
  <2>8. CASE p \notin CountedLocks
    <3>1. mWakelockRefCount' = R
      <4>1. CASE ~ poster[p].locked
        BY <1>6, <4>1 DEF Unlock, lock
      <4>2. CASE poster[p].locked
        <5>1. poster[p].start \in Nat
          BY <1>0 DEF Posting
        <5>2. ~ (poster[p].start >= Z)
          BY <2>8, <4>2 DEF CountedLocks
        <5>3. poster[p].start < Z
          BY <1>0, <5>1, <5>2
        <5>4. decrementRefCountAndMaybeReleaseWakelock(1, poster[p].start)
          BY <1>6, <4>2 DEF Unlock
        <5> QED
          BY <5>1, <5>3, <5>4, Decremented
      <4> QED
        BY <4>1, <4>2
    <3> HIDE DEF U, C, R
    <3> QED
      BY <1>0, <2>1, <2>2, <2>6, <3>1
  <2> QED
    BY <2>7, <2>8
<1>7. ASSUME PendingWrite
      PROVE  Goal
  <2>1. Underway' = Underway
    BY <1>7, WriteMoves DEF PendingWrite, pending, framework
  <2> QED
    BY <1>1, <1>2, <1>7, <2>1 DEF PendingWrite, binder, framework, lock, posting
<1>8. ASSUME PendingWriteFails
      PROVE  Goal
  <2> DEFINE front == Head(mPendingWriteEventsQueue)
             f == NumWakeupEvents(FrontEvents)
             delta == IF Len(front.events) > EventQueueSize THEN f ELSE front.numWakeup
  <2>1. f \in Nat /\ Underway' = U - f
    BY <1>8, WriteMoves DEF PendingWriteFails, queues, pending
  <2>2. mPendingWriteEventsQueue # <<>>
    BY <1>8 DEF PendingWriteFails, WritesPending
  <2>3. delta \in Nat
    BY <2>1, <2>2, FrontIs
  <2>4. UNCHANGED <<mThreadsRun, mWakelockTimeoutResetTime, poster>>
        /\ writtenOff' = (writtenOff \/ delta > f)
    BY <1>8 DEF PendingWriteFails, binder, posting, lock
  <2>5. CountedLocks' = CountedLocks
    BY <1>2, <2>4
  <2>6. mWakelockRefCount' \in Nat /\ mWakelockRefCount' >= R - delta
    <3>1. \/ UNCHANGED lock
          \/ decrementRefCountAndMaybeReleaseWakelock(delta, mWakelockTimeoutResetTime)
      BY <1>8 DEF PendingWriteFails
    <3> HIDE DEF delta
    <3>2. CASE UNCHANGED lock
      BY <1>0, <2>3, <3>2 DEF lock
    <3>3. CASE decrementRefCountAndMaybeReleaseWakelock(delta, mWakelockTimeoutResetTime)
      BY <1>0, <2>3, <3>3, Decremented
    <3> QED
      BY <3>1, <3>2, <3>3
  <2>7. CASE mThreadsRun' /\ ~writtenOff'
    <3>1. mThreadsRun /\ ~writtenOff /\ ~ (delta > f)
      BY <2>4, <2>7
    <3> HIDE DEF U, C, R, delta, f
    <3> QED
      BY <1>0, <2>1, <2>3, <2>5, <2>6, <3>1 DEF C
  <2> QED
    BY <2>7
<1>9. ASSUME PendingPop
      PROVE  Goal
  <2>1. HeldBack' = HeldBack
    BY <1>9, PopKeeps DEF PendingPop
  <2>2. Underway' = Underway
    BY <1>9, <2>1 DEF PendingPop, Underway, framework
  <2> QED
    BY <1>1, <1>2, <1>9, <2>2 DEF PendingPop, binder, framework, lock, posting
<1>10. ASSUME WakelockTest
       PROVE  Goal
  <2>1. Underway' = Underway /\ UNCHANGED <<mThreadsRun, poster>>
    BY <1>10, UnderwayKept DEF WakelockTest, binder, posting
  <2>2. CASE UNCHANGED <<lock, writtenOff>>
    BY <1>1, <1>2, <2>1, <2>2 DEF lock
  <2>3. CASE ~mThreadsRun
    BY <2>1, <2>3
  <2>4. CASE /\ SharedWakelockDidTimeout /\ resetSharedWakelock
             /\ writtenOff' = (writtenOff \/ Underway > 0)
    <3>1. mWakelockRefCount' \in Nat /\ mWakelockTimeoutResetTime' = now
      BY <2>4, Reset
    <3>2. mWakelockTimeoutStartTime \in Nat /\ mWakelockTimeoutStartTime < now
      BY <1>0, <2>4, HalProxyAssumption DEF SharedWakelockDidTimeout, TypeOK
    <3>3. ASSUME NEW p \in Posters, poster[p].locked
          PROVE  ~ (poster[p].start >= now)
      <4>1. poster[p].start \in Nat /\ poster[p].start <= mWakelockTimeoutStartTime
        BY <3>3 DEF TypeOK, Posting, Clocks
      <4> QED
        BY <1>0, <3>2, <4>1
    <3>4. CountedLocks' = {}
      BY <2>1, <3>1, <3>3 DEF CountedLocks
    <3>5. Cardinality(CountedLocks') = 0
      BY <3>4, FS_EmptySet
    <3>6. ~writtenOff' => Underway' = 0
      <4>1. ~writtenOff' => ~ (Underway > 0)
        BY <2>4, Zenon
      <4> QED
        BY <1>0, <2>1, <4>1
    <3> QED
      BY <3>1, <3>5, <3>6
  <2> HIDE DEF Goal
  <2> QED
    BY <1>10, <2>2, <2>3, <2>4 DEF WakelockTest
<1>11. ASSUME WakelockRead
       PROVE  Goal
  <2> DEFINE h == Head(mWakeLockQueue)
  <2>1. h \in Nat /\ Underway' = U - h
    BY <1>11, AcksMove
  <2>2. CountedLocks' = CountedLocks /\ UNCHANGED <<mThreadsRun, writtenOff>>
    BY <1>2, <1>11 DEF WakelockRead, posting, binder, framework
  <2>3. decrementRefCountAndMaybeReleaseWakelock(h, mWakelockTimeoutResetTime)
    BY <1>11 DEF WakelockRead
  <2> HIDE DEF h
  <2>4. mWakelockRefCount' \in Nat /\ mWakelockRefCount' >= R - h
    BY <1>0, <2>1, <2>3, Decremented
  <2> HIDE DEF U, C, R
  <2> QED
    BY <1>0, <2>1, <2>2, <2>4 DEF C
<1>12. ASSUME StopThreads \/ WakeThreads \/ ThreadsJoined
       PROVE  Goal
  BY <1>12 DEF StopThreads, WakeThreads, ThreadsJoined, StoppedWhile
<1>13. ASSUME Restart
       PROVE  Goal
  <2>1. /\ mPendingWriteEventsQueue' = <<>> /\ mEventQueue' = <<>>
        /\ mWakeLockQueue' = <<>> /\ unacked' = 0 /\ pendingThread' = "test"
        /\ UNCHANGED <<poster, mWakelockRefCount, mWakelockTimeoutResetTime>>
    BY <1>13 DEF Restart, posting, lock
  <2>2. CountedLocks' = {}
    <3>1. \A p \in Posters : ~poster[p].locked
      BY <1>13 DEF Restart, OffIsQuiet
    <3> QED
      BY <1>2, <2>1, <3>1 DEF CountedLocks
  <2>3. Cardinality(CountedLocks') = 0
    BY <2>2, FS_EmptySet
  <2>4. HeldBack' = <<>>
    <3>1. <<>> \in Seq(Entry)
      BY EmptySeq
    <3> QED
      BY <2>1, <3>1, FlattenedType DEF HeldBack, Pending
  <2>5. Total(<<>>) = 0
    <3>1. <<>> \in Seq(Nat)
      BY EmptySeq
    <3> QED
      BY <3>1, TotalType
  <2>6. Underway' = 0
    BY <2>1, <2>4, <2>5, NumWakeupEmpty DEF Underway
  <2> QED
    BY <1>0, <2>1, <2>3, <2>6
<1>14. ASSUME NEW n \in 1 .. EventQueueSize, FrameworkRead(n)
       PROVE  Goal
  BY <1>1, <1>2, <1>14, AcksMove DEF FrameworkRead, binder, lock, posting
<1>15. ASSUME FrameworkAck
       PROVE  Goal
  BY <1>1, <1>2, <1>15, AcksMove DEF FrameworkAck, binder, lock, posting
<1>16. ASSUME UNCHANGED <<mThreadsRun, lock, queues, poster, framework>>,
              \/ pendingThread' = pendingThread
              \/ pendingThread # "pop" /\ pendingThread' # "pop"
       PROVE  Goal
  BY <1>1, <1>2, <1>16, UnderwayKept DEF lock, framework
<1> HIDE DEF Goal
<1>17. ASSUME PendingTest \/ PendingSleep \/ PendingWake
       PROVE  Goal
  BY <1>16, <1>17 DEF PendingTest, PendingSleep, PendingWake, binder, posting
<1>18. Goal
  BY <1>3, <1>4, <1>5, <1>6, <1>7, <1>8, <1>9, <1>10, <1>11, <1>12, <1>13, <1>14,
     <1>15, <1>16, <1>17
  DEF Next, vars, binder, posting, threads, DisableSensor, WakelockSleep, WakelockWake,
      WakelockReadTimesOut, InitializeSubHals, Tick
<1> QED
  BY <1>18, CountedIs DEF Goal

-----------------------------------------------------------------------------
(* The invariant and what follows from it.                                 *)

\* The proxy starts as the invariant says.
LEMMA InitIInv == Init => IInv
<1> SUFFICES ASSUME Init PROVE IInv
  OBVIOUS
<1>1. TypeOK
  <2>1. Idle \in Posting
    BY EmptySeq DEF Idle, Posting
  <2>2. poster \in [Posters -> Posting] /\ sensor \in [Posters -> {"on", "off", "late"}]
    BY <2>1 DEF Init
  <2>3. <<>> \in Seq(Events) /\ <<>> \in Seq(Nat) /\ <<>> \in Seq(Entry) /\ Len(<<>>) = 0
    BY EmptySeq
  <2>4. 0 <= EventQueueSize
    BY HalProxyAssumption
  <2>5. QueueType
    BY <2>3, <2>4 DEF Init, QueueType
  <2>6. LockType /\ PostingType
    BY <2>2 DEF Init, LockType, PostingType
  <2>7. ThreadType
    BY DEF Init, ThreadType
  <2> QED
    BY <2>5, <2>6, <2>7, TypeParts
<1>2. \A p \in Posters : poster[p] = Idle
  BY DEF Init
<1>3. Idle.locked = FALSE /\ Idle.pc = "idle"
  BY DEF Idle
<1>4. Clocks /\ OffIsQuiet /\ PostsBatch
  BY <1>2, <1>3 DEF Init, Clocks, OffIsQuiet, PostsBatch
<1>5. StoppedWhile /\ WritesPending /\ CountedMeansHeld /\ WakeEventsCounted
  BY DEF Init, StoppedWhile, WritesPending, CountedMeansHeld, WakeEventsCounted
<1>6. SizeIsPending
  <2>1. Pending = <<>>
    BY FlattenedType, EmptySeq DEF Init, Pending
  <2> QED
    BY <2>1, HalProxyAssumption DEF Init, SizeIsPending
<1> QED
  BY <1>1, <1>4, <1>5, <1>6 DEF IInv

\* Every step keeps it.
LEMMA NextIInv == IInv /\ [Next]_vars => IInv'
<1> SUFFICES ASSUME IInv, [Next]_vars PROVE IInv'
  OBVIOUS
<1>0. /\ TypeOK /\ Clocks /\ StoppedWhile /\ OffIsQuiet /\ WritesPending /\ PostsBatch
      /\ CountedMeansHeld /\ SizeIsPending /\ WakeEventsCounted
  BY DEF IInv
<1>1. LockType' /\ CountedMeansHeld'
  BY <1>0, LockStep
<1>2. QueueType' /\ WritesPending' /\ SizeIsPending'
  BY <1>0, QueueStep
<1>3. PostingType' /\ PostsBatch'
  BY <1>0, PostingStep
<1>4. ThreadType'
  BY <1>0, ThreadStep
<1>5. TypeOK'
  BY <1>1, <1>2, <1>3, <1>4
  DEF TypeOK, LockType, QueueType, PostingType, ThreadType
<1>6. Clocks'
  BY <1>0, ClocksStep
<1>7. StoppedWhile'
  BY <1>0, StoppedStep
<1>8. OffIsQuiet'
  BY <1>0, QuietStep
<1>9. WakeEventsCounted'
  BY <1>0, WakeStep
<1> QED
  BY <1>1, <1>2, <1>3, <1>5, <1>6, <1>7, <1>8, <1>9 DEF IInv

\* The invariant holds of the specification.
THEOREM SpecIInv == Spec => []IInv
<1>1. Init => IInv
  BY InitIInv
<1>2. IInv /\ [Next]_vars => IInv'
  BY NextIInv
<1> QED
  BY <1>1, <1>2, PTL DEF Spec

\* Every variable keeps its type: the count is never negative and the event queue
\* never holds more than its size.
THEOREM TypeCorrect == Spec => []TypeOK
<1>1. IInv => TypeOK
  BY DEF IInv
<1> QED
  BY <1>1, SpecIInv, PTL

\* The wakelock is held as long as the reference count is positive.
THEOREM CountedIsHeld == Spec => []CountedMeansHeld
<1>1. IInv => CountedMeansHeld
  BY DEF IInv
<1> QED
  BY <1>1, SpecIInv, PTL

\* The wake-up events under way and the sub-HALs' locks never exceed the count.
THEOREM WakeEventsAreCounted == Spec => []WakeEventsCounted
<1>1. IInv => WakeEventsCounted
  BY DEF IInv
<1> QED
  BY <1>1, SpecIInv, PTL

\* mSizePendingWriteEventsQueue is the number of pending events, within its bound.
THEOREM SizeAgrees == Spec => []SizeIsPending
<1>1. IInv => SizeIsPending
  BY DEF IInv
<1> QED
  BY <1>1, SpecIInv, PTL

\* initialize clears what is pending while nobody adds to it or takes from it.
THEOREM ClearsSafely == Spec => ClearedSafely
<1>1. IInv /\ [Next]_vars =>
        [Restart => /\ \A p \in Posters : poster[p].pc # "enqueue"
                    /\ pendingThread \in {"off", "done"}]_vars
  BY DEF IInv, Restart, OffIsQuiet, StoppedWhile
<1> QED
  BY <1>1, SpecIInv, PTL DEF Spec, ClearedSafely

-----------------------------------------------------------------------------
(* The refinement.                                                         *)

\* The event queue and what is held back for it.
Chan == mEventQueue \o HeldBack

\* The channel filters a batch as the proxy does.
LEMMA PassedSame == \A b : Channel!Passed(b) = Passed(b)
  BY DEF Channel!Passed, Passed

\* A batch is posted, and its end is missing only for want of room.
LEMMA IsPost ==
  ASSUME NEW b \in Batches, NEW n \in 0 .. Len(Passed(b)),
         \/ n = Len(Passed(b))
         \/ Len(Chan) + Len(Passed(b)) + EventQueueSize > kMaxSizePendingWriteEventsQueue,
         Chan' = Chan \o SubSeq(Passed(b), 1, n),
         UNCHANGED mThreadsRun
  PROVE  Channel!Next
<1> DEFINE x == Passed(b)
<1>1. Channel!Passed(b) = x
  BY PassedSame
<1>2. /\ n \in 0 .. Len(x)
      /\ n = Len(x) \/ Len(Chan) + Len(x) + EventQueueSize > kMaxSizePendingWriteEventsQueue
      /\ Chan' = Chan \o SubSeq(x, 1, n)
  OBVIOUS
<1> HIDE DEF x
<1>3. Channel!Post(x)
  BY <1>2 DEF Channel!Post, Chan
<1> QED
  BY <1>1, <1>3 DEF Channel!Next

\* Events are read.
LEMMA IsRead ==
  ASSUME NEW n \in 1 .. Len(Chan), Chan' = SubSeq(Chan, n + 1, Len(Chan)),
         UNCHANGED mThreadsRun
  PROVE  Channel!Next
<1>1. Channel!Read
  BY DEF Channel!Read, Chan
<1> QED
  BY <1>1 DEF Channel!Next

\* Events are dropped from a full channel.
LEMMA IsDrop ==
  ASSUME Len(Chan) > EventQueueSize,
         NEW i \in 1 .. Len(Chan), NEW j \in i .. Len(Chan),
         Chan' = SubSeq(Chan, 1, i - 1) \o SubSeq(Chan, j + 1, Len(Chan)),
         UNCHANGED mThreadsRun
  PROVE  Channel!Next
<1>1. Channel!Drop
  BY DEF Channel!Drop, Chan
<1> QED
  BY <1>1 DEF Channel!Next

\* What is in the channel are events.
LEMMA ChanType ==
  ASSUME TypeOK, WritesPending
  PROVE  /\ mEventQueue \in Seq(Events) /\ HeldBack \in Seq(Events)
         /\ Len(mEventQueue) \in Nat /\ Len(HeldBack) \in Nat
         /\ Chan \in Seq(Events) /\ Len(Chan) = Len(mEventQueue) + Len(HeldBack)
<1>1. mEventQueue \in Seq(Events) /\ HeldBack \in Seq(Events)
  BY HeldBackIs DEF TypeOK
<1> QED
  BY <1>1, ConcatProperties DEF Chan

\* A post is one of the channel: what is written and held back is the beginning
\* of the batch, and its end is missing only when too much is pending.
LEMMA PostRefines ==
  ASSUME TypeOK, WritesPending, PostsBatch, SizeIsPending,
         NEW p \in Posters, PostEventsToMessageQueue(p)
  PROVE  Channel!Next
<1> DEFINE e == poster[p].events
           W == WrittenOf(p)
           L == LeftOf(p)
           H == HeldOf(p)
<1>1. PICK b \in Batches : e = Passed(b)
  BY DEF PostEventsToMessageQueue, PostsBatch
<1>2. /\ e \in Seq(Events) /\ W \in Seq(Events) /\ L \in Seq(Events) /\ H \in Seq(Events)
      /\ e = W \o L /\ (mPendingWriteEventsQueue # <<>> => W = <<>>)
  BY PostedParts
<1>3. /\ mEventQueue' = mEventQueue \o W /\ HeldBack' = HeldBack \o H
      /\ UNCHANGED mThreadsRun
  BY PostAppends DEF PostEventsToMessageQueue, binder
<1>4. /\ mEventQueue \in Seq(Events) /\ HeldBack \in Seq(Events)
      /\ Len(mEventQueue) \in Nat /\ Len(HeldBack) \in Nat
      /\ Len(Chan) = Len(mEventQueue) + Len(HeldBack)
  BY ChanType
<1>5. W = <<>> \/ HeldBack = <<>>
  <2>1. CASE mPendingWriteEventsQueue = <<>>
    <3>1. HeldBack = Pending
      BY <2>1 DEF HeldBack, WritesPending
    <3>2. Pending = <<>>
      BY <2>1, FlattenedType DEF Pending, TypeOK
    <3> QED
      BY <3>1, <3>2
  <2> QED
    BY <1>2, <2>1
<1>6. H = L \/ (H = <<>> /\ mSizePendingWriteEventsQueue + Len(L)
                               > kMaxSizePendingWriteEventsQueue)
  <2>1. Len(L) \in Nat /\ mSizePendingWriteEventsQueue \in Int
        /\ kMaxSizePendingWriteEventsQueue \in Nat
    BY <1>2, HalProxyAssumption DEF TypeOK
  <2> HIDE DEF L
  <2> QED
    BY <2>1 DEF HeldOf, MayBeHeldBack, L
<1>7. /\ mSizePendingWriteEventsQueue = Len(Pending) /\ Len(Pending) \in Nat
      /\ Len(Pending) <= Len(HeldBack) + EventQueueSize
      /\ EventQueueSize \in Nat /\ kMaxSizePendingWriteEventsQueue \in Nat
  <2>1. Pending \in Seq(Events) /\ Len(Pending) <= Len(HeldBack) + EventQueueSize
    BY HeldBackIs
  <2> QED
    BY <2>1, HalProxyAssumption DEF SizeIsPending
<1>8. Len(e) = Len(W) + Len(L) /\ Len(W) \in Nat /\ Len(L) \in Nat
  BY <1>2, ConcatProperties
<1> HIDE DEF e, W, L, H
<1>9. Chan' = Chan \o (W \o H)
  <2>0. /\ <<>> \o W = W /\ W \o <<>> = W /\ <<>> \o H = H /\ H \o <<>> = H
        /\ mEventQueue \o <<>> = mEventQueue
    BY <1>2, <1>4, ConcatEmptySeq
  <2>1. Chan' = (mEventQueue \o W) \o (HeldBack \o H)
    BY <1>3 DEF Chan
  <2>2. /\ mEventQueue \in Seq(Events) /\ HeldBack \in Seq(Events)
        /\ W \in Seq(Events) /\ H \in Seq(Events)
    BY <1>2, <1>4
  <2>3. (mEventQueue \o HeldBack) \o H = mEventQueue \o (HeldBack \o H)
    BY <2>2, Concat3, Zenon
  <2>4. (mEventQueue \o W) \o H = mEventQueue \o (W \o H)
    BY <2>2, Concat3, Zenon
  <2>5. CASE W = <<>>
    BY <2>0, <2>1, <2>3, <2>5 DEF Chan
  <2>6. CASE HeldBack = <<>>
    BY <2>0, <2>1, <2>4, <2>6 DEF Chan
  <2> QED
    BY <1>5, <2>5, <2>6
<1>10. CASE H = L
  <2>1. W \o H = SubSeq(e, 1, Len(e))
    BY <1>2, <1>10, SubSeqFull
  <2>2. Len(e) \in 0 .. Len(e)
    BY <1>8
  <2> QED
    BY <1>1, <1>3, <1>9, <2>1, <2>2, IsPost
<1>11. CASE H = <<>> /\ mSizePendingWriteEventsQueue + Len(L)
                            > kMaxSizePendingWriteEventsQueue
  <2>1. W \o H = W /\ SubSeq(e, 1, Len(W)) = W
    BY <1>2, <1>11, ConcatEmptySeq, PartsOfConcat
  <2>2. Len(W) \in 0 .. Len(e)
    BY <1>8
  <2>3. Len(Chan) + Len(e) + EventQueueSize > kMaxSizePendingWriteEventsQueue
    BY <1>4, <1>7, <1>8, <1>11
  <2>4. Chan' = Chan \o SubSeq(e, 1, Len(W))
    BY <1>9, <2>1
  <2> QED
    BY <1>1, <1>3, <2>2, <2>3, <2>4, IsPost
<1> QED
  BY <1>6, <1>10, <1>11

\* A failed write drops events behind those in the queue, and only when there is
\* no room for them.
LEMMA FailureRefines ==
  ASSUME TypeOK, WritesPending, PendingWriteFails
  PROVE  Channel!Next
<1> DEFINE F == FrontEvents
           A == AfterFront
           n == Len(mEventQueue)
           m == NumToWrite
<1>1. mPendingWriteEventsQueue # <<>>
  BY DEF PendingWriteFails, WritesPending
<1>2. F \in Seq(Events) /\ Len(F) = m
  BY <1>1, FrontIs
<1>3. A \in Seq(Events)
  BY <1>1, FrontFirst
<1>4. HeldBack = F \o A /\ HeldBack' = A /\ mEventQueue' = mEventQueue
  BY WriteTakesFront DEF PendingWriteFails, queues, pending
<1>5. /\ mEventQueue \in Seq(Events) /\ n \in Nat /\ n <= EventQueueSize
      /\ EventQueueSize \in Nat /\ n + m > EventQueueSize
  BY ChanType, HalProxyAssumption DEF PendingWriteFails, TypeOK
<1>6. UNCHANGED mThreadsRun
  BY DEF PendingWriteFails, binder
<1> HIDE DEF F, A, n, m
<1>7. m \in Nat /\ m >= 1
  BY <1>2, <1>5
<1>8. Chan = mEventQueue \o (F \o A) /\ Chan' = mEventQueue \o A
  BY <1>4 DEF Chan
<1>9. mEventQueue \o (F \o A) = (mEventQueue \o F) \o A
  BY <1>2, <1>3, <1>5, Concat3, Zenon
<1>10. /\ F \o A \in Seq(Events) /\ mEventQueue \o F \in Seq(Events)
       /\ Len(mEventQueue \o F) = n + m
  BY <1>2, <1>3, <1>5, ConcatProperties DEF n
<1>11. Len(Chan) = (n + m) + Len(A) /\ Len(A) \in Nat
  BY <1>3, <1>8, <1>9, <1>10, ConcatProperties
<1>12. SubSeq(Chan, 1, n) = mEventQueue
  BY <1>5, <1>8, <1>10, PartsOfConcat DEF n
<1>13. SubSeq(Chan, (n + m) + 1, Len(Chan)) = A
  BY <1>3, <1>8, <1>9, <1>10, PartsOfConcat
<1>14. /\ n + 1 \in 1 .. Len(Chan) /\ n + m \in n + 1 .. Len(Chan)
       /\ Len(Chan) > EventQueueSize /\ (n + 1) - 1 = n
  BY <1>5, <1>7, <1>11
<1>15. Chan' = SubSeq(Chan, 1, (n + 1) - 1) \o SubSeq(Chan, (n + m) + 1, Len(Chan))
  BY <1>8, <1>12, <1>13, <1>14
<1> DEFINE i == n + 1
           j == n + m
<1>16. /\ i \in 1 .. Len(Chan) /\ j \in i .. Len(Chan)
       /\ Chan' = SubSeq(Chan, 1, i - 1) \o SubSeq(Chan, j + 1, Len(Chan))
  BY <1>14, <1>15
<1> HIDE DEF i, j
<1> QED
  BY <1>6, <1>14, <1>16, IsDrop

\* Every step of the proxy is one of the channel, or leaves it as it is.
LEMMA StepRefines == IInv /\ [Next]_vars => [Channel!Next]_(Channel!cvars)
<1> DEFINE Goal == [Channel!Next]_(Channel!cvars)
<1> SUFFICES ASSUME IInv, [Next]_vars PROVE Goal
  OBVIOUS
<1>0. TypeOK /\ WritesPending /\ PostsBatch /\ SizeIsPending /\ StoppedWhile
  BY DEF IInv
<1>1. ASSUME Chan' = Chan, UNCHANGED mThreadsRun
      PROVE  Goal
  BY <1>1 DEF Channel!cvars, Chan
<1>2. ASSUME Channel!Next
      PROVE  Goal
  BY <1>2
<1>3. /\ mEventQueue \in Seq(Events) /\ HeldBack \in Seq(Events)
      /\ Len(mEventQueue) \in Nat /\ Len(HeldBack) \in Nat
      /\ Len(Chan) = Len(mEventQueue) + Len(HeldBack)
  BY <1>0, ChanType
<1>4. ASSUME UNCHANGED <<mThreadsRun, mEventQueue, pending>>,
             \/ pendingThread' = pendingThread
             \/ pendingThread # "pop" /\ pendingThread' # "pop"
      PROVE  Goal
  <2>1. Chan' = Chan
    BY <1>4 DEF pending, Chan, HeldBack, Pending, NumToWrite
  <2> QED
    BY <1>1, <1>4, <2>1
<1>5. ASSUME NEW n \in 0 .. Len(mEventQueue),
             mEventQueue' = SubSeq(mEventQueue, n + 1, Len(mEventQueue)),
             UNCHANGED <<mThreadsRun, pending, pendingThread>>
      PROVE  Goal
  <2>1. HeldBack' = HeldBack
    BY <1>5 DEF pending, HeldBack, Pending, NumToWrite
  <2>2. Chan' = SubSeq(Chan, n + 1, Len(Chan))
    BY <1>3, <1>5, <2>1, RestOfConcat DEF Chan
  <2>3. CASE n = 0
    <3>1. Chan' = Chan
      <4>1. SubSeq(mEventQueue, 1, Len(mEventQueue)) = mEventQueue
        BY <1>3, SubSeqFull
      <4>2. n + 1 = 1
        BY <2>3
      <4>3. mEventQueue' = mEventQueue
        BY <1>5, <4>1, <4>2
      <4> QED
        BY <2>1, <4>3 DEF Chan
    <3> QED
      BY <1>1, <1>5, <3>1
  <2>4. CASE n # 0
    <3>1. n \in 1 .. Len(Chan)
      BY <1>3, <1>5, <2>4
    <3> QED
      BY <1>2, <1>5, <2>2, <3>1, IsRead
  <2> QED
    BY <2>3, <2>4
<1> HIDE DEF Goal
<1>6. ASSUME NEW p \in Posters, PostEventsToMessageQueue(p)
      PROVE  Goal
  BY <1>0, <1>2, <1>6, PostRefines
<1>7. ASSUME PendingWriteFails
      PROVE  Goal
  BY <1>0, <1>2, <1>7, FailureRefines
<1>8. ASSUME PendingWrite
      PROVE  Goal
  <2>1. mPendingWriteEventsQueue # <<>>
    BY <1>0, <1>8 DEF PendingWrite, WritesPending
  <2>2. FrontEvents \in Seq(Events)
    BY <1>0, <2>1, FrontIs
  <2>3. AfterFront \in Seq(Events)
    BY <1>0, <2>1, FrontFirst
  <2>4. /\ HeldBack = FrontEvents \o AfterFront /\ HeldBack' = AfterFront
        /\ mEventQueue' = mEventQueue \o FrontEvents
    BY <1>0, <1>8, WriteTakesFront DEF PendingWrite, pending
  <2>5. (mEventQueue \o FrontEvents) \o AfterFront = mEventQueue \o (FrontEvents \o AfterFront)
    BY <1>3, <2>2, <2>3, Concat3, Zenon
  <2>6. Chan' = Chan
    BY <2>4, <2>5 DEF Chan
  <2> QED
    BY <1>1, <1>8, <2>6 DEF PendingWrite, binder
<1>9. ASSUME PendingPop
      PROVE  Goal
  <2>1. HeldBack' = HeldBack
    BY <1>0, <1>9, PopKeeps DEF PendingPop
  <2>2. Chan' = Chan
    BY <1>9, <2>1 DEF PendingPop, Chan
  <2> QED
    BY <1>1, <1>9, <2>2 DEF PendingPop, binder
<1>10. ASSUME NEW n \in 1 .. EventQueueSize, FrameworkRead(n)
       PROVE  Goal
  <2>1. n \in 0 .. Len(mEventQueue)
    BY <1>3, <1>10, HalProxyAssumption DEF FrameworkRead
  <2> QED
    BY <1>5, <1>10, <2>1 DEF FrameworkRead, threads, binder
<1>11. ASSUME WakeThreads
       PROVE  Goal
  <2>1. Len(mEventQueue) \in 0 .. Len(mEventQueue)
    BY <1>3
  <2>2. SubSeq(mEventQueue, Len(mEventQueue) + 1, Len(mEventQueue)) = <<>>
    BY <1>3, SubSeqEmpty
  <2> QED
    BY <1>5, <1>11, <2>1, <2>2 DEF WakeThreads
<1>12. ASSUME StopThreads
       PROVE  Goal
  <2>1. Chan' = Chan
    BY <1>12 DEF StopThreads, queues, pending, threads, Chan, HeldBack, Pending, NumToWrite
  <2>2. CASE mThreadsRun
    <3>1. Channel!Close
      BY <1>12, <2>1, <2>2 DEF StopThreads, Channel!Close, Chan
    <3> QED
      BY <1>2, <3>1 DEF Channel!Next
  <2>3. CASE ~mThreadsRun
    <3>1. UNCHANGED mThreadsRun
      BY <1>0, <1>12, <2>3 DEF StopThreads, TypeOK
    <3> QED
      BY <1>1, <2>1, <3>1
  <2> QED
    BY <2>2, <2>3
<1>13. ASSUME Restart
       PROVE  Goal
  <2>1. /\ mPendingWriteEventsQueue' = <<>> /\ mEventQueue' = <<>>
        /\ pendingThread' = "test" /\ mThreadsRun' = TRUE /\ ~mThreadsRun
    BY <1>0, <1>13 DEF Restart, StoppedWhile
  <2>2. HeldBack' = <<>>
    <3>1. <<>> \in Seq(Entry)
      BY EmptySeq
    <3> QED
      BY <2>1, <3>1, FlattenedType DEF HeldBack, Pending
  <2>3. (mEventQueue \o HeldBack)' = <<>>
    <3>1. <<>> \o <<>> = <<>>
      BY EmptySeq, ConcatEmptySeq
    <3> QED
      BY <2>1, <2>2, <3>1
  <2>4. Channel!Open
    BY <2>1, <2>3 DEF Channel!Open
  <2> QED
    BY <1>2, <2>4 DEF Channel!Next
<1>14. ASSUME PendingTest \/ PendingSleep \/ PendingWake
       PROVE  Goal
  BY <1>4, <1>14 DEF PendingTest, PendingSleep, PendingWake, binder, queues
<1>15. Goal
  BY <1>4, <1>6, <1>7, <1>8, <1>9, <1>10, <1>11, <1>12, <1>13, <1>14
  DEF Next, vars, binder, queues, threads, CreateScopedWakelock, PostEvents, Unlock,
      DisableSensor, WakelockTest, WakelockSleep, WakelockWake, WakelockRead,
      WakelockReadTimesOut, ThreadsJoined, InitializeSubHals, FrameworkAck, Tick
<1> QED
  BY <1>15

\* The event queue and the pending queue are one channel, first in first out, that
\* loses events only when it has run full or is closed.
THEOREM RefinesChannel == Spec => ImplementsChannel
<1>1. Init => Channel!Init
  <2> SUFFICES ASSUME Init PROVE Channel!Init
    OBVIOUS
  <2>1. HeldBack = <<>>
    BY FlattenedType, EmptySeq DEF Init, HeldBack, Pending
  <2>2. <<>> \o <<>> = <<>>
    BY EmptySeq, ConcatEmptySeq
  <2> QED
    BY <2>1, <2>2 DEF Init, Channel!Init
<1>2. IInv /\ [Next]_vars => [Channel!Next]_(Channel!cvars)
  BY StepRefines
<1> QED
  BY <1>1, <1>2, SpecIInv, PTL DEF Spec, ImplementsChannel, Channel!Spec
=============================================================================
