----------------------------- MODULE HalProxy -----------------------------
(***************************************************************************)
(* The multi-HAL proxy (src/hidl/sensors/HalProxy.cpp) between the         *)
(* sub-HALs, which post sensor events, and the framework, which reads them *)
(* from a message queue: how it counts the wake-up events that are under   *)
(* way and keeps a wakelock while there are any, how it holds back what    *)
(* does not fit the queue, and how initialize stops and restarts its two   *)
(* threads.                                                                *)
(*                                                                         *)
(* What holds mWakelockMutex or mEventQueueWriteMutex is one step, and so  *)
(* is the mThreadsRun test before it: nothing that may come in between     *)
(* depends on which of the two was first.  A thread that has found nothing *)
(* to do is a moment away from its sleep ("doze") and holds its mutex.     *)
(***************************************************************************)
EXTENDS EventSequences, SequencesExt

CONSTANTS
    Posters,            \* threads of the sub-HALs that post events
    Batches,            \* what they post: sequences of Events
    EventQueueSize,     \* capacity of the event message queue
    kMaxSizePendingWriteEventsQueue,
    kWakelockTimeout,
    MaxPosts,           \* bound: calls of postEvents
    MaxInits,           \* bound: calls of initialize
    MaxNow              \* bound: the clock

ASSUME HalProxyAssumption ==
    /\ IsFiniteSet(Posters)
    /\ Batches \subseteq Seq(Events)
    /\ EventQueueSize \in Nat \ {0}
    /\ kMaxSizePendingWriteEventsQueue \in Nat
    /\ kWakelockTimeout \in Nat
    /\ MaxPosts \in Nat
    /\ MaxInits \in Nat
    /\ MaxNow \in Nat

VARIABLES
    now,
    mThreadsRun,
    initializing,   \* initialize: "no", "stop", "join", "disable", "reset"
    inits,
    mWakelockRefCount, mWakelockTimeoutStartTime, mWakelockTimeoutResetTime,
    held,           \* the kernel's wakelock
    mEventQueue,    \* sequence of events
    mWakeLockQueue, \* sequence of numbers of handled wake-up events
    mPendingWriteEventsQueue, mSizePendingWriteEventsQueue,
    sensor,         \* each of their sensors: "on", "off", or "late"
    poster,         \* each sub-HAL thread, in postEvents or not
    posts,
    pendingThread,  \* "off", "test", "doze", "sleep", "write", "pop", "done"
    wakelockThread, \* "off", "test", "doze", "sleep", "read", "done"
    readUntil,      \* when the wakelock thread's read times out, or Never
    notified,       \* the threads whose condition variable was notified
    unacked,        \* wake-up events the framework has read, not confirmed
    writtenOff      \* history: the count gave up events still under way

Never == -1

lock == <<mWakelockRefCount, mWakelockTimeoutStartTime,
          mWakelockTimeoutResetTime, held>>
pending == <<mPendingWriteEventsQueue, mSizePendingWriteEventsQueue>>
queues == <<mEventQueue, mWakeLockQueue, pending>>
threads == <<pendingThread, wakelockThread, readUntil, notified>>
posting == <<sensor, poster, posts>>
framework == <<unacked, writtenOff>>
binder == <<mThreadsRun, initializing, inits>>
vars == <<now, binder, lock, queues, posting, threads, framework>>

-----------------------------------------------------------------------------
Idle == [pc |-> "idle", events |-> <<>>, locked |-> FALSE, start |-> 0]

Init ==
    /\ now = 0
    /\ mThreadsRun = FALSE
    /\ initializing = "no"
    /\ inits = 0
    /\ mWakelockRefCount = 0
    /\ mWakelockTimeoutStartTime = 0
    /\ mWakelockTimeoutResetTime = 0
    /\ held = FALSE
    /\ mEventQueue = <<>>
    /\ mWakeLockQueue = <<>>
    /\ mPendingWriteEventsQueue = <<>>
    /\ mSizePendingWriteEventsQueue = 0
    /\ sensor = [p \in Posters |-> "off"]
    /\ poster = [p \in Posters |-> Idle]
    /\ posts = 0
    /\ pendingThread = "off"
    /\ wakelockThread = "off"
    /\ readUntil = Never
    /\ notified = {}
    /\ unacked = 0
    /\ writtenOff = FALSE

-----------------------------------------------------------------------------
(* The reference count and the wakelock.                                   *)

\* The mutexes that only a dozing thread holds from one step to the next.
WakelockMutexFree == wakelockThread # "doze"
EventQueueWriteMutexFree == pendingThread # "doze"

\* notify_one reaches a thread that sleeps.
Notify(t, pc) == IF pc = "sleep" THEN {t} ELSE {}

\* incrementRefCountAndMaybeAcquireWakelock with the threads running.
incrementRefCountAndMaybeAcquireWakelock(delta) ==
    /\ mWakelockRefCount' = mWakelockRefCount + delta
    /\ mWakelockTimeoutStartTime' = now
    /\ held' = (held \/ mWakelockRefCount = 0)
    /\ UNCHANGED mWakelockTimeoutResetTime

\* The threads that it notifies.
Woken == IF mWakelockRefCount = 0 THEN Notify("wakelock", wakelockThread)
                                  ELSE {}

\* decrementRefCountAndMaybeReleaseWakelock; the first slip lets a lock taken
\* before the last reset count, the second releases while some are left.
decrementIgnoresReset(delta, timeoutStart) ==
    /\ mWakelockRefCount' =
           IF mThreadsRun
           THEN mWakelockRefCount - Min({mWakelockRefCount, delta})
           ELSE mWakelockRefCount
    /\ held' = (held /\ (mWakelockRefCount' > 0 \/ mWakelockRefCount = 0))
decrementReleasesEarly(delta, timeoutStart) ==
    LET acts == /\ mThreadsRun
                /\ mWakelockRefCount # 0
                /\ timeoutStart >= mWakelockTimeoutResetTime
    IN  /\ mWakelockRefCount' =
               IF acts THEN mWakelockRefCount - Min({mWakelockRefCount, delta})
                       ELSE mWakelockRefCount
        /\ held' = (held /\ ~acts)
decrementRefCountAndMaybeReleaseWakelock(delta, timeoutStart) ==
    LET acts == /\ mThreadsRun
                /\ mWakelockRefCount # 0
                /\ timeoutStart >= mWakelockTimeoutResetTime
    IN  /\ mWakelockRefCount' =
               IF acts THEN mWakelockRefCount - Min({mWakelockRefCount, delta})
                       ELSE mWakelockRefCount
        /\ held' = (held /\ ~(acts /\ mWakelockRefCount' = 0))

resetSharedWakelock ==
    /\ decrementRefCountAndMaybeReleaseWakelock(mWakelockRefCount,
                                                mWakelockTimeoutResetTime)
    /\ mWakelockTimeoutResetTime' = now
    /\ UNCHANGED mWakelockTimeoutStartTime

-----------------------------------------------------------------------------
(* A sub-HAL's thread in SensorsSubHal::postEvents.                        *)

\* createScopedWakelock: a sub-HAL asks for the lock with wake-up events.  A
\* one-shot sensor that is disabled once its poll has returned ("late") does not
\* look again whether it is enabled, and still posts.
CreateScopedWakelock(p, events) ==
    LET locks == mThreadsRun /\ \E e \in {"wake", "putDown"} : Contains(events, e)
    IN  /\ poster[p] = Idle
        /\ sensor[p] # "off"
        /\ posts < MaxPosts
        /\ WakelockMutexFree
        /\ posts' = posts + 1
        /\ sensor' = [sensor EXCEPT ![p] = IF @ = "late" THEN "off" ELSE @]
        /\ poster' = [poster EXCEPT ![p] = [pc |-> "post", events |-> events,
                          locked |-> locks, start |-> IF locks THEN now ELSE 0]]
        /\ IF locks
           THEN /\ incrementRefCountAndMaybeAcquireWakelock(1)
                /\ notified' = notified \cup Woken
           ELSE UNCHANGED <<lock, notified>>
        /\ UNCHANGED <<now, binder, queues, pendingThread, wakelockThread,
                       readUntil, framework>>

\* HalProxyCallbackBase::postEvents, with processEvents.
PostEvents(p) ==
    /\ poster[p].pc = "post"
    /\ IF poster[p].events # <<>> /\ mThreadsRun
       THEN poster' = [poster EXCEPT ![p].pc = "enqueue",
                ![p].events = Passed(@)]
       ELSE poster' = [poster EXCEPT ![p].pc = "unlock", ![p].events = <<>>]
    /\ UNCHANGED <<now, binder, lock, queues, sensor, posts, threads, framework>>

\* How much is written to the event queue at once: nothing may overtake what
\* is pending.  The slips do not ask for the room there is, or for what is
\* pending.
DirectlyWritableAll(events) ==
    IF mPendingWriteEventsQueue = <<>> THEN Len(events) ELSE 0
DirectlyWritableOvertaking(events) ==
    Min({Len(events), EventQueueSize - Len(mEventQueue)})
DirectlyWritable(events) ==
    IF mPendingWriteEventsQueue = <<>>
    THEN Min({Len(events), EventQueueSize - Len(mEventQueue)}) ELSE 0

\* Whether the rest may be held back.
MayBeHeldBack(n) ==
    mSizePendingWriteEventsQueue + n <= kMaxSizePendingWriteEventsQueue

\* All of it holds mEventQueueWriteMutex.  The count (under mWakelockMutex) and the
\* write are one step: what other threads do between them can be moved before or
\* after both, but for a timeout that passes just then, which is left out.
PostEventsToMessageQueue(p) ==
    LET events == poster[p].events
        wakes == NumWakeupEvents(events)
        n == DirectlyWritable(events)
        left == SubSeq(events, n + 1, Len(events))
        counts == poster[p].locked /\ mThreadsRun
        holdsBack == left # <<>> /\ MayBeHeldBack(Len(left))
    IN  /\ poster[p].pc = "enqueue"
        /\ WakelockMutexFree
        /\ EventQueueWriteMutexFree
        /\ IF counts THEN incrementRefCountAndMaybeAcquireWakelock(wakes)
                     ELSE UNCHANGED lock
        /\ mEventQueue' = mEventQueue \o SubSeq(events, 1, n)
        /\ IF holdsBack
           THEN /\ mPendingWriteEventsQueue' =
                       Append(mPendingWriteEventsQueue,
                              [events |-> left, numWakeup |-> wakes])
                /\ mSizePendingWriteEventsQueue' =
                       mSizePendingWriteEventsQueue + Len(left)
           ELSE UNCHANGED pending
        /\ notified' = notified
               \cup (IF counts THEN Woken ELSE {})
               \cup (IF holdsBack THEN Notify("pending", pendingThread) ELSE {})
        /\ poster' = [poster EXCEPT ![p].pc = "unlock", ![p].events = <<>>]
        /\ writtenOff' = (writtenOff \/ (wakes > 0 /\ ~poster[p].locked))
        /\ UNCHANGED <<now, binder, mWakeLockQueue, sensor, posts, pendingThread,
                       wakelockThread, readUntil, unacked>>

\* The ScopedWakelock ends.
Unlock(p) ==
    /\ poster[p].pc = "unlock"
    /\ WakelockMutexFree
    /\ IF poster[p].locked
       THEN /\ decrementRefCountAndMaybeReleaseWakelock(1, poster[p].start)
            /\ UNCHANGED <<mWakelockTimeoutStartTime, mWakelockTimeoutResetTime>>
       ELSE UNCHANGED lock
    /\ poster' = [poster EXCEPT ![p] = Idle]
    /\ UNCHANGED <<now, binder, queues, sensor, posts, threads, framework>>

-----------------------------------------------------------------------------
(* handlePendingWrites.                                                    *)

PendingTest ==
    /\ pendingThread = "test"
    /\ pendingThread' = CASE ~mThreadsRun -> "done"
                         [] mThreadsRun /\ mPendingWriteEventsQueue # <<>> -> "write"
                         [] OTHER -> "doze"
    /\ UNCHANGED <<now, binder, lock, queues, posting, wakelockThread, readUntil,
                   notified, framework>>

PendingSleep ==
    /\ pendingThread = "doze"
    /\ pendingThread' = "sleep"
    /\ UNCHANGED <<now, binder, lock, queues, posting, wakelockThread, readUntil,
                   notified, framework>>

PendingWake ==
    /\ pendingThread = "sleep"
    /\ "pending" \in notified
    /\ pendingThread' = "test"
    /\ notified' = notified \ {"pending"}
    /\ UNCHANGED <<now, binder, lock, queues, posting, wakelockThread, readUntil,
                   framework>>

\* The events at the front that one write takes.
NumToWrite == Min({Len(Head(mPendingWriteEventsQueue).events), EventQueueSize})
FrontEvents == SubSeq(Head(mPendingWriteEventsQueue).events, 1, NumToWrite)

\* writeBlocking, outside the mutex, succeeds once there is room.
PendingWrite ==
    /\ pendingThread = "write"
    /\ Len(mEventQueue) + NumToWrite <= EventQueueSize
    /\ mEventQueue' = mEventQueue \o FrontEvents
    /\ pendingThread' = "pop"
    /\ UNCHANGED <<now, binder, lock, mWakeLockQueue, pending, posting,
                   wakelockThread, readUntil, notified, framework>>

\* It times out and the events are dropped; an entry that fits the queue is
\* taken off the count with all the wake-up events it was posted with.
PendingWriteFails ==
    LET front == Head(mPendingWriteEventsQueue)
        delta == IF Len(front.events) > EventQueueSize
                 THEN NumWakeupEvents(FrontEvents) ELSE front.numWakeup
    IN  /\ pendingThread = "write"
        /\ Len(mEventQueue) + NumToWrite > EventQueueSize
        /\ IF front.numWakeup > 0
           THEN /\ WakelockMutexFree
                /\ decrementRefCountAndMaybeReleaseWakelock(
                       delta, mWakelockTimeoutResetTime)
                /\ UNCHANGED <<mWakelockTimeoutStartTime, mWakelockTimeoutResetTime>>
           ELSE UNCHANGED lock
        /\ writtenOff' = (writtenOff \/ delta > NumWakeupEvents(FrontEvents))
        /\ pendingThread' = "pop"
        /\ UNCHANGED <<now, binder, queues, posting, wakelockThread, readUntil,
                       notified, unacked>>

\* Under the mutex again they leave the pending queue; the slip forgets to
\* subtract them.
PoppedUncounted ==
    /\ UNCHANGED mSizePendingWriteEventsQueue
    /\ mPendingWriteEventsQueue' = Tail(mPendingWriteEventsQueue)
Popped ==
    LET front == Head(mPendingWriteEventsQueue)
    IN  /\ mSizePendingWriteEventsQueue' = mSizePendingWriteEventsQueue - NumToWrite
        /\ mPendingWriteEventsQueue' =
               IF Len(front.events) > EventQueueSize
               THEN <<[front EXCEPT !.events = SubSeq(@, NumToWrite + 1, Len(@))]>>
                        \o Tail(mPendingWriteEventsQueue)
               ELSE Tail(mPendingWriteEventsQueue)

PendingPop ==
    /\ pendingThread = "pop"
    /\ Popped
    /\ pendingThread' = "test"
    /\ UNCHANGED <<now, binder, lock, mEventQueue, mWakeLockQueue, posting,
                   wakelockThread, readUntil, notified, framework>>

-----------------------------------------------------------------------------
(* handleWakelocks.                                                        *)

\* All pending events, in order.
Pending == Flattened(mPendingWriteEventsQueue)

\* The events held back, without those written or dropped but not yet popped.
HeldBack ==
    LET all == Pending
    IN  IF pendingThread = "pop" THEN SubSeq(all, NumToWrite + 1, Len(all)) ELSE all

\* Wake-up events under way: unread, pending, or read and not yet deducted.
Underway ==
    NumWakeupEvents(mEventQueue) + NumWakeupEvents(HeldBack)
        + unacked
        + Total(mWakeLockQueue)

\* sharedWakelockDidTimeout.
SharedWakelockDidTimeout == now - mWakelockTimeoutStartTime > kWakelockTimeout

\* The head of the loop: return, reset after the timeout, read what the
\* framework has handled (a time left of zero is no time limit), or sleep.
WakelockTest ==
    /\ wakelockThread = "test"
    /\ \/ /\ ~mThreadsRun
          /\ resetSharedWakelock
          /\ wakelockThread' = "done"
          /\ UNCHANGED <<readUntil, writtenOff>>
       \/ /\ mThreadsRun /\ mWakelockRefCount > 0 /\ SharedWakelockDidTimeout
          /\ resetSharedWakelock
          /\ writtenOff' = (writtenOff \/ Underway > 0)
          /\ UNCHANGED <<wakelockThread, readUntil>>
       \/ /\ mThreadsRun /\ mWakelockRefCount > 0 /\ ~SharedWakelockDidTimeout
          /\ wakelockThread' = "read"
          /\ LET until == mWakelockTimeoutStartTime + kWakelockTimeout
             IN  readUntil' = IF until = now THEN Never ELSE until
          /\ UNCHANGED <<lock, writtenOff>>
       \/ /\ mThreadsRun /\ mWakelockRefCount = 0
          /\ wakelockThread' = "doze"
          /\ UNCHANGED <<lock, readUntil, writtenOff>>
    /\ UNCHANGED <<now, binder, queues, posting, pendingThread, notified, unacked>>

WakelockSleep ==
    /\ wakelockThread = "doze"
    /\ wakelockThread' = "sleep"
    /\ UNCHANGED <<now, binder, lock, queues, posting, pendingThread, readUntil,
                   notified, framework>>

WakelockWake ==
    /\ wakelockThread = "sleep"
    /\ "wakelock" \in notified
    /\ wakelockThread' = "test"
    /\ notified' = notified \ {"wakelock"}
    /\ UNCHANGED <<now, binder, lock, queues, posting, pendingThread, readUntil,
                   framework>>

WakelockRead ==
    /\ wakelockThread = "read"
    /\ mWakeLockQueue # <<>>
    /\ mWakeLockQueue' = Tail(mWakeLockQueue)
    /\ decrementRefCountAndMaybeReleaseWakelock(Head(mWakeLockQueue),
                                                mWakelockTimeoutResetTime)
    /\ wakelockThread' = "test"
    /\ readUntil' = Never
    /\ UNCHANGED <<now, binder, mWakelockTimeoutStartTime,
                   mWakelockTimeoutResetTime, mEventQueue, pending, posting,
                   pendingThread, notified, framework>>

WakelockReadTimesOut ==
    /\ wakelockThread = "read"
    /\ readUntil # Never /\ now >= readUntil
    /\ wakelockThread' = "test"
    /\ readUntil' = Never
    /\ UNCHANGED <<now, binder, lock, queues, posting, pendingThread, notified,
                   framework>>

-----------------------------------------------------------------------------
(* initializeCommon.                                                       *)

\* stopThreads ...
StopThreads ==
    /\ initializing = "no"
    /\ inits < MaxInits
    /\ inits' = inits + 1
    /\ mThreadsRun' = FALSE
    /\ initializing' = "stop"
    /\ UNCHANGED <<now, lock, queues, posting, threads, framework>>

\* ... empties the event queue and wakes whoever sleeps or waits for a queue;
\* a dozing thread misses it.
WakeThreads ==
    /\ initializing = "stop"
    /\ initializing' = "join"
    /\ mEventQueue' = <<>>
    /\ mWakeLockQueue' = Append(mWakeLockQueue, 0)
    /\ notified' = notified \cup Notify("pending", pendingThread)
                             \cup Notify("wakelock", wakelockThread)
    /\ UNCHANGED <<now, mThreadsRun, inits, lock, pending, posting, pendingThread,
                   wakelockThread, readUntil, framework>>

ThreadsJoined ==
    /\ initializing = "join"
    /\ pendingThread \in {"off", "done"}
    /\ wakelockThread \in {"off", "done"}
    /\ initializing' = "disable"
    /\ resetSharedWakelock
    /\ UNCHANGED <<now, mThreadsRun, inits, queues, posting, threads, framework>>

\* disableAllSensors, one sensor after the other: Sensor::activate takes the
\* mutex the sensor posts under, so it waits for a post to end, but not for one
\* that is about to begin.  The slip does not wait.
DisableSensorNow(p) ==
    /\ initializing = "disable"
    /\ sensor[p] = "on"
    /\ sensor' = [sensor EXCEPT ![p] = "off"]
    /\ UNCHANGED <<now, binder, lock, queues, poster, posts, threads, framework>>
DisableSensor(p) ==
    /\ initializing = "disable"
    /\ sensor[p] = "on"
    /\ poster[p] = Idle
    /\ \E s \in {"off", "late"} : sensor' = [sensor EXCEPT ![p] = s]
    /\ UNCHANGED <<now, binder, lock, queues, poster, posts, threads, framework>>

\* What was pending is cleared, the queues are new and empty, and the threads
\* start again ...
Restart ==
    /\ initializing = "disable"
    /\ \A p \in Posters : sensor[p] # "on"
    /\ mPendingWriteEventsQueue' = <<>>
    /\ mSizePendingWriteEventsQueue' = 0
    /\ mEventQueue' = <<>>
    /\ mWakeLockQueue' = <<>>
    /\ mThreadsRun' = TRUE
    /\ pendingThread' = "test"
    /\ wakelockThread' = "test"
    /\ readUntil' = Never
    /\ notified' = {}
    /\ initializing' = "reset"
    /\ unacked' = 0         \* a framework that initializes has read nothing
    /\ writtenOff' = FALSE
    /\ UNCHANGED <<now, inits, lock, posting>>

\* ... before the sub-HALs are initialized; then the framework activates the
\* sensors again.
InitializeSubHals ==
    /\ initializing = "reset"
    /\ initializing' = "no"
    /\ sensor' = [p \in Posters |-> "on"]
    /\ UNCHANGED <<now, mThreadsRun, inits, lock, queues, poster, posts, threads,
                   framework>>

-----------------------------------------------------------------------------
(* The framework reads events and confirms those of wake-up sensors.       *)

FrameworkRead(n) ==
    /\ n <= Len(mEventQueue)
    /\ mEventQueue' = SubSeq(mEventQueue, n + 1, Len(mEventQueue))
    /\ unacked' = unacked + NumWakeupEvents(SubSeq(mEventQueue, 1, n))
    /\ UNCHANGED <<now, binder, lock, mWakeLockQueue, pending, posting, threads,
                   writtenOff>>

FrameworkAck ==
    /\ unacked > 0
    /\ mWakeLockQueue' = Append(mWakeLockQueue, unacked)
    /\ unacked' = 0
    /\ UNCHANGED <<now, binder, lock, mEventQueue, pending, posting, threads,
                   writtenOff>>

Tick ==
    /\ now < MaxNow
    /\ now' = now + 1
    /\ UNCHANGED <<binder, lock, queues, posting, threads, framework>>

Next ==
    \/ \E p \in Posters :
          \/ \E events \in Batches : CreateScopedWakelock(p, events)
          \/ PostEvents(p) \/ PostEventsToMessageQueue(p) \/ Unlock(p)
          \/ DisableSensor(p)
    \/ PendingTest \/ PendingSleep \/ PendingWake
    \/ PendingWrite \/ PendingWriteFails \/ PendingPop
    \/ WakelockTest \/ WakelockSleep \/ WakelockWake
    \/ WakelockRead \/ WakelockReadTimesOut
    \/ StopThreads \/ WakeThreads \/ ThreadsJoined \/ Restart \/ InitializeSubHals
    \/ \E n \in 1 .. EventQueueSize : FrameworkRead(n)
    \/ FrameworkAck
    \/ Tick

Spec == Init /\ [][Next]_vars

-----------------------------------------------------------------------------
Posting == [pc : {"idle", "post", "enqueue", "unlock"}, events : Seq(Events),
            locked : BOOLEAN, start : Nat]

\* Every variable keeps its type: the count is never negative and the event
\* queue never holds more than its size.
TypeOK ==
    /\ now \in Nat
    /\ mThreadsRun \in BOOLEAN
    /\ initializing \in {"no", "stop", "join", "disable", "reset"}
    /\ inits \in Nat
    /\ mWakelockRefCount \in Nat
    /\ mWakelockTimeoutStartTime \in Nat
    /\ mWakelockTimeoutResetTime \in Nat
    /\ held \in BOOLEAN
    /\ mEventQueue \in Seq(Events) /\ Len(mEventQueue) <= EventQueueSize
    /\ mWakeLockQueue \in Seq(Nat)
    /\ mPendingWriteEventsQueue \in Seq(Entry)
    /\ mSizePendingWriteEventsQueue \in Int
    /\ sensor \in [Posters -> {"on", "off", "late"}]
    /\ poster \in [Posters -> Posting]
    /\ posts \in Nat
    /\ pendingThread \in {"off", "test", "doze", "sleep", "write", "pop", "done"}
    /\ wakelockThread \in {"off", "test", "doze", "sleep", "read", "done"}
    /\ readUntil \in Nat \cup {Never}
    /\ notified \subseteq {"pending", "wakelock"}
    /\ unacked \in Nat
    /\ writtenOff \in BOOLEAN

\* As long as the reference count says that a wake-up event or a sub-HAL needs
\* the device awake, the kernel's wakelock is held, through every interleaving
\* of posts, confirmations, timeouts, failed writes and a new initialize.
CountedMeansHeld == mWakelockRefCount > 0 => held

\* The wake-up events that are under way and the sub-HALs' own locks never
\* exceed the reference count, so that the device cannot suspend before the
\* framework has handled them.  Excepted are locks older than the last reset,
\* and events that were given up: by a timeout, by a failed write of an entry
\* whose batch had partly been written before, or posted without a lock by a
\* sensor that asked for it while initialize had the threads stopped (where the
\* assertion of HalProxyCallbackBase::postEvents that a lock is held fails).
WakeEventsCounted ==
    mThreadsRun /\ ~writtenOff =>
        Underway + Cardinality({p \in Posters :
                       /\ poster[p].locked
                       /\ poster[p].start >= mWakelockTimeoutResetTime})
            <= mWakelockRefCount

\* mSizePendingWriteEventsQueue is the number of pending events, within its
\* bound: otherwise events would be dropped with room left, or the size_t
\* would wrap.
SizeIsPending ==
    /\ mSizePendingWriteEventsQueue = Len(Pending)
    /\ mSizePendingWriteEventsQueue <= kMaxSizePendingWriteEventsQueue

\* What is pending is cleared without mEventQueueWriteMutex: no sub-HAL is about
\* to add to it, nor is the thread that takes from it still running.
ClearedSafely ==
    [][Restart => /\ \A p \in Posters : poster[p].pc # "enqueue"
                  /\ pendingThread \in {"off", "done"}]_vars

\* initializeCommon: "when we start threads again we do not get new events until
\* after initialize resets the subhals".
QuietUntilReset ==
    initializing = "reset" => mEventQueue = <<>> /\ mPendingWriteEventsQueue = <<>>

-----------------------------------------------------------------------------
\* What the proxy promises of the events: the queue and what is held back for it
\* are one channel.
Channel == INSTANCE EventChannel
               WITH chan <- mEventQueue \o HeldBack,
                    open <- mThreadsRun,
                    Capacity <- EventQueueSize,
                    MaxHeldBack <- kMaxSizePendingWriteEventsQueue
ImplementsChannel == Channel!Spec
=============================================================================
