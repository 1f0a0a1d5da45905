--------------------------- MODULE OneShotSensor ---------------------------
(***************************************************************************)
(* A one-shot sensor of the Pong sub-HAL (src/hidl/sensors/Sensor.cpp):    *)
(* UdfpsSensor, SingleTapSensor and DoubleTapSensor have the same code but *)
(* for the node they poll and, for the taps, a gesture to enable.  A run   *)
(* thread waits until the sensor is enabled, polls the touch controller's  *)
(* node together with a pipe that interrupts the poll, and posts one event.*)
(*                                                                         *)
(* What holds mRunMutex is one step; the poll runs outside it.  The base   *)
(* constructor starts the thread, which may then find the base class's run *)
(* in the vtable; batch and flush are overridden and change nothing.       *)
(***************************************************************************)
EXTENDS Naturals

CONSTANTS
    HasGesture,       \* a tap sensor: the controller reports when told to
    ReadsFail,        \* whether reading the node may fail
    MaxActivations,   \* bound: activations of the sensor
    MaxModeChanges,   \* bound: calls of setOperationMode
    MaxPosts          \* bound: events the base class's run posts

ASSUME OneShotAssumption ==
    /\ HasGesture \in BOOLEAN
    /\ ReadsFail \in BOOLEAN
    /\ MaxActivations \in Nat
    /\ MaxModeChanges \in Nat
    /\ MaxPosts \in Nat

VARIABLES
    mIsEnabled, mMode, mStopThread,
    body,           \* whose run the thread executes: "OneShot" or "Sensor"
    gesture,        \* the controller's gesture node
    pipe,           \* bytes in mWaitPipeFd
    edge, level,    \* the polled node: it has news, and its value
    pc,             \* the run thread: "top", "wait", "poll", "woken", "done"
    revents,        \* what its poll returned
    notified,       \* mWaitCV was notified while it waited
    interrupting,   \* setOperationMode has still to interrupt the poll
    destructor,     \* "none", or the next of its steps: "stop", "join"
    activations, modeChanges,
    posted          \* sensor events posted

node == <<gesture, edge, level>>
thread == <<pc, revents, notified>>
counters == <<activations, modeChanges, posted>>
calls == <<interrupting, destructor>>
vars == <<mIsEnabled, mMode, mStopThread, body, node, pipe, thread, calls,
          counters>>

-----------------------------------------------------------------------------
\* The constructors: without its pipe or its node the thread is to stop, and
\* otherwise nothing has ever written mStopThread.
Init ==
    /\ mIsEnabled = FALSE
    /\ mMode = "NORMAL"
    /\ mStopThread \in BOOLEAN
    /\ body \in {"OneShot", "Sensor"}    \* the vtable when the thread began
    /\ gesture = FALSE
    /\ pipe = 0
    /\ edge = FALSE
    /\ level = FALSE
    /\ pc \in {"top", "wait"}    \* the base constructor has started it
    /\ revents = [pipe |-> FALSE, node |-> FALSE]
    /\ notified = FALSE
    /\ interrupting = FALSE
    /\ destructor = "none"
    /\ activations = 0
    /\ modeChanges = 0
    /\ posted = 0

\* writeGestureEnable may fail, which is only logged.
WriteGestureEnable(enable) ==
    \/ HasGesture /\ gesture' = enable
    \/ UNCHANGED gesture

\* mWaitCV.notify_all, which matters to a waiting thread; the slip: not called.
NotifyNobody == UNCHANGED notified
NotifyAll == notified' = (pc = "wait")

\* interruptPoll writes a byte; the slip: it is not called.
PipeUntouched == pipe
PipeWritten == pipe + 1

Activate(enable) ==
    /\ destructor = "none"
    /\ mIsEnabled # enable
    /\ mIsEnabled' = enable
    /\ enable => activations < MaxActivations
    /\ activations' = IF enable THEN activations + 1 ELSE activations
    /\ WriteGestureEnable(enable)
    /\ pipe' = PipeWritten
    /\ NotifyAll
    /\ UNCHANGED <<mMode, mStopThread, body, edge, level, pc, revents, calls,
                   modeChanges, posted>>

\* Sensor::setOperationMode under the lock ...
SetOperationMode(mode) ==
    /\ ~interrupting
    /\ destructor = "none"
    /\ modeChanges < MaxModeChanges
    /\ modeChanges' = modeChanges + 1
    /\ mMode' = mode
    /\ IF mMode # mode THEN NotifyAll ELSE UNCHANGED notified
    /\ interrupting' = TRUE
    /\ UNCHANGED <<mIsEnabled, mStopThread, body, node, pipe, pc, revents,
                   destructor, activations, posted>>

\* ... and interruptPoll after it.
InterruptPoll ==
    /\ interrupting
    /\ interrupting' = FALSE
    /\ pipe' = PipeWritten
    /\ UNCHANGED <<mIsEnabled, mMode, mStopThread, body, node, thread,
                   destructor, counters>>

\* The derived destructor interrupts the poll ...
Destroy ==
    /\ destructor = "none"
    /\ ~interrupting
    /\ destructor' = "stop"
    /\ pipe' = PipeWritten
    /\ UNCHANGED <<mIsEnabled, mMode, mStopThread, body, node, thread,
                   interrupting, counters>>

\* ... and only then the base class's stops the thread, to join it; the slip
\* stops it without notifying it.
StopUnnoticed ==
    /\ destructor = "stop"
    /\ destructor' = "join"
    /\ mStopThread' = TRUE
    /\ mIsEnabled' = FALSE
    /\ NotifyNobody
    /\ UNCHANGED <<mMode, body, node, pipe, pc, revents, interrupting, counters>>
Stop ==
    /\ destructor = "stop"
    /\ destructor' = "join"
    /\ mStopThread' = TRUE
    /\ mIsEnabled' = FALSE
    /\ NotifyAll
    /\ UNCHANGED <<mMode, body, node, pipe, pc, revents, interrupting, counters>>

-----------------------------------------------------------------------------
(* The run thread.                                                         *)

\* Whether the thread is to poll; the slip ignores that it was disabled.
RunnableDisabled == mMode = "NORMAL"
Runnable == mIsEnabled /\ mMode = "NORMAL"

\* The byte read after the poll; the slip reads without looking at revents.
PipeReadBlindly == pipe - 1
PipeRead == IF revents.pipe THEN pipe - 1 ELSE pipe

\* The head of the loop: stop, wait or unlock and poll.
RunTop ==
    /\ pc = "top"
    /\ mStopThread \/ ~Runnable \/ body = "OneShot"
    /\ pc' = IF mStopThread THEN "done" ELSE IF Runnable THEN "poll" ELSE "wait"
    /\ notified' = FALSE
    /\ UNCHANGED <<mIsEnabled, mMode, mStopThread, body, node, pipe, revents,
                   calls, counters>>

\* The base class's run, whose period is always 0: it posts what its own
\* readEvents makes up, stays enabled and comes back at once.
BaseRun ==
    /\ pc = "top"
    /\ ~mStopThread /\ Runnable /\ body = "Sensor"
    /\ posted < MaxPosts
    /\ posted' = posted + 1
    /\ UNCHANGED <<mIsEnabled, mMode, mStopThread, body, node, pipe, thread,
                   calls, activations, modeChanges>>

\* mWaitCV.wait returns when it is notified, which may also happen spuriously,
\* and its predicate holds.
SpuriousWakeup ==
    /\ pc = "wait"
    /\ notified' = TRUE
    /\ UNCHANGED <<mIsEnabled, mMode, mStopThread, body, node, pipe, pc,
                   revents, calls, counters>>

RunWait ==
    /\ pc = "wait"
    /\ notified
    /\ pc' = IF Runnable \/ mStopThread THEN "top" ELSE "wait"
    /\ notified' = FALSE
    /\ UNCHANGED <<mIsEnabled, mMode, mStopThread, body, node, pipe, revents,
                   calls, counters>>

\* poll(mPolls, 2, -1), outside the lock.
RunPoll ==
    /\ pc = "poll"
    /\ pipe > 0 \/ edge
    /\ revents' = [pipe |-> pipe > 0, node |-> edge]
    /\ pc' = "woken"
    /\ UNCHANGED <<mIsEnabled, mMode, mStopThread, body, node, pipe, notified,
                   calls, counters>>

RunPollFails ==
    /\ pc = "poll"
    /\ mStopThread' = TRUE
    /\ pc' = "top"
    /\ UNCHANGED <<mIsEnabled, mMode, body, node, pipe, revents, notified,
                   calls, counters>>

\* What follows the poll, under the lock again: reading the node takes its
\* news; a touch is posted, and otherwise (no touch, or the node could not be
\* read) a byte is taken from the pipe.
RunWoken ==
    /\ pc = "woken"
    /\ \/ revents.node /\ edge' = FALSE
       \/ (revents.node => ReadsFail) /\ UNCHANGED edge
    /\ \/ /\ revents.node /\ level
          /\ mIsEnabled' = FALSE
          /\ WriteGestureEnable(FALSE)
          /\ posted' = posted + 1
          /\ UNCHANGED pipe
       \/ /\ revents.node /\ level => ReadsFail
          /\ pipe' = PipeRead
          /\ UNCHANGED <<mIsEnabled, gesture, posted>>
    /\ pc' = "top"
    /\ UNCHANGED <<mMode, mStopThread, body, level, revents, notified, calls,
                   activations, modeChanges>>

\* The touch controller: a touch begins or ends, and the node is notified.
Touch ==
    /\ HasGesture => gesture
    /\ level' = ~level
    /\ edge' = TRUE
    /\ UNCHANGED <<mIsEnabled, mMode, mStopThread, body, gesture, pipe, thread,
                   calls, counters>>

-----------------------------------------------------------------------------
Next ==
    \/ \E enable \in BOOLEAN : Activate(enable)
    \/ \E mode \in {"NORMAL", "DATA_INJECTION"} : SetOperationMode(mode)
    \/ InterruptPoll
    \/ Destroy \/ Stop
    \/ RunTop \/ BaseRun \/ SpuriousWakeup \/ RunWait \/ RunPoll \/ RunPollFails \/ RunWoken
    \/ Touch

\* The run thread is scheduled, and a call that has begun ends.
Fairness ==
    /\ WF_vars(RunTop)
    /\ WF_vars(RunWait)
    /\ WF_vars(RunPoll)
    /\ WF_vars(RunWoken)
    /\ WF_vars(InterruptPoll)
    /\ WF_vars(Stop)

Spec == Init /\ [][Next]_vars

FairSpec == Spec /\ Fairness

-----------------------------------------------------------------------------
\* Every variable keeps its type; no byte is read from an empty pipe.
TypeOK ==
    /\ mIsEnabled \in BOOLEAN
    /\ mMode \in {"NORMAL", "DATA_INJECTION"}
    /\ mStopThread \in BOOLEAN
    /\ body \in {"OneShot", "Sensor"}
    /\ gesture \in BOOLEAN
    /\ pipe \in Nat
    /\ edge \in BOOLEAN
    /\ level \in BOOLEAN
    /\ pc \in {"top", "wait", "poll", "woken", "done"}
    /\ revents \in [pipe : BOOLEAN, node : BOOLEAN]
    /\ notified \in BOOLEAN
    /\ interrupting \in BOOLEAN
    /\ destructor \in {"none", "stop", "join"}
    /\ activations \in Nat
    /\ modeChanges \in Nat
    /\ posted \in Nat

\* The sensor is one-shot: its run never posts more events than it was
\* activated, even when a poll that has returned meets a deactivation or a
\* second activation before the thread gets the lock back.  (The base class's
\* run keeps no such promise.)
OneEventPerActivation == body = "OneShot" => posted <= activations

\* A poll that has lost its reason is interrupted: whenever the thread polls
\* for a sensor that has been disabled or put into data injection, a byte is
\* in the pipe or about to be written, whoever read the earlier ones.  Only a
\* destructor whose byte was read before it stopped the thread leaves none.
PollInterruptible ==
    pc = "poll" /\ ~Runnable => pipe > 0 \/ interrupting \/ destructor = "join"

\* The thread of an enabled sensor never sleeps through it: it waits only with
\* a notification on its way.
NeverSleepsEnabled == pc = "wait" /\ Runnable => notified

\* As long as the node can be read, a touch that an enabled sensor has not seen
\* yet is eventually posted, unless it ends, the sensor is disabled or the
\* thread has stopped first.
TouchReported ==
    (body = "OneShot" /\ Runnable /\ edge /\ level)
        ~> (~Runnable \/ ~level \/ mStopThread)

\* The destructor of a sensor that is not to poll gets its thread to end, so
\* that the join after it returns, wherever the thread was.
DestructionEnds == (destructor = "stop" /\ ~Runnable) ~> (pc = "done")
=============================================================================
