------------------------- MODULE FingerprintSession -------------------------
(***************************************************************************)
(* The fingerprint HAL (src/fingerprint): the sessions of one sensor, the  *)
(* worker thread their requests are queued on, the vendor's notify thread, *)
(* the lockout tracker and its timer threads.                              *)
(*                                                                         *)
(* Every handler is the sequence of the calls it makes, in source order    *)
(* (code[t] is what thread t still has to execute) and every call is one   *)
(* step, so any two threads interleave between any two calls.  Nothing but *)
(* the UI gate is under a lock in the source, so the tracker's methods are *)
(* split further, between what they load and what they store.              *)
(***************************************************************************)
EXTENDS Integers, Sequences, FiniteSets

CONSTANTS
    MaxSessions,                  \* bound: sessions the framework creates
    MaxCalls,                     \* bound: framework calls
    MaxMessages,                  \* bound: vendor messages
    MaxNow,                       \* bound: the clock
    Timers,                       \* bound: names of lockout timer threads
    ClientOps,                    \* the calls the framework makes
    VendorMessages,               \* the messages the vendor library sends
    WORKER_QUEUE_SIZE,
    LOCKOUT_TIMED_THRESHOLD,
    LOCKOUT_PERMANENT_THRESHOLD,
    LOCKOUT_TIMED_DURATION        \* in ticks of the clock

Tasks == {"generateChallenge", "revokeChallenge", "enroll", "authenticate",
          "detectInteraction", "enumerateEnrollments", "removeEnrollments",
          "getAuthenticatorId", "invalidateAuthenticatorId", "resetLockout",
          "onPointerDown", "onPointerUp", "cancel", "close"}
Ops == Tasks \cup {"onUiReady"}
Messages == {"error", "acquired", "enrolling", "succeeded", "failed"}

ASSUME BoundsAssumption ==
    /\ MaxSessions \in Nat \ {0}
    /\ MaxCalls \in Nat
    /\ MaxMessages \in Nat
    /\ MaxNow \in Nat
    /\ ClientOps \subseteq Ops
    /\ VendorMessages \subseteq Messages

ASSUME LimitsAssumption ==
    /\ WORKER_QUEUE_SIZE \in Nat \ {0}
    /\ LOCKOUT_TIMED_THRESHOLD \in Nat \ {0}
    /\ LOCKOUT_PERMANENT_THRESHOLD \in Nat
    /\ LOCKOUT_TIMED_THRESHOLD < LOCKOUT_PERMANENT_THRESHOLD
    /\ LOCKOUT_TIMED_DURATION \in Nat \ {0}

ASSUME TimersAssumption == Timers \cap {"binder", "worker", "notify"} = {}

ASSUME TimersFinite == IsFiniteSet(Timers)

Sessions == 1..MaxSessions
Threads == {"binder", "worker", "notify"} \cup Timers
Modes == {"NONE", "TIMED", "PERMANENT"}

VARIABLES
    cur,        \* Fingerprint::mSession: the session last created, 0 for nullptr
    session,    \* per session: its fields, its tracker's, and told, the last
                \* lockout callback it gave the framework
    queue,      \* the worker's tasks: [task, s]
    code,       \* per thread: the calls it still has to make
    self,       \* per thread: the session it makes them for
    reg,        \* per thread: a value it has read and uses later
    hbm,        \* FOD_HBM_PATH holds "1"
    goodix,     \* 0 after goodixExtCmd(0), else the session that armed it
    dev,        \* what the vendor library is doing
    now,        \* the clock
    calls,      \* framework calls so far
    messages,   \* vendor messages so far
    dropped     \* sessions whose close task found the queue full

threads == <<code, self, reg>>
inputs == <<now, calls, messages>>
vars == <<cur, session, queue, threads, hbm, goodix, dev, inputs, dropped>>

-----------------------------------------------------------------------------
(* What each handler calls, in source order.                               *)

\* Slips in these handlers that the properties are to catch.
resetLockoutSilent == <<"zeroCount", "clearMode", "abortTimer">>
onPointerDownChecksFirst == <<"waitUiReady", "getMode", "goodixOn">>
closeLeavesHbm == <<"goodixOff", "uiNotReady">>

generateChallenge == <<"onChallengeGenerated">>
revokeChallenge == <<"hbmOff", "goodixOff", "onChallengeRevoked">>
enroll == <<"devEnroll", "hbmOn">>
authenticate == <<"devAuthenticate", "hbmOn">>
detectInteraction == <<"onError">>
enumerateEnrollments == <<"devEnumerate">>
removeEnrollments == <<"devRemove">>
getAuthenticatorId == <<"onAuthenticatorIdRetrieved", "goodixOff">>
invalidateAuthenticatorId == <<"onAuthenticatorIdInvalidated">>
resetLockout == <<"zeroCount", "clearMode", "onLockoutCleared", "abortTimer">>
onPointerDown == <<"waitUiReady", "goodixOn", "getMode">>
onPointerUp == <<"goodixOff", "uiNotReady">>
cancel == <<"hbmOff", "goodixOff", "uiNotReady", "devCancel">>
close == <<"hbmOff", "goodixOff", "uiNotReady">>

TaskCode ==
    [generateChallenge |-> generateChallenge, revokeChallenge |-> revokeChallenge,
     enroll |-> enroll, authenticate |-> authenticate,
     detectInteraction |-> detectInteraction,
     enumerateEnrollments |-> enumerateEnrollments,
     removeEnrollments |-> removeEnrollments,
     getAuthenticatorId |-> getAuthenticatorId,
     invalidateAuthenticatorId |-> invalidateAuthenticatorId,
     resetLockout |-> resetLockout, onPointerDown |-> onPointerDown,
     onPointerUp |-> onPointerUp, cancel |-> cancel, close |-> close]

\* What a call does on the binder thread; a task's name is the call that
\* schedules it.
BinderCode(op) ==
    CASE op = "onUiReady" -> <<"hbmOn", "uiReady">>
      [] op = "authenticate" -> <<"uiNotReady", "authenticate">>
      [] op = "close" -> <<"close", "markClosed", "onSessionClosed">>
      [] OTHER -> <<op>>

\* What Session::notify does with a message of the vendor library.
NotifyCode ==
    [error |-> <<"onError", "uiNotReady">>,
     acquired |-> <<"onAcquired">>,
     enrolling |-> <<"onEnrollmentProgress">>,
     succeeded |-> <<"onAuthenticationSucceeded", "zeroCount", "clearMode",
                     "hbmOff", "goodixOff", "uiNotReady">>,
     failed |-> <<"onAuthenticationFailed", "loadCount", "storeCount",
                  "stampStart", "getMode", "uiNotReady">>]

\* A slip: a permanent lockout that lets the timer go on.
checkSensorLockoutKeepsTimer ==
    [NONE |-> << >>,
     TIMED |-> <<"hbmOff", "goodixOff", "getTimeLeft", "onLockoutTimed",
                 "testStarted">>,
     PERMANENT |-> <<"hbmOff", "goodixOff", "onLockoutPermanent">>]

\* The rest of checkSensorLockout once getMode has returned.
checkSensorLockout ==
    [NONE |-> << >>,
     TIMED |-> <<"hbmOff", "goodixOff", "getTimeLeft", "onLockoutTimed",
                 "testStarted">>,
     PERMANENT |-> <<"hbmOff", "goodixOff", "onLockoutPermanent", "abortTimer">>]

\* A slip: the timer is not marked as started.
startLockoutTimerUnmarked == <<"unabortTimer", "spawnTimer">>

startLockoutTimer == <<"unabortTimer", "spawnTimer", "timerStarted">>

\* lockoutTimerExpired after its test of mIsLockoutTimerAborted.
lockoutTimerExpired(aborted) ==
    (IF aborted THEN << >> ELSE <<"clearMode", "onLockoutCleared">>)
        \o <<"timerStopped", "unabortTimer">>

\* Callbacks and vendor calls that change nothing modelled here.
Callbacks == {"onChallengeGenerated", "onChallengeRevoked", "onError",
    "onAuthenticatorIdRetrieved", "onAuthenticatorIdInvalidated", "onAcquired",
    "onEnrollmentProgress", "onAuthenticationFailed", "onSessionClosed"}
DeviceQueries == {"devEnumerate", "devRemove"}

LockoutCallbacks == {"onLockoutTimed", "onLockoutPermanent",
    "onLockoutCleared", "onAuthenticationSucceeded"}

-----------------------------------------------------------------------------
Idle(t) == code[t] = << >>
At(t, call) == code[t] # << >> /\ Head(code[t]) = call
Continue(t, rest) == code' = [code EXCEPT ![t] = rest]
Advance(t) == Continue(t, Tail(code[t]))
Has(t, call) == \E i \in 1..Len(code[t]) : code[t][i] = call
IsOpen == cur > 0 /\ ~session[cur].mClosed

NewSession ==
    [mClosed |-> FALSE, mUiReady |-> FALSE,
     mFailedCount |-> 0, mLockoutTimedStart |-> 0, mCurrentMode |-> "NONE",
     mIsLockoutTimerStarted |-> FALSE, mIsLockoutTimerAborted |-> FALSE,
     told |-> "NONE"]

Init ==
    /\ cur = 0
    /\ session = [s \in Sessions |-> NewSession]
    /\ queue = << >>
    /\ code = [t \in Threads |-> << >>]
    /\ self = [t \in Threads |-> 0]
    /\ reg = [t \in Threads |-> 0]
    /\ hbm = FALSE
    /\ goodix = 0
    /\ dev = "idle"
    \* The system has been up longer than a timed lockout lasts.
    /\ now = LOCKOUT_TIMED_DURATION + 1
    /\ calls = 0
    /\ messages = 0
    /\ dropped = {}

-----------------------------------------------------------------------------
(* The binder thread: one call at a time, run to its end.                  *)

\* The framework has closed its last session (the CHECK).  The new one gets
\* a copy of Fingerprint::mLockoutTracker, which nothing ever updates.
CreateSession ==
    /\ Idle("binder")
    /\ cur < MaxSessions
    /\ ~IsOpen
    /\ cur' = cur + 1
    /\ UNCHANGED <<session, queue, threads, hbm, goodix, dev, inputs, dropped>>

\* A call of the framework on its session, or the cancel of a signal an
\* earlier session handed out.  onClientDeath closes the session as close does.
FrameworkCall(op, s) ==
    /\ Idle("binder")
    /\ calls < MaxCalls
    /\ op \in ClientOps
    /\ s <= cur
    /\ op # "cancel" => s = cur /\ ~session[s].mClosed
    /\ calls' = calls + 1
    /\ Continue("binder", BinderCode(op))
    /\ self' = [self EXCEPT !["binder"] = s]
    /\ UNCHANGED <<cur, session, queue, reg, hbm, goodix, dev, now, messages,
                   dropped>>

\* The test of the queue's size, and a slip that leaves it out.
NeverFull == FALSE
Full == Len(queue) >= WORKER_QUEUE_SIZE

\* WorkerThread::schedule (AOSP): the task is discarded when the queue is
\* full, and no caller looks at the result.
Schedule(t) ==
    /\ \E task \in Tasks :
        /\ At(t, task)
        /\ \/ /\ ~Full
              /\ queue' = Append(queue, [task |-> task, s |-> self[t]])
              /\ UNCHANGED dropped
           \/ /\ Full
              /\ dropped' = dropped \cup (IF task = "close" THEN {self[t]} ELSE {})
              /\ UNCHANGED queue
    /\ Advance(t)
    /\ UNCHANGED <<cur, session, self, reg, hbm, goodix, dev, inputs>>

-----------------------------------------------------------------------------
(* The worker thread.                                                      *)

\* The worker (AOSP's WorkerThread) takes the oldest task.
TakeTask ==
    /\ Idle("worker")
    /\ queue # << >>
    /\ Continue("worker", TaskCode[Head(queue).task])
    /\ self' = [self EXCEPT !["worker"] = Head(queue).s]
    /\ queue' = Tail(queue)
    /\ UNCHANGED <<cur, session, reg, hbm, goodix, dev, inputs, dropped>>

\* wait_for(400 ms) returns once the gate is open, and at the timeout anyway;
\* the slip is a wait with no timeout.
WaitOverWhenReady(s) == session[s].mUiReady
WaitOver(s) == TRUE

WaitUiReady(t) ==
    /\ At(t, "waitUiReady")
    /\ WaitOver(self[t])
    /\ Advance(t)
    /\ UNCHANGED <<cur, session, queue, self, reg, hbm, goodix, dev, inputs,
                   dropped>>

-----------------------------------------------------------------------------
(* Calls any handler makes.                                                *)

\* setFodHbm and goodixExtCmd
Light(t) ==
    /\ \/ At(t, "hbmOn") /\ hbm' = TRUE /\ UNCHANGED goodix
       \/ At(t, "hbmOff") /\ hbm' = FALSE /\ UNCHANGED goodix
       \/ At(t, "goodixOn") /\ goodix' = self[t] /\ UNCHANGED hbm
       \/ At(t, "goodixOff") /\ goodix' = 0 /\ UNCHANGED hbm
    /\ Advance(t)
    /\ UNCHANGED <<cur, session, queue, self, reg, dev, inputs, dropped>>

\* mDevice->enroll, authenticate: an error is reported and ends the task;
\* mDevice->cancel: success is reported, besides the library's own message.
DeviceCall(t) ==
    /\ \/ \E op \in {"devEnroll", "devAuthenticate"} :
            /\ At(t, op)
            /\ \/ dev' = op /\ Advance(t)
               \/ Continue(t, <<"onError">>) /\ UNCHANGED dev
       \/ /\ At(t, "devCancel")
          /\ \/ /\ dev' = IF dev = "idle" THEN "idle" ELSE "canceled"
                /\ Continue(t, <<"onError">>)
             \/ Advance(t) /\ UNCHANGED dev
    /\ UNCHANGED <<cur, session, queue, self, reg, hbm, goodix, inputs, dropped>>

\* A callback, or a vendor call whose result is only logged.
PlainCall(t) ==
    /\ \E call \in Callbacks \cup DeviceQueries : At(t, call)
    /\ Advance(t)
    /\ UNCHANGED <<cur, session, queue, self, reg, hbm, goodix, dev, inputs,
                   dropped>>

\* What a call stores in the fields r of its session, v being the value its
\* thread has read.  The unlocked stores of addFailedAttempt are two: the
\* counter with the mode it calls for, then the start time.
Stored(call, r, v) ==
    CASE call = "uiReady" -> [r EXCEPT !.mUiReady = TRUE]
      [] call = "uiNotReady" -> [r EXCEPT !.mUiReady = FALSE]
      [] call = "markClosed" -> [r EXCEPT !.mClosed = TRUE]
      [] call = "abortTimer" -> [r EXCEPT !.mIsLockoutTimerAborted = TRUE]
      [] call = "unabortTimer" -> [r EXCEPT !.mIsLockoutTimerAborted = FALSE]
      [] call = "timerStarted" -> [r EXCEPT !.mIsLockoutTimerStarted = TRUE]
      [] call = "timerStopped" -> [r EXCEPT !.mIsLockoutTimerStarted = FALSE]
      [] call = "onLockoutTimed" -> [r EXCEPT !.told = "TIMED"]
      [] call = "onLockoutPermanent" -> [r EXCEPT !.told = "PERMANENT"]
      [] call = "onLockoutCleared" -> [r EXCEPT !.told = "NONE"]
      [] call = "onAuthenticationSucceeded" -> [r EXCEPT !.told = "NONE"]

Stores == LockoutCallbacks \cup {"uiReady", "uiNotReady", "markClosed",
    "abortTimer", "unabortTimer", "timerStarted", "timerStopped"}

\* LockoutTracker's stores: reset clears the counter (or not) and then the
\* mode; getMode clears the mode of an elapsed lockout; addFailedAttempt
\* stores the counter it has incremented with the mode that calls for, and the
\* start time once it has read the clock.  Two pairs of adjacent stores are one
\* step each: start and mode of a clearing, counter and mode of a failure.
TrackerStored(call, r, v) ==
    CASE call = "zeroCount" -> [r EXCEPT !.mFailedCount = 0]
      [] call = "clearMode" -> [r EXCEPT !.mLockoutTimedStart = 0,
                                         !.mCurrentMode = "NONE"]
      [] call = "storeCount" -> [r EXCEPT !.mFailedCount = v,
            !.mCurrentMode = IF v >= LOCKOUT_PERMANENT_THRESHOLD THEN "PERMANENT"
                             ELSE IF v >= LOCKOUT_TIMED_THRESHOLD THEN "TIMED"
                             ELSE @]
      [] call = "stampStart" -> [r EXCEPT !.mLockoutTimedStart =
            IF v \in LOCKOUT_TIMED_THRESHOLD..(LOCKOUT_PERMANENT_THRESHOLD - 1)
            THEN now ELSE @]

TrackerStores == {"zeroCount", "clearMode", "storeCount", "stampStart"}

Store(t) ==
    /\ \/ \E call \in Stores :
            /\ At(t, call)
            /\ session' = [session EXCEPT ![self[t]] = Stored(call, @, reg[t])]
       \/ \E call \in TrackerStores :
            /\ At(t, call)
            /\ session' = [session EXCEPT ![self[t]] = TrackerStored(call, @, reg[t])]
    /\ Advance(t)
    /\ UNCHANGED <<cur, queue, self, reg, hbm, goodix, dev, inputs, dropped>>

\* The counter addFailedAttempt is about to store.
LoadedCount(r) == r.mFailedCount + 1

getLockoutTimeLeft(r) ==
    IF r.mLockoutTimedStart > 0
    THEN LOCKOUT_TIMED_DURATION - (now - r.mLockoutTimedStart) ELSE 0

Load(t) ==
    /\ \/ /\ At(t, "loadCount")
          /\ reg' = [reg EXCEPT ![t] = LoadedCount(session[self[t]])]
       \/ /\ At(t, "getTimeLeft")
          /\ reg' = [reg EXCEPT ![t] = getLockoutTimeLeft(session[self[t]])]
    /\ Advance(t)
    /\ UNCHANGED <<cur, session, queue, self, hbm, goodix, dev, inputs, dropped>>

\* Util::hasElapsed (AOSP)
hasElapsed(start) == now - start > LOCKOUT_TIMED_DURATION

\* getMode and what checkSensorLockout goes on to: a timed lockout that has
\* elapsed is ended without a word to the framework.  (The mode it returns is the
\* one it has tested; the source loads it a second time.)
getMode(r) ==
    IF r.mCurrentMode = "TIMED" /\ hasElapsed(r.mLockoutTimedStart)
    THEN <<"clearMode">> ELSE checkSensorLockout[r.mCurrentMode]

\* The tests of a session's fields: what they make the thread do next.
Test(t) ==
    LET r == session[self[t]] IN
    /\ \/ At(t, "getMode") /\ Continue(t, getMode(r) \o Tail(code[t]))
       \/ At(t, "testStarted") /\ r.mIsLockoutTimerStarted /\ Advance(t)
       \/ /\ At(t, "testStarted")
          /\ ~r.mIsLockoutTimerStarted
          /\ Continue(t, startLockoutTimer \o Tail(code[t]))
       \/ /\ At(t, "testAborted")
          /\ Continue(t, lockoutTimerExpired(r.mIsLockoutTimerAborted))
    /\ UNCHANGED <<cur, session, queue, self, reg, hbm, goodix, dev, inputs,
                   dropped>>

-----------------------------------------------------------------------------
(* The lockout timer threads.                                              *)

\* std::thread(...).detach(), to wake up after the timeout in reg[t].
SpawnTimer(t) ==
    /\ At(t, "spawnTimer")
    /\ \E x \in Timers :
        /\ Idle(x)
        /\ code' = [code EXCEPT ![t] = Tail(@), ![x] = <<"sleep", "testAborted">>]
        /\ self' = [self EXCEPT ![x] = self[t]]
        /\ reg' = [reg EXCEPT ![x] = now + reg[t]]
    /\ UNCHANGED <<cur, session, queue, hbm, goodix, dev, inputs, dropped>>

\* sleep_for, which returns at once from a timeout that is not positive.
Sleep(t) ==
    /\ At(t, "sleep")
    /\ now >= reg[t]
    /\ Advance(t)
    /\ UNCHANGED <<cur, session, queue, self, reg, hbm, goodix, dev, inputs,
                   dropped>>

Tick ==
    /\ now < MaxNow
    /\ now' = now + 1
    /\ UNCHANGED <<cur, session, queue, threads, hbm, goodix, dev, calls,
                   messages, dropped>>

-----------------------------------------------------------------------------
(* The vendor library's notify thread.                                     *)

\* The operation during which the library sends a message.
Sent(m) ==
    CASE m = "acquired" -> dev \in {"devEnroll", "devAuthenticate"}
      [] m = "enrolling" -> dev = "devEnroll"
      [] m = "error" -> dev # "idle"
      [] OTHER -> dev = "devAuthenticate"

\* Fingerprint::notify: a message that finds no open session is discarded.
Notify(m) ==
    /\ Idle("notify")
    /\ messages < MaxMessages
    /\ m \in VendorMessages
    /\ Sent(m)
    /\ messages' = messages + 1
    /\ dev' = IF m \in {"error", "succeeded"} THEN "idle" ELSE dev
    /\ \/ /\ IsOpen
          /\ Continue("notify", <<m>>)
          /\ self' = [self EXCEPT !["notify"] = cur]
       \/ ~IsOpen /\ UNCHANGED <<code, self>>
    /\ UNCHANGED <<cur, session, queue, reg, hbm, goodix, now, calls, dropped>>

\* Otherwise it goes to whatever mSession is by then.
Deliver(m) ==
    /\ At("notify", m)
    /\ Continue("notify", NotifyCode[m])
    /\ self' = [self EXCEPT !["notify"] = cur]
    /\ UNCHANGED <<cur, session, queue, reg, hbm, goodix, dev, inputs, dropped>>

-----------------------------------------------------------------------------
Step(t) ==
    \/ Schedule(t) \/ WaitUiReady(t) \/ Light(t) \/ DeviceCall(t)
    \/ PlainCall(t) \/ Store(t) \/ Load(t) \/ Test(t) \/ SpawnTimer(t)
    \/ Sleep(t)

Next ==
    \/ CreateSession
    \/ \E op \in Ops, s \in Sessions : FrameworkCall(op, s)
    \/ TakeTask
    \/ \E m \in Messages : Notify(m) \/ Deliver(m)
    \/ \E t \in Threads : Step(t)
    \/ Tick

\* Every thread with something to execute is eventually scheduled, a wait
\* reaches its timeout and time passes.  Framework and vendor owe nothing.
Fairness ==
    /\ WF_vars(TakeTask)
    /\ WF_vars(\E m \in Messages : Deliver(m))
    /\ \A t \in Threads : WF_vars(Step(t))
    /\ WF_vars(Tick)

Spec == Init /\ [][Next]_vars

FairSpec == Spec /\ Fairness

\* A thread between the first and the last step of a handler.  A sleeping
\* timer and a task that waits for the UI hold nobody up.
Busy(t) == ~Idle(t) /\ ~At(t, "sleep") /\ ~At(t, "waitUiReady")
AtRest == \A t \in Threads : ~Busy(t)

\* The executions in which no two handlers overlap.
SerialNext == Next /\ Cardinality({t \in Threads : Busy(t)})' <= 1

SerialSpec == Init /\ [][SerialNext]_vars

-----------------------------------------------------------------------------
Calls == Tasks \cup Messages \cup Callbacks \cup DeviceQueries \cup Stores
    \cup TrackerStores
    \cup {"waitUiReady", "hbmOn", "hbmOff", "goodixOn", "goodixOff",
          "devEnroll", "devAuthenticate", "devCancel", "loadCount",
          "getTimeLeft", "getMode", "testStarted", "testAborted",
          "spawnTimer", "sleep"}

SessionFields ==
    [mClosed : BOOLEAN, mUiReady : BOOLEAN,
     mFailedCount : Nat, mLockoutTimedStart : Nat, mCurrentMode : Modes,
     mIsLockoutTimerStarted : BOOLEAN, mIsLockoutTimerAborted : BOOLEAN,
     told : Modes]

\* Every variable keeps its type; the queue of the worker never grows past
\* WORKER_QUEUE_SIZE and a thread that has calls to make has a session to make
\* them for.
TypeOK ==
    /\ cur \in 0..MaxSessions
    /\ session \in [Sessions -> SessionFields]
    /\ queue \in Seq([task : Tasks, s : Sessions])
    /\ Len(queue) <= WORKER_QUEUE_SIZE
    /\ code \in [Threads -> Seq(Calls)]
    /\ self \in [Threads -> 0..MaxSessions]
    /\ \A t \in Threads : ~Idle(t) => self[t] \in Sessions
    /\ reg \in [Threads -> Int]
    /\ hbm \in BOOLEAN
    /\ goodix \in 0..MaxSessions
    /\ dev \in {"idle", "devEnroll", "devAuthenticate", "canceled"}
    /\ now \in Nat
    /\ calls \in 0..MaxCalls
    /\ messages \in 0..MaxMessages
    /\ dropped \subseteq Sessions

-----------------------------------------------------------------------------
(* The illumination and the sensor.                                        *)

\* A session being locked out never leaves its sensor armed: whichever of the
\* pointer-down task (goodixExtCmd(1), then checkSensorLockout) and the failed
\* match of the notify thread comes last still has its disarming check ahead
\* of it, however the two interleave with each other, with timers that clear
\* the lockout and with resets.
LockedOutDisarmed ==
    \A s \in Sessions :
        goodix = s /\ session[s].mCurrentMode # "NONE" =>
            \E t \in {"worker", "notify"} :
                /\ self[t] = s
                /\ Has(t, "getMode") \/ Has(t, "clearMode") \/ Has(t, "goodixOff")

\* With no open session the panel is not left at high brightness, nor the
\* sensor armed, unless the close task that puts them out is still to run or
\* was discarded by a full queue: no task, signal or message of a closed
\* session lights them again behind it.
NeverLitUnattended ==
    ~IsOpen /\ (hbm \/ goodix # 0) =>
        \/ cur \in dropped
        \/ \E i \in 1..Len(queue) : queue[i] = [task |-> "close", s |-> cur]
        \/ /\ hbm => Has("worker", "hbmOff")
           /\ goodix # 0 => Has("worker", "goodixOff")

\* A session whose close was queued does get dark: the worker is never held
\* up for good, not even by a pointer-down that waits for a UI that has gone.
ClosingDarkens ==
    (cur > 0 /\ ~IsOpen /\ cur \notin dropped) ~> (IsOpen \/ (~hbm /\ goodix = 0))

-----------------------------------------------------------------------------
(* The lockout, when handlers do not overlap.                              *)

\* Once the failures reach LOCKOUT_PERMANENT_THRESHOLD the lockout stays
\* permanent until they are reset: a timer started for an earlier timed
\* lockout, whose reset(false) keeps the counter, does not lift it.
PermanentSticks ==
    AtRest => \A s \in Sessions :
        session[s].mFailedCount >= LOCKOUT_PERMANENT_THRESHOLD
            => session[s].mCurrentMode = "PERMANENT"

\* mIsLockoutTimerStarted is true of a session exactly while one timer thread
\* is out for it, over resets, successes and lockouts that follow each other
\* while the timer sleeps.
StartedIffOneTimer ==
    AtRest => \A s \in Sessions :
        Cardinality({x \in Timers : ~Idle(x) /\ self[x] = s})
            = IF session[s].mIsLockoutTimerStarted THEN 1 ELSE 0

\* What the callbacks last said agrees with the tracker: the framework takes
\* the sensor for permanently locked exactly when the tracker has it so, and
\* has been told of every timed lockout.
FrameworkInformed ==
    AtRest => \A s \in Sessions :
        /\ session[s].mCurrentMode = "PERMANENT" <=> session[s].told = "PERMANENT"
        /\ session[s].mCurrentMode = "TIMED" => session[s].told = "TIMED"

-----------------------------------------------------------------------------
\* Session.h on mCb: "This callback must only be called from non-binder
\* threads to prevent nested binder calls".  No callback is ever the next call
\* of the binder thread.
CallbacksOffBinder ==
    \A call \in Callbacks \cup LockoutCallbacks : ~At("binder", call)
=============================================================================
