# TLA+ models of the Pong device tree

The repository configures Android for one phone and, in C++, implements the
hardware services that are specific to it.  These models cover those services:
where threads, callbacks, queues, timers and a vendor library meet, and where a
unit test would hardly reach.

## Inventory

| part | source | state | operations | what is hard |
|---|---|---|---|---|
| fingerprint session | `src/fingerprint/Session.cpp` | closed flag, UI gate, lockout timer flags; panel brightness (FOD HBM) and sensor arming outside | the requests of `ISession`, vendor messages, timer expiry | requests run on a worker queue of bounded length, messages on the vendor's thread, timers on threads of their own; nothing but the UI gate is locked |
| lockout tracker | `src/fingerprint/LockoutTracker.cpp` | failure count, mode, start time | reset, addFailedAttempt, getMode, getLockoutTimeLeft | the same three threads, no lock |
| fingerprint service | `src/fingerprint/Fingerprint.cpp` | the current session, the worker | createSession, notify | notify checks a session and calls it later |
| enrollments | `src/fingerprint/Session.cpp`, `include/fingerprint.h` | a static list all sessions share; the vendor's templates outside | enumerateEnrollments, removeEnrollments, a vendor message per template | an answer in parts, some of which meet no session or the next one |
| LTPO control | `src/aidl/display/ltpo` | cached rate, hold window, enabled flag; the panel's index outside | setTargetHz, onIdle, onActive, setEnabled | failing writes, restarts by init, a time window |
| one-shot sensors | `src/hidl/sensors/Sensor.cpp` | enabled flag, mode, pipe, gesture node | activate, setOperationMode, the run thread, construction and destruction | a condition variable, a poll outside the lock, a thread that runs before its object is complete |
| multi-HAL proxy | `src/hidl/sensors/HalProxy.cpp`, `HalProxyCallback.cpp` | wakelock count and times, event queue, pending queue, two threads; sensors, direct channel owner, operation mode, dynamic sensors | post, confirm, time out, initialize, activate, setOperationMode, configDirectReport, connect and disconnect | reference counting over four kinds of threads, timeouts, restart, one sub-HAL of several refusing |
| sensors sub-HAL | `src/hidl/sensors/SensorsSubHal.cpp` | the sensors by handle, the mode | passes calls on, postEvents | the lock around a post |
| vibrator | `src/aidl/vibrator/Vibrator.cpp` | last mode, burst counter; the vendor looper's queue and amplitude outside | on, off, perform, setAmplitude | bursts, detached completion threads |
| charging control | `src/health/ChargingControl.cpp` | two sysfs nodes | get, set | one of two writes failing |

The framework calls into every service over binder.  The sub-HAL's sensors post
through the proxy; the session drives the vendor library, which answers through
the service; everything else is independent, so that the modules are too.

What makes each part correct, in a sentence: a session that is over or locked
out leaves neither the panel bright nor the sensor armed, and the lockout is the
one the framework was told of; the framework's idea of what is enrolled can be
put right whatever got lost; the panel runs at the rate the LTPO control
believes, and fast enough; a one-shot sensor posts once per activation and misses
neither its activation nor its end; wake-up events keep the device awake until
they are handled, and events arrive in order; proxy and sub-HALs agree on modes
and sensors; a burst of effects neither piles up nor swallows its first
taps.

Configuration, overlays, SELinux policy, init scripts (but for the start and
stop of the LTPO service), manifests, build files and blob extraction have no
behaviour of their own here and are not modelled; `PROJECT.json` lists every
component.

## Modules

### FingerprintSession (`MCFingerprintSession`, `FingerprintSessionProofs`)

A handler is the sequence of the calls it makes, in source order, written down as
data: `close == <<"hbmOff", "goodixOff", "uiNotReady">>`.  `code[t]` is what thread
`t` still has to execute, `self[t]` the session it does it for, `reg[t]` a value it
has loaded.  One action executes the first call of a thread, so that any two
threads interleave between any two calls.

* The binder thread runs a call of the framework to its end (`BinderCode`); most
  only append a task to the worker's queue, and a full queue discards it.
* The worker takes the oldest task (`TaskCode`).  A failing `enroll` or
  `authenticate` replaces the rest of the task by `onError`.
* The notify thread runs `Notify` (the test of the session) and `Deliver`, which
  uses whatever session is current by then, and then `NotifyCode`.
* Timer threads sleep until their time and run `lockoutTimerExpired`.

`addFailedAttempt` is split between what it loads and what it stores: the count is
loaded, stored with its mode, and then the start time is stored.  Pairs of adjacent
stores are one step (counter and mode of a failure, start and mode of a clearing),
and `getMode` returns the mode it has tested, which the source loads again.  A session's tracker
starts with zeroes and mode `NONE`: the service's `mLockoutTracker()` value-initialises it
and nothing updates the service's copy.  The panel's brightness `hbm` and the
sensor `goodix` are global, as the sysfs node and the vendor library are.
The vendor library is external: `dev` is what it was told to do, and `Sent` which
messages it may send meanwhile.

`SerialSpec` restricts the executions to those in which no two handlers overlap
(sleeping timers and a waiting pointer-down do not count).  The three properties
of the lockout are checked there, because the source has no lock and does not
keep them in every overlap: a timer past its test of the abort flag still clears a
permanent lockout, for example.  `NeverLitUnattended`, `LockedOutDisarmed` and
`ClosingDarkens` are checked over all interleavings.

### LtpoControl (`LtpoControlProofs`)

`SetTargetHz` decides under the lock; `WriteSfm` and `StoreCurrentHz` follow as
steps of their own, between which the mode changes, time passes or the process
dies.  The panel keeps its index over `Die` and `Start`, the process starts from its
initialisers.  A request to a disabled service returns 120 and changes nothing.
The destructor is never run: init kills the process.  `BestStep` is the lowest step
that is not below the target, as the code and its comment have it; the LTPO README
says "closest", and 11 Hz is answered with 24 Hz where 10 Hz is closer
and too slow.  `NeverTooSlow` is about the code's rule; the two sentences disagree.

### Enrollments (`MCEnrollments`, `EnrollmentsProofs`)

The other half of the session: what the framework knows of the templates.  The
worker's tasks for enumerations and removals are steps (`Enumerate`; `TakeRemoval`
and a `RemoveNext` per id), the vendor library answers with a message per
template, and `Notify`, `Discard` and the `Deliver` actions are the two halves of
`Fingerprint::notify` with `Session::notify`.  A session belongs to a user;
messages may outlive it and reach the session of another user, with the ids an
interrupted enumeration has left in the static list.  The library is external, as
`fingerprint.h` describes it: it serves one operation after the other, may refuse
one, and may break an enumeration off (`BreakOff`).  `torn`, `whole` and `none` are history:
whether the enumeration under way has lost a message, how many were reported
in whole, per user, since one was lost, and whether the last list reported was the
answer for no template.

That answer is one message with the id 0 (`AnyFid`), which `fingerprint.h` means as
"none" and `Session::notify` collects like any other: the framework is told of an
enrollment 0.  `ToldExactly` says so openly (the templates, and 0 exactly when
`none`).  The header's reading, that 0 is never an enrollment, does not hold of the
code: remove the last template, enumerate, and the framework is told {0}.

### OneShotSensor (`OneShotSensorProofs`)

One sensor.  `HasGesture` tells the tap sensors, whose touch controller reports
only while their gesture is enabled, from the UDFPS sensor.  What holds
`mRunMutex` is one step; `RunPoll` is outside it.  `edge` is news on the polled node and
`level` its value.  Reading the node may fail if `ReadsFail`; the instance has it
`FALSE` (so that every touch is reported), the proofs cover both.

The base constructor starts the thread before the derived object exists, so the
thread may have found the base class's `run`: `body` says whose it executes.
Nothing initialises `mStopThread`, hence its two initial values.  The destructor is
two steps and a join: the derived one interrupts the poll (`Destroy`), the base one
stops the thread (`Stop`).  `batch` and `flush` are overridden and change nothing.

### HalProxy (`MCHalProxy`, `EventSequences`, `EventChannel`, `EventSequencesProofs`, `HalProxyProofs`)

Posting threads take a scoped wakelock, pass the test of `mThreadsRun`, count and
enqueue, and release the lock: four steps.  The two proxy threads are a loop head
(`PendingTest`, `WakelockTest`), a moment before sleep in which the mutex is still
held (`doze`, where a notification that does not take the mutex is missed), sleep,
and a blocking queue operation; what the pending thread has written stays in the
pending queue until `PendingPop`.  `initialize` is a sequence of steps in which the
other threads go on: `StopThreads`, `WakeThreads`, `ThreadsJoined`, a `DisableSensor` per
posting sensor, `Restart` and `InitializeSubHals`.  Disabling waits for a post under
way, because `Sensor::activate` takes the mutex the sensor posts under; a one-shot
sensor whose poll has returned does not look again whether it is enabled, and
posts later (`"late"`).  An event is `"wake"`, `"quiet"` or `"putDown"` (a pick-up report that
the proxy filters).  `writtenOff` is history: it is set when the count gives up events
that are still under way, by a timeout, by a failed write whose batch was partly
written before, or by a post without a lock.  The count of a post and its write are
one step: a timeout that passes between the two is left out.

A post without a lock is one that asked for it while the threads were stopped.  The
first of the assertions at `HalProxyCallback.cpp:46-56` fails for it, if the build
has them.  The second one fails for a pick-up report that
came with a lock and is filtered, whatever the interleaving.

`EventSequences` holds what the proxy computes of sequences of events, as recursive
functions: the wake-up events of a batch, what the filter passes, and all that the
pending queue holds.  `EventChannel` is what the proxy promises of events: one first-in first-out channel
that loses them only when it is full or closed.  `ImplementsChannel` maps the
message queue followed by what is held back (without what is written but not yet
popped) to the channel, and `mThreadsRun` to its being open.

### SubHalControl (`MCSubHalControl`, `SubHalControlProofs`)

The proxy's control side.  `setSubHalIndex`, `extractSubHalIndex` and
`clearSubHalIndex` are arithmetic on handles (`HandleBase` stands for 2^24).  The
constructor's `initializeSensorList` is a step per sensor, since the first direct
sensor decides which sub-HAL owns the direct channels.  `setOperationMode` and
`initialize` call one sub-HAL per step, any of `Refusing` may refuse, and refusals of
the roll-back are ignored as in the code.  The sub-HALs' threads report dynamic
sensors under the mutex (`Connect`, `Disconnect`) and tell the framework after it
(`Tell`).  `initialize` clears `mDynamicSensors` and then replaces the callback, neither
under the mutex: `ClearDynamicSensors` and `SetDynamicSensorsCallback` are two steps, and
a whole report fits between them, which tells the old framework.  The clearing
itself is one step, although it races with the map's other users.  `strayed` and
`overtaken` are history: a refusal nobody made good, and the dynamic sensors, by
handle, whose report fell together with an `initialize`: it was under way at the
clearing or told before the new callback.  Nobody tells the new framework of them;
they are the exception of `DynamicSensorsKnown` and `InactiveDuringInitialize`, which
hold of every other sensor, until they are disconnected.

`mSensors` is a map: loading a sensor replaces one with the same handle.
`ConfigDirectReport` is called for sensors with direct flags only, which is the
framework's part: the proxy does not test it.  `StopDirectReport` stops one sensor,
`StopDirectReports` all of a channel.

HalProxy and SubHalControl share `initialize` only: there it is about threads and
queues, here about sensors and modes.

### Vibrator (`VibratorProofs`)

One step per call (the service has one binder thread) and one per completion
thread.  The looper's queue holds the numbers of the calls that posted its
patterns; `burst` is history, the calls since the last slow one.

## Runs

| run | checks | shows |
|---|---|---|
| `FpRequests` | `TypeOK`, `LockedOutDisarmed` | all requests and messages, a queue of one task, time passing over a timed lockout |
| `FpLights` | `NeverLitUnattended`, `ClosingDarkens` | two sessions sharing worker, panel and sensor |
| `FpSerial` | `PermanentSticks`, `StartedIffOneTimer`, `FrameworkInformed` | the lockout's life cycle with two timers |
| `FpCallback` | `CallbacksOffBinder` | violated: `close` calls back on the binder thread |
| `LtpoRates` | `TypeOK`, `CacheCoherent`, `NeverTooSlow`, `SmoothDuringHold` | requests below, between, on and above the steps, failing writes, a restart |
| `LtpoRestart` | `JumpsBack` | violated: a restarted service skips the write that is needed |
| `OneShotTap` | `TypeOK`, `OneEventPerActivation`, `PollInterruptible`, `NeverSleepsEnabled`, `TouchReported`, `DestructionEnds` | a tap sensor's life, from the race of its construction to its destructor |
| `ProxyWakelocks` | `TypeOK`, `CountedMeansHeld`, `WakeEventsCounted`, `SizeIsPending`, `ClearedSafely`, `ImplementsChannel` | two posters, a queue of one event, a timeout, a second initialize; the refinement |
| `ProxyReinit` | `QuietUntilReset` | violated: a late post arrives between the restart of the threads and that of the sub-HALs |
| `SubHalModes` | `TypeOK`, `ModesAgree`, `DirectReportsNamed`, `InactiveDuringInitialize`, `DynamicSensorsKnown` | three sub-HALs, each of which may refuse, and reports of dynamic sensors at any moment |
| `EnrollmentLists` | `TypeOK`, `ToldExactly`, `EnumerationAnswered` | two users' sessions, messages lost, broken off and misdelivered |
| `VibratorBursts` | `TypeOK`, `BurstNeverPilesUp`, `FirstTapsPlay`, `AcceptedCompletes` | bursts longer than the threshold |

The three violations are disagreements between the code and a comment or the LTPO
README; `PROJECT.json` quotes them.  Three more disagreements are not runs of their
own and are described with their modules: the closest step (LtpoControl), the id 0
for no template (Enrollments) and the assertions about wakelocks (HalProxy).

Three of the passing properties except what the code really does wrong, and the
hazards in `PROJECT.json` say which: a close that a full queue discards leaves the
panel lit (`NeverLitUnattended`), events that were written off are no longer counted
(`WakeEventsCounted`), and the first list after a broken enumeration may be wrong
(`ToldExactly`).  What they show is that nothing else leads there.

`ToldExactly` asks for two whole enumerations and not one: the first after a loss
may begin with ids that a broken enumeration left in the static list, and only its
last message clears it.  With one, TLC finds a framework that believes in a
template the library has removed.

**Bounds.**  Fingerprint: one session and two calls suffice to arm and to fail, and
the clock then runs past a lockout's end; two sessions and four calls (the queue
holds two) overlap a close, its successor and a full queue; thresholds 1 and 2 and
a duration of one tick keep each mode one failure away.  LTPO: targets below the
first step, between and on steps (11, whose closest step is too slow), and above the
last, a hold of two ticks on a clock of six, one restart.  One-shot:
three activations and two mode changes leave bytes of earlier interrupts in the
pipe.  Proxy: a queue of one and batches of two split a batch; two posts let an old
lock meet a newer one; two calls of initialize stop running threads; clock 2 with a
timeout of 1 passes it.  At these bounds a pair that is lost could not have been
held back, so that the run of `ImplementsChannel` is about order; the theorem is
about loss as well.  Sub-HALs: three (the device has two, of which only the
vendor's may refuse), so that one before and one after the refusing one exist;
handles of two bits, with numbers that two sub-HALs share, handles that are not
clear, and handles the proxy never gave out; the state is finite without a bound.
Enrollments: two users with up to two templates, two sessions, three operations and
a queue of two, so that an enumeration is cut by a close, its rest reaches the next
session, and a removal or an enrollment comes in between.  Vibrator: threshold 2 and four calls drain twice.

**Fairness.**  Only of threads the system schedules, of a wait's time limit and of
the clock: a runnable worker, notify, timer, run or completion thread eventually
takes its step, and a call or a destructor that has begun ends.  In Enrollments the
vendor's thread is required to send what it has to send, which is what its interface
promises of an accepted enumeration.  Calls of the framework, touches, refusals and
failures are never required.

**Deadlock** is checked in `SubHalModes`, where no bound stops the system.  Every other
instance stops when its bounds are used up.

Each property has a mutant, a definition with a slip of the kind the code could
have (`closeLeavesHbm`, `ClosestStep`, `decrementIgnoresReset`), which TLC must
refute; they are defined next to what they replace.

## Proofs

For every value of the constants, under the named assumptions of each module:
numbers are natural and limits positive, the timers are not one of the three named
threads and finitely many (FingerprintSession), posters and template ids are
finitely many (HalProxy, Enrollments; an id is a `uint32_t`), and the handles nobody gave out are
handles (SubHalControl).

* **FingerprintSession**: `TypeOK` and `LockedOutDisarmed`.  Neither is inductive: that
  a disarming check is still ahead depends on what a thread's remaining calls look
  like.  `Shapes` says it of every thread: a `goodixOn` is followed by a `getMode`, a
  `storeCount` is preceded by its load, only the worker and the notify thread have the
  calls that matter.  `CountLoaded` gives the type of what was loaded.  The lemmas
  show that each handler's code has its shape, that a call less keeps it, and that
  each way to continue keeps it; then there is one step per action.

  `NeverLitUnattended` rests on the order of the worker's queue.  `BinderOrderly`: the
  binder thread runs one call at a time, and after scheduling the close task only
  cancels.  `OthersDull`: of the other threads only the worker lights anything.
  `FreshOpen`: the sessions to come are open.  `DarkAhead`: once the session is over,
  either the close task was discarded, or it is in the queue with no lighting task
  behind it, or nothing to come lights and the worker's remaining calls put out what
  is lit.  A failing task replaces the rest of its code, so that the lemmas also show
  that what is replaced contains no call that puts something out.

  `PermanentSticks`, `StartedIffOneTimer` and `FrameworkInformed` are proved of
  `SerialSpec`.  `SInv`: at most one thread is in the middle of a handler (`OneBusy`), the
  others have nothing to do, sleep or wait (`Waiting`); a session nobody is busy with
  is `Settled` (the mode is the counter's, the framework knows it, and a timer that
  is out over a permanent lockout is aborted); the session of the busy thread is
  settled but for what `Owed` says, one clause per rest of a handler's calls; and a
  timer is out for a session when it is marked as started, about to be, or just
  unmarked, and never two (`TimersOut`).  That a timer past its sleep finds its abort
  flag set over a permanent lockout needs both: its session is still marked by
  `TimersOut`, and marked and permanent means aborted by `Settled`.
* **LtpoControl**: all four properties of `LtpoRates`.  `CacheOrWritten` says what the
  panel and the cache are between write and store, `HoldRecorded` and
  `PendingSmooth` that a pending write during the hold is not a slow one,
  `RequestCovered` and `RequestStored` that the chosen step serves the request.
* **OneShotSensor**: the invariants of `OneShotTap`.  `SeenByteStays` says that a byte
  seen by the poll is there to be read, `UnspentActivation` that an enabled sensor
  has an activation without an event.
* **HalProxy**: the invariants of `ProxyWakelocks`, `ClearedSafely` and the refinement.
  `Clocks` orders the times the timeout compares; `StoppedWhile` and `OffIsQuiet` say
  what has come to rest while `initialize` has the threads stopped; `WritesPending`
  that what the pending thread is writing is still at the head of the pending queue;
  `PostsBatch` what a poster carries between its steps.  `WakeEventsCounted` is then a
  balance: each step moves wake-up events between posters, the two queues and the
  framework, and changes the count by what leaves.  The lemmas of
  `EventSequencesProofs` say what happens to the counts and to `Flattened` when a
  sequence is appended to, cut and concatenated; they need induction along recursive
  functions, which is done there over sets of indices (a set with 0 and with every
  successor is everything), since an operator cannot be instantiated.
  `RefinesChannel` shows `Spec => ImplementsChannel`: `Init` maps to `Init`, and each
  action to `Post`, `Read`, `Drop`, `Open` or `Close` of `EventChannel` or to no change.
* **SubHalControl**: all invariants of `SubHalModes`.  `ModesFollow` says, in the middle of
  `setOperationMode` and of its roll-back, which sub-HALs are at the new and which at
  the old mode.  `DirectOwned` ties reporting handles to the owner of the channels.
  For dynamic sensors, `TellingOwn`, `TellingTrue` and `DifferenceTold` say that what
  the framework does not know yet is exactly what a sub-HAL's thread is about to
  tell, but for the sensors in `overtaken`; `OfferedSoFar` and what follows it bound
  the active sensors by those that were handed out.
* **Enrollments**: `TypeOK` and `ToldExactly`.  Messages being notified and those the
  library still has to send form one stream.  Its enumerations count down to zero,
  the last message about a template tells the truth about it, and the static list
  completes the enumeration at the head.  One whole report (`whole` at least 1)
  means that the list is clean, a second one that the framework is right up to
  what the stream has still to say.  `OwedRight` counts a session's enumerations,
  queued or on their way; `NoneAhead` says that sessions to come have none.  That the
  id 0 is told only as the answer for no template (`NoneTold`) is an invariant of its
  own: it comes alone, since no other message of the stream carries it.
* **Vibrator**: `TypeOK`, `BurstNeverPilesUp` and the action property `FirstTapsPlay`.
  `CountIsBurst` relates the code's counter to the calls of the burst, `PastCalls`
  and `OnePatternEach` say that the looper holds at most one pattern of each earlier
  call.

Every inductive invariant was first checked by TLC on the instance of its run.

Only model-checked: liveness (`ClosingDarkens`, `TouchReported`, `DestructionEnds`,
`AcceptedCompletes`, `EnumerationAnswered`), which is out of the prover's reach.

## Not modelled

Vendor error and acquired codes (their conversion loses nothing the properties
see), challenges and hardware tokens, the lifetime of sessions that a timer thread,
a task or a callback still points to, data injection, the registration of direct
channels, the calls the proxy passes on without a change of state (batch, flush),
loading of sub-HALs from the configuration file, and debug output.  Charging
control is two sequential file writes, of which one must succeed.

That `initialize` of the proxy returns is not claimed: `stopThreads` notifies without
the mutex, and a thread that dozes misses it.  Neither is that an abandoned wakelock
is released in time: with exactly no time left the thread reads without a limit.

## Plan

Done, in this order: FingerprintSession, LtpoControl, OneShotSensor with their
proofs; HalProxy and Vibrator with their runs; construction and destruction of
sensors, the steps of initialize, EventChannel and its refinement; SubHalControl;
Enrollments; the proofs of Vibrator, SubHalControl, HalProxy with its refinement,
Enrollments, `NeverLitUnattended` and the serial lockout properties.  Next:
an abstract specification of the wakelock (a bag of reasons to stay awake) that
HalProxy without write-offs implements.
