--------------------------- MODULE SubHalControl ---------------------------
(***************************************************************************)
(* The control side of the multi-HAL proxy (src/hidl/sensors/HalProxy.cpp):*)
(* how it numbers the sensors of its sub-HALs and finds a sensor's sub-HAL *)
(* again, which sub-HAL may own the direct channels, how operation mode    *)
(* and initialize go from sub-HAL to sub-HAL and what happens when one     *)
(* refuses, and how dynamic sensors reach the framework.                   *)
(*                                                                         *)
(* One binder thread serves the framework, so its calls do not overlap;    *)
(* the sub-HALs' own threads report dynamic sensors at any moment.  The    *)
(* call of a sub-HAL is one step.  HalProxy models the threads and queues. *)
(***************************************************************************)
EXTENDS Integers, Sequences

CONSTANTS
    NumSubHals,         \* mSubHalList.size()
    HandleBase,         \* 2^kBitsAfterSubHalIndex
    Lists,              \* what the sub-HALs may list: a sequence of sensors each
    DynamicHandles,     \* handles of the sensors each sub-HAL may report later
    OddHandles,         \* handles that the proxy never gave out
    Refusing            \* the sub-HALs that may refuse a mode or initialize

SubHals == 0 .. NumSubHals - 1
SensorInfo == [handle : Int, direct : BOOLEAN]

ASSUME SubHalControlAssumption ==
    /\ NumSubHals \in Nat
    /\ HandleBase \in Nat \ {0}
    /\ Lists \subseteq [SubHals -> Seq(SensorInfo)]
    /\ DynamicHandles \in [SubHals -> SUBSET Int]
    /\ OddHandles \subseteq Int
    /\ Refusing \subseteq SubHals

VARIABLES
    lists,          \* what the sub-HALs list
    loading,        \* the sub-HAL and the position that is loaded next
    mSensors,       \* the sensors offered to the framework
    mDirectChannelSubHal,
    mCurrentOperationMode,
    mode,           \* the mode each sub-HAL is in
    callbacks,      \* the sub-HALs that know the proxy's callback
    active,         \* active sensors, as <<sub-HAL, its own handle>>
    reporting,      \* sensors that report to a direct channel, likewise
    call,           \* the binder call: "none", "mode", "back", "disabled",
                    \* "cleared", "init"
    want, next,     \* the mode it sets, the sub-HAL it calls next,
    refuser,        \* and the one that refused
    mDynamicSensors,
    connected,      \* the dynamic sensors each sub-HAL has
    telling,        \* what each sub-HAL's thread is about to tell the framework
    known,          \* the dynamic sensors that mDynamicSensorsCallback was told
    strayed,        \* history: a refusal has left sub-HALs in different modes
    overtaken       \* history: the dynamic sensors whose report fell together
                    \* with initialize

NoSubHal == -1
Nothing == [what |-> "nothing", handle |-> 0]

sensors == <<lists, loading, mSensors, mDirectChannelSubHal>>
modes == <<mCurrentOperationMode, mode, strayed>>
binder == <<call, want, next, refuser>>
dynamic == <<mDynamicSensors, connected, telling, known, overtaken>>
vars == <<sensors, modes, callbacks, active, reporting, binder, dynamic>>

-----------------------------------------------------------------------------
(* Sensor handles: the sub-HAL's index is the first byte.                  *)

setSubHalIndex(sensorHandle, subHalIndex) ==
    sensorHandle + subHalIndex * HandleBase

extractSubHalIndex(sensorHandle) == sensorHandle \div HandleBase
isSubHalIndexValid(sensorHandle) == extractSubHalIndex(sensorHandle) \in SubHals

\* The slip keeps the index.
clearSubHalIndexNot(sensorHandle) == sensorHandle
clearSubHalIndex(sensorHandle) == sensorHandle % HandleBase
subHalIndexIsClear(sensorHandle) == extractSubHalIndex(sensorHandle) = 0

\* A handle of a dynamic sensor comes only from a framework that was told it.
ASSUME OddHandlesAssumption ==
    \A s \in SubHals : \A handle \in DynamicHandles[s] :
        setSubHalIndex(handle, s) \notin OddHandles

\* The sensor a handle stands for.
Named(sensorHandle) ==
    <<extractSubHalIndex(sensorHandle), clearSubHalIndex(sensorHandle)>>

\* The sensors that sub-HAL s has under its own handles.
Has(s, handle) ==
    \/ \E k \in DOMAIN lists[s] : lists[s][k].handle = handle
    \/ handle \in connected[s]

-----------------------------------------------------------------------------
Init ==
    /\ lists \in Lists
    /\ loading = [sub |-> 0, k |-> 1]
    /\ mSensors = {}
    /\ mDirectChannelSubHal = NoSubHal
    /\ mCurrentOperationMode = "NORMAL"
    /\ mode = [s \in SubHals |-> "NORMAL"]
    /\ callbacks = {}
    /\ active = {}
    /\ reporting = {}
    /\ call = "none"
    /\ want = "NORMAL"
    /\ next = 0
    /\ refuser = 0
    /\ mDynamicSensors = {}
    /\ connected = [s \in SubHals |-> {}]
    /\ telling = [s \in SubHals |-> Nothing]
    /\ known = {}
    /\ strayed = FALSE
    /\ overtaken = {}

\* setDirectChannelFlags: the first sub-HAL with a direct sensor owns the
\* direct channels, and the sensors of the others lose their flags; the slip
\* lets them keep them.
KeptDirect(s, direct) == direct
OwnedDirect(s, direct) == direct /\ mDirectChannelSubHal \in {NoSubHal, s}

\* initializeSensorList, in the constructor, sensor by sensor; mSensors is a map
\* from handles, in which a handle listed again replaces the sensor.
LoadSensor ==
    LET s == loading.sub
        info == lists[s][loading.k]
        h == setSubHalIndex(info.handle, s)
    IN  /\ s \in SubHals
        /\ loading.k \in DOMAIN lists[s]
        /\ loading' = [loading EXCEPT !.k = @ + 1]
        /\ IF subHalIndexIsClear(info.handle)
           THEN /\ mSensors' = {other \in mSensors : other.handle # h} \cup
                       {[handle |-> h, direct |-> OwnedDirect(s, info.direct)]}
                /\ mDirectChannelSubHal' =
                       IF mDirectChannelSubHal = NoSubHal /\ info.direct
                       THEN s ELSE mDirectChannelSubHal
           ELSE UNCHANGED <<mSensors, mDirectChannelSubHal>>
        /\ UNCHANGED <<lists, modes, callbacks, active, reporting, binder, dynamic>>

LoadNextSubHal ==
    LET s == loading.sub
    IN  /\ s \in SubHals
        /\ loading.k \notin DOMAIN lists[s]
        /\ loading' = [sub |-> s + 1, k |-> 1]
        /\ UNCHANGED <<lists, mSensors, mDirectChannelSubHal, modes, callbacks,
                       active, reporting, binder, dynamic>>

Loaded == loading.sub \notin SubHals

-----------------------------------------------------------------------------
(* Calls of the framework.                                                 *)

Return == call' = "none" /\ want' = "NORMAL" /\ next' = 0 /\ refuser' = 0

Offered == {info.handle : info \in mSensors}

Activate(handle, enabled) ==
    /\ Loaded /\ call = "none" /\ callbacks # {}
    /\ isSubHalIndexValid(handle)
    /\ Has(extractSubHalIndex(handle), clearSubHalIndex(handle))
    /\ active' = IF enabled THEN active \cup {Named(handle)}
                            ELSE active \ {Named(handle)}
    /\ UNCHANGED <<sensors, modes, callbacks, reporting, binder, dynamic>>

\* A one-shot sensor disables itself with its event.
Fire(sensor) ==
    /\ sensor \in active
    /\ active' = active \ {sensor}
    /\ UNCHANGED <<sensors, modes, callbacks, reporting, binder, dynamic>>

\* configDirectReport calls the owner with the handle's rest, whichever sub-HAL it
\* names.  That the framework asks for a direct report only of a sensor whose
\* flags offer it is its side of the interface: the proxy does not look.
ConfigDirectReport(info) ==
    /\ Loaded /\ call = "none"
    /\ mDirectChannelSubHal # NoSubHal
    /\ info.direct
    /\ reporting' = reporting \cup
           {<<mDirectChannelSubHal, clearSubHalIndex(info.handle)>>}
    /\ UNCHANGED <<sensors, modes, callbacks, active, binder, dynamic>>

\* With STOP, for one sensor, or for all of them when the handle is -1.
StopDirectReport(info) ==
    /\ Loaded /\ call = "none"
    /\ mDirectChannelSubHal # NoSubHal
    /\ reporting' = reporting \
           {<<mDirectChannelSubHal, clearSubHalIndex(info.handle)>>}
    /\ UNCHANGED <<sensors, modes, callbacks, active, binder, dynamic>>
StopDirectReports ==
    /\ Loaded /\ call = "none"
    /\ mDirectChannelSubHal # NoSubHal
    /\ reporting' = {}
    /\ UNCHANGED <<sensors, modes, callbacks, active, binder, dynamic>>

\* setOperationMode asks one sub-HAL after the other ...
SetOperationMode(m) ==
    /\ Loaded /\ call = "none"
    /\ call' = "mode"
    /\ want' = m
    /\ next' = 0
    /\ UNCHANGED <<refuser, sensors, modes, callbacks, active, reporting, dynamic>>

SubHalSetsMode ==
    /\ call = "mode" /\ next \in SubHals
    /\ mode' = [mode EXCEPT ![next] = want]
    /\ next' = next + 1
    /\ UNCHANGED <<call, want, refuser, sensors, mCurrentOperationMode, strayed,
                   callbacks, active, reporting, dynamic>>

ModeIsSet ==
    /\ call = "mode" /\ next \notin SubHals
    /\ mCurrentOperationMode' = want
    /\ Return
    /\ UNCHANGED <<sensors, mode, strayed, callbacks, active, reporting, dynamic>>

\* ... and when one refuses, sets those before it back; the slip does not.
SubHalRefusesModeForGood ==
    /\ call = "mode" /\ next \in Refusing
    /\ Return
    /\ UNCHANGED <<sensors, modes, callbacks, active, reporting, dynamic>>
SubHalRefusesMode ==
    /\ call = "mode" /\ next \in Refusing
    /\ call' = "back"
    /\ refuser' = next
    /\ next' = 0
    /\ UNCHANGED <<want, sensors, modes, callbacks, active, reporting, dynamic>>

\* What a sub-HAL answers to being set back is ignored.
SubHalSetBack ==
    /\ call = "back" /\ next < refuser
    /\ \/ /\ mode' = [mode EXCEPT ![next] = mCurrentOperationMode]
          /\ UNCHANGED strayed
       \/ /\ next \in Refusing
          /\ strayed' = TRUE
          /\ UNCHANGED mode
    /\ next' = next + 1
    /\ UNCHANGED <<call, want, refuser, sensors, mCurrentOperationMode, callbacks,
                   active, reporting, dynamic>>

ModeIsRefused ==
    /\ call = "back" /\ next >= refuser
    /\ Return
    /\ UNCHANGED <<sensors, modes, callbacks, active, reporting, dynamic>>

-----------------------------------------------------------------------------
(* initializeCommon, without its threads and queues.                       *)

\* The handles of the reports under way.
BeingTold(what) ==
    {telling[s].handle : s \in {t \in SubHals : telling[t].what = what}}

\* disableAllSensors: whatever the proxy has handed out, static or dynamic; the
\* slip forgets the dynamic ones.
DisabledStatic == {Named(h) : h \in Offered}
Disabled == {Named(h) : h \in Offered \cup mDynamicSensors}

DisableAllSensors ==
    /\ Loaded /\ call = "none"
    /\ call' = "disabled"
    /\ active' = active \ Disabled
    /\ UNCHANGED <<want, next, refuser, sensors, modes, callbacks, reporting, dynamic>>

\* The dynamic sensors are cleared, without their mutex; a new one that is being
\* told will be known and no longer listed.  The slip keeps them.
ClearDynamicSensorsNot ==
    /\ call = "disabled"
    /\ call' = "cleared"
    /\ overtaken' = overtaken \cup BeingTold("new")
    /\ UNCHANGED <<want, next, refuser, sensors, modes, callbacks, active, reporting,
                   mDynamicSensors, connected, telling, known>>
ClearDynamicSensors ==
    /\ call = "disabled"
    /\ call' = "cleared"
    /\ mDynamicSensors' = {}
    /\ overtaken' = overtaken \cup BeingTold("new")
    /\ UNCHANGED <<want, next, refuser, sensors, modes, callbacks, active, reporting,
                   connected, telling, known>>

\* Then the framework's new callback is kept, which was told of none.
SetDynamicSensorsCallback ==
    /\ call = "cleared"
    /\ call' = "init"
    /\ next' = 0
    /\ known' = {}
    /\ UNCHANGED <<want, refuser, sensors, modes, callbacks, active, reporting,
                   mDynamicSensors, connected, telling, overtaken>>

\* Sub-HAL after sub-HAL learns the callback and returns to normal mode ...
InitializeSubHal ==
    /\ call = "init" /\ next \in SubHals
    /\ callbacks' = callbacks \cup {next}
    /\ mode' = [mode EXCEPT ![next] = "NORMAL"]
    /\ next' = next + 1
    /\ UNCHANGED <<call, want, refuser, sensors, mCurrentOperationMode, strayed,
                   active, reporting, dynamic>>

Initialized ==
    /\ call = "init" /\ next \notin SubHals
    /\ Return
    /\ mCurrentOperationMode' = "NORMAL"
    /\ strayed' = FALSE
    /\ UNCHANGED <<sensors, mode, callbacks, active, reporting, dynamic>>

\* ... up to the first that fails: the others are left as they were.
SubHalFailsInitialize ==
    /\ call = "init" /\ next \in Refusing
    /\ Return
    /\ mCurrentOperationMode' = "NORMAL"
    /\ strayed' = TRUE
    /\ UNCHANGED <<sensors, mode, callbacks, active, reporting, dynamic>>

-----------------------------------------------------------------------------
(* A sub-HAL's thread reports dynamic sensors.                             *)

\* onDynamicSensorsConnected and onDynamicSensorsDisconnected under the mutex.
Connect(s, handle) ==
    LET h == setSubHalIndex(handle, s)
    IN  /\ s \in callbacks
        /\ telling[s] = Nothing
        /\ connected' = [connected EXCEPT ![s] = @ \cup {handle}]
        /\ IF subHalIndexIsClear(handle)
           THEN /\ mDynamicSensors' = mDynamicSensors \cup {h}
                /\ telling' = [telling EXCEPT ![s] = [what |-> "new", handle |-> h]]
           ELSE UNCHANGED <<mDynamicSensors, telling>>
        /\ UNCHANGED <<sensors, modes, callbacks, active, reporting, binder,
                       known, overtaken>>

Disconnect(s, handle) ==
    LET h == setSubHalIndex(handle, s)
    IN  /\ handle \in connected[s]
        /\ telling[s] = Nothing
        /\ connected' = [connected EXCEPT ![s] = @ \ {handle}]
        /\ active' = active \ {<<s, handle>>}
        /\ IF subHalIndexIsClear(handle) /\ h \in mDynamicSensors
           THEN /\ mDynamicSensors' = mDynamicSensors \ {h}
                /\ telling' = [telling EXCEPT ![s] = [what |-> "gone", handle |-> h]]
                /\ overtaken' = overtaken \ {h}
           ELSE UNCHANGED <<mDynamicSensors, telling, overtaken>>
        /\ UNCHANGED <<sensors, modes, callbacks, reporting, binder, known>>

\* The callback, after the mutex is released: until initialize has replaced it,
\* the one of the framework before, and the new framework is never told.
Tell(s) ==
    /\ telling[s] # Nothing
    /\ telling' = [telling EXCEPT ![s] = Nothing]
    /\ known' = IF telling[s].what = "new" THEN known \cup {telling[s].handle}
                                           ELSE known \ {telling[s].handle}
    /\ overtaken' = IF call = "cleared" /\ telling[s].what = "new"
                    THEN overtaken \cup {telling[s].handle} ELSE overtaken
    /\ UNCHANGED <<sensors, modes, callbacks, active, reporting, binder,
                   mDynamicSensors, connected>>

-----------------------------------------------------------------------------
Modes == {"NORMAL", "DATA_INJECTION"}

Next ==
    \/ LoadSensor \/ LoadNextSubHal
    \/ \E h \in Offered \cup known \cup OddHandles, enabled \in BOOLEAN :
          Activate(h, enabled)
    \/ \E sensor \in active : Fire(sensor)
    \/ \E info \in mSensors : ConfigDirectReport(info) \/ StopDirectReport(info)
    \/ StopDirectReports
    \/ \E m \in Modes : SetOperationMode(m)
    \/ SubHalSetsMode \/ ModeIsSet
    \/ SubHalRefusesMode \/ SubHalSetBack \/ ModeIsRefused
    \/ DisableAllSensors \/ ClearDynamicSensors \/ SetDynamicSensorsCallback
    \/ InitializeSubHal \/ Initialized \/ SubHalFailsInitialize
    \/ \E s \in SubHals :
          \/ \E handle \in DynamicHandles[s] :
                Connect(s, handle) \/ Disconnect(s, handle)
          \/ Tell(s)

Spec == Init /\ [][Next]_vars

-----------------------------------------------------------------------------
\* Every variable keeps its type; what a sub-HAL is called with is a handle of
\* its own, without an index.
TypeOK ==
    /\ lists \in Lists
    /\ loading \in [sub : Nat, k : Nat]
    /\ mSensors \subseteq SensorInfo
    /\ mDirectChannelSubHal \in SubHals \cup {NoSubHal}
    /\ mCurrentOperationMode \in Modes
    /\ mode \in [SubHals -> Modes]
    /\ callbacks \subseteq SubHals
    /\ active \subseteq (SubHals \X (0 .. HandleBase - 1))
    /\ reporting \subseteq (SubHals \X (0 .. HandleBase - 1))
    /\ call \in {"none", "mode", "back", "disabled", "cleared", "init"}
    /\ want \in Modes
    /\ next \in Nat
    /\ refuser \in Nat
    /\ mDynamicSensors \subseteq Int
    /\ connected \in [SubHals -> SUBSET Int]
    /\ telling \in [SubHals -> [what : {"nothing", "new", "gone"}, handle : Int]]
    /\ known \subseteq Int
    /\ strayed \in BOOLEAN
    /\ overtaken \subseteq Int

\* Between calls every sub-HAL is in the mode the proxy believes it is in, also
\* after one has refused a mode that others had taken.  Excepted is what follows
\* a sub-HAL that refuses to be set back, or to be initialized, until the next
\* initialize that succeeds.
ModesAgree ==
    call = "none" /\ ~strayed =>
        \A s \in SubHals : mode[s] = mCurrentOperationMode

\* A direct report comes from a sensor that was offered for it: although
\* configDirectReport passes on only a part of the handle, it never reaches
\* another sub-HAL's sensor of the same number.
DirectReportsNamed ==
    \A r \in reporting : \E info \in mSensors :
        info.direct /\ Named(info.handle) = r

\* No sensor is active any more once initialize has disabled what it handed out,
\* until the sub-HALs are initialized: none can be active that the proxy does
\* not list.  Excepted are the sensors that an earlier initialize overtook: the
\* framework may know and use them although the proxy has forgotten them.
InactiveDuringInitialize ==
    call \in {"disabled", "cleared", "init"} =>
        active \subseteq {Named(h) : h \in overtaken}

\* A dynamic sensor that nobody is about to tell of is known to the framework if
\* and only if the proxy lists it.  Excepted are, by name, the sensors whose
\* report fell together with an initialize, until the end of one is reported and
\* passed on: a sensor told after the list was cleared is known and not listed,
\* and one that connects after that and is told before the callback is replaced
\* is listed and not known.  Between the two steps the callback is the old one.
DynamicSensorsKnown ==
    call # "cleared" =>
        \A h \in (known \cup mDynamicSensors) \ overtaken :
            \/ h \in known /\ h \in mDynamicSensors
            \/ \E s \in SubHals : telling[s] # Nothing /\ telling[s].handle = h
=============================================================================
