------------------------ MODULE SubHalControlProofs ------------------------
(***************************************************************************)
(* Proofs about SubHalControl, for any number of sub-HALs, any sensors they *)
(* may list or report, and any of them refusing: the sub-HALs' modes agree  *)
(* with the proxy's, a direct report never reaches a sensor it was not      *)
(* meant for, and the framework knows the dynamic sensors the proxy knows.  *)
(***************************************************************************)
EXTENDS SubHalControl, TLAPS

-----------------------------------------------------------------------------
(* Handles.                                                                *)

\* The rest of a handle is a handle without an index.
LEMMA ClearIsClear ==
  ASSUME NEW h \in Int
  PROVE  /\ extractSubHalIndex(h) \in Int
         /\ clearSubHalIndex(h) \in 0 .. HandleBase - 1
<1>1. HandleBase \in Nat /\ HandleBase > 0
  BY SubHalControlAssumption
<1> QED
  BY <1>1 DEF extractSubHalIndex, clearSubHalIndex

\* The index put into a clear handle is the one found in it again.
LEMMA IndexFound ==
  ASSUME NEW h \in Int, NEW s \in SubHals, subHalIndexIsClear(h)
  PROVE  /\ setSubHalIndex(h, s) \in Int
         /\ extractSubHalIndex(setSubHalIndex(h, s)) = s
<1>1. HandleBase \in Nat /\ HandleBase > 0
  BY SubHalControlAssumption
<1>2. s \in Nat
  BY SubHalControlAssumption DEF SubHals
<1>3. 0 <= h /\ h < HandleBase
  BY <1>1 DEF subHalIndexIsClear, extractSubHalIndex
<1>4. s * HandleBase \in Int
  BY <1>1, <1>2
<1>5. (h + s * HandleBase) \div HandleBase = s
  BY <1>1, <1>2, <1>3
<1> QED
  BY <1>4, <1>5 DEF setSubHalIndex, extractSubHalIndex

\* So does the rest, and the two parts of a handle make it up again.
LEMMA HandleParts ==
  /\ \A h \in Int : \A s \in SubHals :
        subHalIndexIsClear(h) => Named(setSubHalIndex(h, s)) = <<s, h>>
  /\ \A h \in Int : /\ setSubHalIndex(clearSubHalIndex(h), extractSubHalIndex(h)) = h
                    /\ subHalIndexIsClear(clearSubHalIndex(h))
<1>1. HandleBase \in Nat /\ HandleBase > 0
  BY SubHalControlAssumption
<1>2. ASSUME NEW h \in Int, NEW s \in SubHals, subHalIndexIsClear(h)
      PROVE  Named(setSubHalIndex(h, s)) = <<s, h>>
  <2>1. s \in Nat
    BY SubHalControlAssumption DEF SubHals
  <2>2. 0 <= h /\ h < HandleBase
    BY <1>1, <1>2 DEF subHalIndexIsClear, extractSubHalIndex
  <2>3. (h + s * HandleBase) % HandleBase = h
    BY <1>1, <2>1, <2>2
  <2>4. clearSubHalIndex(setSubHalIndex(h, s)) = h
    BY <2>3 DEF clearSubHalIndex, setSubHalIndex
  <2> QED
    BY <1>2, <2>4, IndexFound DEF Named
<1>3. ASSUME NEW h \in Int
      PROVE  /\ setSubHalIndex(clearSubHalIndex(h), extractSubHalIndex(h)) = h
             /\ subHalIndexIsClear(clearSubHalIndex(h))
  <2>1. (h % HandleBase) + (h \div HandleBase) * HandleBase = h
    BY <1>1
  <2>2. (h % HandleBase) \div HandleBase = 0
    BY <1>1
  <2> QED
    BY <2>1, <2>2
    DEF setSubHalIndex, clearSubHalIndex, extractSubHalIndex, subHalIndexIsClear
<1> QED
  BY <1>2, <1>3

-----------------------------------------------------------------------------
(* The inductive invariant.                                                *)

\* Where setOperationMode and initialize have got to: those asked before are in
\* the wanted mode and those behind in the old one; setting back works towards
\* the one that refused; initialize leaves normal mode behind it.
ModesFollow ==
    /\ call = "mode" /\ ~strayed =>
          \A s \in SubHals : /\ s < next => mode[s] = want
                             /\ s >= next => mode[s] = mCurrentOperationMode
    /\ call = "back" /\ ~strayed =>
          \A s \in SubHals : s < next \/ s >= refuser =>
              mode[s] = mCurrentOperationMode
    /\ call = "init" =>
          \A s \in SubHals : s < next => mode[s] = "NORMAL"
    /\ call \in {"none", "disabled", "cleared"} /\ ~strayed =>
          \A s \in SubHals : mode[s] = mCurrentOperationMode

\* A sensor is offered under a sub-HAL's index, and for direct reports only
\* under that of the owner of the direct channels.
DirectOwned ==
    \A info \in mSensors :
        /\ extractSubHalIndex(info.handle) \in SubHals
        /\ info.direct => extractSubHalIndex(info.handle) = mDirectChannelSubHal

\* What a sub-HAL's thread is about to tell is of one of its own sensors ...
TellingOwn ==
    \A s \in SubHals : telling[s] # Nothing =>
        /\ telling[s].what \in {"new", "gone"}
        /\ extractSubHalIndex(telling[s].handle) = s

\* ... and, unless initialize overtook it, true of what the proxy knows.
TellingTrue ==
    \A s \in SubHals : telling[s] # Nothing /\ telling[s].handle \notin overtaken =>
        (telling[s].what = "new" <=> telling[s].handle \in mDynamicSensors)

\* What the callback knows, or will when initialize has replaced it.
KnownSoon == IF call = "cleared" THEN {} ELSE known

\* Where the framework and the proxy differ, somebody is about to tell.
DifferenceTold ==
    \A h \in Int \ overtaken : (h \in KnownSoon <=> h \notin mDynamicSensors) =>
        \E s \in SubHals : telling[s] # Nothing /\ telling[s].handle = h

\* No sensor reports directly before the list is loaded.
ReportsLoaded == reporting # {} => Loaded

\* The list has been loaded up to a position: what lies before it is offered.
OfferedSoFar ==
    /\ loading.k >= 1
    /\ \A s \in SubHals : \A k \in DOMAIN lists[s] :
          /\ s < loading.sub \/ (s = loading.sub /\ k < loading.k)
          /\ subHalIndexIsClear(lists[s][k].handle)
          => setSubHalIndex(lists[s][k].handle, s) \in Offered

\* A sensor whose end is about to be told is gone.
GoneIsGone ==
    \A s \in SubHals :
        /\ connected[s] \subseteq DynamicHandles[s]
        /\ telling[s].what = "gone" =>
              clearSubHalIndex(telling[s].handle) \notin connected[s]

\* The sensors that initialize overtook, as the sub-HALs know them.
Overtaken == {Named(h) : h \in overtaken}

\* A sensor that is active is one of those that initialize would disable, or was
\* overtaken.
ActiveListed == active \subseteq Disabled \cup Overtaken

IInv ==
    /\ TypeOK
    /\ ModesFollow
    /\ DirectOwned
    /\ DirectReportsNamed
    /\ ReportsLoaded
    /\ TellingOwn
    /\ TellingTrue
    /\ DifferenceTold
    /\ OfferedSoFar
    /\ GoneIsGone
    /\ ActiveListed
    /\ InactiveDuringInitialize

-----------------------------------------------------------------------------
(* Types.                                                                  *)

\* Every step preserves the types.
LEMMA TypeStep ==
  ASSUME TypeOK, [Next]_vars
  PROVE  TypeOK'
<1> USE SubHalControlAssumption
<1>1. CASE LoadSensor
  <2> DEFINE s == loading.sub
             info == lists[s][loading.k]
  <2>1. s \in SubHals /\ info \in SensorInfo
    <3>1. s \in SubHals /\ loading.k \in DOMAIN lists[s]
      BY <1>1 DEF LoadSensor
    <3>2. lists[s] \in Seq(SensorInfo)
      BY <3>1 DEF TypeOK
    <3> QED
      BY <3>1, <3>2
  <2>2. info.handle \in Int /\ info.direct \in BOOLEAN
    BY <2>1 DEF SensorInfo
  <2>3. subHalIndexIsClear(info.handle) => setSubHalIndex(info.handle, s) \in Int
    BY <2>1, <2>2, IndexFound
  <2>4. OwnedDirect(s, info.direct) \in BOOLEAN
    BY <2>2 DEF OwnedDirect
  <2>5. mSensors' \subseteq SensorInfo
    <3>1. mSensors \subseteq SensorInfo
      BY DEF TypeOK
    <3>2. CASE subHalIndexIsClear(info.handle)
      <4>1. [handle |-> setSubHalIndex(info.handle, s),
             direct |-> OwnedDirect(s, info.direct)] \in SensorInfo
        BY <2>3, <2>4, <3>2 DEF SensorInfo
      <4> QED
        BY <1>1, <3>1, <3>2, <4>1 DEF LoadSensor
    <3>3. CASE ~ subHalIndexIsClear(info.handle)
      BY <1>1, <3>1, <3>3 DEF LoadSensor
    <3> QED
      BY <3>2, <3>3
  <2>6. mDirectChannelSubHal' \in SubHals \cup {NoSubHal}
    BY <1>1, <2>1 DEF LoadSensor, TypeOK
  <2>7. loading' \in [sub : Nat, k : Nat]
    <3> HIDE SubHalControlAssumption
    <3>1. loading \in [sub : Nat, k : Nat]
      BY DEF TypeOK
    <3>2. loading' = [loading EXCEPT !.k = @ + 1]
      BY <1>1 DEF LoadSensor
    <3> QED
      BY <3>1, <3>2
  <2> QED
    BY <1>1, <2>5, <2>6, <2>7 DEF LoadSensor, TypeOK, modes, binder, dynamic
<1>2. CASE LoadNextSubHal
  <2>1. loading' \in [sub : Nat, k : Nat]
    <3> HIDE SubHalControlAssumption
    <3>1. loading \in [sub : Nat, k : Nat]
      BY DEF TypeOK
    <3>2. loading' = [sub |-> loading.sub + 1, k |-> 1]
      BY <1>2 DEF LoadNextSubHal
    <3> QED
      BY <3>1, <3>2
  <2> QED
    BY <1>2, <2>1 DEF LoadNextSubHal, TypeOK, modes, binder, dynamic
<1>3. ASSUME NEW h \in Offered \cup known \cup OddHandles, NEW enabled \in BOOLEAN,
             Activate(h, enabled)
      PROVE  TypeOK'
  <2>1. h \in Int
    <3>1. \A info \in mSensors : info.handle \in Int
      BY DEF TypeOK, SensorInfo
    <3>2. Offered \subseteq Int
      BY <3>1 DEF Offered
    <3>3. known \subseteq Int /\ OddHandles \subseteq Int
      BY DEF TypeOK
    <3> QED
      BY <3>2, <3>3
  <2>2. Named(h) \in SubHals \X (0 .. HandleBase - 1)
    BY <1>3, <2>1, ClearIsClear DEF Activate, isSubHalIndexValid, Named
  <2>3. active' \subseteq (SubHals \X (0 .. HandleBase - 1))
    <3> HIDE SubHalControlAssumption
    <3>1. active \subseteq (SubHals \X (0 .. HandleBase - 1))
      BY DEF TypeOK
    <3> QED
      BY <1>3, <2>2, <3>1, Zenon DEF Activate
  <2> QED
    BY <1>3, <2>3 DEF Activate, TypeOK, sensors, modes, binder, dynamic
<1>4. ASSUME NEW sensor \in active, Fire(sensor)
      PROVE  TypeOK'
  BY <1>4 DEF Fire, TypeOK, sensors, modes, binder, dynamic
<1>5. ASSUME NEW info \in mSensors, ConfigDirectReport(info)
      PROVE  TypeOK'
  <2>1. info.handle \in Int
    BY DEF TypeOK, SensorInfo
  <2>2. <<mDirectChannelSubHal, clearSubHalIndex(info.handle)>>
            \in SubHals \X (0 .. HandleBase - 1)
    BY <1>5, <2>1, ClearIsClear DEF ConfigDirectReport, TypeOK
  <2>3. reporting' \subseteq (SubHals \X (0 .. HandleBase - 1))
    <3> HIDE SubHalControlAssumption
    <3>1. reporting \subseteq (SubHals \X (0 .. HandleBase - 1))
      BY DEF TypeOK
    <3> QED
      BY <1>5, <2>2, <3>1, Zenon DEF ConfigDirectReport
  <2> QED
    BY <1>5, <2>3 DEF ConfigDirectReport, TypeOK, sensors, modes, binder, dynamic
<1>5a. ASSUME NEW info \in mSensors, StopDirectReport(info)
       PROVE  TypeOK'
  <2>1. reporting' \subseteq reporting
    BY <1>5a DEF StopDirectReport
  <2> QED
    BY <1>5a, <2>1 DEF StopDirectReport, TypeOK, sensors, modes, binder, dynamic
<1>6. CASE StopDirectReports
  BY <1>6 DEF StopDirectReports, TypeOK, sensors, modes, binder, dynamic
<1>7. ASSUME NEW m \in Modes, SetOperationMode(m)
      PROVE  TypeOK'
  BY <1>7 DEF SetOperationMode, TypeOK, sensors, modes, dynamic
<1>8. CASE SubHalSetsMode
  BY <1>8 DEF SubHalSetsMode, TypeOK, sensors, dynamic
<1>9. CASE ModeIsSet
  BY <1>9 DEF ModeIsSet, Return, Modes, TypeOK, sensors, dynamic
<1>10. CASE SubHalRefusesMode
  BY <1>10 DEF SubHalRefusesMode, TypeOK, sensors, modes, dynamic
<1>11. CASE SubHalSetBack
  <2>1. next \in Nat /\ next' = next + 1 /\ next' \in Nat
    BY <1>11 DEF SubHalSetBack, TypeOK
  <2>2. mode' \in [SubHals -> Modes]
    <3>1. mode \in [SubHals -> Modes] /\ mCurrentOperationMode \in Modes
      BY DEF TypeOK
    <3>2. mode' = mode \/ mode' = [mode EXCEPT ![next] = mCurrentOperationMode]
      BY <1>11 DEF SubHalSetBack
    <3> HIDE SubHalControlAssumption
    <3> QED
      BY <3>1, <3>2
  <2>3. strayed' \in BOOLEAN
    BY <1>11 DEF SubHalSetBack, TypeOK
  <2> QED
    BY <1>11, <2>1, <2>2, <2>3 DEF SubHalSetBack, TypeOK, sensors, dynamic
<1>12. CASE ModeIsRefused
  BY <1>12 DEF ModeIsRefused, Return, Modes, TypeOK, sensors, modes, dynamic
<1>13. CASE DisableAllSensors
  BY <1>13 DEF DisableAllSensors, TypeOK, sensors, modes, dynamic
<1>14. CASE ClearDynamicSensors
  <2>1. \A s \in SubHals : telling[s].handle \in Int
    BY DEF TypeOK
  <2>2. BeingTold("new") \subseteq Int
    BY <2>1 DEF BeingTold
  <2>3. overtaken' \subseteq Int
    BY <1>14, <2>2 DEF ClearDynamicSensors, TypeOK
  <2> QED
    BY <1>14, <2>3 DEF ClearDynamicSensors, TypeOK, sensors, modes
<1>14a. CASE SetDynamicSensorsCallback
  BY <1>14a DEF SetDynamicSensorsCallback, TypeOK, sensors, modes
<1>15. CASE InitializeSubHal
  BY <1>15 DEF InitializeSubHal, Modes, TypeOK, sensors, dynamic
<1>16. CASE Initialized
  BY <1>16 DEF Initialized, Return, Modes, TypeOK, sensors, dynamic
<1>17. CASE SubHalFailsInitialize
  BY <1>17 DEF SubHalFailsInitialize, Return, Modes, TypeOK, sensors, dynamic
<1>18. ASSUME NEW s \in SubHals, NEW handle \in DynamicHandles[s], Connect(s, handle)
       PROVE  TypeOK'
  <2>1. handle \in Int
    OBVIOUS
  <2>2. subHalIndexIsClear(handle) => setSubHalIndex(handle, s) \in Int
    BY <2>1, IndexFound
  <2>3. connected' \in [SubHals -> SUBSET Int]
    BY <1>18, <2>1 DEF Connect, TypeOK
  <2>4. mDynamicSensors' \subseteq Int
    BY <1>18, <2>2 DEF Connect, TypeOK
  <2>5. telling' \in [SubHals -> [what : {"nothing", "new", "gone"}, handle : Int]]
    <3> DEFINE T == [what : {"nothing", "new", "gone"}, handle : Int]
               x == [what |-> "new", handle |-> setSubHalIndex(handle, s)]
    <3>1. telling \in [SubHals -> T]
      BY DEF TypeOK
    <3>2. subHalIndexIsClear(handle) => x \in T
      BY <2>2
    <3>3. \/ telling' = telling
          \/ subHalIndexIsClear(handle) /\ telling' = [telling EXCEPT ![s] = x]
      BY <1>18 DEF Connect
    <3> HIDE SubHalControlAssumption DEF T, x
    <3>4. telling' \in [SubHals -> T]
      BY <3>1, <3>2, <3>3
    <3> QED
      BY <3>4 DEF T
  <2> QED
    BY <1>18, <2>3, <2>4, <2>5 DEF Connect, TypeOK, sensors, modes, binder
<1>19. ASSUME NEW s \in SubHals, NEW handle \in DynamicHandles[s], Disconnect(s, handle)
       PROVE  TypeOK'
  <2>1. handle \in Int
    OBVIOUS
  <2>2. subHalIndexIsClear(handle) => setSubHalIndex(handle, s) \in Int
    BY <2>1, IndexFound
  <2>3. connected' \in [SubHals -> SUBSET Int]
    BY <1>19 DEF Disconnect, TypeOK
  <2>4. mDynamicSensors' \subseteq Int
    BY <1>19 DEF Disconnect, TypeOK
  <2>5. telling' \in [SubHals -> [what : {"nothing", "new", "gone"}, handle : Int]]
    <3> DEFINE T == [what : {"nothing", "new", "gone"}, handle : Int]
               x == [what |-> "gone", handle |-> setSubHalIndex(handle, s)]
    <3>1. telling \in [SubHals -> T]
      BY DEF TypeOK
    <3>2. subHalIndexIsClear(handle) => x \in T
      BY <2>2
    <3>3. \/ telling' = telling
          \/ subHalIndexIsClear(handle) /\ telling' = [telling EXCEPT ![s] = x]
      BY <1>19 DEF Disconnect
    <3> HIDE SubHalControlAssumption DEF T, x
    <3>4. telling' \in [SubHals -> T]
      BY <3>1, <3>2, <3>3
    <3> QED
      BY <3>4 DEF T
  <2>6. active' \subseteq (SubHals \X (0 .. HandleBase - 1))
    BY <1>19 DEF Disconnect, TypeOK
  <2>7. overtaken' \subseteq Int
    BY <1>19 DEF Disconnect, TypeOK
  <2> QED
    BY <1>19, <2>3, <2>4, <2>5, <2>6, <2>7 DEF Disconnect, TypeOK, sensors, modes, binder
<1>20. ASSUME NEW s \in SubHals, Tell(s)
       PROVE  TypeOK'
  <2>1. telling[s].handle \in Int
    BY DEF TypeOK
  <2>2. known' \subseteq Int
    BY <1>20, <2>1 DEF Tell, TypeOK
  <2>3. telling' \in [SubHals -> [what : {"nothing", "new", "gone"}, handle : Int]]
    BY <1>20 DEF Tell, TypeOK, Nothing
  <2>4. overtaken' \subseteq Int
    BY <1>20, <2>1 DEF Tell, TypeOK
  <2> QED
    BY <1>20, <2>2, <2>3, <2>4 DEF Tell, TypeOK, sensors, modes, binder
<1>21. CASE UNCHANGED vars
  BY <1>21 DEF vars, TypeOK, sensors, modes, binder, dynamic
<1> QED
  BY <1>1, <1>2, <1>3, <1>4, <1>5, <1>5a, <1>6, <1>7, <1>8, <1>9, <1>10, <1>11,
     <1>12, <1>13, <1>14, <1>14a, <1>15, <1>16, <1>17, <1>18, <1>19, <1>20, <1>21 DEF Next

-----------------------------------------------------------------------------
(* Modes.                                                                  *)

\* Every step preserves ModesFollow: only the calls of the framework move modes.
LEMMA ModesStep ==
  ASSUME TypeOK, ModesFollow, [Next]_vars
  PROVE  ModesFollow'
<1>1. /\ NumSubHals \in Nat /\ next \in Nat /\ refuser \in Nat
      /\ mode \in [SubHals -> Modes]
      /\ \A s \in SubHals : s \in Nat /\ s < NumSubHals
  BY SubHalControlAssumption DEF TypeOK, SubHals
<1>2. CASE UNCHANGED <<modes, binder>>
  BY <1>2 DEF ModesFollow, modes, binder
<1>3. ASSUME NEW m \in Modes, SetOperationMode(m)
      PROVE  ModesFollow'
  BY <1>1, <1>3 DEF SetOperationMode, ModesFollow, modes
<1>4. CASE SubHalSetsMode
  <2>1. \A s \in SubHals : mode'[s] = IF s = next THEN want ELSE mode[s]
    BY <1>1, <1>4 DEF SubHalSetsMode
  <2> QED
    BY <1>1, <1>4, <2>1 DEF SubHalSetsMode, ModesFollow
<1>5. CASE ModeIsSet
  <2>1. \A s \in SubHals : s < next
    BY <1>1, <1>5 DEF ModeIsSet, SubHals
  <2> QED
    BY <1>5, <2>1 DEF ModeIsSet, Return, ModesFollow
<1>6. CASE SubHalRefusesMode
  BY <1>1, <1>6 DEF SubHalRefusesMode, ModesFollow, modes
<1>7. CASE SubHalSetBack
  <2>1. CASE strayed'
    BY <1>7, <2>1 DEF SubHalSetBack, ModesFollow
  <2>2. CASE ~strayed'
    <3>1. mode' = [mode EXCEPT ![next] = mCurrentOperationMode] /\ ~strayed
      BY <1>7, <2>2 DEF SubHalSetBack
    <3>2. \A s \in SubHals :
             mode'[s] = IF s = next THEN mCurrentOperationMode ELSE mode[s]
      BY <1>1, <3>1
    <3> QED
      BY <1>1, <1>7, <3>1, <3>2 DEF SubHalSetBack, ModesFollow
  <2> QED
    BY <2>1, <2>2
<1>8. CASE ModeIsRefused
  <2>1. \A s \in SubHals : s < next \/ s >= refuser
    BY <1>1, <1>8 DEF ModeIsRefused
  <2> QED
    BY <1>8, <2>1 DEF ModeIsRefused, Return, ModesFollow, modes
<1>9. CASE DisableAllSensors
  BY <1>9 DEF DisableAllSensors, ModesFollow, modes
<1>10. CASE ClearDynamicSensors
  BY <1>10 DEF ClearDynamicSensors, ModesFollow, modes
<1>10a. CASE SetDynamicSensorsCallback
  BY <1>1, <1>10a DEF SetDynamicSensorsCallback, ModesFollow, modes
<1>11. CASE InitializeSubHal
  <2>1. \A s \in SubHals : mode'[s] = IF s = next THEN "NORMAL" ELSE mode[s]
    BY <1>1, <1>11 DEF InitializeSubHal
  <2> QED
    BY <1>1, <1>11, <2>1 DEF InitializeSubHal, ModesFollow
<1>12. CASE Initialized
  <2>1. \A s \in SubHals : s < next
    BY <1>1, <1>12 DEF Initialized, SubHals
  <2> QED
    BY <1>12, <2>1 DEF Initialized, Return, ModesFollow
<1>13. CASE SubHalFailsInitialize
  BY <1>13 DEF SubHalFailsInitialize, Return, ModesFollow
<1> QED
  BY <1>2, <1>3, <1>4, <1>5, <1>6, <1>7, <1>8, <1>9, <1>10,
     <1>10a, <1>11, <1>12, <1>13
  DEF Next, vars, LoadSensor, LoadNextSubHal, Activate, Fire, ConfigDirectReport,
      StopDirectReport, StopDirectReports, Connect, Disconnect, Tell

-----------------------------------------------------------------------------
(* Direct channels.                                                        *)

\* Every step preserves DirectOwned: the sensors and the owner are only loaded,
\* and once there is an owner it stays.
LEMMA OwnerStep ==
  ASSUME TypeOK, DirectOwned, [Next]_vars
  PROVE  DirectOwned'
<1>1. CASE LoadSensor
  <2> DEFINE s == loading.sub
             info == lists[s][loading.k]
             new == [handle |-> setSubHalIndex(info.handle, s),
                     direct |-> OwnedDirect(s, info.direct)]
  <2>1. s \in SubHals /\ info.handle \in Int /\ info.direct \in BOOLEAN
    <3>1. s \in SubHals /\ loading.k \in DOMAIN lists[s]
      BY <1>1 DEF LoadSensor
    <3>2. lists[s] \in Seq(SensorInfo)
      BY <3>1, SubHalControlAssumption DEF TypeOK
    <3>3. info \in SensorInfo
      BY <3>1, <3>2
    <3> QED
      BY <3>1, <3>3 DEF SensorInfo
  <2>2. CASE subHalIndexIsClear(info.handle)
    <3>1. extractSubHalIndex(new.handle) = s
      BY <2>1, <2>2, IndexFound
    <3>2. mSensors' \subseteq mSensors \cup {new}
      BY <1>1, <2>2 DEF LoadSensor
    <3>3. mDirectChannelSubHal' = IF mDirectChannelSubHal = NoSubHal /\ info.direct
                                  THEN s ELSE mDirectChannelSubHal
      BY <1>1, <2>2 DEF LoadSensor
    <3>4. new.direct = (info.direct /\ (mDirectChannelSubHal = NoSubHal
                                         \/ mDirectChannelSubHal = s))
      BY DEF OwnedDirect
    <3>5. NoSubHal \notin SubHals
      BY SubHalControlAssumption DEF SubHals, NoSubHal
    <3> HIDE DEF new, s, info
    <3>6. ASSUME NEW x \in mSensors'
          PROVE  /\ extractSubHalIndex(x.handle) \in SubHals
                 /\ x.direct => extractSubHalIndex(x.handle) = mDirectChannelSubHal'
      <4>1. CASE x = new
        BY <2>1, <3>1, <3>3, <3>4, <4>1
      <4>2. CASE x \in mSensors
        BY <3>3, <3>5, <4>2 DEF DirectOwned
      <4> QED
        BY <3>2, <4>1, <4>2
    <3> QED
      BY <3>6 DEF DirectOwned
  <2>3. CASE ~ subHalIndexIsClear(info.handle)
    BY <1>1, <2>3 DEF LoadSensor, DirectOwned
  <2> QED
    BY <2>2, <2>3
<1>2. CASE UNCHANGED <<mSensors, mDirectChannelSubHal>>
  BY <1>2 DEF DirectOwned
<1>3. CASE UNCHANGED sensors
  BY <1>2, <1>3 DEF sensors
<1> QED
  BY <1>1, <1>2, <1>3
  DEF Next, vars, LoadNextSubHal, Activate, Fire, ConfigDirectReport,
      StopDirectReport, StopDirectReports, SetOperationMode, SubHalSetsMode,
      ModeIsSet,
      SubHalRefusesMode, SubHalSetBack, ModeIsRefused, DisableAllSensors,
      ClearDynamicSensors, SetDynamicSensorsCallback, InitializeSubHal, Initialized,
      SubHalFailsInitialize,
      Connect, Disconnect, Tell

\* Every step preserves DirectReportsNamed: the part of the handle that is
\* passed on to the owner names the sensor, because the sensor is the owner's.
LEMMA ReportsStep ==
  ASSUME TypeOK, DirectOwned, DirectReportsNamed, ReportsLoaded, [Next]_vars
  PROVE  DirectReportsNamed'
<1>1. ASSUME reporting' \subseteq reporting, mSensors' = mSensors
      PROVE  DirectReportsNamed'
  BY <1>1 DEF DirectReportsNamed, Named, extractSubHalIndex, clearSubHalIndex
<1>2. ASSUME NEW info \in mSensors, ConfigDirectReport(info)
      PROVE  DirectReportsNamed'
  <2>1. /\ info.direct
        /\ Named(info.handle) =
              <<mDirectChannelSubHal, clearSubHalIndex(info.handle)>>
    BY <1>2 DEF ConfigDirectReport, DirectOwned, Named
  <2>2. /\ reporting' = reporting \cup {Named(info.handle)}
        /\ mSensors' = mSensors
    BY <1>2, <2>1 DEF ConfigDirectReport, sensors
  <2> QED
    BY <2>1, <2>2 DEF DirectReportsNamed
<1>3. CASE LoadSensor
  <2>1. reporting' = {}
    BY <1>3 DEF LoadSensor, ReportsLoaded, Loaded
  <2> QED
    BY <2>1 DEF DirectReportsNamed
<1>4. CASE StopDirectReports \/ \E info \in mSensors : StopDirectReport(info)
  BY <1>1, <1>4 DEF StopDirectReports, StopDirectReport, sensors
<1>5. CASE UNCHANGED <<reporting, mSensors>>
  BY <1>1, <1>5
<1>6. CASE UNCHANGED <<reporting, sensors>>
  BY <1>1, <1>6 DEF sensors
<1> QED
  BY <1>2, <1>3, <1>4, <1>5, <1>6
  DEF Next, vars, LoadNextSubHal, Activate, Fire,
      SetOperationMode, SubHalSetsMode, ModeIsSet,
      SubHalRefusesMode, SubHalSetBack, ModeIsRefused, DisableAllSensors,
      ClearDynamicSensors, SetDynamicSensorsCallback, InitializeSubHal, Initialized,
      SubHalFailsInitialize,
      Connect, Disconnect, Tell

\* Every step preserves ReportsLoaded: the loading is never begun again.
LEMMA LoadedStep ==
  ASSUME TypeOK, ReportsLoaded, [Next]_vars
  PROVE  ReportsLoaded'
<1>1. CASE LoadSensor \/ LoadNextSubHal
  BY <1>1 DEF LoadSensor, LoadNextSubHal, ReportsLoaded, Loaded
<1>2. CASE \/ \E info \in mSensors : ConfigDirectReport(info) \/ StopDirectReport(info)
           \/ StopDirectReports
  BY <1>2 DEF ConfigDirectReport, StopDirectReport, StopDirectReports, sensors,
              ReportsLoaded, Loaded
<1>3. CASE UNCHANGED <<sensors, reporting>>
  BY <1>3 DEF sensors, ReportsLoaded, Loaded
<1> QED
  BY <1>1, <1>2, <1>3
  DEF Next, vars, Activate, Fire, SetOperationMode, SubHalSetsMode, ModeIsSet,
      SubHalRefusesMode, SubHalSetBack, ModeIsRefused, DisableAllSensors,
      ClearDynamicSensors, SetDynamicSensorsCallback, InitializeSubHal, Initialized,
      SubHalFailsInitialize, Connect, Disconnect, Tell

-----------------------------------------------------------------------------
(* Dynamic sensors.                                                        *)

\* What the three facts about dynamic sensors depend on.
Dynamics == TellingOwn /\ TellingTrue /\ DifferenceTold

\* A sub-HAL's thread about to tell of its sensor h, of which nobody else can be
\* telling, with h now in mDynamicSensors or no longer: both kinds of report.
LEMMA ReportStep ==
  ASSUME TypeOK, Dynamics, NEW s \in SubHals, NEW h \in Int, NEW w,
         extractSubHalIndex(h) = s,
         telling[s] = Nothing,
         telling' = [telling EXCEPT ![s] = [what |-> w, handle |-> h]],
         \/ w = "new" /\ mDynamicSensors' = mDynamicSensors \cup {h}
         \/ w = "gone" /\ mDynamicSensors' = mDynamicSensors \ {h},
         KnownSoon' = KnownSoon, overtaken \ {h} \subseteq overtaken'
  PROVE  Dynamics'
<1>1. \A t \in SubHals : telling'[t] = IF t = s THEN [what |-> w, handle |-> h]
                                              ELSE telling[t]
  BY DEF TypeOK
<1>2. telling'[s] # Nothing /\ telling'[s].what = w /\ telling'[s].handle = h
  BY <1>1 DEF Nothing
<1>3. TellingOwn'
  <2> SUFFICES ASSUME NEW t \in SubHals, telling'[t] # Nothing
               PROVE  /\ telling'[t].what \in {"new", "gone"}
                      /\ extractSubHalIndex(telling'[t].handle) = t
    BY DEF TellingOwn, extractSubHalIndex
  <2>1. CASE t = s
    BY <1>2, <2>1
  <2>2. CASE t # s
    BY <1>1, <2>2 DEF Dynamics, TellingOwn
  <2> QED
    BY <2>1, <2>2
<1>4. TellingTrue'
  <2> SUFFICES ASSUME NEW t \in SubHals, telling'[t] # Nothing,
                      telling'[t].handle \notin overtaken'
               PROVE  telling'[t].what = "new" <=>
                          telling'[t].handle \in mDynamicSensors'
    BY DEF TellingTrue
  <2>1. CASE t = s
    BY <1>2, <2>1
  <2>2. CASE t # s
    <3>1. telling[t] # Nothing /\ telling'[t] = telling[t]
      BY <1>1, <2>2
    <3>2. telling[t].handle # h
      BY <2>2, <3>1 DEF Dynamics, TellingOwn
    <3>3. telling[t].handle \notin overtaken
      BY <3>1, <3>2
    <3>4. telling[t].what = "new" <=> telling[t].handle \in mDynamicSensors
      BY <3>1, <3>3 DEF Dynamics, TellingTrue
    <3> QED
      BY <3>1, <3>2, <3>4
  <2> QED
    BY <2>1, <2>2
<1>5. DifferenceTold'
  <2> SUFFICES ASSUME NEW g \in Int \ overtaken',
                      g \in KnownSoon <=> g \notin mDynamicSensors'
               PROVE  \E t \in SubHals : telling'[t] # Nothing /\ telling'[t].handle = g
    BY DEF DifferenceTold
  <2>1. CASE g = h
    BY <1>2, <2>1
  <2>2. CASE g # h
    <3>1. g \notin overtaken /\ (g \in KnownSoon <=> g \notin mDynamicSensors)
      BY <2>2
    <3>2. PICK t \in SubHals : telling[t] # Nothing /\ telling[t].handle = g
      BY <3>1 DEF Dynamics, DifferenceTold
    <3>3. t # s
      BY <3>2
    <3> QED
      BY <1>1, <3>2, <3>3
  <2> QED
    BY <2>1, <2>2
<1> QED
  BY <1>3, <1>4, <1>5 DEF Dynamics

\* The framework's callback settles the difference that it was about.
LEMMA TellStep ==
  ASSUME TypeOK, Dynamics, NEW s \in SubHals, Tell(s)
  PROVE  Dynamics'
<1>1. /\ \A t \in SubHals : telling'[t] = IF t = s THEN Nothing ELSE telling[t]
      /\ telling[s] # Nothing
      /\ overtaken \subseteq overtaken' /\ mDynamicSensors' = mDynamicSensors
      /\ call' = call
  BY DEF Tell, TypeOK, binder
<1> DEFINE h == telling[s].handle
<1>2. TellingOwn'
  BY <1>1 DEF Dynamics, TellingOwn, extractSubHalIndex
<1>3. TellingTrue'
  BY <1>1 DEF Dynamics, TellingTrue
<1>4. DifferenceTold'
  <2> SUFFICES ASSUME NEW g \in Int \ overtaken',
                      g \in KnownSoon' <=> g \notin mDynamicSensors
               PROVE  \E t \in SubHals : telling'[t] # Nothing /\ telling'[t].handle = g
    BY <1>1 DEF DifferenceTold
  <2>1. /\ telling[s].what = "new" \/ telling[s].what = "gone"
        /\ h \notin overtaken =>
              (telling[s].what = "new" <=> h \in mDynamicSensors)
    BY <1>1 DEF Dynamics, TellingOwn, TellingTrue
  <2>2. known' = IF telling[s].what = "new" THEN known \cup {h} ELSE known \ {h}
    BY DEF Tell
  <2>3. call = "cleared" /\ telling[s].what = "new" => h \in overtaken'
    BY DEF Tell
  <2> HIDE DEF h
  <2>4. g # h
    <3>1. CASE call = "cleared"
      BY <1>1, <2>1, <2>3, <3>1 DEF KnownSoon
    <3>2. CASE call # "cleared"
      BY <1>1, <2>1, <2>2, <3>2 DEF KnownSoon
    <3> QED
      BY <3>1, <3>2
  <2>5. g \notin overtaken /\ (g \in KnownSoon <=> g \notin mDynamicSensors)
    BY <1>1, <2>2, <2>4 DEF KnownSoon
  <2>6. PICK t \in SubHals : telling[t] # Nothing /\ telling[t].handle = g
    BY <2>5 DEF Dynamics, DifferenceTold
  <2>7. t # s
    BY <2>4, <2>6 DEF h
  <2> QED
    BY <1>1, <2>6, <2>7
<1> QED
  BY <1>2, <1>3, <1>4 DEF Dynamics

\* Every step preserves what is known of dynamic sensors.
LEMMA DynamicsStep ==
  ASSUME TypeOK, Dynamics, [Next]_vars
  PROVE  Dynamics'
<1>1. ASSUME UNCHANGED <<mDynamicSensors, telling, overtaken>>, KnownSoon' = KnownSoon
      PROVE  Dynamics'
  BY <1>1 DEF Dynamics, TellingOwn, TellingTrue, DifferenceTold, extractSubHalIndex
<1>2. CASE ClearDynamicSensors
  <2>1. /\ telling' = telling /\ mDynamicSensors' = {} /\ KnownSoon' = {}
        /\ \A s \in SubHals : telling[s].what = "new" => telling[s].handle \in overtaken'
    BY <1>2 DEF ClearDynamicSensors, BeingTold, KnownSoon
  <2> QED
    BY <2>1 DEF Dynamics, TellingOwn, TellingTrue, DifferenceTold, extractSubHalIndex
<1>2a. CASE SetDynamicSensorsCallback
  BY <1>1, <1>2a DEF SetDynamicSensorsCallback, KnownSoon
<1>3. ASSUME NEW s \in SubHals, NEW handle \in DynamicHandles[s], Connect(s, handle)
      PROVE  Dynamics'
  <2>1. CASE subHalIndexIsClear(handle)
    <3> DEFINE h == setSubHalIndex(handle, s)
    <3>1. handle \in Int
      BY SubHalControlAssumption
    <3>2. h \in Int /\ extractSubHalIndex(h) = s
      BY <2>1, <3>1, IndexFound
    <3>3. /\ telling[s] = Nothing
          /\ mDynamicSensors' = mDynamicSensors \cup {h}
          /\ telling' = [telling EXCEPT ![s] = [what |-> "new", handle |-> h]]
          /\ KnownSoon' = KnownSoon /\ overtaken \ {h} \subseteq overtaken'
      BY <1>3, <2>1 DEF Connect, KnownSoon, binder
    <3> HIDE DEF h
    <3> QED
      BY <3>2, <3>3, ReportStep
  <2>2. CASE ~ subHalIndexIsClear(handle)
    BY <1>1, <1>3, <2>2 DEF Connect, KnownSoon, binder
  <2> QED
    BY <2>1, <2>2
<1>4. ASSUME NEW s \in SubHals, NEW handle \in DynamicHandles[s], Disconnect(s, handle)
      PROVE  Dynamics'
  <2> DEFINE h == setSubHalIndex(handle, s)
  <2>1. CASE subHalIndexIsClear(handle) /\ h \in mDynamicSensors
    <3>1. handle \in Int
      BY SubHalControlAssumption
    <3>2. h \in Int /\ extractSubHalIndex(h) = s
      BY <2>1, <3>1, IndexFound
    <3>3. /\ telling[s] = Nothing
          /\ mDynamicSensors' = mDynamicSensors \ {h}
          /\ telling' = [telling EXCEPT ![s] = [what |-> "gone", handle |-> h]]
          /\ KnownSoon' = KnownSoon /\ overtaken \ {h} \subseteq overtaken'
      BY <1>4, <2>1 DEF Disconnect, KnownSoon, binder
    <3> HIDE DEF h
    <3> QED
      BY <3>2, <3>3, ReportStep
  <2>2. CASE ~ (subHalIndexIsClear(handle) /\ h \in mDynamicSensors)
    BY <1>1, <1>4, <2>2 DEF Disconnect, KnownSoon, binder
  <2> QED
    BY <2>1, <2>2
<1>5. ASSUME NEW s \in SubHals, Tell(s)
      PROVE  Dynamics'
  BY <1>5, TellStep
<1>6. ASSUME UNCHANGED dynamic, call # "cleared", call' # "cleared"
      PROVE  Dynamics'
  BY <1>1, <1>6 DEF dynamic, KnownSoon
<1>7. CASE UNCHANGED <<dynamic, call>>
  BY <1>1, <1>7 DEF dynamic, KnownSoon
<1> QED
  BY <1>2, <1>2a, <1>3, <1>4, <1>5, <1>6, <1>7
  DEF Next, vars, LoadSensor, LoadNextSubHal, Activate, Fire, ConfigDirectReport,
      StopDirectReport, StopDirectReports, SetOperationMode, SubHalSetsMode,
      ModeIsSet, SubHalRefusesMode, SubHalSetBack, ModeIsRefused, DisableAllSensors,
      InitializeSubHal, Initialized, SubHalFailsInitialize, Return, binder

-----------------------------------------------------------------------------
(* Active sensors.                                                         *)

\* Loading takes no handle away: a sensor that replaces another has its handle.
LEMMA LoadOffers ==
  ASSUME LoadSensor
  PROVE  Offered \subseteq Offered'
<1> DEFINE s == loading.sub
           info == lists[s][loading.k]
           h == setSubHalIndex(info.handle, s)
<1>1. CASE subHalIndexIsClear(info.handle)
  <2>1. PICK d : mSensors' = {other \in mSensors : other.handle # h} \cup
                                 {[handle |-> h, direct |-> d]}
    BY <1>1 DEF LoadSensor
  <2> HIDE DEF h
  <2>2. ASSUME NEW other \in mSensors
        PROVE  other.handle \in Offered'
    <3>1. CASE other.handle = h
      <4>1. [handle |-> h, direct |-> d] \in mSensors'
        BY <2>1
      <4> QED
        BY <3>1, <4>1 DEF Offered
    <3>2. CASE other.handle # h
      <4>1. other \in mSensors'
        BY <2>1, <3>2
      <4> QED
        BY <4>1 DEF Offered
    <3> QED
      BY <3>1, <3>2
  <2> QED
    BY <2>2 DEF Offered
<1>2. CASE ~ subHalIndexIsClear(info.handle)
  BY <1>2 DEF LoadSensor, Offered
<1> QED
  BY <1>1, <1>2

\* Every step preserves OfferedSoFar: what has been loaded stays offered.
LEMMA OfferedStep ==
  ASSUME TypeOK, OfferedSoFar, [Next]_vars
  PROVE  OfferedSoFar'
<1> DEFINE Behind(s, k, pos) == s < pos.sub \/ (s = pos.sub /\ k < pos.k)
           Clear(s, k) == subHalIndexIsClear(lists[s][k].handle)
           Full(s, k) == setSubHalIndex(lists[s][k].handle, s)
<1>0. /\ loading.sub \in Nat /\ loading.k \in Nat
      /\ \A s \in SubHals : s \in Nat /\ lists[s] \in Seq(SensorInfo)
      /\ \A s \in SubHals : \A k \in DOMAIN lists[s] : k \in Nat /\ k >= 1
  <2>1. loading.sub \in Nat /\ loading.k \in Nat
    BY DEF TypeOK
  <2>2. \A s \in SubHals : s \in Nat
    BY SubHalControlAssumption DEF SubHals
  <2>3. \A s \in SubHals : lists[s] \in Seq(SensorInfo)
    BY SubHalControlAssumption DEF TypeOK
  <2>4. \A s \in SubHals : \A k \in DOMAIN lists[s] : k \in Nat /\ k >= 1
    BY <2>3
  <2> QED
    BY <2>1, <2>2, <2>3, <2>4
<1>1. CASE LoadSensor
  <2> DEFINE s0 == loading.sub
             k0 == loading.k
  <2>1. /\ s0 \in SubHals /\ k0 \in DOMAIN lists[s0]
        /\ loading'.sub = s0 /\ loading'.k = k0 + 1 /\ lists' = lists
    BY <1>1 DEF LoadSensor, TypeOK
  <2>2. Clear(s0, k0) => Full(s0, k0) \in Offered'
    <3> SUFFICES ASSUME Clear(s0, k0)
                 PROVE  Full(s0, k0) \in Offered'
      OBVIOUS
    <3>1. PICK d : [handle |-> Full(s0, k0), direct |-> d] \in mSensors'
      BY <1>1 DEF LoadSensor
    <3> QED
      BY <3>1 DEF Offered
  <2>3. Offered \subseteq Offered'
    BY <1>1, LoadOffers
  <2>4. ASSUME NEW s \in SubHals, NEW k \in DOMAIN lists[s],
               Behind(s, k, loading'), Clear(s, k)
        PROVE  Full(s, k) \in Offered'
    <3>1. CASE s = s0 /\ k = k0
      BY <2>2, <2>4, <3>1
    <3>2. CASE ~ (s = s0 /\ k = k0)
      <4>1. Behind(s, k, loading)
        BY <1>0, <2>1, <2>4, <3>2
      <4> QED
        BY <2>3, <2>4, <4>1 DEF OfferedSoFar
    <3> QED
      BY <3>1, <3>2
  <2>5. loading'.k >= 1
    BY <1>0, <2>1
  <2> QED
    BY <2>1, <2>4, <2>5 DEF OfferedSoFar, subHalIndexIsClear, setSubHalIndex,
       extractSubHalIndex
<1>2. CASE LoadNextSubHal
  <2> DEFINE s0 == loading.sub
             k0 == loading.k
  <2>1. /\ s0 \in SubHals /\ k0 \notin DOMAIN lists[s0] /\ k0 >= 1
        /\ loading'.sub = s0 + 1 /\ loading'.k = 1 /\ lists' = lists
        /\ mSensors' = mSensors
    BY <1>2 DEF LoadNextSubHal, OfferedSoFar
  <2>2. \A k \in DOMAIN lists[s0] : k < k0
    <3>1. DOMAIN lists[s0] = 1 .. Len(lists[s0]) /\ Len(lists[s0]) \in Nat
      BY <1>0, <2>1
    <3> HIDE DEF s0, k0
    <3>2. k0 \in Nat
      BY <1>0 DEF k0
    <3> QED
      BY <2>1, <3>1, <3>2
  <2>3. ASSUME NEW s \in SubHals, NEW k \in DOMAIN lists[s],
               Behind(s, k, loading'), Clear(s, k)
        PROVE  Full(s, k) \in Offered
    <3>1. Behind(s, k, loading)
      BY <1>0, <2>1, <2>2, <2>3
    <3> QED
      BY <2>3, <3>1 DEF OfferedSoFar
  <2>4. Offered' = Offered
    BY <2>1 DEF Offered
  <2> QED
    BY <2>1, <2>3, <2>4 DEF OfferedSoFar, subHalIndexIsClear, setSubHalIndex,
       extractSubHalIndex
<1>3. CASE UNCHANGED sensors
  <2>1. lists' = lists /\ loading' = loading /\ Offered' = Offered
    BY <1>3 DEF sensors, Offered
  <2> QED
    BY <2>1 DEF OfferedSoFar, subHalIndexIsClear, setSubHalIndex, extractSubHalIndex
<1> QED
  BY <1>1, <1>2, <1>3
  DEF Next, vars, Activate, Fire, ConfigDirectReport,
      StopDirectReport, StopDirectReports, SetOperationMode, SubHalSetsMode,
      ModeIsSet,
      SubHalRefusesMode, SubHalSetBack, ModeIsRefused, DisableAllSensors,
      ClearDynamicSensors, SetDynamicSensorsCallback, InitializeSubHal, Initialized,
      SubHalFailsInitialize,
      Connect, Disconnect, Tell

\* Every step preserves GoneIsGone: a thread that has a report to tell reports
\* nothing else before.
LEMMA GoneStep ==
  ASSUME TypeOK, GoneIsGone, [Next]_vars
  PROVE  GoneIsGone'
<1> USE DEF GoneIsGone, clearSubHalIndex
<1>1. CASE UNCHANGED <<connected, telling>>
  BY <1>1
<1>2. ASSUME NEW s \in SubHals, NEW handle \in DynamicHandles[s], Connect(s, handle)
      PROVE  GoneIsGone'
  <2>1. connected' = [connected EXCEPT ![s] = @ \cup {handle}]
    BY <1>2 DEF Connect
  <2>2. \/ telling' = telling
        \/ telling' = [telling EXCEPT ![s] =
                          [what |-> "new", handle |-> setSubHalIndex(handle, s)]]
    BY <1>2 DEF Connect
  <2>3. telling[s].what = "nothing"
    BY <1>2 DEF Connect, Nothing
  <2>4. telling'[s].what # "gone"
    BY <2>2, <2>3 DEF TypeOK
  <2> QED
    BY <2>1, <2>2, <2>4 DEF TypeOK
<1>3. ASSUME NEW s \in SubHals, NEW handle \in DynamicHandles[s], Disconnect(s, handle)
      PROVE  GoneIsGone'
  <2> DEFINE h == setSubHalIndex(handle, s)
  <2>1. connected' = [connected EXCEPT ![s] = @ \ {handle}]
    BY <1>3 DEF Disconnect
  <2>2. telling[s].what = "nothing"
    BY <1>3 DEF Disconnect, Nothing
  <2>3. \/ telling' = telling
        \/ /\ subHalIndexIsClear(handle)
           /\ telling' = [telling EXCEPT ![s] = [what |-> "gone", handle |-> h]]
    BY <1>3 DEF Disconnect
  <2>4. subHalIndexIsClear(handle) => clearSubHalIndex(h) = handle
    <3>1. handle \in Int
      BY SubHalControlAssumption
    <3>2. subHalIndexIsClear(handle) => Named(h) = <<s, handle>>
      BY <3>1, HandleParts
    <3> QED
      BY <3>2 DEF Named
  <2> HIDE DEF h
  <2>5. telling'[s].what = "gone" => clearSubHalIndex(telling'[s].handle) \notin connected'[s]
    BY <2>1, <2>2, <2>3, <2>4 DEF TypeOK
  <2> QED
    BY <2>1, <2>3, <2>5 DEF TypeOK
<1>4. ASSUME NEW s \in SubHals, Tell(s)
      PROVE  GoneIsGone'
  BY <1>4 DEF Tell, Nothing, TypeOK
<1>5. CASE UNCHANGED dynamic
  BY <1>1, <1>5 DEF dynamic
<1> QED
  BY <1>1, <1>2, <1>3, <1>4, <1>5
  DEF Next, vars, LoadSensor, LoadNextSubHal, Activate, Fire, ConfigDirectReport,
      StopDirectReport, StopDirectReports, SetOperationMode, SubHalSetsMode,
      ModeIsSet,
      SubHalRefusesMode, SubHalSetBack, ModeIsRefused, DisableAllSensors,
      ClearDynamicSensors, SetDynamicSensorsCallback, InitializeSubHal, Initialized,
      SubHalFailsInitialize

\* A sensor that activate reaches is one that initialize would disable, or was
\* overtaken.
LEMMA ActivateReaches ==
  ASSUME IInv,
         NEW h \in Offered \cup known \cup OddHandles, NEW enabled,
         Activate(h, enabled)
  PROVE  Named(h) \in Disabled \cup Overtaken
<1> DEFINE s == extractSubHalIndex(h)
           c == clearSubHalIndex(h)
<1>1. h \in Int
  <2>1. \A info \in mSensors : info.handle \in Int
    BY DEF IInv, TypeOK, SensorInfo
  <2>2. Offered \subseteq Int
    BY <2>1 DEF Offered
  <2>3. known \subseteq Int /\ OddHandles \subseteq Int
    BY SubHalControlAssumption DEF IInv, TypeOK
  <2> QED
    BY <2>2, <2>3
<1>2. s \in SubHals
  BY DEF Activate, isSubHalIndexValid
<1>3. setSubHalIndex(c, s) = h /\ subHalIndexIsClear(c)
  BY <1>1, HandleParts
<1>4. CASE \E k \in DOMAIN lists[s] : lists[s][k].handle = c
  <2>1. s < loading.sub
    <3>1. loading.sub \in Nat /\ loading.sub \notin SubHals
      BY DEF Activate, Loaded, IInv, TypeOK
    <3>2. s \in 0 .. NumSubHals - 1
      BY <1>2 DEF SubHals
    <3> HIDE DEF s
    <3> QED
      BY <3>1, <3>2, SubHalControlAssumption DEF SubHals
  <2>2. h \in Offered
    BY <1>2, <1>3, <1>4, <2>1 DEF IInv, OfferedSoFar
  <2> QED
    BY <2>2 DEF Disabled
<1>5. CASE c \in connected[s]
  <2>1. c \in DynamicHandles[s]
    BY <1>2, <1>5 DEF IInv, GoneIsGone
  <2>2. h \notin OddHandles
    BY <1>2, <1>3, <2>1, OddHandlesAssumption
  <2>3. h \in known => h \in mDynamicSensors \cup overtaken
    <3> SUFFICES ASSUME h \in known, h \notin mDynamicSensors, h \notin overtaken
                 PROVE  FALSE
      OBVIOUS
    <3>0. h \in KnownSoon
      BY DEF Activate, KnownSoon
    <3>1. PICK t \in SubHals : telling[t] # Nothing /\ telling[t].handle = h
      BY <1>1, <3>0 DEF IInv, DifferenceTold
    <3>2. t = s /\ telling[t].what = "gone"
      BY <3>1 DEF IInv, TellingOwn, TellingTrue
    <3> QED
      BY <1>2, <1>5, <3>1, <3>2 DEF IInv, GoneIsGone
  <2> QED
    BY <2>2, <2>3 DEF Disabled, Overtaken
<1> QED
  BY <1>4, <1>5 DEF Activate, Has

\* No sensor leaves Overtaken while no handle leaves overtaken.
LEMMA OvertakenGrows ==
  ASSUME overtaken \subseteq overtaken'
  PROVE  Overtaken \subseteq Overtaken'
BY DEF Overtaken, Named, extractSubHalIndex, clearSubHalIndex

\* Every step preserves that active sensors are listed, and that there are none
\* while initialize is under way.
LEMMA ActiveStep ==
  ASSUME IInv, [Next]_vars
  PROVE  ActiveListed' /\ InactiveDuringInitialize'
<1>0. ActiveListed /\ InactiveDuringInitialize
  BY DEF IInv
<1>1. ASSUME overtaken \subseteq overtaken', UNCHANGED call,
             active' \subseteq active, Disabled \subseteq Disabled'
      PROVE  ActiveListed' /\ InactiveDuringInitialize'
  BY <1>0, <1>1, OvertakenGrows
  DEF ActiveListed, InactiveDuringInitialize, Overtaken
<1>2. ASSUME Offered \subseteq Offered', mDynamicSensors \subseteq mDynamicSensors'
      PROVE  Disabled \subseteq Disabled'
  BY <1>2 DEF Disabled, Named, extractSubHalIndex, clearSubHalIndex
<1>2a. ASSUME mSensors' = mSensors
       PROVE  Offered' = Offered
  BY <1>2a DEF Offered
<1>3. CASE LoadSensor
  BY <1>1, <1>2, <1>3, LoadOffers DEF LoadSensor, dynamic, binder
<1>4. CASE LoadNextSubHal
  BY <1>1, <1>2, <1>2a, <1>4 DEF LoadNextSubHal, dynamic, binder
<1>5. ASSUME NEW h \in Offered \cup known \cup OddHandles, NEW enabled \in BOOLEAN,
             Activate(h, enabled)
      PROVE  ActiveListed' /\ InactiveDuringInitialize'
  <2>1. Named(h) \in Disabled \cup Overtaken
    BY <1>5, ActivateReaches
  <2>2. Disabled \subseteq Disabled'
    BY <1>2, <1>2a, <1>5 DEF Activate, sensors, dynamic
  <2>3. active' \subseteq active \cup {Named(h)}
    BY <1>5 DEF Activate
  <2>4. call' = "none" /\ overtaken' = overtaken
    BY <1>5 DEF Activate, binder, dynamic
  <2>5. Overtaken \subseteq Overtaken'
    BY <2>4, OvertakenGrows
  <2> QED
    BY <1>0, <2>1, <2>2, <2>3, <2>4, <2>5 DEF ActiveListed, InactiveDuringInitialize
<1>6. ASSUME NEW sensor \in active, Fire(sensor)
      PROVE  ActiveListed' /\ InactiveDuringInitialize'
  BY <1>1, <1>2, <1>2a, <1>6 DEF Fire, sensors, dynamic, binder
<1>7. ASSUME UNCHANGED <<sensors, active, dynamic>>,
             call' \in {"none", "mode", "back"} \/ call' = call
      PROVE  ActiveListed' /\ InactiveDuringInitialize'
  <2>1. /\ Disabled \subseteq Disabled' /\ active' = active
        /\ Overtaken \subseteq Overtaken'
    BY <1>2, <1>2a, <1>7, OvertakenGrows DEF sensors, dynamic
  <2> QED
    BY <1>0, <1>7, <2>1 DEF ActiveListed, InactiveDuringInitialize, Overtaken
<1>8. CASE DisableAllSensors
  <2>1. /\ Disabled \subseteq Disabled' /\ active' = active \ Disabled
        /\ Overtaken \subseteq Overtaken'
    BY <1>2, <1>2a, <1>8, OvertakenGrows DEF DisableAllSensors, sensors, dynamic
  <2> QED
    BY <1>0, <2>1 DEF ActiveListed, InactiveDuringInitialize, Overtaken
<1>9. CASE ClearDynamicSensors \/ SetDynamicSensorsCallback
  <2>1. /\ call \in {"disabled", "cleared"} /\ active' = active
        /\ overtaken \subseteq overtaken'
    BY <1>9 DEF ClearDynamicSensors, SetDynamicSensorsCallback
  <2>2. active \subseteq Overtaken /\ Overtaken \subseteq Overtaken'
    BY <1>0, <2>1, OvertakenGrows DEF InactiveDuringInitialize, Overtaken
  <2> QED
    BY <2>1, <2>2 DEF ActiveListed, InactiveDuringInitialize, Overtaken
<1>10. ASSUME NEW s \in SubHals, NEW handle \in DynamicHandles[s], Connect(s, handle)
       PROVE  ActiveListed' /\ InactiveDuringInitialize'
  <2>1. mDynamicSensors \subseteq mDynamicSensors'
    BY <1>10 DEF Connect
  <2> QED
    BY <1>1, <1>2, <1>2a, <1>10, <2>1 DEF Connect, sensors, binder
<1>11. ASSUME NEW s \in SubHals, NEW handle \in DynamicHandles[s], Disconnect(s, handle)
       PROVE  ActiveListed' /\ InactiveDuringInitialize'
  <2> DEFINE h == setSubHalIndex(handle, s)
  <2>1. active' = active \ {<<s, handle>>} /\ call' = call /\ mSensors' = mSensors
    BY <1>11 DEF Disconnect, binder, sensors
  <2>2. CASE UNCHANGED <<mDynamicSensors, overtaken>>
    BY <1>1, <1>2, <1>2a, <2>1, <2>2
  <2>3. CASE /\ subHalIndexIsClear(handle) /\ mDynamicSensors' = mDynamicSensors \ {h}
             /\ overtaken' = overtaken \ {h}
    <3>1. Named(h) = <<s, handle>>
      <4>1. handle \in Int
        BY SubHalControlAssumption
      <4> QED
        BY <2>3, <4>1, HandleParts
    <3> HIDE DEF h
    <3>2. Offered' = Offered
      BY <2>1 DEF Offered
    <3>3. ASSUME NEW x \in Disabled, x # <<s, handle>>
          PROVE  x \in Disabled'
      <4>1. PICK g \in Offered \cup mDynamicSensors : x = Named(g)
        BY DEF Disabled
      <4>2. g # h
        BY <3>1, <3>3, <4>1
      <4>3. g \in (Offered \cup mDynamicSensors)'
        BY <2>3, <3>2, <4>1, <4>2
      <4> QED
        BY <4>1, <4>3 DEF Disabled, Named, extractSubHalIndex, clearSubHalIndex
    <3>4. ASSUME NEW x \in Overtaken, x # <<s, handle>>
          PROVE  x \in Overtaken'
      <4>1. PICK g \in overtaken : x = Named(g)
        BY DEF Overtaken
      <4>2. g \in overtaken'
        BY <2>3, <3>1, <3>4, <4>1
      <4> QED
        BY <4>1, <4>2 DEF Overtaken, Named, extractSubHalIndex, clearSubHalIndex
    <3> QED
      BY <1>0, <2>1, <3>3, <3>4 DEF ActiveListed, InactiveDuringInitialize, Overtaken
  <2> QED
    BY <1>11, <2>2, <2>3 DEF Disconnect
<1>12. ASSUME NEW s \in SubHals, Tell(s)
       PROVE  ActiveListed' /\ InactiveDuringInitialize'
  BY <1>1, <1>2, <1>2a, <1>12 DEF Tell, sensors, binder
<1>13. CASE UNCHANGED vars
  BY <1>7, <1>13 DEF vars, binder
<1>14. CASE \/ \E info \in mSensors : ConfigDirectReport(info) \/ StopDirectReport(info)
            \/ StopDirectReports
            \/ \E m \in Modes : SetOperationMode(m)
            \/ SubHalSetsMode \/ ModeIsSet
            \/ SubHalRefusesMode \/ SubHalSetBack \/ ModeIsRefused
            \/ InitializeSubHal \/ Initialized \/ SubHalFailsInitialize
  BY <1>7, <1>14
  DEF ConfigDirectReport, StopDirectReport, StopDirectReports, SetOperationMode,
      SubHalSetsMode, ModeIsSet, SubHalRefusesMode, SubHalSetBack, ModeIsRefused,
      InitializeSubHal,
      Initialized, SubHalFailsInitialize, Return, binder
<1> QED
  BY <1>3, <1>4, <1>5, <1>6, <1>8, <1>9, <1>10, <1>11, <1>12, <1>13, <1>14 DEF Next

-----------------------------------------------------------------------------
\* The inductive invariant holds of every behaviour of the control side.
THEOREM SpecIInv == Spec => []IInv
<1>1. Init => IInv
  <2> SUFFICES ASSUME Init
               PROVE  IInv
    OBVIOUS
  <2>1. TypeOK
    <3>1. mode \in [SubHals -> Modes] /\ connected \in [SubHals -> SUBSET Int]
      BY DEF Init, Modes
    <3>2. telling \in [SubHals -> [what : {"nothing", "new", "gone"}, handle : Int]]
      BY DEF Init, Nothing
    <3>3. loading \in [sub : Nat, k : Nat]
      BY DEF Init
    <3>4. mCurrentOperationMode \in Modes /\ want \in Modes
      BY DEF Init, Modes
    <3> QED
      BY <3>1, <3>2, <3>3, <3>4 DEF Init, TypeOK
  <2>2. ModesFollow
    BY DEF Init, ModesFollow
  <2>3. DirectOwned /\ DirectReportsNamed /\ ReportsLoaded
    BY DEF Init, DirectOwned, DirectReportsNamed, ReportsLoaded
  <2>4. TellingOwn /\ TellingTrue /\ DifferenceTold
    BY DEF Init, TellingOwn, TellingTrue, DifferenceTold, KnownSoon
  <2>5. OfferedSoFar
    BY SubHalControlAssumption DEF Init, OfferedSoFar, SubHals
  <2>6. GoneIsGone
    BY DEF Init, GoneIsGone, Nothing
  <2>7. ActiveListed /\ InactiveDuringInitialize
    BY DEF Init, ActiveListed, InactiveDuringInitialize
  <2> QED
    BY <2>1, <2>2, <2>3, <2>4, <2>5, <2>6, <2>7 DEF IInv
<1>2. IInv /\ [Next]_vars => IInv'
  <2> SUFFICES ASSUME IInv, [Next]_vars
               PROVE  IInv'
    OBVIOUS
  <2>1. TypeOK'
    BY TypeStep DEF IInv
  <2>2. ModesFollow'
    BY ModesStep DEF IInv
  <2>3. DirectOwned'
    BY OwnerStep DEF IInv
  <2>4. DirectReportsNamed' /\ ReportsLoaded'
    BY ReportsStep, LoadedStep DEF IInv
  <2>5. TellingOwn' /\ TellingTrue' /\ DifferenceTold'
    BY DynamicsStep DEF IInv, Dynamics
  <2>6. OfferedSoFar'
    BY OfferedStep DEF IInv
  <2>7. GoneIsGone'
    BY GoneStep DEF IInv
  <2>8. ActiveListed' /\ InactiveDuringInitialize'
    BY ActiveStep
  <2> QED
    BY <2>1, <2>2, <2>3, <2>4, <2>5, <2>6, <2>7, <2>8 DEF IInv
<1> QED
  BY <1>1, <1>2, PTL DEF Spec

\* The types are kept; what a sub-HAL is called with is a handle without an
\* index.
THEOREM TypeCorrect == Spec => []TypeOK
<1>1. IInv => TypeOK
  BY DEF IInv
<1> QED
  BY <1>1, SpecIInv, PTL

\* Between calls the sub-HALs are in the mode that the proxy believes, whichever
\* of them refuse, unless one refuses to be set back or initialized.
THEOREM ModesAlwaysAgree == Spec => []ModesAgree
<1>1. IInv => ModesAgree
  BY DEF IInv, ModesFollow, ModesAgree
<1> QED
  BY <1>1, SpecIInv, PTL

\* Whatever numbers the sub-HALs' sensors share, configDirectReport makes report
\* only a sensor that was offered for it.
THEOREM DirectReportsReachOwner == Spec => []DirectReportsNamed
<1>1. IInv => DirectReportsNamed
  BY DEF IInv
<1> QED
  BY <1>1, SpecIInv, PTL

\* Once initialize has disabled what it handed out no sensor of any sub-HAL is
\* active, also when the framework uses handles it never got, but a dynamic one
\* that an initialize overtook.
THEOREM NoneActive == Spec => []InactiveDuringInitialize
<1>1. IInv => InactiveDuringInitialize
  BY DEF IInv
<1> QED
  BY <1>1, SpecIInv, PTL

\* The framework knows a dynamic sensor if and only if the proxy lists it, but for
\* one that somebody is about to tell and one whose report fell together with
\* initialize, whichever steps of the sub-HALs' threads fall between those of
\* initialize.
THEOREM FrameworkKnows == Spec => []DynamicSensorsKnown
<1>1. IInv => DynamicSensorsKnown
  <2> SUFFICES ASSUME IInv, call # "cleared",
                      NEW h \in (known \cup mDynamicSensors) \ overtaken,
                      ~ (h \in known /\ h \in mDynamicSensors)
               PROVE  \E s \in SubHals : telling[s] # Nothing /\ telling[s].handle = h
    BY DEF DynamicSensorsKnown
  <2>1. h \in Int \ overtaken
    BY DEF IInv, TypeOK
  <2>2. h \in KnownSoon <=> h \notin mDynamicSensors
    BY DEF KnownSoon
  <2> QED
    BY <2>1, <2>2 DEF IInv, DifferenceTold
<1> QED
  BY <1>1, SpecIInv, PTL
=============================================================================
