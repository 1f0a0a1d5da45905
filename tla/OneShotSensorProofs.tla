------------------------ MODULE OneShotSensorProofs ------------------------
(* Theorems about OneShotSensor, for any number of activations and calls.   *)
EXTENDS OneShotSensor, TLAPS

\* A poll that reported a byte finds it still there: only the run thread
\* reads the pipe.
SeenByteStays == pc = "woken" /\ revents.pipe => pipe > 0

\* An activation is still unspent while the sensor is enabled, and while the
\* thread polls or has polled for it.
UnspentActivation ==
    body = "OneShot" /\ (mIsEnabled \/ pc \in {"poll", "woken"})
        => posted < activations

IInv == /\ TypeOK
        /\ SeenByteStays
        /\ UnspentActivation
        /\ OneEventPerActivation
        /\ PollInterruptible
        /\ NeverSleepsEnabled

\* The initial states satisfy the inductive invariant.
LEMMA InitIInv == Init => IInv
<1> SUFFICES ASSUME Init PROVE IInv
  OBVIOUS
<1> USE DEF Init, Runnable
<1>1. TypeOK
  BY DEF TypeOK
<1>2. SeenByteStays
  BY DEF SeenByteStays
<1>3. UnspentActivation
  BY DEF UnspentActivation
<1>4. OneEventPerActivation
  BY DEF OneEventPerActivation
<1>5. PollInterruptible
  BY DEF PollInterruptible
<1>6. NeverSleepsEnabled
  BY DEF NeverSleepsEnabled
<1> QED
  BY <1>1, <1>2, <1>3, <1>4, <1>5, <1>6 DEF IInv

\* Every step of the sensor's clients, of its run thread and of the touch
\* controller preserves the inductive invariant.
LEMMA NextIInv == IInv /\ [Next]_vars => IInv'
<1> SUFFICES ASSUME IInv, [Next]_vars PROVE IInv'
  OBVIOUS
<1> USE DEF IInv, TypeOK, SeenByteStays, UnspentActivation,
            OneEventPerActivation, PollInterruptible, NeverSleepsEnabled,
            Runnable, node, thread, calls, counters
<1>1. ASSUME NEW enable \in BOOLEAN, Activate(enable) PROVE IInv'
  BY <1>1 DEF Activate, WriteGestureEnable, NotifyAll, PipeWritten
<1>2. ASSUME NEW mode \in {"NORMAL", "DATA_INJECTION"}, SetOperationMode(mode)
      PROVE  IInv'
  <2>1. TypeOK'
    <3>1. modeChanges' \in Nat
      BY <1>2 DEF SetOperationMode, NotifyAll
    <3>2. notified' \in BOOLEAN
      BY <1>2, ZenonT(60) DEF SetOperationMode, NotifyAll
    <3>3. /\ mMode' \in {"NORMAL", "DATA_INJECTION"}
          /\ interrupting' \in BOOLEAN
      BY <1>2, ZenonT(60) DEF SetOperationMode
    <3> QED
      BY <1>2, <3>1, <3>2, <3>3, ZenonT(60) DEF SetOperationMode
  <2>2. SeenByteStays'
    BY <1>2 DEF SetOperationMode, NotifyAll
  <2>3. UnspentActivation'
    BY <1>2 DEF SetOperationMode, NotifyAll
  <2>4. OneEventPerActivation'
    BY <1>2 DEF SetOperationMode, NotifyAll
  <2>5. PollInterruptible'
    BY <1>2 DEF SetOperationMode, NotifyAll
  <2>6. NeverSleepsEnabled'
    BY <1>2 DEF SetOperationMode, NotifyAll
  <2> QED
    BY <2>1, <2>2, <2>3, <2>4, <2>5, <2>6
<1>3. CASE InterruptPoll
  <2>1. TypeOK'
    <3>1. pipe' \in Nat
      BY <1>3 DEF InterruptPoll, PipeWritten
    <3> QED
      BY <1>3, <3>1, ZenonT(60) DEF InterruptPoll, PipeWritten
  <2>2. SeenByteStays'
    BY <1>3 DEF InterruptPoll, PipeWritten
  <2>3. UnspentActivation'
    BY <1>3 DEF InterruptPoll, PipeWritten
  <2>4. OneEventPerActivation'
    BY <1>3 DEF InterruptPoll, PipeWritten
  <2>5. PollInterruptible'
    BY <1>3 DEF InterruptPoll, PipeWritten
  <2>6. NeverSleepsEnabled'
    BY <1>3 DEF InterruptPoll, PipeWritten
  <2> QED
    BY <2>1, <2>2, <2>3, <2>4, <2>5, <2>6
<1>4. CASE Destroy
  <2>1. TypeOK'
    <3>1. pipe' \in Nat
      BY <1>4 DEF Destroy, PipeWritten
    <3> QED
      BY <1>4, <3>1, ZenonT(60) DEF Destroy, PipeWritten
  <2>2. SeenByteStays'
    BY <1>4 DEF Destroy, PipeWritten
  <2>3. UnspentActivation'
    BY <1>4 DEF Destroy, PipeWritten
  <2>4. OneEventPerActivation'
    BY <1>4 DEF Destroy, PipeWritten
  <2>5. PollInterruptible'
    BY <1>4 DEF Destroy, PipeWritten
  <2>6. NeverSleepsEnabled'
    BY <1>4 DEF Destroy, PipeWritten
  <2> QED
    BY <2>1, <2>2, <2>3, <2>4, <2>5, <2>6
<1>5. CASE RunTop
  <2>1. TypeOK'
    BY <1>5, ZenonT(60) DEF RunTop
  <2>2. SeenByteStays'
    BY <1>5 DEF RunTop
  <2>3. UnspentActivation'
    BY <1>5 DEF RunTop
  <2>4. OneEventPerActivation'
    BY <1>5 DEF RunTop
  <2>5. PollInterruptible'
    BY <1>5 DEF RunTop
  <2>6. NeverSleepsEnabled'
    BY <1>5 DEF RunTop
  <2> QED
    BY <2>1, <2>2, <2>3, <2>4, <2>5, <2>6
<1>6. CASE RunWait
  <2>1. TypeOK'
    BY <1>6, ZenonT(60) DEF RunWait
  <2>2. SeenByteStays'
    BY <1>6 DEF RunWait
  <2>3. UnspentActivation'
    BY <1>6 DEF RunWait
  <2>4. OneEventPerActivation'
    BY <1>6 DEF RunWait
  <2>5. PollInterruptible'
    BY <1>6 DEF RunWait
  <2>6. NeverSleepsEnabled'
    BY <1>6 DEF RunWait
  <2> QED
    BY <2>1, <2>2, <2>3, <2>4, <2>5, <2>6
<1>7. CASE RunPoll
  <2>1. TypeOK'
    BY <1>7 DEF RunPoll
  <2>2. SeenByteStays'
    BY <1>7 DEF RunPoll
  <2>3. UnspentActivation'
    BY <1>7 DEF RunPoll
  <2>4. OneEventPerActivation'
    BY <1>7 DEF RunPoll
  <2>5. PollInterruptible'
    BY <1>7 DEF RunPoll
  <2>6. NeverSleepsEnabled'
    BY <1>7 DEF RunPoll
  <2> QED
    BY <2>1, <2>2, <2>3, <2>4, <2>5, <2>6
<1>8. CASE RunPollFails
  BY <1>8 DEF RunPollFails
<1>9. CASE RunWoken
  <2>1. TypeOK'
    <3>1. pipe' \in Nat
      BY <1>9 DEF RunWoken, WriteGestureEnable, PipeRead
    <3>2. posted' \in Nat
      BY <1>9 DEF RunWoken, WriteGestureEnable, PipeRead
    <3> QED
      BY <1>9, <3>1, <3>2, ZenonT(60) DEF RunWoken, WriteGestureEnable, PipeRead
  <2>2. SeenByteStays'
    BY <1>9 DEF RunWoken, WriteGestureEnable, PipeRead
  <2>3. UnspentActivation'
    BY <1>9 DEF RunWoken, WriteGestureEnable, PipeRead
  <2>4. OneEventPerActivation'
    BY <1>9 DEF RunWoken, WriteGestureEnable, PipeRead
  <2>5. PollInterruptible'
    BY <1>9 DEF RunWoken, WriteGestureEnable, PipeRead
  <2>6. NeverSleepsEnabled'
    BY <1>9 DEF RunWoken, WriteGestureEnable, PipeRead
  <2> QED
    BY <2>1, <2>2, <2>3, <2>4, <2>5, <2>6
<1>10. CASE Touch
  BY <1>10 DEF Touch
<1>11. CASE SpuriousWakeup
  BY <1>11 DEF SpuriousWakeup
<1>13. CASE Stop
  <2>1. TypeOK'
    <3> QED
      BY <1>13, ZenonT(60) DEF Stop, NotifyAll
  <2>2. SeenByteStays'
    BY <1>13 DEF Stop, NotifyAll
  <2>3. UnspentActivation'
    BY <1>13 DEF Stop, NotifyAll
  <2>4. OneEventPerActivation'
    BY <1>13 DEF Stop, NotifyAll
  <2>5. PollInterruptible'
    BY <1>13 DEF Stop, NotifyAll
  <2>6. NeverSleepsEnabled'
    BY <1>13 DEF Stop, NotifyAll
  <2> QED
    BY <2>1, <2>2, <2>3, <2>4, <2>5, <2>6
<1>14. CASE BaseRun
  <2>1. TypeOK'
    <3>1. posted' \in Nat
      BY <1>14 DEF BaseRun
    <3> QED
      BY <1>14, <3>1, ZenonT(60) DEF BaseRun
  <2>2. SeenByteStays'
    BY <1>14 DEF BaseRun
  <2>3. UnspentActivation'
    BY <1>14 DEF BaseRun
  <2>4. OneEventPerActivation'
    BY <1>14 DEF BaseRun
  <2>5. PollInterruptible'
    BY <1>14 DEF BaseRun
  <2>6. NeverSleepsEnabled'
    BY <1>14 DEF BaseRun
  <2> QED
    BY <2>1, <2>2, <2>3, <2>4, <2>5, <2>6
<1>12. CASE UNCHANGED vars
  BY <1>12 DEF vars
<1> QED
  BY <1>1, <1>2, <1>3, <1>4, <1>5, <1>6, <1>7, <1>8, <1>9, <1>10, <1>11, <1>12,
     <1>13, <1>14 DEF Next

\* The inductive invariant holds throughout every behaviour of the sensor.
THEOREM SpecIInv == Spec => []IInv
  BY InitIInv, NextIInv, PTL DEF Spec

\* Type correctness of the sensor: in particular its thread never reads a byte
\* from an empty pipe, which would block it with mRunMutex held.
THEOREM TypeCorrect == Spec => []TypeOK
<1>1. IInv => TypeOK
  BY DEF IInv
<1> QED
  BY <1>1, SpecIInv, PTL

\* The one-shot contract: run posts at most one event for each activation.
THEOREM OneShot == Spec => []OneEventPerActivation
<1>1. IInv => OneEventPerActivation
  BY DEF IInv
<1> QED
  BY <1>1, SpecIInv, PTL

\* A poll for a sensor that was disabled or put into data injection always
\* finds, or is about to find, a byte of interruptPoll.
THEOREM Interruptible == Spec => []PollInterruptible
<1>1. IInv => PollInterruptible
  BY DEF IInv
<1> QED
  BY <1>1, SpecIInv, PTL

\* mWaitCV never misses the notification of an activation or a mode change.
THEOREM NoLostWakeup == Spec => []NeverSleepsEnabled
<1>1. IInv => NeverSleepsEnabled
  BY DEF IInv
<1> QED
  BY <1>1, SpecIInv, PTL
=============================================================================
