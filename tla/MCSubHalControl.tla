-------------------------- MODULE MCSubHalControl --------------------------
(* An instance of SubHalControl for TLC: three sub-HALs, any of which may    *)
(* refuse, and handles of two bits under the sub-HAL's index.  The device    *)
(* has two, sensors.ssc.so and its own, of which only the first may refuse.  *)
EXTENDS SubHalControl, TLC

Sensor(handle, direct) == [handle |-> handle, direct |-> direct]

\* Sub-HAL 0 lists a direct sensor, and before it one whose handle is not clear,
\* or none; the sensors of the others partly have the same numbers.
SmallLists ==
    {<<<<Sensor(1, FALSE), Sensor(2, TRUE)>>, <<Sensor(1, TRUE)>>>> @@ (0 :> first) :
        first \in {<<Sensor(5, TRUE), Sensor(1, TRUE)>>, <<Sensor(1, FALSE)>>}}

\* A dynamic sensor, and one whose handle is not clear.
SmallDynamicHandles == 0 :> {6} @@ 1 :> {3} @@ 2 :> {}

\* No handle, a sub-HAL that does not exist, and a number nobody has.
SmallOddHandles == {-1, 13, 2}
=============================================================================
