------------------------ MODULE MCFingerprintSession ------------------------
(* Instances of FingerprintSession for TLC. *)
EXTENDS FingerprintSession

\* What touches the illumination and the sensor.
LightOps == {"authenticate", "onUiReady", "onPointerDown", "onPointerUp",
             "cancel", "close"}
LightMessages == {"succeeded"}

\* What touches the lockout.
LockoutOps == {"authenticate", "onPointerDown", "resetLockout"}
LockoutMessages == {"failed", "succeeded"}

OneTimer == {"t1"}
TwoTimers == {"t1", "t2"}
=============================================================================
