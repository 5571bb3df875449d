----------------------------- MODULE MCWheelTimer -----------------------------
(* A wheel of 3 layers of 2 slots. *)
EXTENDS WheelTimer

CONSTANTS t1, t2

TwoTasks == {t1, t2}
\* Every delay that the wheel holds, and the first that does not fit.
BinaryDelays == 0 .. 2^3
=============================================================================
