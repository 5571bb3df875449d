----------------------------- MODULE MCServiceCore -----------------------------
(* Small instances of ServiceCore. *)
EXTENDS ServiceCore

CONSTANTS r1

OneRequest  == {r1}
AlwaysTimed == {TRUE}
AnyTimeout  == {TRUE, FALSE}

Counts(start, stop, exit) ==
  [type \in {"start", "stop", "exit"} |->
     CASE type = "start" -> start [] type = "stop" -> stop [] OTHER -> exit]
OneCycle    == Counts(1, 1, 1)
Restart     == Counts(2, 1, 0)
=============================================================================
