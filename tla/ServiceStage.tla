----------------------------- MODULE ServiceStage -----------------------------
(***************************************************************************)
(* The lifecycle of a service: the stages of ServiceCore::ServiceStage     *)
(* (million/src/service_core.h) and what the mailbox and ProcessMsg        *)
(* (million/src/service_core.cpp) make of them.  No state lives here: the  *)
(* module is shared by the scheduler, which only needs to know which       *)
(* stages a processed message may lead to, and by the detailed model of    *)
(* one service, whose steps are checked against these operators.           *)
(***************************************************************************)

Stages == {"Ready", "Starting", "Running", "Stopping", "Stopped", "Exited"}

\* What the scheduler and the mailbox tell apart in a message: the three
\* lifecycle messages, and every other one (a request, a reply, an event, a
\* SessionTimeoutMsg).
Kinds == {"start", "stop", "exit", "other"}

\* The condition under which PushMsg puts a message in the mailbox.
Accepts(stage, kind) ==
  stage \in {"Ready", "Starting", "Running"} \/ kind = "exit"

\* A lifecycle message that arrives in another stage is dropped by ProcessMsg.
Allowed(stage, kind) ==
  CASE kind = "start" -> stage \in {"Ready", "Stopped"}
    [] kind = "stop"  -> stage = "Running"
    [] kind = "exit"  -> stage = "Stopped"
    [] OTHER          -> TRUE

\* The stage ProcessMsg sets before it calls OnStart, OnStop or OnExit.
StageEnter(stage, kind) ==
  CASE kind = "start" -> "Starting"
    [] kind = "stop"  -> "Stopping"
    [] kind = "exit"  -> "Exited"
    [] OTHER          -> stage

(***************************************************************************)
(* The stages in which ProcessMsg may leave the service when it returns.   *)
(* OnStart and OnStop are coroutines: they may finish at once, or leave    *)
(* the service Starting or Stopping until a later message (a reply)        *)
(* completes a task.  A SessionTimeoutMsg ends a Starting or Stopping      *)
(* service in Stopped, and a Running one whose task it ends with an        *)
(* exception.                                                              *)
(***************************************************************************)
StageLeave(stage, kind) ==
  CASE stage = "Starting" ->
         {"Starting", "Running"} \cup (IF kind = "other" THEN {"Stopped"} ELSE {})
    [] stage = "Stopping" -> {"Stopping", "Stopped"}
    [] stage = "Running"  -> {"Running", "Stopped"}
    [] OTHER -> {stage}
=============================================================================
