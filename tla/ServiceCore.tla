----------------------------- MODULE ServiceCore -----------------------------
(***************************************************************************)
(* One service from the inside: its mailbox, its lifecycle (ServiceCore::  *)
(* ProcessMsg), its coroutines (TaskExecutor), and the SessionMonitor that *)
(* reminds it of the sessions it waits for.  ServiceScheduler shows that   *)
(* no two workers process the same service, so ProcessMsg is one step      *)
(* here; the threads around the service act between these steps.           *)
(*                                                                         *)
(* A coroutine is what the framework sees of it: it ends (with a message,  *)
(* with nullptr, or by an exception) or it awaits a session.  The session  *)
(* ids are 1..MaxSessions, in the order NewSession returns them; 0 is      *)
(* kSessionIdInvalid.                                                      *)
(***************************************************************************)
EXTENDS Naturals, Sequences, FiniteSets, ServiceStage

CONSTANTS MaxSessions,   \* bound: sessions the service opens with a peer
          MaxAwaits,     \* bound: co_awaits of all its coroutines together
          Requests,      \* the requests other services send to it, once each
          MaxControls,   \* bound: MaxControls[type] lifecycle messages of a type
          Timed,         \* values of "the await has a timeout": {TRUE} when
                         \* no coroutine uses kSessionNeverTimeout
          NoRequest      \* what a lifecycle message has in place of a request

ASSUME CoreAssumption ==
  /\ MaxSessions \in Nat /\ MaxAwaits \in Nat
  /\ MaxControls \in [{"start", "stop", "exit"} -> Nat]
  /\ Timed \subseteq BOOLEAN /\ Timed # {}
  /\ NoRequest \notin Requests

Sessions == 1..MaxSessions
Controls == {"start", "stop", "exit"}

VARIABLES
  stage,     \* ServiceCore::stage_
  msgs,      \* ServiceCore::msgs_
  tasks,     \* tasks[i]: the coroutine in TaskExecutor::tasks_ that waits for i
  monitor,   \* monitor[i]: how often i is in the timer wheel of SessionMonitor
  opened,    \* number of sessions opened so far, for fresh ids
  peer,      \* sessions whose request a peer holds and has not answered
  awaits,    \* number of awaits so far, for the bound
  posted,    \* requests already sent to the service
  controls,  \* lifecycle messages posted, by type, for the bound
  answered   \* answered[r]: replies sent to the sender of request r

vars == <<stage, msgs, tasks, monitor, opened, peer, awaits, posted, controls,
          answered>>

Message(type, session, request) ==
  [type |-> type, session |-> session, request |-> request]

\* A suspended coroutine: which handler it runs, the request it will answer,
\* and whether it awaits its session with a timeout.
Task(role, request, timed) == [role |-> role, request |-> request, timed |-> timed]

NoTask == Task("none", NoRequest, FALSE)

Waiting(i) == i \in Sessions /\ tasks[i] # NoTask

\* What the mailbox and the stages make of a message.
Kind(m) == IF m.type \in Controls THEN m.type ELSE "other"

Init ==
  /\ stage = "Ready"
  /\ msgs = << >>
  /\ tasks = [i \in Sessions |-> NoTask]
  /\ monitor = [i \in Sessions |-> 0]
  /\ opened = 0
  /\ peer = {}
  /\ awaits = 0
  /\ posted = {}
  /\ controls = [type \in Controls |-> 0]
  /\ answered = [r \in Requests |-> 0]

-----------------------------------------------------------------------------
(* What other threads do: each of them goes through PushMsg.               *)

\* The mailbox after PushMsg, whether or not it accepts the message.
Pushed(m) == IF Accepts(stage, Kind(m)) THEN Append(msgs, m) ELSE msgs

\* StartService, StopService, ExitService.
PostControl(type) ==
  /\ controls[type] < MaxControls[type]
  /\ controls' = [controls EXCEPT ![type] = @ + 1]
  /\ msgs' = Pushed(Message(type, 0, NoRequest))
  /\ UNCHANGED <<stage, tasks, monitor, opened, peer, awaits, posted, answered>>

PostRequest(r) ==
  /\ r \notin posted
  /\ posted' = posted \cup {r}
  /\ msgs' = Pushed(Message("request", 0, r))
  /\ UNCHANGED <<stage, tasks, monitor, opened, peer, awaits, controls, answered>>

\* A peer answers, at most once; it may also never answer.
PeerReply(i) ==
  /\ i \in peer
  /\ peer' = peer \ {i}
  /\ msgs' = Pushed(Message("reply", i, NoRequest))
  /\ UNCHANGED <<stage, tasks, monitor, opened, awaits, posted, controls, answered>>

\* Mutant of MonitorTimeout: an entry may expire again after it left the wheel.
MonitorTimeoutAgain(i) ==
  /\ monitor' = [monitor EXCEPT ![i] = @ - 1]
  /\ msgs' = Pushed(Message("timeout", i, NoRequest))
  /\ UNCHANGED <<stage, tasks, opened, peer, awaits, posted, controls, answered>>

\* An entry of the monitor's wheel expires.  AddSession is never undone: the
\* entry of a session that was answered long ago expires like any other.
MonitorTimeout(i) ==
  /\ monitor[i] > 0
  /\ monitor' = [monitor EXCEPT ![i] = @ - 1]
  /\ msgs' = Pushed(Message("timeout", i, NoRequest))
  /\ UNCHANGED <<stage, tasks, opened, peer, awaits, posted, controls, answered>>

-----------------------------------------------------------------------------
(* Coroutines.  ts is TaskExecutor::tasks_ without the coroutine that runs. *)

\* Mutant of Without: the resumed coroutine is not erased from tasks_.
WithoutErase(i) == tasks

Without(i) == [tasks EXCEPT ![i] = NoTask]

\* The coroutine runs to its end.
Completes(ts) ==
  /\ tasks' = ts
  /\ UNCHANGED <<monitor, opened, peer, awaits>>

\* Mutant of Push: the monitor is not told.
PushUnmonitored(ts, i, task) ==
  /\ tasks' = IF i = 0 \/ ts[i] # NoTask THEN ts ELSE [ts EXCEPT ![i] = task]
  /\ UNCHANGED monitor

\* TaskExecutor::Push: an invalid session, or one another coroutine waits for,
\* destroys the coroutine; the monitor has been told of the latter.
Push(ts, i, task) ==
  /\ tasks' = IF i = 0 \/ ts[i] # NoTask THEN ts ELSE [ts EXCEPT ![i] = task]
  /\ monitor' = IF i = 0 \/ ~task.timed THEN monitor ELSE [monitor EXCEPT ![i] = @ + 1]

\* The coroutine awaits: it sends a request to a peer and awaits the new
\* session (Call), or it awaits a session by its id (Recv).
Suspends(ts, role, request) ==
  /\ awaits < MaxAwaits
  /\ awaits' = awaits + 1
  /\ \E timed \in Timed :
       \/ /\ opened < MaxSessions
          /\ opened' = opened + 1
          /\ peer' = peer \cup {opened + 1}
          /\ Push(ts, opened + 1, Task(role, request, timed))
       \/ /\ \E i \in 0..opened : Push(ts, i, Task(role, request, timed))
          /\ UNCHANGED <<opened, peer>>

Ends == {"value", "null", "throw"}

\* ReplyMsg: only a coroutine that returned a message answers its sender.
ReplyMsg(end, request) ==
  answered' = IF end = "value" /\ request # NoRequest
              THEN [answered EXCEPT ![request] = @ + 1]
              ELSE answered

\* A service sends its lifecycle messages to itself, so OnStart and OnStop
\* answer the service, if its mailbox is open in stage st; 0 stands for the
\* session of the answer, which no coroutine awaits.
OwnReply(end, role, st) ==
  IF end = "value" /\ role \in {"OnStart", "OnStop"} /\ Accepts(st, "other")
  THEN <<Message("reply", 0, NoRequest)>>
  ELSE << >>

-----------------------------------------------------------------------------
(* ProcessMsg, for each type of message.  ProcessMsgs pops no message from *)
(* a service that has exited.                                              *)

Takes(type) ==
  /\ stage # "Exited"
  /\ msgs # << >>
  /\ Head(msgs).type = type

Pop(type) == Takes(type) /\ msgs' = Tail(msgs)

\* A message that the stage does not allow is dropped.
Drop(type) ==
  /\ Pop(type)
  /\ UNCHANGED <<stage, tasks, monitor, opened, peer, awaits, posted, controls,
                 answered>>

\* OnStart ends, by an exception too, and the service runs; or it suspends.
ProcessStart ==
  /\ Takes("start")
  /\ stage \in {"Ready", "Stopped"}
  /\ \/ /\ Completes(tasks)
        /\ stage' = "Running"
        /\ \E end \in Ends : msgs' = Tail(msgs) \o OwnReply(end, "OnStart", "Running")
     \/ /\ Suspends(tasks, "OnStart", NoRequest)
        /\ stage' = "Starting"
        /\ msgs' = Tail(msgs)
  /\ UNCHANGED <<posted, controls, answered>>

\* Mutant of ProcessStop: the check of the stage is missing.
ProcessStopAnytime ==
  /\ Pop("stop")
  /\ \/ Completes(tasks) /\ stage' = "Stopped"
     \/ Suspends(tasks, "OnStop", NoRequest) /\ stage' = "Stopping"
  /\ UNCHANGED <<posted, controls, answered>>

ProcessStop ==
  /\ Pop("stop")
  /\ stage = "Running"
  /\ \/ Completes(tasks) /\ stage' = "Stopped"
     \/ Suspends(tasks, "OnStop", NoRequest) /\ stage' = "Stopping"
  /\ UNCHANGED <<posted, controls, answered>>

ProcessExit ==
  /\ Pop("exit")
  /\ stage = "Stopped"
  /\ stage' = "Exited"
  /\ UNCHANGED <<tasks, monitor, opened, peer, awaits, posted, controls, answered>>

\* The stage after the end of a coroutine that a reply resumed.
StageAfterReply ==
  CASE stage = "Starting" -> "Running"
    [] stage = "Stopping" -> "Stopped"
    [] OTHER              -> stage

\* TaskExecutor::TrySchedule: the coroutine that waits for the session goes on.
ProcessReply ==
  LET i == Head(msgs).session IN
  /\ Takes("reply")
  /\ stage \in {"Starting", "Stopping", "Running"}
  /\ Waiting(i)
  /\ \/ /\ Completes(Without(i))
        /\ stage' = StageAfterReply
        /\ \E end \in Ends :
             /\ ReplyMsg(end, tasks[i].request)
             /\ msgs' = Tail(msgs) \o OwnReply(end, tasks[i].role, StageAfterReply)
     \/ /\ Suspends(Without(i), tasks[i].role, tasks[i].request)
        /\ msgs' = Tail(msgs)
        /\ UNCHANGED <<stage, answered>>
  /\ UNCHANGED <<posted, controls>>

\* Mutant of ProcessTimeout: only a service that is Starting or Stopping looks
\* at timeouts.
ProcessTimeoutEarly ==
  /\ Takes("timeout")
  /\ Completes(tasks)
  /\ IF stage \in {"Starting", "Stopping"}
     THEN /\ stage' = "Stopped"
          /\ msgs' = Append(Tail(msgs), Message("exit", 0, NoRequest))
     ELSE /\ UNCHANGED stage
          /\ msgs' = Tail(msgs)
  /\ UNCHANGED <<posted, controls, answered>>

(***************************************************************************)
(* SessionTimeoutMsg: TaskTimeout resumes the coroutine with no result;    *)
(* unless it awaits "or null" or catches what the await throws, this ends  *)
(* it with an exception.  A value it returns is not sent to anyone.  Then  *)
(* a service that is Starting or Stopping, whatever the timeout did, and   *)
(* one whose coroutine ended with an exception, is stopped, and it tells   *)
(* itself to exit.                                                         *)
(***************************************************************************)
ProcessTimeout ==
  LET i == Head(msgs).session
      retire == /\ stage' = "Stopped"
                /\ msgs' = Append(Tail(msgs), Message("exit", 0, NoRequest))
      stay   == /\ UNCHANGED stage
                /\ msgs' = Tail(msgs)
      settle(threw) == IF stage \in {"Starting", "Stopping"} \/ threw THEN retire ELSE stay
  IN
  /\ Takes("timeout")
  /\ \/ /\ ~Waiting(i)
        /\ Completes(tasks) /\ settle(FALSE)
     \/ /\ Waiting(i)
        /\ Completes(Without(i)) /\ \E threw \in BOOLEAN : settle(threw)
     \/ /\ Waiting(i)
        /\ Suspends(Without(i), tasks[i].role, tasks[i].request) /\ settle(FALSE)
  /\ UNCHANGED <<posted, controls, answered>>

\* OnMsg starts a coroutine for the request.
ProcessRequest ==
  LET r == Head(msgs).request IN
  /\ Pop("request")
  /\ stage = "Running"
  /\ \/ /\ Completes(tasks)
        /\ \E end \in Ends : ReplyMsg(end, r)
     \/ /\ Suspends(tasks, "OnMsg", r)
        /\ UNCHANGED answered
  /\ UNCHANGED <<stage, posted, controls>>

DropMsg ==
  \/ stage \notin {"Ready", "Stopped"} /\ Drop("start")
  \/ stage # "Running" /\ Drop("stop")
  \/ stage # "Stopped" /\ Drop("exit")
  \/ stage # "Running" /\ Drop("request")
  \/ /\ \/ stage \notin {"Starting", "Stopping", "Running"}
        \/ Takes("reply") /\ ~Waiting(Head(msgs).session)
     /\ Drop("reply")

ProcessMsg ==
  \/ ProcessStart \/ ProcessStop \/ ProcessExit \/ ProcessReply
  \/ ProcessTimeout \/ ProcessRequest \/ DropMsg

Next ==
  \/ \E type \in Controls : PostControl(type)
  \/ \E r \in Requests : PostRequest(r)
  \/ \E i \in Sessions : PeerReply(i) \/ MonitorTimeout(i)
  \/ ProcessMsg

Spec == Init /\ [][Next]_vars

(***************************************************************************)
(* Fairness: the scheduler takes every message (EveryMessageTaken of       *)
(* ServiceScheduler), and the wheel of the monitor turns until every       *)
(* entry has expired.  Nobody is obliged to answer or to post.             *)
(***************************************************************************)
FairSpec == /\ Spec
            /\ WF_vars(ProcessMsg)
            /\ \A i \in Sessions : WF_vars(MonitorTimeout(i))

-----------------------------------------------------------------------------
(* Properties.                                                             *)

Roles == {"none", "OnStart", "OnStop", "OnMsg"}

MessageType == [type : {"start", "stop", "exit", "request", "reply", "timeout"},
                session : 0..MaxSessions, request : Requests \cup {NoRequest}]

TaskType == [role : Roles, request : Requests \cup {NoRequest},
             timed : BOOLEAN]

TypeOK ==
  /\ stage \in Stages
  /\ msgs \in Seq(MessageType)
  /\ tasks \in [Sessions -> TaskType]
  /\ monitor \in [Sessions -> Nat]
  /\ opened \in 0..MaxSessions
  /\ peer \subseteq Sessions
  /\ awaits \in 0..MaxAwaits
  /\ posted \subseteq Requests
  /\ controls \in [Controls -> Nat]
  /\ answered \in [Requests -> Nat]

\* A request is in one place: in the mailbox, with one suspended coroutine, or
\* answered, once; however its coroutine was suspended, resumed by replies and
\* timeouts, and moved from session to session.
Mailed(r, n) == n \in 1..Len(msgs) /\ msgs[n].request = r
Held(r, i) == i \in Sessions /\ tasks[i].request = r

RequestInOnePlace ==
  \A r \in Requests :
    /\ answered[r] <= 1
    /\ \A m, n \in 1..Len(msgs) : Mailed(r, m) /\ Mailed(r, n) => m = n
    /\ \A i, j \in Sessions : Held(r, i) /\ Held(r, j) => i = j
    /\ \A n \in 1..Len(msgs), i \in Sessions : ~(Mailed(r, n) /\ Held(r, i))
    /\ answered[r] = 1 => /\ \A n \in 1..Len(msgs) : ~Mailed(r, n)
                          /\ \A i \in Sessions : ~Held(r, i)

\* The coroutine that waits for session i, if it awaits with a timeout, still
\* has one: the monitor holds the session, or the timeout is in the mailbox.
TimeoutDue(i) == \E n \in 1..Len(msgs) : msgs[n].type = "timeout" /\ msgs[n].session = i
Covered(i) == tasks[i].timed => monitor[i] > 0 \/ TimeoutDue(i)

Open(st) == st \in {"Ready", "Starting", "Running"}

\* As long as the mailbox is open no step takes its timeout from a coroutine:
\* not a re-await under another session, not a timeout that comes too late for
\* the previous await, not a duplicate await.
TimeoutKept ==
  [][ Open(stage) /\ Open(stage') =>
        \A i \in Sessions : Covered(i) => Covered(i)' ]_vars

\* Each step moves the stage as the scheduler's abstraction says it may.
StageFollowsLifecycle ==
  [][ stage' # stage =>
        /\ msgs # << >>
        /\ LET k == Kind(Head(msgs)) IN
           /\ Allowed(stage, k)
           /\ stage' \in StageLeave(StageEnter(stage, k), k) ]_vars

\* A coroutine whose timeout is still to come does not wait for ever while the
\* service accepts messages: it is resumed, or the service is stopped.
WaitsEnd ==
  \A i \in Sessions :
    (tasks[i].timed /\ Covered(i)) ~> (~tasks[i].timed \/ ~Open(stage))

\* An OnStop that awaits with a timeout does not keep the service Stopping for
\* ever: "Starting/Stop both allow handling the timeout of existing coroutines"
\* (ProcessMsg).
StoppingEnds ==
  (stage = "Stopping" /\ \E i \in Sessions : tasks[i].role = "OnStop" /\ tasks[i].timed)
    ~> stage # "Stopping"
=============================================================================
