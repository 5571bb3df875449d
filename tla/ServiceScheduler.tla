--------------------------- MODULE ServiceScheduler ---------------------------
(***************************************************************************)
(* How services get the attention of the worker threads: the mailbox of a  *)
(* service (ServiceCore::PushMsg, PopMsg), the run queue shared by the     *)
(* workers (ServiceMgr::PushService, PopService), the loop of a worker     *)
(* (Worker::Start), ServiceMgr::Send, Stop and DeleteService.              *)
(*                                                                         *)
(* An action is one critical section, or one unlocked access, of one       *)
(* thread.  What a handler does with a message is reduced to the stage it  *)
(* may leave the service in (ServiceStage) and to the messages it sends    *)
(* while it runs.  Services with a thread of their own (EnableSeparate-    *)
(* Worker) never enter the run queue and are not modelled here.            *)
(***************************************************************************)
EXTENDS Naturals, Sequences, FiniteSets, ServiceStage

CONSTANTS Services,  \* the services, all added before the model starts
          Workers,   \* the worker threads
          Clients,   \* the other threads that send: io, timer, monitor, main
          Main,      \* the thread that calls ServiceMgr::Stop
          None,      \* "no service", a null pointer
          MaxSends,  \* bound: messages sent, not counting those of Stop
          NDEBUG     \* TRUE in a build whose asserts are compiled out

ASSUME SchedulerAssumption ==
  /\ Workers # {}
  /\ Workers \cap Clients = {}
  /\ Main \in Clients
  /\ None \notin Services
  /\ MaxSends \in Nat
  /\ NDEBUG \in BOOLEAN

Threads == Workers \cup Clients

VARIABLES
  stage,          \* stage[s]: ServiceCore::stage_
  msgs,           \* msgs[s]: the kinds of the messages in ServiceCore::msgs_
  in_queue,       \* in_queue[s]: ServiceCore::in_queue_, a plain bool
  service_queue,  \* ServiceMgr::service_queue_
  services,       \* ServiceMgr::services_
  run,            \* ServiceMgr::run_
  stop_pc,        \* where the main thread is in ServiceMgr::Stop
  stop_todo,      \* <<service, kind>> that ServiceMgr::Stop has yet to send
  wpc,            \* wpc[w]: where worker w is in its loop
  held,           \* held[w]: the service worker w popped
  cur,            \* cur[w]: the kind of the message w processes, or "none"
  spc,            \* spc[t]: where thread t is in ServiceMgr::Send
  target,         \* target[t]: the service thread t is sending to
  sent,           \* number of messages sent so far, for the bound
  crashed         \* an assert failed, or behaviour became undefined

vars == <<stage, msgs, in_queue, service_queue, services, run, stop_pc,
          stop_todo, wpc, held, cur, spc, target, sent, crashed>>

mgrVars == <<services, run, stop_pc, stop_todo>>

WorkerPc == {"loop",     \* about to call PopService
             "wait",     \* asleep on service_queue_cv_
             "take",     \* in ProcessMsgs, before PopMsg
             "process",  \* in ProcessMsg, before it sets the stage
             "handler",  \* in the handler that ProcessMsg called
             "unset",    \* before set_in_queue(false)
             "check",    \* before MsgQueueIsEmpty
             "repush",   \* in PushService of the service it held
             "exited",   \* before IsExited
             "delete",   \* in DeleteService
             "done"}     \* the thread has left its loop

SendPc == {"idle",    \* not sending
           "push",    \* the message is in the mailbox, before PushService
           "notify"}  \* pushed the service, before notify_one

\* Mutant of Init: stage_ without its initializer.
InitStageUnset ==
  /\ stage = [s \in Services |-> "unset"]
  /\ msgs = [s \in Services |-> << >>]
  /\ in_queue = [s \in Services |-> FALSE]
  /\ service_queue = << >> /\ services = Services
  /\ run = TRUE /\ stop_pc = "idle" /\ stop_todo = {}
  /\ wpc = [w \in Workers |-> "loop"]
  /\ held = [w \in Workers |-> None]
  /\ cur = [w \in Workers |-> "none"]
  /\ spc = [t \in Threads |-> "idle"]
  /\ target = [t \in Threads |-> None]
  /\ sent = 0 /\ crashed = FALSE

Init ==
  /\ stage = [s \in Services |-> "Ready"]
  /\ msgs = [s \in Services |-> << >>]
  /\ in_queue = [s \in Services |-> FALSE]
  /\ service_queue = << >>
  /\ services = Services
  /\ run = TRUE
  /\ stop_pc = "idle"
  /\ stop_todo = {}
  /\ wpc = [w \in Workers |-> "loop"]
  /\ held = [w \in Workers |-> None]
  /\ cur = [w \in Workers |-> "none"]
  /\ spc = [t \in Threads |-> "idle"]
  /\ target = [t \in Threads |-> None]
  /\ sent = 0
  /\ crashed = FALSE

\* The process is still there: part of every step but the one that ends it.
Alive == ~crashed /\ UNCHANGED crashed

-----------------------------------------------------------------------------
(* ServiceMgr::Send, by any thread.                                        *)

\* The effect of PushMsg when the mailbox accepts the message; a rejected
\* message changes nothing and Send returns false.
PushMsg(t, s, k) ==
  /\ spc[t] = "idle"
  /\ Accepts(stage[s], k)
  /\ msgs' = [msgs EXCEPT ![s] = Append(@, k)]
  /\ spc' = [spc EXCEPT ![t] = "push"]
  /\ target' = [target EXCEPT ![t] = s]

\* A thread outside the pool sends, or a worker does inside a handler; the
\* main thread is not inside Stop.
Send(t, s, k) ==
  /\ Alive
  /\ sent < MaxSends
  /\ t \in Workers => wpc[t] = "handler"
  /\ t = Main => stop_pc = "idle"
  /\ PushMsg(t, s, k)
  /\ sent' = sent + 1
  /\ UNCHANGED <<stage, in_queue, service_queue, mgrVars, wpc, held, cur>>

(***************************************************************************)
(* in_queue_ is cleared by a worker that holds no lock, and read here      *)
(* under service_queue_mutex_: a data race.  Until that worker has gone    *)
(* through msgs_mutex_ (its call of MsgQueueIsEmpty) the reader may still  *)
(* see the old TRUE.                                                       *)
(***************************************************************************)
InQueueSeen(t, s) ==
  {in_queue[s]} \cup
  (IF \E w \in Workers \ {t} : wpc[w] = "check" /\ held[w] = s THEN {TRUE} ELSE {})

PushService(t) ==
  LET s == target[t] IN
  /\ Alive
  /\ spc[t] = "push"
  /\ \E seen \in InQueueSeen(t, s) :
       \/ /\ ~seen
          /\ service_queue' = Append(service_queue, s)
          /\ in_queue' = [in_queue EXCEPT ![s] = TRUE]
          /\ spc' = [spc EXCEPT ![t] = "notify"]
       \/ /\ seen
          /\ spc' = [spc EXCEPT ![t] = "idle"]
          /\ UNCHANGED <<service_queue, in_queue>>
  /\ target' = [target EXCEPT ![t] = None]
  /\ UNCHANGED <<stage, msgs, mgrVars, wpc, held, cur, sent>>

\* Mutant of NotifyOne: PushService forgets to notify.
NotifyNobody(t) ==
  /\ Alive
  /\ spc[t] = "notify"
  /\ spc' = [spc EXCEPT ![t] = "idle"]
  /\ UNCHANGED <<stage, msgs, in_queue, service_queue, mgrVars, wpc, held, cur,
                 target, sent>>

\* service_queue_cv_.notify_one(), after the mutex was released.
NotifyOne(t) ==
  /\ Alive
  /\ spc[t] = "notify"
  /\ spc' = [spc EXCEPT ![t] = "idle"]
  /\ \/ \E w \in Workers : wpc[w] = "wait" /\ wpc' = [wpc EXCEPT ![w] = "loop"]
     \/ (\A w \in Workers : wpc[w] # "wait") /\ UNCHANGED wpc
  /\ UNCHANGED <<stage, msgs, in_queue, service_queue, mgrVars, held, cur,
                 target, sent>>

-----------------------------------------------------------------------------
(* The loop of a worker.                                                   *)

\* Mutant of PopService: in_queue_ is cleared as soon as the service leaves
\* the run queue.
PopServiceClears(w) ==
  /\ Alive
  /\ wpc[w] = "loop"
  /\ \/ /\ ~run
        /\ wpc' = [wpc EXCEPT ![w] = "done"]
        /\ UNCHANGED <<service_queue, held, in_queue>>
     \/ /\ run /\ service_queue = << >>
        /\ wpc' = [wpc EXCEPT ![w] = "wait"]
        /\ UNCHANGED <<service_queue, held, in_queue>>
     \/ /\ run /\ service_queue # << >>
        /\ held' = [held EXCEPT ![w] = Head(service_queue)]
        /\ in_queue' = [in_queue EXCEPT ![Head(service_queue)] = FALSE]
        /\ service_queue' = Tail(service_queue)
        /\ wpc' = [wpc EXCEPT ![w] = "take"]
  /\ UNCHANGED <<stage, msgs, mgrVars, cur, spc, target, sent>>

PopService(w) ==
  /\ Alive
  /\ wpc[w] = "loop"
  /\ \/ /\ ~run
        /\ wpc' = [wpc EXCEPT ![w] = "done"]
        /\ UNCHANGED <<service_queue, held>>
     \/ /\ run /\ service_queue = << >>
        /\ wpc' = [wpc EXCEPT ![w] = "wait"]
        /\ UNCHANGED <<service_queue, held>>
     \/ /\ run /\ service_queue # << >>
        /\ held' = [held EXCEPT ![w] = Head(service_queue)]
        /\ service_queue' = Tail(service_queue)
        /\ wpc' = [wpc EXCEPT ![w] = "take"]
  /\ UNCHANGED <<stage, msgs, in_queue, mgrVars, cur, spc, target, sent>>

\* condition_variable::wait may return without a notification.
SpuriousWakeup(w) ==
  /\ Alive
  /\ wpc[w] = "wait"
  /\ wpc' = [wpc EXCEPT ![w] = "loop"]
  /\ UNCHANGED <<stage, msgs, in_queue, service_queue, mgrVars, held, cur, spc,
                 target, sent>>

\* Mutant of PopMsg: the newest message is taken first.
PopMsgLast(w) ==
  LET s == held[w]
      n == Len(msgs[s]) IN
  /\ Alive
  /\ wpc[w] = "take"
  /\ \/ /\ stage[s] # "Exited" /\ msgs[s] # << >>
        /\ cur' = [cur EXCEPT ![w] = msgs[s][n]]
        /\ msgs' = [msgs EXCEPT ![s] = SubSeq(@, 1, n - 1)]
        /\ wpc' = [wpc EXCEPT ![w] = "process"]
     \/ /\ stage[s] = "Exited" \/ msgs[s] = << >>
        /\ wpc' = [wpc EXCEPT ![w] = "unset"]
        /\ UNCHANGED <<cur, msgs>>
  /\ UNCHANGED <<stage, in_queue, service_queue, mgrVars, held, spc, target,
                 sent>>

\* ProcessMsgs(1) up to the return of PopMsg: nothing is popped from a service
\* that has exited.
PopMsg(w) ==
  LET s == held[w] IN
  /\ Alive
  /\ wpc[w] = "take"
  /\ \/ /\ stage[s] # "Exited" /\ msgs[s] # << >>
        /\ cur' = [cur EXCEPT ![w] = Head(msgs[s])]
        /\ msgs' = [msgs EXCEPT ![s] = Tail(@)]
        /\ wpc' = [wpc EXCEPT ![w] = "process"]
     \/ /\ stage[s] = "Exited" \/ msgs[s] = << >>
        /\ wpc' = [wpc EXCEPT ![w] = "unset"]
        /\ UNCHANGED <<cur, msgs>>
  /\ UNCHANGED <<stage, in_queue, service_queue, mgrVars, held, spc, target,
                 sent>>

\* ProcessMsg drops the message, or sets the stage and calls the handler.
EnterProcessMsg(w) ==
  LET s == held[w]
      k == cur[w] IN
  /\ Alive
  /\ wpc[w] = "process"
  /\ \/ /\ ~Allowed(stage[s], k)
        /\ cur' = [cur EXCEPT ![w] = "none"]
        /\ wpc' = [wpc EXCEPT ![w] = "unset"]
        /\ UNCHANGED stage
     \/ /\ Allowed(stage[s], k)
        /\ stage' = [stage EXCEPT ![s] = StageEnter(@, k)]
        /\ wpc' = [wpc EXCEPT ![w] = "handler"]
        /\ UNCHANGED cur
  /\ UNCHANGED <<msgs, in_queue, service_queue, mgrVars, held, spc, target,
                 sent>>

\* ProcessMsg returns: the handler has run, its own sends are over.
LeaveProcessMsg(w) ==
  LET s == held[w] IN
  /\ Alive
  /\ wpc[w] = "handler"
  /\ spc[w] = "idle"
  /\ \E st \in StageLeave(stage[s], cur[w]) :
       stage' = [stage EXCEPT ![s] = st]
  /\ cur' = [cur EXCEPT ![w] = "none"]
  /\ wpc' = [wpc EXCEPT ![w] = "unset"]
  /\ UNCHANGED <<msgs, in_queue, service_queue, mgrVars, held, spc, target,
                 sent>>

\* set_in_queue(false), under no lock.
ClearInQueue(w) ==
  /\ Alive
  /\ wpc[w] = "unset"
  /\ in_queue' = [in_queue EXCEPT ![held[w]] = FALSE]
  /\ wpc' = [wpc EXCEPT ![w] = "check"]
  /\ UNCHANGED <<stage, msgs, service_queue, mgrVars, held, cur, spc, target,
                 sent>>

\* Mutant of CheckMsgs: the worker does not look at the mailbox again.
CheckNoMsgs(w) ==
  /\ Alive
  /\ wpc[w] = "check"
  /\ wpc' = [wpc EXCEPT ![w] = "exited"]
  /\ UNCHANGED <<stage, msgs, in_queue, service_queue, mgrVars, held, cur, spc,
                 target, sent>>

\* MsgQueueIsEmpty: a service with messages left goes through PushService.
CheckMsgs(w) ==
  /\ Alive
  /\ wpc[w] = "check"
  /\ \/ /\ msgs[held[w]] # << >>
        /\ wpc' = [wpc EXCEPT ![w] = "repush"]
        /\ spc' = [spc EXCEPT ![w] = "push"]
        /\ target' = [target EXCEPT ![w] = held[w]]
     \/ /\ msgs[held[w]] = << >>
        /\ wpc' = [wpc EXCEPT ![w] = "exited"]
        /\ UNCHANGED <<spc, target>>
  /\ UNCHANGED <<stage, msgs, in_queue, service_queue, mgrVars, held, cur, sent>>

\* PushService has returned to the worker, which continues its loop.
EndRepush(w) ==
  /\ Alive
  /\ wpc[w] = "repush"
  /\ spc[w] = "idle"
  /\ wpc' = [wpc EXCEPT ![w] = "loop"]
  /\ held' = [held EXCEPT ![w] = None]
  /\ UNCHANGED <<stage, msgs, in_queue, service_queue, mgrVars, cur, spc, target,
                 sent>>

CheckExited(w) ==
  /\ Alive
  /\ wpc[w] = "exited"
  /\ \/ /\ stage[held[w]] = "Exited"
        /\ wpc' = [wpc EXCEPT ![w] = "delete"]
        /\ UNCHANGED held
     \/ /\ stage[held[w]] # "Exited"
        /\ wpc' = [wpc EXCEPT ![w] = "loop"]
        /\ held' = [held EXCEPT ![w] = None]
  /\ UNCHANGED <<stage, msgs, in_queue, service_queue, mgrVars, cur, spc, target,
                 sent>>

\* The loop of Stop stands at service s: its Stop was called, its Exit was not.
Visiting(s) == <<s, "exit">> \in stop_todo /\ <<s, "stop">> \notin stop_todo

\* assert(0) comes first; without asserts the service leaves services_.  It is
\* undefined to erase it a second time, or under the iterator of Stop's loop,
\* which takes no lock.
DeleteService(w) ==
  LET s == held[w] IN
  /\ ~crashed
  /\ wpc[w] = "delete"
  /\ crashed' = (~NDEBUG \/ s \notin services \/ Visiting(s))
  /\ services' = services \ {s}
  /\ stop_todo' = {p \in stop_todo : p[1] # s}
  /\ wpc' = [wpc EXCEPT ![w] = "loop"]
  /\ held' = [held EXCEPT ![w] = None]
  /\ UNCHANGED <<stage, msgs, in_queue, service_queue, run, stop_pc, cur, spc,
                 target, sent>>

-----------------------------------------------------------------------------
(* ServiceMgr::Stop, by the main thread.                                   *)

\* run_ is cleared under the mutex.
Stop ==
  /\ Alive
  /\ stop_pc = "idle"
  /\ spc[Main] = "idle"
  /\ run' = FALSE
  /\ stop_pc' = "notify"
  /\ UNCHANGED <<stage, msgs, in_queue, service_queue, services, stop_todo, wpc,
                 held, cur, spc, target, sent>>

\* Mutant of NotifyAll: notify_one.
NotifyOneOnStop ==
  /\ Alive
  /\ stop_pc = "notify"
  /\ spc[Main] = "idle"
  /\ stop_pc' = "send"
  /\ \/ \E w \in Workers : wpc[w] = "wait" /\ wpc' = [wpc EXCEPT ![w] = "loop"]
     \/ (\A w \in Workers : wpc[w] # "wait") /\ UNCHANGED wpc
  /\ stop_todo' = services \X {"stop", "exit"}
  /\ UNCHANGED <<stage, msgs, in_queue, service_queue, services, run, held, cur,
                 spc, target, sent>>

\* notify_all, and the loop over services_ begins.
NotifyAll ==
  /\ Alive
  /\ stop_pc = "notify"
  /\ spc[Main] = "idle"
  /\ stop_pc' = "send"
  /\ wpc' = [w \in Workers |-> IF wpc[w] = "wait" THEN "loop" ELSE wpc[w]]
  /\ stop_todo' = services \X {"stop", "exit"}
  /\ UNCHANGED <<stage, msgs, in_queue, service_queue, services, run, held, cur,
                 spc, target, sent>>

\* One call of the loop: Stop(nullptr) of a service, then its Exit(); a call
\* whose message the mailbox rejects does nothing.
StopSend(s, k) ==
  /\ Alive
  /\ <<s, k>> \in stop_todo
  /\ IF k = "exit" THEN Visiting(s) ELSE \A r \in Services : ~Visiting(r)
  /\ stop_todo' = stop_todo \ {<<s, k>>}
  /\ \/ PushMsg(Main, s, k)
     \/ /\ ~Accepts(stage[s], k) /\ spc[Main] = "idle"
        /\ UNCHANGED <<msgs, spc, target>>
  /\ UNCHANGED <<stage, in_queue, service_queue, services, run, stop_pc, wpc,
                 held, cur, sent>>

-----------------------------------------------------------------------------

Sending(t) == PushService(t) \/ NotifyOne(t)

Working(w) ==
  \/ PopService(w) \/ PopMsg(w) \/ EnterProcessMsg(w) \/ LeaveProcessMsg(w)
  \/ ClearInQueue(w) \/ CheckMsgs(w) \/ EndRepush(w)
  \/ CheckExited(w) \/ DeleteService(w)

Stopping == NotifyAll \/ \E s \in Services, k \in {"stop", "exit"} : StopSend(s, k)

Next ==
  \/ \E t \in Threads, s \in Services, k \in Kinds : Send(t, s, k)
  \/ \E t \in Threads : Sending(t)
  \/ \E w \in Workers : Working(w) \/ SpuriousWakeup(w)
  \/ Stop
  \/ Stopping

Spec == Init /\ [][Next]_vars

(***************************************************************************)
(* Fairness: a thread that can take its next step takes it (the operating  *)
(* system schedules every thread, mutexes are released, and handlers       *)
(* return: they are coroutines that suspend instead of blocking).  No      *)
(* thread is obliged to send, and nobody is obliged to call Stop.          *)
(***************************************************************************)
Fairness ==
  /\ \A t \in Threads : WF_vars(Sending(t))
  /\ \A w \in Workers : WF_vars(Working(w))
  /\ WF_vars(Stopping)

FairSpec == Spec /\ Fairness

-----------------------------------------------------------------------------
(* Properties.                                                             *)

TypeOK ==
  /\ stage \in [Services -> Stages]
  /\ msgs \in [Services -> Seq(Kinds)]
  /\ in_queue \in [Services -> BOOLEAN]
  /\ service_queue \in Seq(Services)
  /\ services \subseteq Services
  /\ run \in BOOLEAN
  /\ stop_pc \in {"idle", "notify", "send"}
  /\ stop_todo \subseteq Services \X {"stop", "exit"}
  /\ wpc \in [Workers -> WorkerPc]
  /\ held \in [Workers -> Services \cup {None}]
  /\ cur \in [Workers -> Kinds \cup {"none"}]
  /\ spc \in [Threads -> SendPc]
  /\ target \in [Threads -> Services \cup {None}]
  /\ sent \in 0..MaxSends
  /\ crashed \in BOOLEAN

\* Worker w owns the service it popped: from PopService to set_in_queue(false).
Owning(w) == wpc[w] \in {"take", "process", "handler", "unset"}
Owns(w, s) == Owning(w) /\ held[w] = s

\* No service is in the hands of two workers, which is what the comment in
\* PushService promises ("avoid the current Service being held by several Work
\* threads that ProcessMsg").
MutualExclusion ==
  \A v, w \in Workers : Owning(v) /\ Owning(w) /\ held[v] = held[w] => v = w

Queued(s) == \E i \in 1..Len(service_queue) : service_queue[i] = s

\* Somebody looks after s: it is in the run queue or in the hands of a worker,
\* or some thread is still going to push it, or to look at its mailbox.
Attended(s) ==
  \/ Queued(s)
  \/ \E w \in Workers : Owns(w, s)
  \/ \E t \in Threads : spc[t] = "push" /\ target[t] = s
  \/ \E w \in Workers : wpc[w] = "check" /\ held[w] = s

\* Nobody forgets a message: a service with messages in its mailbox is looked
\* after, at every step of PushMsg, PushService and of the loop of the workers.
NoLostWakeup == \A s \in Services : msgs[s] # << >> => Attended(s)

\* The pool does not sleep on a non-empty run queue: when all workers wait on
\* service_queue_cv_ a thread that pushed is about to notify one of them.
NoMissedNotify ==
  service_queue # << >> /\ (\A w \in Workers : wpc[w] = "wait")
    => \E t \in Threads : spc[t] = "notify"

\* ServiceMgr::Stop leaves no worker asleep: it notifies all of them after the
\* mutex is released, and only once, so none may go to sleep from then on.
NoSleeperAfterStop == stop_pc = "send" => \A w \in Workers : wpc[w] # "wait"

(***************************************************************************)
(* The strengthening that makes these invariants inductive.                *)
(***************************************************************************)

\* What the program counters say about the other variables of a thread.
ControlInv ==
  /\ \A w \in Workers :
       /\ wpc[w] \notin {"loop", "wait", "done"} => held[w] \in Services
       /\ wpc[w] \in {"process", "handler"} <=> cur[w] # "none"
       /\ spc[w] # "idle" => wpc[w] \in {"handler", "repush"}
  /\ \A t \in Threads : spc[t] = "push" => target[t] \in Services
  /\ stop_pc # "idle" => ~run

\* in_queue_ is set exactly while the service is in the run queue, once, or in
\* the hands of a worker.
QueueInv ==
  /\ \A i \in 1..Len(service_queue) : in_queue[service_queue[i]]
  /\ \A i, j \in 1..Len(service_queue) :
       service_queue[i] = service_queue[j] => i = j
  /\ \A w \in Workers : Owning(w) => in_queue[held[w]] /\ ~Queued(held[w])
  /\ \A s \in Services : in_queue[s] => Queued(s) \/ \E w \in Workers : Owns(w, s)

IInv == /\ TypeOK /\ ControlInv /\ QueueInv
        /\ MutualExclusion /\ NoLostWakeup /\ NoMissedNotify /\ NoSleeperAfterStop

\* The mailbox and the worker that owns a service make an actor of it.
Processing(w, s) == wpc[w] \in {"process", "handler"} /\ held[w] = s

Handling ==
  [s \in Services |->
     IF \E w \in Workers : Processing(w, s)
     THEN <<cur[CHOOSE w \in Workers : Processing(w, s)]>>
     ELSE << >>]

ActorView == INSTANCE Actor WITH
  Message <- Kinds, mailbox <- msgs, handling <- Handling

\* Whatever the workers do, every service behaves as an actor: its messages
\* are handled one at a time, once, in the order its mailbox accepted them.
ActorSpec == ActorView!Spec

\* Every mailbox is emptied, as long as the service has not exited, the
\* process has not aborted and the workers are not told to stop.
EveryMessageTaken ==
  \A s \in Services :
    msgs[s] # << >> ~> (msgs[s] = << >> \/ stage[s] = "Exited" \/ ~run \/ crashed)

\* After ServiceMgr::Stop every worker leaves its loop, and can be joined.
WorkersEnd == ~run ~> (crashed \/ \A w \in Workers : wpc[w] = "done")

\* A service that has exited is removed from services_ (worker.cpp: "the
\* service has exited, destroy it"), and what its mailbox still holds is
\* discarded (ProcessMsgs: "if Exit was processed, all messages and unfinished
\* tasks are simply discarded").
ExitedIsDestroyed ==
  \A s \in Services :
    stage[s] = "Exited" ~> (s \notin services \/ ~run \/ crashed)
=============================================================================
