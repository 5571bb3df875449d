------------------------------- MODULE Framework -------------------------------
(***************************************************************************)
(* The life of a Million object: Init creates the components and lets the  *)
(* modules add their services, Start starts the threads, the destructor    *)
(* stops them and destroys the components.                                 *)
(*                                                                         *)
(* The main thread does all this, but it is not alone: a service that      *)
(* calls EnableSeparateWorker in its OnInit is served by a thread of its   *)
(* own while Init goes on, the pool threads run as soon as they are        *)
(* spawned, and all of them call into components through Million.          *)
(*                                                                         *)
(* What messages say is left out: a service has a message or has none, and *)
(* a handler may use every component.  A module's library is dlopened and  *)
(* its entry points are called: here it is a list of services.             *)
(***************************************************************************)
EXTENDS Naturals, Sequences, FiniteSets, SequencesExt

CONSTANTS Modules,   \* the modules that the settings load
          Bootstrap, \* jssvr.bootstarp: <<"js">>, or <<>> when it is not set
          Workers,   \* threads of worker_mgr
          MaxSent    \* bound: messages that timers and io threads send

VARIABLES
  main,      \* the main thread: [at, step, todo (services of the module), join]
  stage,     \* stage_
  exists,    \* components whose unique_ptr is set
  inited,    \* modules whose MillionModuleInit was called
  services,  \* services_
  names,     \* keys of name_map_; a name leads to the service of that name
  queue,     \* services with a message that no thread has taken
  started,   \* services whose OnStart was called
  thread,    \* state of every thread; in a handler, the service
  run,       \* the flag of every pool thread: run_, for io not stopped()
  mgr_run,   \* run_ of service_mgr
  missed,    \* <<service, name>>: look-ups that found no service (history)
  sent       \* messages sent by timers and io threads, for the bound

vars == <<main, stage, exists, inited, services, names, queue, started, thread,
          run, mgr_run, missed, sent>>

---------------------------------------------------------------------------
(* The modules: which services MillionModuleInit creates, in which order.  *)

DbServices == <<"cache", "sql", "db">>
ServicesOf == [agent |-> <<"agentmgr">>, cluster |-> <<"cluster">>,
               config |-> <<"config">>, db |-> DbServices,
               etcd |-> <<"etcd", "discovery">>, gateway |-> <<"gateway">>,
               jssvr |-> <<"jsruntime">> \o Bootstrap, logger |-> <<"logger">>]

\* jssvr dereferences what it finds, so it is loaded together with db.
ASSUME FrameworkAssumption ==
  /\ Modules \subseteq DOMAIN ServicesOf
  /\ "jssvr" \in Modules => "db" \in Modules
  /\ Bootstrap \in {<<>>, <<"js">>} /\ MaxSent \in Nat

Unnamed == {"jsruntime", "js", "jsconfig", "logger"}
Separate == {"cache", "sql", "etcd"}
Services == (UNION {ToSet(ServicesOf[m]) : m \in Modules}) \union {"jsconfig"}

\* Names that OnInit looks up; a service that misses one fails.
InitNeeds(s) == CASE s = "db" -> {"sql", "cache"}
                  [] s = "discovery" -> {"etcd"}
                  [] s = "jsconfig" -> {"config"}
                  [] OTHER -> {}
\* Names that OnStart looks up.
StartNeeds(s) == CASE s = "jsruntime" -> {"db", "cache"}
                   [] s = "agentmgr" -> {"node_manager", "gateway"}
                   [] OTHER -> {}
\* OnInit returns false after the service got its name, for missing settings, or
\* throws (js), for a script that cannot be loaded.
MayFail == {"cache", "sql", "config", "etcd", "cluster", "logger", "js"}
\* Services whose module goes on when they failed.
\* Mutant: MillionModuleInit of db ignores what NewService returns.
TolerantDb == {"agentmgr", "js"} \union ToSet(DbServices)
Tolerant == {"agentmgr", "js"}

---------------------------------------------------------------------------
(* The components and their order.                                         *)

InitOrder == <<"logger", "snowflake", "service_mgr", "session_mgr", "worker_mgr",
               "io_context_mgr", "session_monitor", "proto_mgr", "timer",
               "module_mgr">>
\* Before these, Init returns false when the settings lack a key.
Configured == {"snowflake", "worker_mgr", "io_context_mgr", "session_monitor",
               "timer", "module_mgr"}
StartOrder == <<"worker_mgr", "io_context_mgr", "session_monitor", "timer",
                "module_mgr">>
\* Mutant: Stop forgets the workers; ~WorkerMgr joins them, after ~Timer.
StopOrderNoWorkers == <<"module_mgr", "timer", "service_mgr", "session_monitor",
                        "io_context_mgr">>
StopOrder == <<"module_mgr", "timer", "service_mgr", "session_monitor",
               "io_context_mgr", "worker_mgr">>
\* The members are destroyed in the reverse of the order of declaration.
DestroyOrder == <<"snowflake", "timer", "io_context_mgr", "worker_mgr",
                  "module_mgr", "proto_mgr", "logger", "session_monitor",
                  "session_mgr", "service_mgr">>

Ticking == {"monitor", "timer"}
Pool == Workers \union Ticking \union {"io"}
ThreadsOf(c) == CASE c = "worker_mgr" -> Workers
                  [] c = "io_context_mgr" -> {"io"}
                  [] c = "session_monitor" -> {"monitor"}
                  [] c = "timer" -> {"timer"}
                  [] OTHER -> {}
Ended == {"none", "ended"}

\* The threads of worker_mgr are none of the others.
ASSUME ThreadsAssumption == Workers \intersect (Ticking \union {"io"} \union Separate) = {}

\* The components a thread may call in its state.
Sending == {"service_mgr", "session_mgr", "logger"}
Uses(t) ==
  IF thread[t] \in Ended THEN {}
  ELSE CASE t = "timer" -> Sending \union {"timer"}
         [] t = "monitor" -> Sending \union {"session_monitor"}
         [] t = "io" -> Sending \union {"io_context_mgr"}
         [] t \notin Ticking \union {"io"} /\ thread[t] \in Services -> Sending \union
              {"session_monitor", "timer", "io_context_mgr", "proto_mgr", "snowflake"}
         [] OTHER -> {"service_mgr"}

Init ==
  /\ main = [at |-> "init", step |-> 1, todo |-> <<>>, join |-> "none"]
  /\ stage = "kUninitialized"
  /\ exists = {} /\ inited = {} /\ services = {} /\ names = {}
  /\ queue = {} /\ started = {} /\ missed = {} /\ sent = 0
  /\ thread = [t \in Pool \union Separate |-> "none"]
  /\ run = [t \in Pool |-> t = "io"]
  /\ mgr_run = TRUE

---------------------------------------------------------------------------
(* The registry.                                                           *)

\* FindServiceByNameId: an entry of a service that AddService erased again is
\* an iterator to nothing.
Found(n) == n \in names /\ n \in services

\* PushService: the message wakes a worker that sleeps in PopService.
Woken(ts, q) ==
  IF q \subseteq Separate THEN {ts}
  ELSE LET asleep == {w \in Workers : ts[w] = "asleep"}
       IN  IF asleep = {} THEN {ts} ELSE {[ts EXCEPT ![w] = "loop"] : w \in asleep}

\* AddService and, if it succeeds, the Start message.  ts is the thread table
\* the caller leaves behind, misses what it looked up in vain itself.
AddService(s, ok, start, ts, misses) ==
  LET lost == {n \in InitNeeds(s) : ~Found(n)}
      added == ok /\ lost = {}
      push == IF added /\ start THEN {s} ELSE {}
  IN  /\ names' = IF s \in Unnamed THEN names ELSE names \union {s}
      /\ services' = IF added THEN services \union {s} ELSE services
      /\ queue' = queue \union push
      /\ thread' \in Woken(IF s \in Separate THEN [ts EXCEPT ![s] = "loop"] ELSE ts,
                           push)
      /\ missed' = missed \union misses \union ({s} \X lost)

---------------------------------------------------------------------------
(* Init.                                                                   *)

\* The next component is created.
Create ==
  /\ main.at = "init" /\ main.step <= Len(InitOrder)
  /\ exists' = exists \union {InitOrder[main.step]}
  /\ main' = [main EXCEPT !.step = @ + 1]
  /\ UNCHANGED <<stage, inited, services, names, queue, started, thread, run,
                 mgr_run, missed, sent>>

\* A key is missing: Init returns false and the application destroys the
\* object.
InitFails ==
  /\ main.at = "init" /\ main.step <= Len(InitOrder)
  /\ InitOrder[main.step] \in Configured
  /\ main' = [main EXCEPT !.at = "stop", !.step = 1]
  /\ UNCHANGED <<stage, exists, inited, services, names, queue, started, thread,
                 run, mgr_run, missed, sent>>

\* Load is given a module twice or cannot open its library: the same.
LoadFails ==
  /\ main.at = "init" /\ main.step > Len(InitOrder) /\ inited = {}
  /\ main' = [main EXCEPT !.at = "stop", !.step = 1]
  /\ UNCHANGED <<stage, exists, inited, services, names, queue, started, thread,
                 run, mgr_run, missed, sent>>

\* ModuleMgr::Init calls the modules in the order of their paths.
ModuleInit(m) ==
  /\ main.at = "init" /\ main.step > Len(InitOrder)
  /\ m \notin inited
  /\ inited' = inited \union {m}
  /\ main' = [main EXCEPT !.at = "module", !.todo = ServicesOf[m]]
  /\ UNCHANGED <<stage, exists, services, names, queue, started, thread, run,
                 mgr_run, missed, sent>>

\* MillionModuleInit creates its next service; it returns false if that fails.
NewService(ok) ==
  LET s == Head(main.todo) IN
  /\ main.at = "module" /\ main.todo # <<>>
  /\ ok \/ s \in MayFail
  /\ AddService(s, ok, s # "agentmgr", thread, {})
  /\ main' = IF s \in services' \union Tolerant
             THEN [main EXCEPT !.todo = Tail(@)]
             ELSE [main EXCEPT !.at = "stop", !.step = 1]
  /\ UNCHANGED <<stage, exists, inited, started, run, mgr_run, sent>>

\* JSRuntimeService lacks its settings, and MillionModuleInit of jssvr reads the
\* handle that NewService did not return: undefined.  The process crashes, or
\* what is read is like an empty handle: then Init fails, or goes on if there is
\* no bootstarp to use it.
NoRuntime ==
  /\ main.at = "module" /\ main.todo # <<>> /\ Head(main.todo) = "jsruntime"
  /\ \/ /\ main' = [main EXCEPT !.at = "crashed"]
        /\ thread' = [t \in DOMAIN thread |-> "none"]
     \/ /\ main' = [main EXCEPT !.at = "stop", !.step = 1]
        /\ UNCHANGED thread
     \/ /\ Tail(main.todo) = <<>>
        /\ main' = [main EXCEPT !.todo = <<>>]
        /\ UNCHANGED thread
  /\ UNCHANGED <<stage, exists, inited, services, names, queue, started, run,
                 mgr_run, missed, sent>>

ModuleDone ==
  /\ main.at = "module" /\ main.todo = <<>>
  /\ main' = [main EXCEPT !.at = "init"]
  /\ UNCHANGED <<stage, exists, inited, services, names, queue, started, thread,
                 run, mgr_run, missed, sent>>

InitDone ==
  /\ main.at = "init" /\ main.step > Len(InitOrder) /\ inited = Modules
  /\ stage' = "kReady"
  /\ main' = [main EXCEPT !.at = "ready"]
  /\ UNCHANGED <<exists, inited, services, names, queue, started, thread, run,
                 mgr_run, missed, sent>>

---------------------------------------------------------------------------
(* Start.                                                                  *)

StartBegin ==
  /\ main.at = "ready" /\ stage = "kReady"
  /\ main' = [main EXCEPT !.at = "start", !.step = 1]
  /\ UNCHANGED <<stage, exists, inited, services, names, queue, started, thread,
                 run, mgr_run, missed, sent>>

\* The timers set their flag before they spawn their thread.
StartThreads ==
  /\ main.at = "start"
  /\ LET ts == ThreadsOf(StartOrder[main.step]) IN
     /\ ts # {}
     /\ thread' = [t \in DOMAIN thread |-> IF t \in ts THEN "spawned" ELSE thread[t]]
     /\ run' = [t \in Pool |-> IF t \in ts THEN run[t] \/ t \in Ticking ELSE run[t]]
  /\ main' = [main EXCEPT !.step = @ + 1]
  /\ UNCHANGED <<stage, exists, inited, services, names, queue, started, mgr_run,
                 missed, sent>>

\* module_mgr: only the agent module has a MillionModuleStart, which starts
\* the service it created without a start.
StartModules ==
  /\ main.at = "start" /\ StartOrder[main.step] = "module_mgr"
  /\ LET agents == {"agentmgr"} \intersect services
         found == {s \in agents : Found(s)}
     IN  /\ queue' = queue \union found
         /\ thread' \in Woken(thread, found)
         /\ missed' = missed \union ({"agent"} \X (agents \ found))
  /\ main' = [main EXCEPT !.at = "running"]
  /\ UNCHANGED <<stage, exists, inited, services, names, started, run, mgr_run, sent>>

---------------------------------------------------------------------------
(* The threads.                                                            *)

\* Mutant: every thread sets its flag, as the workers do.
BeginSetsFlag(t) ==
  /\ thread[t] = "spawned"
  /\ thread' = [thread EXCEPT ![t] = "loop"]
  /\ run' = [run EXCEPT ![t] = TRUE]
  /\ UNCHANGED <<main, stage, exists, inited, services, names, queue, started,
                 mgr_run, missed, sent>>
\* A worker sets its flag and enters the loop; the others just enter it.
Begin(t) ==
  /\ thread[t] = "spawned"
  /\ thread' = [thread EXCEPT ![t] = "loop"]
  /\ run' = [run EXCEPT ![t] = @ \/ t \in Workers]
  /\ UNCHANGED <<main, stage, exists, inited, services, names, queue, started,
                 mgr_run, missed, sent>>

\* Services that PopService, or the thread of the service, may take: nobody
\* else is in a handler of theirs.
Free == {s \in queue : \A t \in DOMAIN thread : thread[t] # s}

\* PopService: a worker takes a service, sleeps, or is told to end.
WorkerLoop(w) ==
  /\ thread[w] = "loop"
  /\ \/ /\ ~run[w] \/ ~mgr_run
        /\ thread' = [thread EXCEPT ![w] = "ended"] /\ UNCHANGED queue
     \/ /\ run[w] /\ mgr_run /\ Free \subseteq Separate
        /\ thread' = [thread EXCEPT ![w] = "asleep"] /\ UNCHANGED queue
     \/ /\ run[w] /\ mgr_run
        /\ \E s \in Free \ Separate :
             /\ thread' = [thread EXCEPT ![w] = s]
             /\ queue' = queue \ {s}
  /\ UNCHANGED <<main, stage, exists, inited, services, names, started, run,
                 mgr_run, missed, sent>>

\* SeparateThreadHandle takes a message of its service.
SeparateTake(s) ==
  /\ thread[s] = "loop" /\ s \in Free
  /\ thread' = [thread EXCEPT ![s] = s]
  /\ queue' = queue \ {s}
  /\ UNCHANGED <<main, stage, exists, inited, services, names, started, run,
                 mgr_run, missed, sent>>

\* A handler ends or suspends.  The first one of a service is its OnStart: it
\* looks services up, and the one of JSRuntimeService adds JSConfigService.
Handled(t, s) ==
  LET misses == {s} \X {n \in StartNeeds(s) : ~Found(n)}
      back == [thread EXCEPT ![t] = "loop"]
  IN
  /\ thread[t] = s
  /\ started' = started \union {s}
  /\ IF s = "jsruntime" /\ s \notin started
     THEN AddService("jsconfig", TRUE, TRUE, back, misses)
     ELSE /\ thread' = back
          /\ missed' = IF s \in started THEN missed ELSE missed \union misses
          /\ UNCHANGED <<services, names, queue>>
  /\ UNCHANGED <<main, stage, exists, inited, run, mgr_run, sent>>

\* The timers and the io thread send a message to a service that runs.
Deliver(t, s) ==
  /\ t \in Ticking \union {"io"} /\ thread[t] = "loop" /\ run[t]
  /\ s \in started \ queue
  /\ sent < MaxSent /\ sent' = sent + 1
  /\ queue' = queue \union {s}
  /\ thread' \in Woken(thread, {s})
  /\ UNCHANGED <<main, stage, exists, inited, services, names, started, run,
                 mgr_run, missed>>

\* They leave their loop when they see the flag.
Leave(t) ==
  /\ t \in Ticking \union {"io"} /\ thread[t] = "loop" /\ ~run[t]
  /\ thread' = [thread EXCEPT ![t] = "ended"]
  /\ UNCHANGED <<main, stage, exists, inited, services, names, queue, started, run,
                 mgr_run, missed, sent>>

---------------------------------------------------------------------------
(* ~Million: Stop, then the members.                                       *)

\* The application destroys the object, started or not.
StopBegin ==
  /\ main.at \in {"ready", "running"}
  /\ main' = [main EXCEPT !.at = "stop", !.step = 1]
  /\ UNCHANGED <<stage, exists, inited, services, names, queue, started, thread,
                 run, mgr_run, missed, sent>>

Stopping(c) == main.at = "stop" /\ main.step <= Len(StopOrder) /\ StopOrder[main.step] = c
Live(c) == {t \in ThreadsOf(c) : thread[t] \notin Ended}

\* A component that was never created is skipped; one without threads, or
\* whose threads have been joined, is done.
StopNext(c) ==
  /\ Stopping(c) /\ Live(c) = {} /\ (c = "service_mgr" => c \notin exists)
  /\ main' = [main EXCEPT !.step = @ + 1]
  /\ UNCHANGED <<stage, exists, inited, services, names, queue, started, thread,
                 run, mgr_run, missed, sent>>

\* Stop of a thread: the flag, then the destructor of the jthread joins it.
StopThread(c, t) ==
  /\ Stopping(c) /\ t \in Live(c)
  /\ run' = [run EXCEPT ![t] = FALSE]
  /\ main' = [main EXCEPT !.at = "join", !.join = t]
  /\ UNCHANGED <<stage, exists, inited, services, names, queue, started, thread,
                 mgr_run, missed, sent>>

Join ==
  /\ main.at = "join" /\ thread[main.join] = "ended"
  /\ main' = [main EXCEPT !.at = "stop", !.join = "none"]
  /\ UNCHANGED <<stage, exists, inited, services, names, queue, started, thread,
                 run, mgr_run, missed, sent>>

\* ServiceMgr::Stop: run_, notify_all, then Stop and Exit for every service.
ServiceMgrStop ==
  /\ Stopping("service_mgr") /\ "service_mgr" \in exists
  /\ mgr_run' = FALSE
  /\ thread' = [t \in DOMAIN thread |->
                  IF thread[t] = "asleep" THEN "loop" ELSE thread[t]]
  /\ queue' = queue \union services
  /\ main' = [main EXCEPT !.step = @ + 1]
  /\ UNCHANGED <<stage, exists, inited, services, names, started, run, missed,
                 sent>>

StopDone ==
  /\ main.at = "stop" /\ main.step > Len(StopOrder)
  /\ main' = [main EXCEPT !.at = "destroy", !.step = 1]
  /\ UNCHANGED <<stage, exists, inited, services, names, queue, started, thread,
                 run, mgr_run, missed, sent>>

\* A member is destroyed; a jthread that it still holds is joined.
Destroy ==
  /\ main.at = "destroy"
  /\ Live(DestroyOrder[main.step]) = {}
  /\ exists' = exists \ {DestroyOrder[main.step]}
  /\ main' = IF main.step = Len(DestroyOrder) THEN [main EXCEPT !.at = "done"]
             ELSE [main EXCEPT !.step = @ + 1]
  /\ UNCHANGED <<stage, inited, services, names, queue, started, thread, run,
                 mgr_run, missed, sent>>

---------------------------------------------------------------------------

Stop == \/ Join \/ ServiceMgrStop \/ StopDone \/ Destroy
        \/ \E i \in 1..Len(StopOrder) :
             StopNext(StopOrder[i]) \/ \E t \in Pool : StopThread(StopOrder[i], t)

Thread(t) == \/ Begin(t) \/ Leave(t) \/ (t \in Workers /\ WorkerLoop(t))
             \/ \E s \in Services : Handled(t, s)

Next ==
  \/ Create \/ InitFails \/ LoadFails \/ InitDone \/ ModuleDone
  \/ \E m \in Modules : ModuleInit(m)
  \/ NoRuntime \/ \E ok \in BOOLEAN : NewService(ok)
  \/ StartBegin \/ StartThreads \/ StartModules \/ StopBegin \/ Stop
  \/ \E t \in Pool : Thread(t)
  \/ \E s \in Separate : SeparateTake(s) \/ Handled(s, s)
  \/ \E t \in Pool, s \in Services : Deliver(t, s)

Spec == Init /\ [][Next]_vars

\* The destructor goes on, and every pool thread runs; handlers end.
FairSpec == Spec /\ WF_vars(Stop) /\ \A t \in Pool : WF_vars(Thread(t))

---------------------------------------------------------------------------
(* Properties.                                                             *)

\* Every component that a thread may call exists: those that a separate
\* worker uses while Init goes on, and those that a pool thread uses while
\* the members are destroyed (the asserts of Million's accessors).  A separate
\* worker is detached and outlives the object; nothing is said about it then.
ComponentsExist ==
  /\ \A t \in Pool : Uses(t) \subseteq exists
  /\ main.at \notin {"destroy", "done"} => \A s \in Separate : Uses(s) \subseteq exists

\* OnInit, OnStart and MillionModuleStart find every service they look up, if
\* a configured module creates it, whatever the order of the modules and of
\* the handlers: never an erased service, never one that comes later.
LookupsFind == \A miss \in missed : miss[2] \notin Services

\* The destructor ends: no thread misses the end, though a worker sets run_
\* itself, after Stop may have cleared it, or sleeps.
StopEnds == (main.at = "stop") ~> (main.at = "done")

=============================================================================
