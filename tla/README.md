# A TLA+ model of million

`million` is an actor framework for game servers in C++20. A program is a set of
*services*; a service owns a mailbox and a set of coroutines; a pool of worker
threads runs the services; services talk by messages and wait for answers by
awaiting *sessions*, which a monitor thread can time out. Modules on top of the
core add TCP connections, a cluster of nodes, a database cache, a gateway and
more.

This directory holds TLA+ modules translated from the source, TLC configurations
that check them on small instances, and proofs for every instance. `PROJECT.json`
maps each definition to the lines it models, and lists the runs, the mutants, the
hazards, the findings and the theorems.

## 1. Inventory

| Component | State | Operations | Talks to |
| --- | --- | --- | --- |
| Run queue and worker pool (`service_mgr.cpp`, `worker.cpp`, `worker_mgr.cpp`) | `services_`, `service_queue_`, `run_`, a condition variable; per service `in_queue_` | `Send`, `PushService`, `PopService`, `DeleteService`, `Stop`, `AddService`, name and id maps; the loop of `Worker::Start` | every thread pushes, the workers pop; calls `ServiceCore` |
| Mailbox and lifecycle (`service_core.cpp`) | `msgs_`, `stage_` | `PushMsg`, `PopMsg`, `ProcessMsg(s)`, `ReplyMsg`, `Start`, `Stop`, `Exit`, the thread of a service of its own | called by the worker; resumes coroutines |
| Task executor (`task_executor.cpp`, `task.h`) | `tasks_`: suspended coroutines by session | `AddTask`, `TrySchedule`, `TaskTimeout`, `Push`, `RePush` | tells the monitor which sessions are awaited |
| Session monitor, timer (`session_monitor.cpp`, `timer.cpp`, `internal/wheel_timer.hpp`) | a hierarchical wheel: `slots_`, `indexs_`, `adds_` | `AddSession`, `AddTask`, `Tick` | sends `SessionTimeoutMsg` and timed messages |
| Ids (`seata_snowflake.hpp`, `session_mgr.cpp`, `session_def.h`) | an atomic counter | `NextId`, the reply bit | every call |
| Service lock (`service_lock.cpp`) | a flag and a queue of sessions | `Lock`, `Unlock` | awaits and sends to its own service |
| Event manager (`event_mgr.cpp`) | subscriptions by event | `Subscribe`, `Unsubscribe`, `Send`, `Call` | co_awaits subscribers while it iterates |
| Start and stop (`million.cpp`, `module_mgr.cpp`) | the components, the modules | `Init`, `Start`, `Stop`, loading of modules | creates and joins all threads; modules add services |
| TCP (`net/tcp_connection.cpp`, `net/tcp_server.cpp`) | send queue, `sending_` | `Process`, `Send`, `Close` | asio threads against service threads |
| Cluster (`module/cluster`) | node sessions, waiting messages, name bindings | handshake, forward, call, reply | TCP, services |
| Database (`module/db`) | row cache with versions and dirty flags, the SQL table | query, load, update, periodic write-back, table init | SQL service by sessions, scripts |
| Gateway, agents (`module/gateway`, `module/agent`) | user sessions, agents | connect, login, forward, reset of ids | TCP, application services |
| JavaScript (`module/jssvr`) | contexts of calls, promises, microtasks | `CallFunc`, native functions, conversions | the engine, database, configuration |
| etcd, configuration tables, logger, protobuf | — | glue around libraries | — |

What is hard in this code:

- **Two locks and a flag.** The mailbox has a mutex, the run queue has another,
  and `in_queue_`, which connects them, is cleared under neither
  (`worker.cpp:26`). Whether a message can be forgotten, or a service run by two
  workers, depends on the order of three unlocked steps.
- **Condition variable.** `notify_one` is called after the mutex is released;
  `Stop` notifies once.
- **Timeouts against replies.** The monitor never removes an entry: every await
  with a timeout produces a `SessionTimeoutMsg`, also when the answer came in
  time, and the same session may be awaited again.
- **Lifecycle against coroutines.** `OnStart` and `OnStop` are coroutines, so a
  service may stay in `Starting` or `Stopping` while other messages arrive; the
  mailbox filters by stage, and the stage is inferred from "some coroutine ended".
- **Cascades.** The wheel hands tasks down through five layers while other
  threads add tasks.
- **A timeout stops the service.** `Recv` and `Call` throw when they time out
  (`task.h:98`), and an exception after a timeout stops the whole service
  (`service_core.cpp:126`): one request without an answer ends its service.
- **Start and stop.** Services with a thread of their own run while `Init` still
  creates components, and threads are joined in another order than components
  are destroyed.
- **Above the core**: caches read before an await and written after it, retries
  of writes that did take effect, connections replaced by newer ones, coroutines
  that share a context pointer, values converted at four borders.

What makes each component correct: a service is an actor (one message at a time,
each once, in order), nothing that was accepted is forgotten, every wait ends,
workers can be joined (scheduler); a request is answered at most once and its
coroutine is never lost to a race of reply and timeout, the stages mean what
their comments say (service); a task fires once and at the right tick (wheel);
threads only use components that exist, and the destructor ends (framework); a
row and its version agree between script, cache and database (database); a
message is delivered at most once (cluster); an answer reaches the user or the
promise that asked for it (gateway, JavaScript).
The `hazards` of `PROJECT.json` list these at the lines where they bite.

## 2. Modules

| Module | Models | Composes |
| --- | --- | --- |
| `ServiceStage` | stages and their rules (`Accepts`, `Allowed`, `StageEnter`, `StageLeave`) | — |
| `Actor` | abstract: mailboxes with `Post`, `Begin`, `Finish` | — |
| `ServiceScheduler` | run queue, worker loop, `Send`, `Stop`, `DeleteService` | `ServiceStage`; implements `Actor` |
| `ServiceSchedulerProofs` | theorems about it | `ServiceScheduler` |
| `ServiceCore` | one service: `ProcessMsg`, the task executor, the monitor as the source of timeouts | `ServiceStage` |
| `WheelTimer` | the timing wheel | — |
| `Framework` | `Million`: creation, modules, registry, threads, destruction | — (on what `ServiceScheduler` shows of the run queue) |
| `DBService` | one row in `DBService` and in `SqlService`: versions and timing | — (on what `ServiceCore` shows of calls and timeouts) |
| `DBRowFields` | the fields of that row from a script to SQL: values, types, dirty flags | — (on `DBService`) |
| `Cluster` | the `ClusterService` of every node, connections, handshake | — |
| `Gateway` | `GatewayService`, `AgentMgrService`, users | — |
| `JsService` | `JSService::CallFunc` and its native functions | — |
| `ServiceCoreProofs`, `WheelTimerProofs`, `DBServiceProofs`, `ClusterProofs`, `GatewayProofs`, `JsServiceProofs`, `FrameworkProofs` | theorems | the module before `Proofs`; `JsServiceProofs` also `DBRowFields` |
| `MCServiceScheduler`, `MCServiceCore`, ... | constants of the runs | the module after `MC` |

### ServiceScheduler

An action is one critical section or one unlocked access of one thread. A worker
`w` walks through `wpc[w]`: `loop` (PopService; `wait` while it sleeps on the
condition variable), `take` (PopMsg), `process` and `handler` (ProcessMsg), `unset`
(`set_in_queue(false)`), `check` (`MsgQueueIsEmpty`), `repush` or `exited`
(`IsExited`), `delete`. Any thread `t`, a worker inside a handler too, sends by
`spc[t]`: `idle`, `push` (message in the mailbox, before `PushService`), `notify`
(before `notify_one`). `Stop`, `NotifyAll` and `StopSend` are `ServiceMgr::Stop`.

Data is reduced to what the scheduler tells apart: a message is its kind (start,
stop, exit, other), a handler is the stage it may leave the service in
(`StageLeave`) and the sends it makes on the way.

- *The data race.* `in_queue_` is written without a lock and read under
  `service_queue_mutex_`. `InQueueSeen` lets a reader see the old `TRUE` until the
  writer has passed `msgs_mutex_` in `MsgQueueIsEmpty`, which is when the two
  threads synchronise. After that a reader that pushed its message first
  sees the new value; a reader that comes later does, too.
- *`stage_`* is read by `PushMsg` and written by the worker, both unlocked with
  respect to each other. A stale read is the same as a `PushMsg` that came before
  the write, since the two touch nothing else in common, so it needs no outcomes
  of its own.
- *Asserts.* `DeleteService` begins with `assert(0)`. `NDEBUG` chooses the build;
  an assert that fails, and an erase of an iterator that is already erased, set
  `crashed`, and nothing happens afterwards.

### ServiceCore

`ServiceScheduler` shows that one worker at a time is in `ProcessMsg`, so here it
is one step, for each type of message one action. Between these steps other
threads post lifecycle messages and requests, peers answer, and the monitor sends
timeouts. A coroutine is what the executor sees of it: it ends with a value, with
`nullptr` or by an exception, or it awaits a session; it may await one that another
coroutine awaits, or an invalid one, as the code permits. `monitor[i]` counts
the entries of session `i` in the wheel: `AddSession` is never undone.

A service sends its lifecycle messages to itself, so the answer of an `OnStart`
or `OnStop` that returns a message comes back into its own mailbox (`OwnReply`).

### WheelTimer

`Collect` is the first half of `Tick` (swap `adds_`, dispatch, read the clock),
`Advance` one iteration of its loop. `AddTask` may come between any two of them.
`delay`, `begin`, `age` and `fired` are history: they record what the properties
speak of and influence nothing. Time is the number of ticks that have passed.
The shifts and masks of the code are powers of `SlotCount` here: `Turn[l]` is the
number of ticks in which the layers below `l` turn once, `Gone(ix, l)` how many of
them they have gone when the wheel stands at `ix`. `Collect` records the latter in
`begin`, since a task is put in a slot as if its layer had just moved.

### DBService

Rows do not depend on each other, so the module is about one row, and the row is
its `db_version`: every commit increases it, and the code compares nothing else.
`sql` is the version in the database, `row` and `known` are the two fields of
`DBRowCache`, `own[c]` is the copy that a client loaded. The `tick` flag is always
true (`QueryDBRow` is only called with `true`), so `armed`, the number of
`DBRowTickSync` messages in the timer, stands for it.

A handler that awaits is two actions, with `call[i]` in between: the coroutine,
known by the session it waits for. Requests and answers travel in order through the
mailboxes `sqlq` and `mail`. `SqlFails` is a handler of `SqlService` that throws, so
that no answer comes; `EarlyTimeout` is a timeout that overtakes the answer. As in
`ServiceCore`, a timeout resumes the coroutine with null, an answer that comes
afterwards finds nobody (`LateAnswer`), and an exception after a timeout stops the
service (`up`). A tick that finds nothing to write changes nothing.

### Framework

The main thread is `main`: where it is (`at`, `step`), the services that the
current module has still to create, the thread it joins. `Create` makes the next
component of `InitOrder`, `ModuleInit` and `NewService` are `MillionModuleInit` of a
module with what it creates in the source, `StartThreads` and `StartModules` are
`Start`, and `StopThread`, `Join`, `ServiceMgrStop` and `Destroy` the destructor, with
the members in the order the compiler destroys them. Pool threads take and handle
messages meanwhile; a service with a thread of its own does from its `OnInit` on.
`Uses(t)` are the components that a thread may call where it is.

`names` keeps the names of services that `AddService` erased again, as `name_map_`
does. `LookupsFind` is about services that a configured module creates: `agentmgr`
looks for a node manager that no module of the repository registers, and its
`OnStart` aborts. `jssvr` dereferences what it finds without asking
(`js_service.h:102`), which is why it is only loaded together with `db`. It also
dereferences the handle that `NewService` did not return when the settings of
`JSRuntimeService` are missing (`module.cpp:33`), which is undefined: in `NoRuntime`
the process crashes, or goes on as with an empty handle. Other modules give up
when a service of theirs fails; `Tolerant` are the services after whose failure they
go on.

### DBRowFields

`DBService` shows which versions are written when; this module which values go with
them. A value is `default`, `x` or one that needs 64 bits; a field has one of the
protobuf types. Of a message the module knows one field, and there are two kinds:
in a `message` it is a single one, in a `listmessage` a list, with no element, one,
or `more`. To assign an object to a message field does not clear it (`MutableMessage`,
then `Add...` for each element), so that a script which assigns what it read adds
the elements once more. Messages with a oneof, and numbers of an enum without a
name, are left out. The conversions are tables by type: `JsType` and `Accepts`/`FromJs`
between protobuf and JavaScript (`js_util.h`), `BindType`, `SqlType`, `ReadType`
between protobuf and SQL (`sql_service.h`), `DriverType` for SOCI. `Assign` marks
the field dirty before it converts, as `SetProperty` does. `AlterTable` may stop
after any column. `Restart` keeps the SQL table only.

A commit that is refused, a load that finds an unreadable row and an insertion that
fails are never answered; the `Call` throws, and the service that called is stopped
(`db_up`, for `DBService`). The history variable `lost` says that an accepted update
was replaced by a row without it, which the code permits in two ways: a load
overwrites the cached row, and a row that is out of date is accepted at the second
attempt, because `Commit` has increased its version at the first. The properties
speak of the time before that. Its specification is `RowSpec`, of `RowInit` and
`RowNext` over `rowvars`: `JsServiceProofs` extends it together with `JsService`,
whose names are the plain ones.

### Cluster

A connection is a record: who opened it, where its sockets are open, which ends
have the message about it still before them (`hello`), have called `set_node_id`
(`known`), or have handled its end (`gone`). `wire[c][n]` is what node `n` has still to
handle. `queue[n][e]` is an entry of `node_session_message_queue_map_` together with
the io coroutine that opens the connection: `connect`, `bind` (the name is bound to
the session), `handshake` (the request is sent), `wait`. A name is bound before
the request is sent, so a service may send a message while the io thread sends the
request, each in several pieces. `SendHandshake` mixes them in both ways that
differ for the receiver: `Garbled`, a packet that it refuses, and `Shifted` with
`Misaligned` behind it, a message whose payload cannot be decoded on a connection
whose lengths are wrong from there on. `Misread` is what `TcpConnection::Process` and
`ClusterService` make of that: the connection is closed, or waits, or a packet is
refused or read past its end. That misread bytes happen to form a packet of the
cluster is left out. `Dispatch` is
`HandleClusterCallOrSendMessage`, for a new message and for those of a queue: in
that case the handler has taken the response from the connection before, and has
closed duplicate connections (`w` and `shut`), on which nothing is sent any more.

`HandshakeFlushes` says that a queue that waits for a handshake does not wait for
ever. It excepts what the code has no remedy for: a service that was stopped, and a
queue whose handshake was mixed into `Misaligned` (`Unreadable`), since the peer may
then wait for bytes with the connection open, and queues have no time limit (the
comment above `NodeSessionMessageQueue` says so). `NoStaleBinding` allows a name to
lead to a lost connection only while the queue is there that the connection was
opened for, under the same name.

An assert that fails and a session that is used after it was destroyed set
`crashed`. A call whose service does not answer stops the `ClusterService`
(`stopped`); its sockets stay open.

That messages of one sender arrive in order is not a property: a message for a bound
name is sent at once, while earlier ones wait in the queue for the handshake.

### Gateway

The mailbox of `GatewayService` is a queue. `waiting[id]` is the connection whose
coroutine waits for replies to `id`; `agent_id` and `handle` are what `UserSession`
keeps. Answers, agents that were created, new ids and the end of the connection
are all replies to the same id. Users, the user service and agents may do what
their interface allows at any moment. `asker` travels with packets and answers as
history.

`SessionEnds` excepts connections whose id is reset after their end was handled:
the coroutine that the reset starts waits without a timeout, and nothing ends it.
`AnswersToAsker` allows an answer to be lost only if the connection was closed or
its id was reset.

### JsService

`co[a]` is the coroutine of a `CallFunc`, `fn[a]` the JavaScript function it called,
`ctx[a]` its `FunctionCallContext`; `current` is the pointer that native functions
write through, `micro` the queue of microtasks of all coroutines. A function runs
from one await to the next; `SegmentKinds` lists what it does in between.
Microtasks run in the context of the coroutine that has the thread, so
that one coroutine comes to wait for the session of another.

The answer to `commit` never resolves its promise, since `JSService` has no
handler for `DBRowUpdateResp`: the call then ends with an error and without a
value. `Send` clears `waiting_session_id` even if it found nobody to send to
(`Unwaited`), and with it the wait of the coroutine that has the thread. A request
that is not answered stops the service (`up`). `ResultReturned` speaks of scripts
that await the promises they get at once (`wild` says that one did not).

## 3. Runs

| Run | Result | What it shows |
| --- | --- | --- |
| `scheduler` | holds | `MutualExclusion`, `NoLostWakeup`, `NoMissedNotify`, `NoSleeperAfterStop`, the refinement `ActorSpec`, and with fair threads `EveryMessageTaken` and `WorkersEnd` |
| `scheduler_exit_livelock` | violated | a service that exits with messages in its mailbox is pushed into the run queue for ever and never destroyed |
| `core` | holds | `RequestInOnePlace`, `TimeoutKept`, `StageFollowsLifecycle` (which justifies `StageLeave` in the scheduler), `WaitsEnd` |
| `core_stopping_stuck` | violated | an `OnStop` that awaits never completes: the mailbox rejects its reply and its timeout |
| `wheel` | holds | `TaskInOnePlace`, `FiresOnTime`, `EveryTaskFires` |
| `framework` | holds | `ComponentsExist`, `LookupsFind`, `StopEnds` |
| `db` | holds | `OneWriteBack`, `NeverAhead`, `GivesUpOnMismatch`, `WriteBackEnds` |
| `db_retry` | violated | a write-back that timed out although it was applied is not repeated successfully: the next one fails the comparison of versions and is the last |
| `rows` | holds | `CleanFieldsAgree`, `SameVersionSameRow`, `ReadBack`, `RowLoads` |
| `cluster` | holds | `MessageInOnePlace`, `ConnectingNameIsFree`, `NoStaleBinding`, `HandshakeFlushes` |
| `gateway` | holds | `AnswersToAsker`, `SessionEnds` |
| `js` | holds | `AwaitsPending`, `AnswerMatchesPromise`, `ResultReturned`, `EveryCallEnds` |

The three violated properties say what a comment in the source says; the findings
of `PROJECT.json` quote it. Other disagreements of code and comment that the
models contain are in the hazards, with notes.

`FiresOnTime` gives the exact tick: a delay is shortened by the distance the
lower layers had already gone in their turn, so a task of layer `l` may fire up to
`SlotCount^l - 1` ticks early, and never late.

### Bounds

- `scheduler`: 2 workers, the main thread and one more client, 1 service, 3 messages
  besides those of `Stop`. Two workers and two senders are what the races need: one
  worker between `set_in_queue(false)` and `MsgQueueIsEmpty`, one that may pop,
  and a thread on each side of `PushService`. Three messages let a service be
  pushed, popped, pushed during its handler and pushed again. That several services
  do not disturb each other is part of the proofs, which bound nothing.
  `scheduler_exit_livelock` needs one worker only.
- `core`: 1 request, 2 sessions, 3 awaits with or without timeout, 2 starts and
  a stop. Three awaits over two sessions include: re-await under another
  session, re-await of the same session with an old timeout on its way, two
  coroutines that await the same session.
- `wheel`: 3 layers of 2 slots, all delays from 0 to the first that does not fit,
  2 tasks, up to 2 ticks in one call of `Tick`. Three layers have a cascade of two
  layers in one tick; larger wheels (3 layers of 3 slots) have the same cases.

- `db`: 2 clients, 3 versions, 3 sessions whose messages exist at the same time (an
  id is used again when no message has it), 2 faults. A client leaves one session
  to the write-back. Two faults allow a lost write and a timeout that overtakes an
  answer, in either order; two clients, that one query overtakes a commit of the
  other. `db_retry` needs one client and one fault.

- `framework`: the modules `agent`, `config`, `db` and `jssvr`, loaded in any order,
  one worker, one message from the timers or the io thread. These modules have
  every kind of service: with a thread of its own, looked up in `OnInit`, in
  `OnStart` and in `MillionModuleStart`, created in an `OnStart` (`jsconfig`), and
  failing after it got its name. `bootstarp` is not set; the proofs cover it.
- `rows`: 2 clients (symmetric), 6 loads, assignments and commits, 1 fault; six
  tables that have every type of field between them, in a database where the
  table is missing, complete, or of an older version. Six operations let one
  client load, assign and commit around a load and commit of the other.
- `cluster`: 2 nodes, 3 messages (two names at one endpoint, one in the other
  direction), 2 connections, 2 faults. Two connections between two nodes are what
  duplicates need; two faults, a lost connection around a lost message or a
  stopped service.
- `gateway`: 2 users, 2 packets, 1 login, 1 reset, a mailbox of up to 3 messages when
  another thread appends. Two users are needed to confuse their answers.
- `js`: 2 calls, 3 requests, 3 awaits per call, every kind of statement. Two
  coroutines are what shares the context and the queue of microtasks.

`CHECK_DEADLOCK FALSE`: all of them may stop for good (no more messages are sent;
the process has ended; all tasks have fired; all versions are used up).

### Fairness

- `ServiceScheduler`: a thread that can take its next step takes it (`Sending`,
  `Working`, `Stopping`): the operating system schedules threads, critical
  sections end, and handlers are coroutines that suspend instead of blocking. No
  fairness for `Send`, `Stop` or spurious wake-ups.
- `ServiceCore`: messages are processed (`EveryMessageTaken`), and entries of the
  monitor expire (`EveryTaskFires`). Peers need not answer.
- `WheelTimer`: the thread runs, and time passes: `Tick` sleeps for a tick, so it
  cannot find for ever that no tick has passed.

- `DBService`: both services process their messages, the timer fires, a session
  that nobody will answer times out: what the liveness properties above show.
  Clients and faults have no fairness.

- `Framework`: the destructor goes on and every pool thread runs; handlers end or
  suspend. Nothing for `Init` or `Start`, which the application calls.
- `Cluster`: the services handle what the io threads report, and the coroutine that
  connects goes on. Nothing for senders, answers of services, or the network.
- `Gateway`: the service handles its mailbox (`EveryMessageTaken`), and an io
  thread that closed a socket reports it. Nothing for users or other services.
- `JsService`: the worker goes on with the coroutine it runs, a script comes to its
  next await, `Recv` times out (`WaitsEnd`). Answers need not come.
- `DBRowFields` has no liveness properties, and no fairness.

### Mutants

Every property of a passing run has a mutant, a definition `XMutated` placed before
the definition it would replace, with a comment that says which bug it is
(`PopServiceClears`, `CheckNoMsgs`, `NotifyOneOnStop`, `PushUnmonitored`, ...). They
are used by nothing else; they show that the property would notice.

## 4. Proofs

The theorems hold for every value of the constants that satisfies the assumptions
of the module; the bounds of section 3 play no part. An invariant of a run is
seldom inductive, so every proof module states an `IInv` that is, and proves
`Init => IInv`, `IInv /\ [Next]_vars => IInv'` with a lemma for each action or group
of actions, and that the property follows. Action properties follow from `IInv` and
one step.

| Module | Theorems (`Spec => []...` unless said otherwise) |
| --- | --- |
| `ServiceSchedulerProofs` | `TypeCorrect`, `MutualExclusionHolds`, `NoLostWakeupHolds`, `NotificationsSuffice` (`NoMissedNotify`), `NoSleeperAfterStopHolds`, `ImplementsActor` (`Spec => ActorSpec`) |
| `ServiceCoreProofs` | `TypeCorrect`, `RequestInOnePlaceHolds`; action properties `StageFollowsLifecycleHolds`, `TimeoutKeptHolds` |
| `WheelTimerProofs` | `Inductive`, `TypeCorrect`, `TaskInOnePlaceHolds`, `FiresOnTimeHolds` |
| `FrameworkProofs` | `Inductive`, `ComponentsExistHolds`, `LookupsFindHolds` |
| `DBServiceProofs` | `TypeCorrect`, `OneWriteBackHolds`, `NeverAheadHolds`; action property `GivesUpOnMismatchHolds` |
| `ClusterProofs` | `Inductive`, `ConnectingNameIsFreeHolds`, `NoStaleBindingHolds`, `MessageInOnePlaceHolds` |
| `GatewayProofs` | `Inductive`, `AnswersToAskerHolds` |
| `JsServiceProofs` | `AwaitsPendingHolds`, `AnswerMatchesPromiseHolds`, `ResultReturnedHolds`; about `DBRowFields` (`RowSpec => []...`): `RowInductive`, `CleanFieldsAgreeHolds`, `SameVersionSameRowHolds`, `ReadBackHolds`, `RowLoadsHolds` |

### Assumptions

Each module names what it assumes of its constants; nothing else is assumed.
Besides the types of the bounds these are:

- `SchedulerAssumption`: there is a worker, workers and clients are different
  threads, `Main` is a client, `None` is no service.
- `CoreAssumption`: awaits have or have not a timeout; `NoRequest` is no request.
- `WheelAssumption`: at least two slots and one layer (the code has 64 and 5).
- `FrameworkAssumption`: the modules are modules of the repository, and `jssvr` is
  loaded together with `db`, without which the code dereferences a name it did not
  find. `ThreadsAssumption`: workers are none of the other threads.
- `DBAssumption`: there is at least one version.
- `ClusterAssumption`: nodes are positive numbers, names have endpoints, and a node
  does not list itself as an endpoint of a name that its services send to.
- `GatewayAssumption`: the connections are finitely many and none of them is
  `"none"`.
- `JsAssumption`: the kinds of statement are among those that the module knows.
- `RowAssumption`: the fields have types of protobuf, and the key is neither
  repeated nor a message of either kind.

### Inductive invariants

**ServiceScheduler.** `IInv` adds to the properties

- `ControlInv`: what the program counters say about `held`, `cur`, `spc`, `target`
  and `run`; without it `held[w]` could be `None` in a step that uses it;
- `QueueInv`: `in_queue_` is set exactly while the service is once in the run queue
  or in the hands of a worker. This is the protocol the code never writes down.
  `MutualExclusion` needs it: a popped service is not owned because an owned
  service is not queued. `NoLostWakeup` needs it in `PushService`: a thread that
  sees `in_queue_` set does nothing, and must be able to rely on a queue entry, on an
  owner that has yet to look at the mailbox, or, if the value was stale, on
  the worker at `check` that made it stale.

The refinement maps `mailbox` to `msgs` and `handling` to the message of the
worker that processes the service. That there is one such worker, so that the
`CHOOSE` in `Handling` has a unique value, is `MutualExclusion`. `PopMsg` is
`Begin`, the end of `ProcessMsg` is `Finish`, `PushMsg` is `Post`, all else stutters.

**ServiceCore.** `NothingBeforePost` (a request that was not posted is in no mailbox,
coroutine or answer) makes the post of a request put it in one place only.
`NoTaskBeforeStart` (a service in `Ready` has no coroutine) is what
`StageFollowsLifecycle` needs: the end of any coroutine moves the stage on.

**WheelTimer.** `Scheduled` is the heart of it: for a task in slot `j` of layer `l`,
its age, the turns of the layers below until the layer comes to `j`, and its rest
`tick` add up to its delay, less what those layers had gone when it was collected.
`Waiting` says that `Tick` has not touched the tasks of `adds_`; `Early` bounds
`begin`. The arithmetic is in lemmas of its own: `SlotOfIs` (the slot of a task by
quotient and rest), `GoneStep` (what a tick adds to `Gone`), `HandedDown` (a cascade
replaces a turn of one layer by what is left of it in the layers below).

**Framework.** `Creation`: the components created are the first ones of
`InitOrder`, all of them from the first module on, and, until the destruction of
the members, whenever a thread can go on. `Joined`: a component that `Stop` has
stopped has no live thread, and no pool thread lives when members are destroyed.
`Registered`: a module whose `MillionModuleInit` has returned has added all its
services (`Optional` ones, which nobody looks up, may be missing), and all modules
have when the first pool thread is spawned. `OnInit` of the module's services is
called before that, in the middle of the loading: there `LookupsFind` depends on
the order in which the module itself creates them (`db` after `sql` and `cache`).
`OnStart` of the services that look something up, and `MillionModuleStart`, come
after it.

**DBService.** `RequestsMatch` ties the mailbox of `SqlService` to the coroutines,
`UpdatesForward` says that a write-back under way replaces a version that the
database had by a newer one, `AnswersTruthful` that an answer on its way still tells
the truth about `sql` when it is read, `CachedKnown` that a cached row has a
version. `NeverAhead` needs the third, which needs the first two.

**Cluster.** `Connections`: a connection has two ends, and a node that handled
its end gets nothing more from it. `Sessions`: `nodes_` leads to a connection with
that node that has not ended. `Queues`: a queue belongs to one endpoint, and its
coroutine has made a connection from `bind` on. `Messaging` is stronger than
`MessageInOnePlace` by position: a message is at one place in one queue or on one
connection, it is handled only after it left them, and its answer, of which the
same holds, comes after that. It needs the other parts because a queue is
dispatched to a session that is found through `nodes_`, and is emptied where it is
found by the endpoint of a name.

**Gateway.** An id is given to one connection and stays with it when the connection
gets another one, but nothing in the code records to which. So `IInv` says that
*there is* an assignment `f` of ids to connections with which everything agrees:
`agent_id` and `waiting`, the messages in the mailbox (`MailOK`), packets and logins
under way. A step that draws an id extends `f`. `IdsDrawn` counts the ids, so that
one is left to draw. `Announced` and `Awaited` are about order in the mailbox: a
connection is announced before its packets, and its coroutine starts to wait
before its answers come; that is why an answer finds a waiting coroutine unless
the connection was closed or reset.

**JsService.** `Control`: the coroutine that runs is the one that
`function_call_context_` leads to. `Contexts` and `FunctionStates`: different
coroutines await different requests, each with its own promise. `Tame`: as long
as no script has kept a promise for later (`wild`), a microtask belongs to the
coroutine that runs. `ResultReturned` is about scripts of that sort, and
`AnswerMatchesPromise` needs none of it.

**DBRowFields.** `RowIInv` says where the rows of the module come from. `UpTo(a,
b)`: row `a` was accepted before row `b`, or is the same one; it relates versions
to `gens`, the count of accepted updates, which scripts cannot move. `Ordered`: in
that order, answers of SQL come before the row of SQL, that before the cached row,
and requests between those two or out of date, each before the next.
`CopiesAgree`: a service that could commit without losing an update has a copy of
the cached row (`CopyOf`): every flag of it, and equal values without a flag.
`Writes(u)` is what makes `CleanFieldsAgree` inductive: a request that SQL would
accept now writes only fields that have a flag in the cached row, and the key; if
it carries the version of the cached row, it writes all flagged fields with their
values, which is `SameVersionSameRow` in advance. That flags are never taken back
is used here: a request may be applied after its timeout, when the cached row has
changed. `UpdatesAgree` says that the write-back is not ahead of SQL (`sqlver`),
and `AnswersAgree` that an answer that is not out of date has the values of SQL.
`RowsFit` (no row has a 64 bit value in a 32 bit field) is for `ReadBack`, which
says of a `listmessage` only that the assignment does not abort; `Complete`
(columns after `SqlTableInitReq`) for `RowLoads`. `Conversions` goes through the
tables of types.

Recursive definitions (`Turn`, `Gone`, the sequence that `Those` filters) are
functions. That a function with such equations exists (`Recursion`), and what
follows for each argument, is proved from a least counterexample (`Least`), since
induction theorems with an operator for a parameter cannot be instantiated by the
installed provers.

Two attempts to prove something corrected the models. The handler of a
handshake response in `Cluster` did not take the packet from the connection, and
the cases of `Framework`'s `Uses` overlapped, which left its value open; TLC took the
first case, the provers cannot. No property was affected.

### Only model-checked

- Liveness: `EveryMessageTaken`, `WorkersEnd`, `WaitsEnd`, `EveryTaskFires`,
  `WriteBackEnds`, `StopEnds`, `HandshakeFlushes`, `SessionEnds`, `EveryCallEnds`. They
  rest on fairness, hence on `ENABLED`, which is out of the reach of the provers.

Every invariant and every action property of a passing run is also proved.

## 5. Plan

The model covers the parts of the system that have a behaviour of their own, and
what it says of safety is proved. What would be worth adding next is that
`DBService` and `DBRowFields` describe the same rows: a module that composes the
versions and timing of the one with the values of the other, and a refinement of
each by it.

## 6. Not modelled

- `internal/heap_timer.hpp`: included by `timer.h` and used by nobody.
  `ServiceLock` and `EventMgr`: used by nothing in the repository; what their code
  is exposed to is in the hazards.
- `CacheService`: its calls in `db_service.h` are commented out.
- The id generator: one atomic increment. All modules use fresh ids, and no id is
  kept across a restart.
- The protobuf registry and codec, settings, the logger: sequential glue around
  libraries. Encoding that fails is an outcome where a handler looks at it
  (`ReplyAnswer`, `GatewayTcpRecvPacket`).
- The JavaScript engine, the loading of script modules, configuration tables and
  the etcd client: libraries, and handlers that pass their results on. How they
  are created and found is in `Framework`.
- The send queue of a `TcpConnection`: `Cluster` and `Gateway` see its order and
  its loss.
- Memory: allocation failure, and lifetimes beyond the erased services, sessions
  and components that the modules name.
