------------------------------- MODULE JsService -------------------------------
(***************************************************************************)
(* module/jssvr: JSService runs JavaScript for a service.  CallFunc is the *)
(* coroutine that calls a function of the script (onStart, onMsg, onStop)  *)
(* and stays until the promise of an async function is settled.  A native  *)
(* function that has to wait sends a request and leaves its session and    *)
(* the promise it returns in the FunctionCallContext of the coroutine; the *)
(* coroutine awaits the session and resolves the promise.                  *)
(*                                                                         *)
(* Several coroutines of a service are suspended at the same time; they    *)
(* share the queue of microtasks and the pointer function_call_context_.   *)
(* The engine (mjs) is external: it runs a function up to its next await.  *)
(* What the scripts do between two awaits is in SegmentKinds.              *)
(***************************************************************************)
EXTENDS Naturals, Sequences, FiniteSets, SequencesExt

CONSTANTS MaxCalls,      \* bound: calls of functions of the script
          MaxSessions,   \* bound: requests that native functions send
          MaxSegments,   \* bound: awaits of a function
          SegmentKinds   \* what scripts do: a subset of AllSegmentKinds

\* await: calls a native function and awaits its promise.  plain: awaits a
\* value that is there.  send: does not wait for the answer.  ready: calls a
\* native function, and awaits a value that is there.  fork: calls two native
\* functions and awaits the first.  later: awaits a promise it kept.
AllSegmentKinds == {"await", "plain", "send", "ready", "fork", "later"}

ASSUME JsAssumption ==
  /\ MaxCalls \in Nat /\ MaxSessions \in Nat /\ MaxSegments \in Nat
  /\ SegmentKinds \subseteq AllSegmentKinds

Calls == 1..MaxCalls
Sessions == 1..MaxSessions
None == 0

VARIABLES
  co,       \* co[a]: the coroutine of CallFunc
  fn,       \* fn[a]: the JavaScript function it called, and its promise
  ctx,      \* ctx[a]: its FunctionCallContext
  current,  \* function_call_context_
  micro,    \* microtask_queue: functions that go on
  sess,     \* sess[s]: a request, and the promise that stands for its answer
  running,  \* the coroutine that has the thread of the service, or None
  phase,    \* where it is: "exec" a function, the "top" of its loop, "micro"
  exec,     \* the function that is being executed
  up,       \* no timeout has stopped the service
  wild      \* a script kept a promise without awaiting it at once (history)

vars == <<co, fn, ctx, current, micro, sess, running, phase, exec, up,
          wild>>

NoSession == [kind |-> "none", by |-> None, sent |-> FALSE, with |-> None]
NoContext == [waiting |-> None, promise |-> None]
Idle == up /\ running = None

Init ==
  /\ co = [a \in Calls |-> "none"]
  /\ fn = [a \in Calls |-> [st |-> "none", on |-> None, left |-> MaxSegments]]
  /\ ctx = [a \in Calls |-> NoContext]
  /\ current = None
  /\ micro = << >>
  /\ sess = [s \in Sessions |-> NoSession]
  /\ running = None /\ phase = "top" /\ exec = None
  /\ up = TRUE /\ wild = FALSE

-----------------------------------------------------------------------------
(* Native functions.  They differ in what their answer does: whether there *)
(* is a value to resolve the promise with.                                 *)

\* ServiceModuleObject::Call: a protobuf message.
CallResolves == {TRUE}

\* DBModuleObject::Load: DBRowLoadResp, dispatched to its handler in JSService,
\* which has no value when there is no row.
LoadResolves == {TRUE, FALSE}

\* DBRow.commit: DBRowUpdateResp, for which JSService has no handler.
CommitResolves == {FALSE}

\* ConfigModuleObject::Load and ConfigTableWeak.lock: JSConfigQueryResp.
ConfigResolves == {TRUE}

Resolves == [call |-> CallResolves, load |-> LoadResolves,
             commit |-> CommitResolves, config |-> ConfigResolves]
NativeKinds == DOMAIN Resolves

Free == {s \in Sessions : sess[s] = NoSession}
FirstFree(S) == CHOOSE s \in S : \A t \in S : s <= t

\* The function f of the script sends a request of kind k.
Requested(ss, s, k, f) ==
  [ss EXCEPT ![s] = [kind |-> k, by |-> f, sent |-> TRUE, with |-> None]]

\* Mutant of Waiting: an earlier promise stays in the context.
WaitingKeepsPromise(c, s) ==
  [c EXCEPT ![current].waiting = s,
            ![current].promise = IF @ = None THEN s ELSE @]

\* function_call_context().waiting_session_id and promise are assigned.
Waiting(c, s) == [c EXCEPT ![current].waiting = s, ![current].promise = s]

\* Send is Call, and then waiting_session_id.reset(), whatever Call did.
Unwaited(c) == [c EXCEPT ![current].waiting = None]
NotWaiting(c, s) == Unwaited(Waiting(c, s))

-----------------------------------------------------------------------------
(* The engine: function f = exec goes on to its next await, or to its end. *)

Awaits(f, st, s) ==
  fn' = [fn EXCEPT ![f].st = st, ![f].on = s, ![f].left = @ - 1]

\* ExecuteMicrotasks goes on with the next one, CallFunction returns.
Executed == exec' = None /\ UNCHANGED <<co, current, running, phase, up>>

Segment(f, kind) ==
  /\ exec = f /\ f # None
  /\ kind \in SegmentKinds /\ fn[f].left > 0
  /\ Executed

SegAwait(f, k) ==
  LET s == FirstFree(Free) IN
  /\ Segment(f, "await") /\ Free # {}
  /\ sess' = Requested(sess, s, k, f)
  /\ ctx' = Waiting(ctx, s)
  /\ Awaits(f, "await", s)
  /\ UNCHANGED <<micro, wild>>

\* Also a native function that returns undefined: no target, no descriptor.  If
\* it is a Send, waiting_session_id is reset all the same.
SegPlain(f) ==
  /\ Segment(f, "plain")
  /\ Awaits(f, "queued", None)
  /\ micro' = Append(micro, f)
  /\ ctx' \in {ctx, Unwaited(ctx)}
  /\ UNCHANGED <<sess, wild>>

SegSend(f) ==
  LET s == FirstFree(Free) IN
  /\ Segment(f, "send") /\ Free # {}
  /\ sess' = Requested(sess, s, "call", f)
  /\ ctx' = NotWaiting(ctx, s)
  /\ Awaits(f, "queued", None)
  /\ micro' = Append(micro, f)
  /\ UNCHANGED wild

SegReady(f) ==
  LET s == FirstFree(Free) IN
  /\ Segment(f, "ready") /\ Free # {}
  /\ sess' = Requested(sess, s, "call", f)
  /\ ctx' = Waiting(ctx, s)
  /\ Awaits(f, "queued", None)
  /\ micro' = Append(micro, f)
  /\ wild' = TRUE

SegFork(f) ==
  LET s == FirstFree(Free)
      t == FirstFree(Free \ {s})
  IN
  /\ Segment(f, "fork") /\ Cardinality(Free) > 1
  /\ sess' = Requested(Requested(sess, s, "call", f), t, "call", f)
  /\ ctx' = Waiting(Waiting(ctx, s), t)
  /\ Awaits(f, "await", s)
  /\ wild' = TRUE
  /\ UNCHANGED micro

SegLater(f) ==
  /\ Segment(f, "later")
  /\ \E s \in Sessions : sess[s].by = f /\ sess[s].with = None /\ Awaits(f, "await", s)
  /\ UNCHANGED <<ctx, micro, sess, wild>>

\* The function returns a message or undefined; or it throws, which a native
\* function does that lacks an argument, or returns what is not a message.  A
\* Send before that has reset waiting_session_id.
SegEnd(f) ==
  /\ exec = f /\ f # None
  /\ Executed
  /\ \E st \in {"fulfilled", "rejected"} :
       fn' = [fn EXCEPT ![f].st = st, ![f].on = None]
  /\ ctx' \in {ctx, Unwaited(ctx)}
  /\ UNCHANGED <<micro, sess, wild>>

\* TaskAbort of a conversion (a field of a message or of a row has another type)
\* is a C++ exception: it ends the coroutine that has the thread, and f, which
\* may belong to another coroutine, is left where it is.
SegAbort(f) ==
  /\ exec = f /\ f # None
  /\ fn' = [fn EXCEPT ![f].st = "aborted"]
  /\ co' = [co EXCEPT ![running] = "abort"]
  /\ exec' = None /\ running' = None
  /\ UNCHANGED <<ctx, current, micro, sess, phase, up, wild>>

Script(f) ==
  \/ \E k \in NativeKinds : SegAwait(f, k)
  \/ SegAbort(f) \/ SegReady(f) \/ SegFork(f) \/ SegPlain(f) \/ SegSend(f) \/ SegLater(f) \/ SegEnd(f)

-----------------------------------------------------------------------------
(* CallFunc.                                                               *)

\* A message is handled: the script has no such function, or it is called.
CallFunc(a) ==
  /\ Idle /\ co[a] = "none"
  /\ \A b \in Calls : b < a => co[b] # "none"
  /\ \/ /\ co' = [co EXCEPT ![a] = "unhandled"]
        /\ UNCHANGED <<fn, current, running, phase, exec>>
     \/ /\ co' = [co EXCEPT ![a] = "run"]
        /\ fn' = [fn EXCEPT ![a].st = "running"]
        /\ running' = a /\ current' = a /\ exec' = a /\ phase' = "top"
  /\ UNCHANGED <<ctx, micro, sess, up, wild>>

\* The coroutine a has the thread, and no function is executed.
InLoop(a, ph) == running = a /\ exec = None /\ phase = ph
Settled(a) == fn[a].st \in {"fulfilled", "rejected"}

Leaves(a, st) ==
  /\ co' = [co EXCEPT ![a] = st]
  /\ running' = None
  /\ UNCHANGED <<fn, ctx, current, micro, sess, phase, exec, up, wild>>

\* The promise of the function is settled: its value is the answer.
PromiseSettled(a) ==
  /\ InLoop(a, "top") /\ Settled(a)
  /\ Leaves(a, IF fn[a].st = "fulfilled" THEN "value" ELSE "null")

AwaitSession(a) ==
  /\ InLoop(a, "top") /\ ~Settled(a) /\ ctx[a].waiting # None
  /\ Leaves(a, "recv")

\* Mutant of NoMicrotasks: it is not asked whether there are any.
NoMicrotasksEver(a) ==
  /\ InLoop(a, "top") /\ ~Settled(a) /\ ctx[a].waiting = None
  /\ Leaves(a, "null")

\* Mutant of NoMicrotasks: the loop goes round.
NoMicrotasksSpins(a) ==
  /\ InLoop(a, "top") /\ ~Settled(a) /\ ctx[a].waiting = None
  /\ micro = << >>
  /\ current' = a /\ phase' = "micro"
  /\ UNCHANGED <<co, fn, ctx, micro, sess, running, exec, up, wild>>

NoMicrotasks(a) ==
  /\ InLoop(a, "top") /\ ~Settled(a) /\ ctx[a].waiting = None
  /\ micro = << >>
  /\ Leaves(a, "null")

Microtasks(a) ==
  /\ InLoop(a, "top") /\ ~Settled(a) /\ ctx[a].waiting = None
  /\ micro # << >>
  /\ current' = a /\ phase' = "micro"
  /\ UNCHANGED <<co, fn, ctx, micro, sess, running, exec, up, wild>>

\* ExecuteMicrotasks: one after the other, whosever they are.
NextMicrotask(a) ==
  /\ InLoop(a, "micro")
  /\ \/ /\ micro # << >>
        /\ exec' = Head(micro) /\ micro' = Tail(micro)
        /\ fn' = [fn EXCEPT ![Head(micro)].st = "running"]
        /\ UNCHANGED phase
     \/ /\ micro = << >>
        /\ phase' = "top"
        /\ UNCHANGED <<exec, micro, fn>>
  /\ UNCHANGED <<co, ctx, current, sess, running, up, wild>>

\* The promise p is resolved by the answer of s: who awaits it goes on.
Resolve(p, s) ==
  LET awaiting == {f \in Calls : fn[f].st = "await" /\ fn[f].on = p} IN
  /\ sess' = [sess EXCEPT ![s].sent = FALSE, ![p].with = s]
  /\ fn' = [f \in Calls |-> IF f \in awaiting
                              THEN [fn[f] EXCEPT !.st = "queued", !.on = None] ELSE fn[f]]
  /\ micro' = micro \o SetToSeq(awaiting)

\* Mutant of Resumed: the coroutine awaits the same session again.
ResumedWaiting(a) ==
  /\ co' = [co EXCEPT ![a] = "run"]
  /\ ctx' = [ctx EXCEPT ![a].promise = None]
  /\ running' = a /\ current' = a /\ phase' = "micro"

\* After the answer: the context is cleared, and microtasks are executed.
Resumed(a) ==
  /\ co' = [co EXCEPT ![a] = "run"]
  /\ ctx' = [ctx EXCEPT ![a] = NoContext]
  /\ running' = a /\ current' = a /\ phase' = "micro"

\* The answer of session s resumes the coroutine that awaits it, or nobody.
Answered(s) ==
  LET awaiting == {a \in Calls : co[a] = "recv" /\ ctx[a].waiting = s} IN
  /\ Idle /\ sess[s].sent
  /\ \/ /\ awaiting = {}
        /\ sess' = [sess EXCEPT ![s].sent = FALSE]
        /\ UNCHANGED <<co, fn, ctx, current, micro, running, phase>>
     \/ \E a \in awaiting, resolves \in Resolves[sess[s].kind] :
          /\ IF resolves
               THEN Resolve(ctx[a].promise, s)
               ELSE sess' = [sess EXCEPT ![s].sent = FALSE] /\ UNCHANGED <<fn, micro>>
          /\ Resumed(a)
  /\ UNCHANGED <<exec, up, wild>>

\* Recv times out and throws: the coroutine ends, and ServiceCore stops the
\* service because a timeout ended in an exception.
TimedOut(a) ==
  /\ Idle /\ co[a] = "recv"
  /\ co' = [co EXCEPT ![a] = "abort"]
  /\ up' = FALSE
  /\ UNCHANGED <<fn, ctx, current, micro, sess, running, phase, exec, wild>>

-----------------------------------------------------------------------------

Looping(a) ==
  \/ PromiseSettled(a) \/ AwaitSession(a) \/ NoMicrotasks(a) \/ Microtasks(a)
  \/ NextMicrotask(a)

Next ==
  \/ \E a \in Calls : CallFunc(a) \/ Looping(a) \/ Script(a) \/ TimedOut(a)
  \/ \E s \in Sessions : Answered(s)

Spec == Init /\ [][Next]_vars

\* The worker goes on with the coroutine it runs; a script comes to its next
\* await; Recv has a timeout.
Fairness == \A a \in Calls : WF_vars(Looping(a)) /\ WF_vars(Script(a)) /\ WF_vars(TimedOut(a))

FairSpec == Spec /\ Fairness

-----------------------------------------------------------------------------
(* Properties.                                                             *)

\* A coroutine awaits an answer that is still to come, whatever promises the
\* scripts keep and whosever context a microtask writes to: no answer is taken
\* before it is awaited, and none is awaited twice.  So a timeout, which stops
\* the service, is always one of a request that nobody answered.
AwaitsPending ==
  \A a \in Calls : co[a] = "recv" => sess[ctx[a].waiting].sent

\* A promise is resolved by the answer to the request it stands for, however
\* many requests the scripts have under way and however the coroutines that
\* share function_call_context_ alternate.
AnswerMatchesPromise == \A s \in Sessions : sess[s].with \in {None, s}

\* A coroutine that gives up without an error of the script does so because
\* the promise its own function awaits was not resolved (its request was not
\* answered, or the answer has no value for it, like that to a commit) or its
\* own function was aborted: awaits of other coroutines, which run through the
\* same queue of microtasks, neither swallow its result nor its turn.  Said of
\* scripts that await what they call.
ResultReturned ==
  \A a \in Calls :
    ~wild /\ co[a] = "null" =>
      \/ fn[a].st \in {"rejected", "aborted"}
      \/ fn[a].st = "await" /\ sess[fn[a].on].with = None

\* Every call of a function of the script ends: with its answer, or because
\* nothing is left that could go on, also when the exception of another call
\* ended the microtasks that were its own; or a timeout stops the service.
EveryCallEnds ==
  \A a \in Calls :
    co[a] \in {"run", "recv"} ~> (co[a] \in {"value", "null", "abort"} \/ ~up)
=============================================================================
