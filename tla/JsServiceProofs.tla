---------------------------- MODULE JsServiceProofs ----------------------------
(***************************************************************************)
(* Proofs about JsService, for any number of calls, sessions and awaits,   *)
(* and for scripts of every kind; and, in the second part, about the rows  *)
(* of module/db that scripts hold (DBRowFields), for any services, tables, *)
(* values and faults.                                                      *)
(***************************************************************************)
EXTENDS JsService, DBRowFields, FiniteSetTheorems, WellFoundedInduction, TLAPS

CoStates == {"none", "unhandled", "run", "recv", "value", "null", "abort"}
FnStates == {"none", "running", "await", "queued", "fulfilled", "rejected", "aborted"}

FnType == [st : FnStates, on : Sessions \cup {None}, left : Nat]
ContextType == [waiting : Sessions \cup {None}, promise : Sessions \cup {None}]
SessionType == [kind : NativeKinds \cup {"none"}, by : Calls \cup {None},
                sent : BOOLEAN, with : Sessions \cup {None}]

Typed ==
  /\ co \in [Calls -> CoStates]
  /\ fn \in [Calls -> FnType]
  /\ ctx \in [Calls -> ContextType]
  /\ sess \in [Sessions -> SessionType]
  /\ current \in Calls \cup {None}
  /\ running \in Calls \cup {None} /\ wild \in BOOLEAN

\* One coroutine at most has the thread of the service, and then the pointer
\* function_call_context_ leads to its context.
Control ==
  /\ \A a \in Calls : co[a] = "run" <=> running = a
  /\ running = None => exec = None
  /\ running # None => current = running

Active(a) == co[a] \in {"run", "recv"}

\* The contexts of coroutines that are not finished lead to different requests,
\* which are not answered, and to their promises.
Contexts ==
  /\ \A a \in Calls : Active(a) /\ ctx[a].waiting # None => sess[ctx[a].waiting].sent
  /\ \A a, b \in Calls : Active(a) /\ Active(b) /\ ctx[a].waiting # None
                           /\ ctx[a].waiting = ctx[b].waiting => a = b
  /\ \A a \in Calls : co[a] = "recv" => ctx[a].waiting # None
  /\ \A a \in Calls : ctx[a].waiting # None => ctx[a].promise = ctx[a].waiting
  /\ \A a \in Calls : co[a] \in {"none", "unhandled"} => ctx[a] = NoContext

\* What the state of a function says: it is executed, it awaits a promise of
\* its own that is not resolved, and it is not "none" once it was called.
FunctionStates ==
  /\ \A f \in Calls : fn[f].st = "running" <=> exec = f
  /\ \A f \in Calls : fn[f].st = "await" =>
       /\ fn[f].on \in Sessions
       /\ sess[fn[f].on].by = f /\ sess[fn[f].on].with = None
  /\ \A f \in Calls : Active(f) => fn[f].st # "none"

\* As long as no script kept a promise, a microtask belongs to the coroutine
\* that runs, and a coroutine waits for the promise that its function awaits.
Tame ==
  ~wild =>
    /\ exec \in {None, running}
    /\ \/ micro = << >> /\ \A f \in Calls : fn[f].st # "queued"
       \/ /\ running # None /\ exec = None
          /\ micro = <<running>> /\ fn[running].st = "queued"
          /\ \A f \in Calls : fn[f].st = "queued" => f = running
    /\ \A a \in Calls : Active(a) /\ ctx[a].waiting # None =>
         fn[a].st = "await" /\ fn[a].on = ctx[a].waiting

IInv == /\ Typed /\ Control /\ Contexts /\ FunctionStates /\ Tame
        /\ AnswerMatchesPromise /\ ResultReturned

(***************************************************************************)
(* Lemmas about the operators of the model.                                *)
(***************************************************************************)

\* A set of natural numbers has a least element.
LEMMA Least ==
  ASSUME NEW S, S \subseteq Nat, S # {}
  PROVE  \E s \in S : \A t \in S : s <= t
<1> DEFINE R == OpToRel(<, Nat)
<1>1. IsWellFoundedOn(R, Nat)
  BY NatLessThanWellFounded
<1>2. PICK x \in S : \A y \in S : ~(<<y, x>> \in R)
  <2> HIDE DEF R
  <2> QED
    BY <1>1, WFMin
<1>3. \A y \in S : ~(y < x)
  <2> TAKE y \in S
  <2>1. ASSUME y < x PROVE <<y, x>> \in R
    BY <2>1 DEF OpToRel
  <2> QED
    BY <1>2, <2>1
<1> QED
  BY <1>3

\* The session a native function takes is a free one.
LEMMA FirstFreeIn ==
  ASSUME NEW S, S \subseteq Sessions, S # {}
  PROVE  FirstFree(S) \in S
<1>1. S \subseteq Nat
  BY DEF Sessions
<1>2. \E s \in S : \A t \in S : s <= t
  BY <1>1, Least
<1> QED
  BY <1>2 DEF FirstFree

\* The queue that a set of one function makes.
LEMMA SetToSeqSingle ==
  ASSUME NEW a
  PROVE  SetToSeq({a}) = <<a>>
<1>1. Cardinality({a}) = 1
  BY FS_Singleton
<1>2. <<a>> \in [1..1 -> {a}] /\ IsInjective(<<a>>)
  BY DEF IsInjective
<1>3. SetToSeq({a}) \in [1..1 -> {a}]
  BY <1>1, <1>2 DEF SetToSeq
<1> QED
  BY <1>3

\* None is no call and no session.
LEMMA NoneIsNone == None \notin Calls /\ None \notin Sessions
BY DEF None, Calls, Sessions

\* A free session is nobody's.
LEMMA FreeSession ==
  ASSUME IInv, NEW s \in Free
  PROVE  /\ s \in Sessions /\ s # None
         /\ \A a \in Calls : Active(a) => ctx[a].waiting # s
         /\ \A f \in Calls : fn[f].st = "await" => fn[f].on # s
<1>1. s \in Sessions /\ sess[s] = NoSession
  BY DEF Free
<1>2. sess[s].sent = FALSE /\ sess[s].by = None
  BY <1>1 DEF NoSession
<1> QED
  BY <1>1, <1>2, NoneIsNone DEF IInv, Contexts, FunctionStates

\* When a function is executed.
LEMMA Executing ==
  ASSUME IInv, NEW f \in Calls, exec = f
  PROVE  /\ running \in Calls /\ current = running /\ co[running] = "run"
         /\ fn[f].st = "running"
         /\ ~wild => f = running /\ micro = << >> /\ ctx[f].waiting = None
<1>1. exec # None
  BY NoneIsNone
<1>2. running \in Calls /\ current = running /\ co[running] = "run"
  BY <1>1 DEF IInv, Control, Typed
<1>3. fn[f].st = "running"
  BY DEF IInv, FunctionStates
<1>4. ASSUME ~wild PROVE f = running /\ micro = << >> /\ ctx[f].waiting = None
  BY <1>1, <1>2, <1>3, <1>4 DEF IInv, Tame, Active
<1> QED
  BY <1>2, <1>3, <1>4

\* What a segment of function f does to requests, promises and contexts; new are
\* the requests it sends.
Segmented(f, new) ==
  /\ new \subseteq Free
  /\ sess' \in [Sessions -> SessionType]
  /\ \A t \in Sessions \ new : sess'[t] = sess[t]
  /\ \A t \in new : sess'[t].sent /\ sess'[t].by = f /\ sess'[t].with = None
  /\ fn' \in [Calls -> FnType]
  /\ \A g \in Calls \ {f} : fn'[g] = fn[g]
  /\ fn'[f].st \notin {"running", "none"}
  /\ fn'[f].st = "await" => /\ fn'[f].on \in Sessions
                            /\ sess'[fn'[f].on].by = f /\ sess'[fn'[f].on].with = None
  /\ ctx' \in [Calls -> ContextType]
  /\ \A b \in Calls \ {running} : ctx'[b] = ctx[b]
  /\ \/ ctx'[running] = ctx[running]
     \/ ctx'[running].waiting = None
     \/ ctx'[running].waiting \in new /\ ctx'[running].promise = ctx'[running].waiting
  /\ wild' \in BOOLEAN
  /\ ~wild' =>
       /\ ~wild
       /\ \/ fn'[f].st = "queued" /\ micro' = Append(micro, f)
          \/ fn'[f].st # "queued" /\ micro' = micro
       /\ ctx'[running] # ctx[running] /\ ctx'[running].waiting # None =>
            fn'[f].st = "await" /\ fn'[f].on = ctx'[running].waiting

(***************************************************************************)
(* A function goes on to its next await or to its end: it may have sent    *)
(* the requests new, and the context of the running coroutine may lead to  *)
(* one of them.                                                            *)
(***************************************************************************)
LEMMA SegmentStep ==
  ASSUME IInv, NEW f \in Calls, exec = f, Executed, NEW new, Segmented(f, new)
  PROVE  IInv'
<1> USE NoneIsNone DEF Segmented
<1>1. exec' = None /\ UNCHANGED <<co, current, running>> /\ f # None
  BY DEF Executed
<1>2. /\ running \in Calls /\ current = running /\ co[running] = "run"
      /\ fn[f].st = "running"
      /\ ~wild => f = running /\ micro = << >> /\ ctx[f].waiting = None
  BY Executing
<1>3. \A s \in new : /\ s \in Sessions /\ s # None
                     /\ \A a \in Calls : Active(a) => ctx[a].waiting # s
                     /\ \A g \in Calls : fn[g].st = "await" => fn[g].on # s
  BY FreeSession
<1>4. Typed'
  BY <1>1 DEF IInv, Typed
<1>5. Control'
  BY <1>1, <1>2 DEF IInv, Control
<1>6. \A a \in Calls : Active(a)' <=> Active(a)
  BY <1>1 DEF Active
<1>7. Contexts'
  <2>1. \A a \in Calls : Active(a) /\ ctx'[a].waiting # None => sess'[ctx'[a].waiting].sent
    <3> SUFFICES ASSUME NEW a \in Calls, Active(a), ctx'[a].waiting # None
                 PROVE  sess'[ctx'[a].waiting].sent
      OBVIOUS
    <3>1. CASE ctx'[a] = ctx[a]
      <4>1. ctx[a].waiting \in Sessions \ new
        BY <1>3, <3>1 DEF IInv, Typed, ContextType
      <4> QED
        BY <3>1, <4>1 DEF IInv, Contexts
    <3>2. CASE a = running /\ ctx'[a].waiting \in new
      BY <3>2
    <3> QED
      BY <3>1, <3>2
  <2>2. \A a, b \in Calls : Active(a) /\ Active(b) /\ ctx'[a].waiting # None
                               /\ ctx'[a].waiting = ctx'[b].waiting => a = b
    BY <1>3 DEF IInv, Contexts
  <2>3. \A a \in Calls : co[a] = "recv" => ctx'[a].waiting # None
    BY <1>2 DEF IInv, Contexts
  <2>4. \A a \in Calls : ctx'[a].waiting # None => ctx'[a].promise = ctx'[a].waiting
    BY DEF IInv, Contexts
  <2>5. \A a \in Calls : co[a] \in {"none", "unhandled"} => ctx'[a] = NoContext
    BY <1>2 DEF IInv, Contexts
  <2> QED
    BY <1>1, <1>6, <2>1, <2>2, <2>3, <2>4, <2>5 DEF Contexts
<1>8. FunctionStates'
  <2>1. \A g \in Calls : fn'[g].st # "running"
    BY <1>2 DEF IInv, FunctionStates
  <2>2. \A g \in Calls : fn'[g].st = "await" =>
          /\ fn'[g].on \in Sessions
          /\ sess'[fn'[g].on].by = g /\ sess'[fn'[g].on].with = None
    BY <1>3 DEF IInv, FunctionStates
  <2>3. \A g \in Calls : Active(g) => fn'[g].st # "none"
    BY DEF IInv, FunctionStates
  <2> QED
    BY <1>1, <1>6, <2>1, <2>2, <2>3 DEF FunctionStates
<1>9. ASSUME ~wild' PROVE f = running /\ micro = << >> /\ ctx[f].waiting = None /\ ~wild
  BY <1>2, <1>9
<1>10. Tame'
  <2> SUFFICES ASSUME ~wild'
               PROVE  /\ exec' \in {None, running'}
                      /\ \/ micro' = << >> /\ \A g \in Calls : fn'[g].st # "queued"
                         \/ /\ running' # None /\ exec' = None
                            /\ micro' = <<running'>> /\ fn'[running'].st = "queued"
                            /\ \A g \in Calls : fn'[g].st = "queued" => g = running'
                      /\ \A a \in Calls : Active(a)' /\ ctx'[a].waiting # None =>
                           fn'[a].st = "await" /\ fn'[a].on = ctx'[a].waiting
    BY DEF Tame
  <2>1. \A g \in Calls \ {f} : fn[g].st # "queued"
    BY <1>1, <1>9 DEF IInv, Tame
  <2>2. \/ micro' = << >> /\ \A g \in Calls : fn'[g].st # "queued"
        \/ /\ micro' = <<running>> /\ fn'[running].st = "queued"
           /\ \A g \in Calls : fn'[g].st = "queued" => g = running
    BY <1>9, <2>1
  <2>3. \A a \in Calls : Active(a) /\ ctx'[a].waiting # None =>
          fn'[a].st = "await" /\ fn'[a].on = ctx'[a].waiting
    BY <1>9 DEF IInv, Tame
  <2> QED
    BY <1>1, <1>2, <1>6, <2>2, <2>3
<1>11. AnswerMatchesPromise'
  BY DEF IInv, AnswerMatchesPromise
<1>12. ResultReturned'
  <2> SUFFICES ASSUME ~wild', NEW a \in Calls, co[a] = "null"
               PROVE  \/ fn'[a].st \in {"rejected", "aborted"}
                      \/ fn'[a].st = "await" /\ sess'[fn'[a].on].with = None
    BY <1>1 DEF ResultReturned
  <2>1. a # f /\ ~wild
    BY <1>2, <1>9
  <2>2. fn'[a] = fn[a]
    BY <2>1
  <2>3. \/ fn[a].st \in {"rejected", "aborted"}
        \/ fn[a].st = "await" /\ sess[fn[a].on].with = None
    BY <2>1 DEF IInv, ResultReturned
  <2>4. fn[a].st = "await" => fn[a].on \in Sessions \ new
    BY <1>3 DEF IInv, FunctionStates
  <2> QED
    BY <2>2, <2>3, <2>4
<1> QED
  BY <1>4, <1>5, <1>7, <1>8, <1>10, <1>11, <1>12 DEF IInv

\* A request that a native function sends.
LEMMA RequestedIs ==
  ASSUME NEW ss \in [Sessions -> SessionType], NEW s \in Sessions,
         NEW k \in NativeKinds, NEW f \in Calls
  PROVE  /\ Requested(ss, s, k, f) \in [Sessions -> SessionType]
         /\ \A t \in Sessions \ {s} : Requested(ss, s, k, f)[t] = ss[t]
         /\ Requested(ss, s, k, f)[s].sent /\ Requested(ss, s, k, f)[s].by = f
         /\ Requested(ss, s, k, f)[s].with = None
<1> DEFINE r == [kind |-> k, by |-> f, sent |-> TRUE, with |-> None]
<1>1. r \in SessionType /\ r.sent /\ r.by = f /\ r.with = None
  BY DEF SessionType
<1>2. Requested(ss, s, k, f) = [ss EXCEPT ![s] = r]
  BY DEF Requested
<1> HIDE DEF r
<1> QED
  BY <1>1, <1>2

\* What Waiting and NotWaiting do to the contexts.
LEMMA WaitingIs ==
  ASSUME NEW c \in [Calls -> ContextType], NEW s \in Sessions, current \in Calls
  PROVE  /\ Waiting(c, s) \in [Calls -> ContextType]
         /\ \A b \in Calls \ {current} : Waiting(c, s)[b] = c[b]
         /\ Waiting(c, s)[current].waiting = s /\ Waiting(c, s)[current].promise = s
         /\ NotWaiting(c, s) \in [Calls -> ContextType]
         /\ \A b \in Calls \ {current} : NotWaiting(c, s)[b] = c[b]
         /\ NotWaiting(c, s)[current].waiting = None
BY DEF Waiting, NotWaiting, Unwaited, ContextType

\* What a Send that found nothing to send to does to the contexts.
LEMMA UnwaitedIs ==
  ASSUME ctx \in [Calls -> ContextType], current \in Calls, ctx' \in {ctx, Unwaited(ctx)}
  PROVE  /\ ctx' \in [Calls -> ContextType]
         /\ \A b \in Calls \ {current} : ctx'[b] = ctx[b]
         /\ ctx'[current] = ctx[current] \/ ctx'[current].waiting = None
BY NoneIsNone DEF Unwaited, ContextType

\* What Awaits does to the functions.
LEMMA AwaitsIs ==
  ASSUME fn \in [Calls -> FnType], NEW f \in Calls, fn[f].left > 0, NEW st \in FnStates,
         NEW s \in Sessions \cup {None}, Awaits(f, st, s)
  PROVE  /\ fn' \in [Calls -> FnType]
         /\ \A g \in Calls \ {f} : fn'[g] = fn[g]
         /\ fn'[f].st = st /\ fn'[f].on = s
<1>1. fn[f] \in FnType
  OBVIOUS
<1>2. fn[f].left - 1 \in Nat
  BY <1>1 DEF FnType
<1>3. fn' = [fn EXCEPT ![f] = [fn[f] EXCEPT !.st = st, !.on = s, !.left = @ - 1]]
  BY DEF Awaits
<1>4. [fn[f] EXCEPT !.st = st, !.on = s, !.left = @ - 1] \in FnType
  BY <1>1, <1>2 DEF FnType
<1>5. /\ [fn[f] EXCEPT !.st = st, !.on = s, !.left = @ - 1].st = st
      /\ [fn[f] EXCEPT !.st = st, !.on = s, !.left = @ - 1].on = s
  BY <1>1 DEF FnType
<1> QED
  BY <1>3, <1>4, <1>5

\* Every step of a script that is no abort.
LEMMA ScriptStep ==
  ASSUME IInv, NEW f \in Calls, Script(f), ~SegAbort(f)
  PROVE  IInv'
<1> USE NoneIsNone
<1>1. /\ fn \in [Calls -> FnType] /\ ctx \in [Calls -> ContextType]
      /\ sess \in [Sessions -> SessionType] /\ wild \in BOOLEAN
      /\ Free \subseteq Sessions /\ FnStates = {"none", "running", "await", "queued",
                                               "fulfilled", "rejected", "aborted"}
  BY DEF IInv, Typed, Free, FnStates
<1>2. exec = f /\ Executed
  BY DEF Script, SegAwait, SegReady, SegFork, SegPlain, SegSend, SegLater, SegEnd, Segment
<1>3. running \in Calls /\ current = running
  BY <1>2, Executing
<1>4. "call" \in NativeKinds
  BY DEF NativeKinds, Resolves
<1> DEFINE s == FirstFree(Free)
<1>5. Free # {} => s \in Free /\ s \in Sessions
  BY <1>1, FirstFreeIn
<1>6. ASSUME NEW k \in NativeKinds, SegAwait(f, k) PROVE IInv'
  <2>1. /\ s \in Free /\ s \in Sessions /\ fn[f].left > 0
        /\ sess' = Requested(sess, s, k, f) /\ ctx' = Waiting(ctx, s)
        /\ Awaits(f, "await", s) /\ micro' = micro /\ wild' = wild
    BY <1>5, <1>6 DEF SegAwait, Segment
  <2> HIDE DEF s
  <2>2. /\ sess' \in [Sessions -> SessionType]
        /\ \A t \in Sessions \ {s} : sess'[t] = sess[t]
        /\ sess'[s].sent /\ sess'[s].by = f /\ sess'[s].with = None
    BY <1>1, <2>1, RequestedIs
  <2>3. /\ ctx' \in [Calls -> ContextType]
        /\ \A b \in Calls \ {running} : ctx'[b] = ctx[b]
        /\ ctx'[running].waiting = s /\ ctx'[running].promise = s
    BY <1>1, <1>3, <2>1, WaitingIs
  <2>4. /\ fn' \in [Calls -> FnType]
        /\ \A g \in Calls \ {f} : fn'[g] = fn[g]
        /\ fn'[f].st = "await" /\ fn'[f].on = s
    BY <1>1, <2>1, AwaitsIs
  <2> DEFINE new == {s}
  <2>5. /\ new \subseteq Free
        /\ \A t \in Sessions \ new : sess'[t] = sess[t]
        /\ \A t \in new : sess'[t].sent /\ sess'[t].by = f /\ sess'[t].with = None
        /\ ctx'[running].waiting \in new
    BY <2>1, <2>2, <2>3
  <2> HIDE DEF new
  <2> SUFFICES Segmented(f, new)
    BY <1>2, SegmentStep
  <2> QED
    BY <1>1, <1>2, <2>1, <2>2, <2>3, <2>4, <2>5 DEF Segmented
<1>7. ASSUME SegPlain(f) PROVE IInv'
  <2>1. /\ UNCHANGED <<sess, wild>> /\ fn[f].left > 0
        /\ Awaits(f, "queued", None) /\ micro' = Append(micro, f)
        /\ ctx' \in {ctx, Unwaited(ctx)}
    BY <1>7 DEF SegPlain, Segment
  <2>2. /\ fn' \in [Calls -> FnType]
        /\ \A g \in Calls \ {f} : fn'[g] = fn[g]
        /\ fn'[f].st = "queued"
    BY <1>1, <2>1, AwaitsIs
  <2> DEFINE new == {}
  <2>3. new \subseteq Free /\ \A t \in new : FALSE
    OBVIOUS
  <2>4. /\ ctx' \in [Calls -> ContextType]
        /\ \A b \in Calls \ {running} : ctx'[b] = ctx[b]
        /\ ctx'[running] = ctx[running] \/ ctx'[running].waiting = None
    BY <1>1, <1>3, <2>1, UnwaitedIs
  <2> HIDE DEF new
  <2> SUFFICES Segmented(f, new)
    BY <1>2, SegmentStep
  <2> QED
    BY <1>1, <1>2, <2>1, <2>2, <2>3, <2>4 DEF Segmented
<1>8. ASSUME SegSend(f) PROVE IInv'
  <2>1. /\ s \in Free /\ s \in Sessions /\ fn[f].left > 0
        /\ sess' = Requested(sess, s, "call", f) /\ ctx' = NotWaiting(ctx, s)
        /\ Awaits(f, "queued", None) /\ micro' = Append(micro, f) /\ wild' = wild
    BY <1>5, <1>8 DEF SegSend, Segment
  <2> HIDE DEF s
  <2>2. /\ sess' \in [Sessions -> SessionType]
        /\ \A t \in Sessions \ {s} : sess'[t] = sess[t]
        /\ sess'[s].sent /\ sess'[s].by = f /\ sess'[s].with = None
    BY <1>1, <1>4, <2>1, RequestedIs
  <2>3. /\ ctx' \in [Calls -> ContextType]
        /\ \A b \in Calls \ {running} : ctx'[b] = ctx[b]
        /\ ctx'[running].waiting = None
    BY <1>1, <1>3, <2>1, WaitingIs
  <2>4. /\ fn' \in [Calls -> FnType]
        /\ \A g \in Calls \ {f} : fn'[g] = fn[g]
        /\ fn'[f].st = "queued"
    BY <1>1, <2>1, AwaitsIs
  <2> DEFINE new == {s}
  <2>5. /\ new \subseteq Free
        /\ \A t \in Sessions \ new : sess'[t] = sess[t]
        /\ \A t \in new : sess'[t].sent /\ sess'[t].by = f /\ sess'[t].with = None
    BY <2>1, <2>2
  <2> HIDE DEF new
  <2>6. fn'[f].st \notin {"running", "none", "await"} /\ wild' \in BOOLEAN
    BY <1>1, <2>1, <2>4
  <2>7. ~wild' =>
          /\ ~wild
          /\ \/ fn'[f].st = "queued" /\ micro' = Append(micro, f)
             \/ fn'[f].st # "queued" /\ micro' = micro
          /\ ctx'[running] # ctx[running] /\ ctx'[running].waiting # None =>
               fn'[f].st = "await" /\ fn'[f].on = ctx'[running].waiting
    BY <2>1, <2>3, <2>4
  <2> SUFFICES Segmented(f, new)
    BY <1>2, SegmentStep
  <2> QED
    BY <1>1, <1>2, <2>2, <2>3, <2>4, <2>5, <2>6, <2>7 DEF Segmented
<1>9. ASSUME SegReady(f) PROVE IInv'
  <2>1. /\ s \in Free /\ s \in Sessions /\ fn[f].left > 0
        /\ sess' = Requested(sess, s, "call", f) /\ ctx' = Waiting(ctx, s)
        /\ Awaits(f, "queued", None) /\ wild' = TRUE
    BY <1>5, <1>9 DEF SegReady, Segment
  <2> HIDE DEF s
  <2>2. /\ sess' \in [Sessions -> SessionType]
        /\ \A t \in Sessions \ {s} : sess'[t] = sess[t]
        /\ sess'[s].sent /\ sess'[s].by = f /\ sess'[s].with = None
    BY <1>1, <1>4, <2>1, RequestedIs
  <2>3. /\ ctx' \in [Calls -> ContextType]
        /\ \A b \in Calls \ {running} : ctx'[b] = ctx[b]
        /\ ctx'[running].waiting = s /\ ctx'[running].promise = s
    BY <1>1, <1>3, <2>1, WaitingIs
  <2>4. /\ fn' \in [Calls -> FnType]
        /\ \A g \in Calls \ {f} : fn'[g] = fn[g]
        /\ fn'[f].st = "queued"
    BY <1>1, <2>1, AwaitsIs
  <2> DEFINE new == {s}
  <2>5. /\ new \subseteq Free
        /\ \A t \in Sessions \ new : sess'[t] = sess[t]
        /\ \A t \in new : sess'[t].sent /\ sess'[t].by = f /\ sess'[t].with = None
        /\ ctx'[running].waiting \in new
    BY <2>1, <2>2, <2>3
  <2> HIDE DEF new
  <2> SUFFICES Segmented(f, new)
    BY <1>2, SegmentStep
  <2> QED
    BY <1>1, <1>2, <2>1, <2>2, <2>3, <2>4, <2>5 DEF Segmented
<1>10. ASSUME SegFork(f) PROVE IInv'
  <2> DEFINE t == FirstFree(Free \ {s})
  <2>1. Cardinality(Free) > 1
    BY <1>10 DEF SegFork
  <2>2. Free # {} /\ Free \ {s} # {}
    <3>1. Free # {}
      BY <2>1, FS_EmptySet
    <3>2. ASSUME Free \ {s} = {} PROVE FALSE
      <4>1. Free = {s}
        BY <3>1, <3>2
      <4>2. Cardinality({s}) = 1
        BY FS_Singleton
      <4> QED
        BY <2>1, <4>1, <4>2
    <3> QED
      BY <3>1, <3>2
  <2>3. t \in Free \ {s} /\ t \in Sessions
    <3>1. Free \ {s} \subseteq Sessions
      BY <1>1
    <3> QED
      BY <2>2, <3>1, FirstFreeIn
  <2>4. /\ s \in Free /\ s \in Sessions /\ fn[f].left > 0
        /\ sess' = Requested(Requested(sess, s, "call", f), t, "call", f)
        /\ ctx' = Waiting(Waiting(ctx, s), t)
        /\ Awaits(f, "await", s) /\ wild' = TRUE
    BY <1>5, <1>10, <2>2 DEF SegFork, Segment
  <2> HIDE DEF s, t
  <2>5. /\ sess' \in [Sessions -> SessionType]
        /\ \A u \in Sessions \ {s, t} : sess'[u] = sess[u]
        /\ \A u \in {s, t} : sess'[u].sent /\ sess'[u].by = f /\ sess'[u].with = None
    <3> DEFINE ss == Requested(sess, s, "call", f)
    <3>1. /\ ss \in [Sessions -> SessionType]
          /\ \A u \in Sessions \ {s} : ss[u] = sess[u]
          /\ ss[s].sent /\ ss[s].by = f /\ ss[s].with = None
      BY <1>1, <1>4, <2>4, RequestedIs
    <3>2. sess' = Requested(ss, t, "call", f)
      BY <2>4
    <3> HIDE DEF ss
    <3>3. /\ sess' \in [Sessions -> SessionType]
          /\ \A u \in Sessions \ {t} : sess'[u] = ss[u]
          /\ sess'[t].sent /\ sess'[t].by = f /\ sess'[t].with = None
      BY <1>4, <2>3, <3>1, <3>2, RequestedIs
    <3> QED
      BY <2>3, <2>4, <3>1, <3>3
  <2>6. /\ ctx' \in [Calls -> ContextType]
        /\ \A b \in Calls \ {running} : ctx'[b] = ctx[b]
        /\ ctx'[running].waiting = t /\ ctx'[running].promise = t
    <3> DEFINE cc == Waiting(ctx, s)
    <3>1. cc \in [Calls -> ContextType] /\ \A b \in Calls \ {running} : cc[b] = ctx[b]
      BY <1>1, <1>3, <2>4, WaitingIs
    <3>2. ctx' = Waiting(cc, t)
      BY <2>4
    <3> HIDE DEF cc
    <3> QED
      BY <1>3, <2>3, <3>1, <3>2, WaitingIs
  <2>7. /\ fn' \in [Calls -> FnType]
        /\ \A g \in Calls \ {f} : fn'[g] = fn[g]
        /\ fn'[f].st = "await" /\ fn'[f].on = s
    BY <1>1, <2>4, AwaitsIs
  <2> DEFINE new == {s, t}
  <2>8. /\ new \subseteq Free /\ s \in new
        /\ \A u \in Sessions \ new : sess'[u] = sess[u]
        /\ \A u \in new : sess'[u].sent /\ sess'[u].by = f /\ sess'[u].with = None
        /\ ctx'[running].waiting \in new
    BY <2>3, <2>4, <2>5, <2>6
  <2> HIDE DEF new
  <2> SUFFICES Segmented(f, new)
    BY <1>2, SegmentStep
  <2> QED
    BY <1>1, <1>2, <2>4, <2>5, <2>6, <2>7, <2>8 DEF Segmented
<1>11. ASSUME SegLater(f) PROVE IInv'
  <2>1. PICK u \in Sessions : sess[u].by = f /\ sess[u].with = None /\ Awaits(f, "await", u)
    BY <1>11 DEF SegLater
  <2>2. UNCHANGED <<ctx, micro, sess, wild>> /\ fn[f].left > 0
    BY <1>11 DEF SegLater, Segment
  <2>3. /\ fn' \in [Calls -> FnType]
        /\ \A g \in Calls \ {f} : fn'[g] = fn[g]
        /\ fn'[f].st = "await" /\ fn'[f].on = u
    BY <1>1, <2>1, <2>2, AwaitsIs
  <2> DEFINE new == {}
  <2>4. new \subseteq Free /\ \A t \in new : FALSE
    OBVIOUS
  <2> HIDE DEF new
  <2> SUFFICES Segmented(f, new)
    BY <1>2, SegmentStep
  <2> QED
    BY <1>1, <1>2, <2>1, <2>2, <2>3, <2>4 DEF Segmented
<1>12. ASSUME SegEnd(f) PROVE IInv'
  <2>1. UNCHANGED <<micro, sess, wild>> /\ ctx' \in {ctx, Unwaited(ctx)}
    BY <1>12 DEF SegEnd
  <2>2. PICK st \in {"fulfilled", "rejected"} : fn' = [fn EXCEPT ![f].st = st, ![f].on = None]
    BY <1>12 DEF SegEnd
  <2>3. /\ fn' \in [Calls -> FnType]
        /\ \A g \in Calls \ {f} : fn'[g] = fn[g]
        /\ fn'[f].st \in {"fulfilled", "rejected"}
    <3> DEFINE r == [fn[f] EXCEPT !.st = st, !.on = None]
    <3>1. r \in FnType /\ r.st = st
      BY <1>1 DEF FnType, FnStates
    <3>2. fn' = [fn EXCEPT ![f] = r]
      BY <1>1, <2>2 DEF FnType
    <3> HIDE DEF r
    <3> QED
      BY <1>1, <3>1, <3>2
  <2> DEFINE new == {}
  <2>4. new \subseteq Free /\ \A t \in new : FALSE
    OBVIOUS
  <2>5. /\ ctx' \in [Calls -> ContextType]
        /\ \A b \in Calls \ {running} : ctx'[b] = ctx[b]
        /\ ctx'[running] = ctx[running] \/ ctx'[running].waiting = None
    BY <1>1, <1>3, <2>1, UnwaitedIs
  <2> HIDE DEF new
  <2> SUFFICES Segmented(f, new)
    BY <1>2, SegmentStep
  <2> QED
    BY <1>1, <1>2, <2>1, <2>3, <2>4, <2>5 DEF Segmented
<1> QED
  BY <1>6, <1>7, <1>8, <1>9, <1>10, <1>11, <1>12 DEF Script

(***************************************************************************)
(* The steps of a coroutine.  A coroutine may leave the thread: none of    *)
(* its fields but co changes.                                              *)
(***************************************************************************)
LEMMA LeavesStep ==
  ASSUME IInv, NEW a \in Calls, running = a, exec = None,
         NEW st \in {"value", "null", "recv"}, Leaves(a, st),
         st = "recv" => ctx[a].waiting # None,
         ~wild => micro = << >> \/ Settled(a),
         ~wild /\ st = "null" => \/ fn[a].st \in {"rejected", "aborted"}
                                 \/ fn[a].st = "await" /\ sess[fn[a].on].with = None
  PROVE  IInv'
<1> USE NoneIsNone
<1>1. /\ co' = [co EXCEPT ![a] = st] /\ running' = None
      /\ UNCHANGED <<fn, ctx, current, micro, sess, phase, exec, up, wild>>
  BY DEF Leaves
<1>2. /\ co \in [Calls -> CoStates] /\ st \in CoStates
      /\ co'[a] = st /\ \A b \in Calls \ {a} : co'[b] = co[b]
  BY <1>1 DEF IInv, Typed, CoStates
<1>3. Typed'
  BY <1>1, <1>2 DEF IInv, Typed
<1>4. Control'
  BY <1>1, <1>2 DEF IInv, Control
<1>5. \A b \in Calls : Active(b)' => Active(b)
  BY <1>2 DEF Active, IInv, Control
<1>6. Contexts'
  <2>1. \A b \in Calls : co'[b] = "recv" => ctx[b].waiting # None
    BY <1>2 DEF IInv, Contexts
  <2>2. \A b \in Calls : co'[b] \in {"none", "unhandled"} => co'[b] = co[b]
    BY <1>2
  <2> QED
    BY <1>1, <1>5, <2>1, <2>2 DEF IInv, Contexts
<1>7. FunctionStates'
  BY <1>1, <1>5 DEF IInv, FunctionStates
<1>8. Tame'
  <2>1. ~wild => micro = << >> /\ \A f \in Calls : fn[f].st # "queued"
    BY DEF IInv, Tame, Settled
  <2> QED
    BY <1>1, <1>5, <2>1 DEF IInv, Tame
<1>9. AnswerMatchesPromise'
  BY <1>1 DEF IInv, AnswerMatchesPromise
<1>10. ResultReturned'
  BY <1>1, <1>2 DEF IInv, ResultReturned
<1> QED
  BY <1>3, <1>4, <1>6, <1>7, <1>8, <1>9, <1>10 DEF IInv

\* A message is handled by a new coroutine.
LEMMA CallFuncStep ==
  ASSUME IInv, NEW a \in Calls, CallFunc(a)
  PROVE  IInv'
<1> USE NoneIsNone
<1>1. /\ running = None /\ co[a] = "none" /\ exec = None
      /\ UNCHANGED <<ctx, micro, sess, up, wild>>
  BY DEF CallFunc, Idle, IInv, Control
<1>2. ctx[a] = NoContext /\ ctx[a].waiting = None
  BY <1>1 DEF IInv, Contexts, NoContext
<1>3. co \in [Calls -> CoStates] /\ fn \in [Calls -> FnType]
  BY DEF IInv, Typed
<1>4. CASE /\ co' = [co EXCEPT ![a] = "unhandled"]
           /\ UNCHANGED <<fn, current, running, phase, exec>>
  <2>1. co'[a] = "unhandled" /\ \A b \in Calls \ {a} : co'[b] = co[b]
    BY <1>3, <1>4
  <2>2. Typed'
    BY <1>1, <1>3, <1>4 DEF IInv, Typed, CoStates
  <2>3. Control'
    BY <1>1, <1>4, <2>1 DEF IInv, Control
  <2>4. \A b \in Calls : Active(b)' <=> Active(b)
    BY <1>1, <2>1 DEF Active
  <2>5. Contexts'
    BY <1>1, <1>2, <1>4, <2>1, <2>4 DEF IInv, Contexts
  <2>6. FunctionStates' /\ Tame'
    BY <1>1, <1>4, <2>4 DEF IInv, FunctionStates, Tame
  <2>7. AnswerMatchesPromise' /\ ResultReturned'
    BY <1>1, <1>4, <2>1 DEF IInv, AnswerMatchesPromise, ResultReturned
  <2> QED
    BY <2>2, <2>3, <2>5, <2>6, <2>7 DEF IInv
<1>5. CASE /\ co' = [co EXCEPT ![a] = "run"]
           /\ fn' = [fn EXCEPT ![a].st = "running"]
           /\ running' = a /\ current' = a /\ exec' = a /\ phase' = "top"
  <2>1. co'[a] = "run" /\ \A b \in Calls \ {a} : co'[b] = co[b]
    BY <1>3, <1>5
  <2>2. /\ fn' \in [Calls -> FnType] /\ fn'[a].st = "running"
        /\ \A b \in Calls \ {a} : fn'[b] = fn[b]
    BY <1>3, <1>5 DEF FnType, FnStates
  <2>3. Typed'
    BY <1>1, <1>3, <1>5, <2>2 DEF IInv, Typed, CoStates
  <2>4. Control'
    BY <1>1, <1>5, <2>1 DEF IInv, Control
  <2>5. \A b \in Calls \ {a} : Active(b)' <=> Active(b)
    BY <2>1 DEF Active
  <2>6. Contexts'
    BY <1>1, <1>2, <2>1, <2>2, <2>5 DEF IInv, Contexts
  <2>7. FunctionStates'
    BY <1>1, <1>5, <2>2, <2>5 DEF IInv, FunctionStates
  <2>8. Tame'
    BY <1>1, <1>2, <1>5, <2>2, <2>5 DEF IInv, Tame
  <2>9. AnswerMatchesPromise' /\ ResultReturned'
    BY <1>1, <2>1, <2>2 DEF IInv, AnswerMatchesPromise, ResultReturned
  <2> QED
    BY <2>3, <2>4, <2>6, <2>7, <2>8, <2>9 DEF IInv
<1> QED
  BY <1>4, <1>5 DEF CallFunc

\* An exception ends the coroutine that runs.
LEMMA SegAbortStep ==
  ASSUME IInv, NEW f \in Calls, SegAbort(f)
  PROVE  IInv'
<1> USE NoneIsNone
<1>1. /\ exec = f /\ fn' = [fn EXCEPT ![f].st = "aborted"]
      /\ co' = [co EXCEPT ![running] = "abort"]
      /\ exec' = None /\ running' = None
      /\ UNCHANGED <<ctx, current, micro, sess, phase, up, wild>>
  BY DEF SegAbort
<1>2. /\ running \in Calls /\ co[running] = "run"
      /\ ~wild => f = running /\ micro = << >>
  BY <1>1, Executing
<1>3. co \in [Calls -> CoStates] /\ fn \in [Calls -> FnType]
  BY DEF IInv, Typed
<1>4. co'[running] = "abort" /\ \A b \in Calls \ {running} : co'[b] = co[b]
  BY <1>1, <1>2, <1>3
<1>5. /\ fn' \in [Calls -> FnType] /\ fn'[f].st = "aborted"
      /\ \A b \in Calls \ {f} : fn'[b] = fn[b]
  BY <1>1, <1>3 DEF FnType, FnStates
<1>6. Typed'
  BY <1>1, <1>3, <1>5 DEF IInv, Typed, CoStates
<1>7. Control'
  BY <1>1, <1>2, <1>4 DEF IInv, Control
<1>8. \A b \in Calls : Active(b)' => Active(b)
  BY <1>2, <1>4 DEF Active
<1>9. Contexts'
  BY <1>1, <1>4, <1>8 DEF IInv, Contexts
<1>10. FunctionStates'
  BY <1>1, <1>5, <1>8 DEF IInv, FunctionStates
<1>11. Tame'
  <2> SUFFICES ASSUME ~wild PROVE Tame'
    BY <1>1 DEF Tame
  <2>1. micro = << >> /\ f = running /\ \A g \in Calls : fn[g].st # "queued"
    BY <1>1, <1>2 DEF IInv, Tame
  <2>2. \A g \in Calls : fn'[g].st # "queued"
    BY <1>5, <2>1
  <2>3. \A b \in Calls : Active(b)' => Active(b) /\ b # f
    BY <1>4, <1>8, <2>1 DEF Active
  <2> QED
    BY <1>1, <1>5, <2>1, <2>2, <2>3 DEF IInv, Tame
<1>12. AnswerMatchesPromise'
  BY <1>1 DEF IInv, AnswerMatchesPromise
<1>13. ResultReturned'
  BY <1>1, <1>4, <1>5 DEF IInv, ResultReturned
<1> QED
  BY <1>6, <1>7, <1>9, <1>10, <1>11, <1>12, <1>13 DEF IInv

\* The loop of CallFunc.
LEMMA LoopingStep ==
  ASSUME IInv, NEW a \in Calls, Looping(a)
  PROVE  IInv'
<1> USE NoneIsNone
<1>1. running = a /\ exec = None
  BY DEF Looping, PromiseSettled, AwaitSession, NoMicrotasks, Microtasks, NextMicrotask, InLoop
<1>2. co[a] = "run"
  BY <1>1 DEF IInv, Control
<1>3. CASE PromiseSettled(a)
  <2>1. Settled(a) /\ Leaves(a, IF fn[a].st = "fulfilled" THEN "value" ELSE "null")
    BY <1>3 DEF PromiseSettled
  <2>2. CASE fn[a].st = "fulfilled"
    BY <1>1, <2>1, <2>2, LeavesStep
  <2>3. CASE fn[a].st # "fulfilled"
    BY <1>1, <2>1, <2>3, LeavesStep DEF Settled
  <2> QED
    BY <2>2, <2>3
<1>4. CASE AwaitSession(a)
  <2>1. ctx[a].waiting # None /\ Leaves(a, "recv")
    BY <1>4 DEF AwaitSession
  <2>2. ~wild => micro = << >>
    BY <1>1, <1>2, <2>1 DEF IInv, Tame, Active
  <2> QED
    BY <1>1, <2>1, <2>2, LeavesStep
<1>5. CASE NoMicrotasks(a)
  <2>1. ~Settled(a) /\ micro = << >> /\ Leaves(a, "null")
    BY <1>5 DEF NoMicrotasks
  <2>2. ~wild => \/ fn[a].st \in {"rejected", "aborted"}
                 \/ fn[a].st = "await" /\ sess[fn[a].on].with = None
    <3>1. fn[a].st \in FnStates
      BY DEF IInv, Typed, FnType
    <3>2. fn[a].st \notin {"running", "none", "fulfilled", "rejected"}
      BY <1>1, <1>2, <2>1 DEF IInv, FunctionStates, Active, Settled
    <3>3. ~wild => fn[a].st # "queued"
      BY <1>1, <2>1 DEF IInv, Tame
    <3>4. fn[a].st = "await" => sess[fn[a].on].with = None
      BY DEF IInv, FunctionStates
    <3> QED
      BY <3>1, <3>2, <3>3, <3>4 DEF FnStates
  <2> QED
    BY <1>1, <2>1, <2>2, LeavesStep
<1>6. CASE Microtasks(a)
  <2>1. current' = a /\ UNCHANGED <<co, fn, ctx, micro, sess, running, exec, up, wild>>
    BY <1>6 DEF Microtasks
  <2>2. \A b \in Calls : Active(b)' <=> Active(b)
    BY <2>1 DEF Active
  <2>3. Typed' /\ Control'
    BY <1>1, <2>1 DEF IInv, Typed, Control
  <2>4. Contexts' /\ FunctionStates' /\ Tame'
    BY <2>1, <2>2 DEF IInv, Contexts, FunctionStates, Tame
  <2>5. AnswerMatchesPromise' /\ ResultReturned'
    BY <2>1 DEF IInv, AnswerMatchesPromise, ResultReturned
  <2> QED
    BY <2>3, <2>4, <2>5 DEF IInv
<1>7. CASE NextMicrotask(a) /\ micro = << >>
  <2>1. UNCHANGED <<exec, micro, fn, co, ctx, current, sess, running, up, wild>>
    BY <1>7 DEF NextMicrotask
  <2>2. \A b \in Calls : Active(b)' <=> Active(b)
    BY <2>1 DEF Active
  <2>3. Typed' /\ Control'
    BY <1>1, <2>1 DEF IInv, Typed, Control
  <2>4. Contexts' /\ FunctionStates' /\ Tame'
    BY <2>1, <2>2 DEF IInv, Contexts, FunctionStates, Tame
  <2>5. AnswerMatchesPromise' /\ ResultReturned'
    BY <2>1 DEF IInv, AnswerMatchesPromise, ResultReturned
  <2> QED
    BY <2>3, <2>4, <2>5 DEF IInv
<1>8. CASE NextMicrotask(a) /\ micro # << >>
  <2> DEFINE g == Head(micro)
  <2>1. /\ exec' = g /\ micro' = Tail(micro)
        /\ fn' = [fn EXCEPT ![g].st = "running"]
        /\ UNCHANGED <<co, ctx, current, sess, running, up, wild>>
    BY <1>8 DEF NextMicrotask
  <2>2. ~wild => g = a /\ micro' = << >> /\ fn[a].st = "queued"
    <3>1. ~wild => micro = <<a>> /\ fn[a].st = "queued"
      BY <1>1, <1>8 DEF IInv, Tame
    <3>2. Head(<<a>>) = a /\ Tail(<<a>>) = << >>
      OBVIOUS
    <3> QED
      BY <2>1, <3>1, <3>2
  <2> HIDE DEF g
  <2>3. fn \in [Calls -> FnType]
    BY DEF IInv, Typed
  <2>4. /\ fn' \in [Calls -> FnType] /\ (g \in Calls => fn'[g].st = "running")
        /\ \A f \in Calls \ {g} : fn'[f] = fn[f]
    BY <2>1, <2>3 DEF FnType, FnStates
  <2>5. \A b \in Calls : Active(b)' <=> Active(b)
    BY <2>1 DEF Active
  <2>6. Typed' /\ Control'
    BY <1>1, <2>1, <2>4 DEF IInv, Typed, Control
  <2>7. FunctionStates'
    BY <1>1, <2>1, <2>4, <2>5 DEF IInv, FunctionStates
  <2>8. Tame'
    BY <1>1, <2>1, <2>2, <2>4, <2>5 DEF IInv, Tame
  <2>9. AnswerMatchesPromise'
    BY <2>1 DEF IInv, AnswerMatchesPromise
  <2>10. ResultReturned'
    BY <1>2, <2>1, <2>2, <2>4 DEF IInv, ResultReturned
  <2>11. Contexts'
    BY <2>1, <2>5 DEF IInv, Contexts
  <2> QED
    BY <2>6, <2>7, <2>8, <2>9, <2>10, <2>11 DEF IInv
<1> QED
  BY <1>3, <1>4, <1>5, <1>6, <1>7, <1>8 DEF Looping

\* An answer that nobody awaits, and one that resumes a coroutine.
LEMMA AnsweredStep ==
  ASSUME IInv, NEW s \in Sessions, Answered(s)
  PROVE  IInv'
<1> USE NoneIsNone
<1> DEFINE awaiting == {a \in Calls : co[a] = "recv" /\ ctx[a].waiting = s}
<1>1. /\ running = None /\ exec = None /\ sess[s].sent
      /\ UNCHANGED <<exec, up, wild>>
  BY DEF Answered, Idle, IInv, Control
<1>2. /\ co \in [Calls -> CoStates] /\ fn \in [Calls -> FnType]
      /\ ctx \in [Calls -> ContextType] /\ sess \in [Sessions -> SessionType]
  BY DEF IInv, Typed
<1>3. \A a \in Calls : co[a] # "run"
  BY <1>1 DEF IInv, Control
<1>4. ~wild => micro = << >> /\ \A f \in Calls : fn[f].st # "queued"
  BY <1>1 DEF IInv, Tame
<1>5. CASE /\ awaiting = {}
           /\ sess' = [sess EXCEPT ![s].sent = FALSE]
           /\ UNCHANGED <<co, fn, ctx, current, micro, running, phase>>
  <2>1. /\ sess' \in [Sessions -> SessionType]
        /\ \A t \in Sessions : sess'[t].by = sess[t].by /\ sess'[t].with = sess[t].with
        /\ \A t \in Sessions \ {s} : sess'[t].sent = sess[t].sent
    BY <1>2, <1>5 DEF SessionType
  <2>2. \A a \in Calls : Active(a) => ctx[a].waiting # s
    BY <1>3, <1>5 DEF Active
  <2>3. \A a \in Calls : ctx[a].waiting # None => ctx[a].waiting \in Sessions
    BY <1>2 DEF ContextType
  <2>4. \A b \in Calls : Active(b)' <=> Active(b)
    BY <1>5 DEF Active
  <2>5. Typed' /\ Control'
    BY <1>1, <1>5, <2>1 DEF IInv, Typed, Control
  <2>6. Contexts'
    BY <1>5, <2>1, <2>2, <2>3, <2>4 DEF IInv, Contexts
  <2>7. FunctionStates' /\ Tame'
    BY <1>1, <1>5, <2>1, <2>4 DEF IInv, FunctionStates, Tame
  <2>8. AnswerMatchesPromise'
    BY <2>1 DEF IInv, AnswerMatchesPromise
  <2>9. ResultReturned'
    BY <1>1, <1>5, <2>1 DEF IInv, ResultReturned, FunctionStates
  <2> QED
    BY <2>5, <2>6, <2>7, <2>8, <2>9 DEF IInv
<1>6. ASSUME NEW a \in awaiting, Resumed(a),
             \/ Resolve(ctx[a].promise, s)
             \/ sess' = [sess EXCEPT ![s].sent = FALSE] /\ UNCHANGED <<fn, micro>>
      PROVE  IInv'
  <2> DEFINE F == {f \in Calls : fn[f].st = "await" /\ fn[f].on = s}
  <2>1. a \in Calls /\ co[a] = "recv" /\ ctx[a].waiting = s /\ ctx[a].promise = s
    BY DEF IInv, Contexts
  <2>2. /\ co' = [co EXCEPT ![a] = "run"] /\ ctx' = [ctx EXCEPT ![a] = NoContext]
        /\ running' = a /\ current' = a
    BY <1>6 DEF Resumed
  <2>3. co'[a] = "run" /\ \A b \in Calls \ {a} : co'[b] = co[b]
    BY <1>2, <2>1, <2>2
  <2>4. /\ ctx' \in [Calls -> ContextType] /\ ctx'[a] = NoContext /\ ctx'[a].waiting = None
        /\ \A b \in Calls \ {a} : ctx'[b] = ctx[b]
    BY <1>2, <2>1, <2>2 DEF NoContext, ContextType
  <2>5. \/ /\ sess' = [sess EXCEPT ![s].sent = FALSE, ![s].with = s]
           /\ fn' = [f \in Calls |-> IF f \in F THEN [fn[f] EXCEPT !.st = "queued", !.on = None]
                                     ELSE fn[f]]
           /\ micro' = micro \o SetToSeq(F)
        \/ sess' = [sess EXCEPT ![s].sent = FALSE] /\ UNCHANGED <<fn, micro>>
    BY <1>6, <2>1 DEF Resolve
  <2>6. /\ sess' \in [Sessions -> SessionType]
        /\ \A t \in Sessions \ {s} : sess'[t] = sess[t]
        /\ sess'[s].by = sess[s].by /\ sess'[s].with \in {sess[s].with, s}
    <3>1. sess[s] \in SessionType
      BY <1>2
    <3>2. PICK r \in SessionType : /\ sess' = [sess EXCEPT ![s] = r] /\ r.by = sess[s].by
                                  /\ r.with \in {sess[s].with, s}
      <4>1. CASE sess' = [sess EXCEPT ![s].sent = FALSE, ![s].with = s]
        <5> DEFINE r == [sess[s] EXCEPT !.sent = FALSE, !.with = s]
        <5>1. r \in SessionType /\ r.by = sess[s].by /\ r.with = s
          BY <3>1 DEF SessionType
        <5>2. sess' = [sess EXCEPT ![s] = r]
          BY <1>2, <4>1
        <5> QED
          BY <5>1, <5>2
      <4>2. CASE sess' = [sess EXCEPT ![s].sent = FALSE]
        <5> DEFINE r == [sess[s] EXCEPT !.sent = FALSE]
        <5>1. r \in SessionType /\ r.by = sess[s].by /\ r.with = sess[s].with
          BY <3>1 DEF SessionType
        <5>2. sess' = [sess EXCEPT ![s] = r]
          BY <1>2, <4>2
        <5> QED
          BY <5>1, <5>2
      <4> QED
        BY <2>5, <4>1, <4>2
    <3> QED
      BY <1>2, <3>2
  <2>7. \A f \in Calls : f \in F => sess[s].by = f
    BY DEF IInv, FunctionStates
  <2>8. /\ fn' \in [Calls -> FnType]
        /\ \A f \in Calls \ F : fn'[f] = fn[f]
        /\ \A f \in F : fn'[f] = fn[f] \/ fn'[f].st = "queued"
    <3> DEFINE Q(f) == [fn[f] EXCEPT !.st = "queued", !.on = None]
    <3>1. ASSUME NEW f \in Calls
          PROVE  Q(f) \in FnType /\ Q(f).st = "queued"
      <4>1. fn[f] \in FnType
        BY <1>2
      <4> QED
        BY <4>1 DEF FnType, FnStates
    <3>2. \/ fn' = [f \in Calls |-> IF f \in F THEN Q(f) ELSE fn[f]]
          \/ fn' = fn
      BY <2>5
    <3> HIDE DEF Q, F
    <3>3. CASE fn' = [f \in Calls |-> IF f \in F THEN Q(f) ELSE fn[f]]
      <4>1. \A f \in Calls : fn'[f] = IF f \in F THEN Q(f) ELSE fn[f]
        BY <3>3
      <4>2. F \subseteq Calls
        BY DEF F
      <4>3. fn' \in [Calls -> FnType]
        BY <1>2, <3>1, <3>3
      <4> QED
        BY <3>1, <4>1, <4>2, <4>3
    <3> QED
      BY <1>2, <3>2, <3>3
  <2>9. (\E f \in F : fn'[f] = fn[f]) => sess'[s].with = sess[s].with
    <3>1. CASE sess' = [sess EXCEPT ![s].sent = FALSE] /\ UNCHANGED <<fn, micro>>
      BY <1>2, <3>1 DEF SessionType
    <3>2. CASE fn' = [f \in Calls |-> IF f \in F
                                       THEN [fn[f] EXCEPT !.st = "queued", !.on = None]
                                       ELSE fn[f]]
      <4>1. \A f \in F : fn'[f].st = "queued" /\ fn[f].st = "await"
        BY <1>2, <3>2 DEF FnType
      <4> QED
        BY <4>1
    <3> QED
      BY <2>5, <3>1, <3>2
  <2>10. Typed'
    BY <1>1, <1>2, <2>1, <2>2, <2>4, <2>6, <2>8 DEF IInv, Typed, CoStates
  <2>11. Control'
    BY <1>1, <1>3, <2>1, <2>2, <2>3 DEF IInv, Control
  <2>12. \A b \in Calls : Active(b)' <=> Active(b)
    BY <2>1, <2>3 DEF Active
  <2>13. \A b \in Calls \ {a} : Active(b) => ctx[b].waiting # s
    BY <2>1 DEF IInv, Contexts, Active
  <2>14. Contexts'
    <3>1. \A b \in Calls : ctx[b].waiting # None => ctx[b].waiting \in Sessions
      BY <1>2 DEF ContextType
    <3>2. \A b \in Calls : Active(b) /\ ctx'[b].waiting # None => sess'[ctx'[b].waiting].sent
      BY <2>4, <2>6, <2>13, <3>1 DEF IInv, Contexts
    <3> QED
      BY <2>3, <2>4, <2>12, <3>2 DEF IInv, Contexts
  <2>15. FunctionStates'
    <3>1. \A f \in Calls : fn'[f].st = "running" <=> fn[f].st = "running"
      BY <2>8
    <3>2. \A f \in Calls : fn'[f].st = "await" =>
            /\ fn'[f].on \in Sessions
            /\ sess'[fn'[f].on].by = f /\ sess'[fn'[f].on].with = None
      <4> SUFFICES ASSUME NEW f \in Calls, fn'[f].st = "await"
                   PROVE  /\ fn'[f].on \in Sessions
                          /\ sess'[fn'[f].on].by = f /\ sess'[fn'[f].on].with = None
        OBVIOUS
      <4>1. fn'[f] = fn[f] /\ fn[f].st = "await"
        BY <2>8
      <4>2. fn[f].on \in Sessions /\ sess[fn[f].on].by = f /\ sess[fn[f].on].with = None
        BY <4>1 DEF IInv, FunctionStates
      <4>3. CASE fn[f].on = s
        BY <2>6, <2>9, <4>1, <4>2, <4>3
      <4>4. CASE fn[f].on # s
        BY <2>6, <4>1, <4>2, <4>4
      <4> QED
        BY <4>3, <4>4
    <3>3. \A f \in Calls : Active(f) => fn'[f].st # "none"
      BY <2>8 DEF IInv, FunctionStates
    <3> QED
      BY <1>1, <2>12, <3>1, <3>2, <3>3 DEF IInv, FunctionStates
  <2>16. ~wild => F = {a}
    <3>1. ~wild => fn[a].st = "await" /\ fn[a].on = s
      BY <2>1 DEF IInv, Tame, Active
    <3> QED
      BY <2>1, <2>7, <3>1
  <2>17. Tame'
    <3> SUFFICES ASSUME ~wild
                 PROVE  /\ \/ micro' = << >> /\ \A f \in Calls : fn'[f].st # "queued"
                           \/ /\ micro' = <<a>> /\ fn'[a].st = "queued"
                              /\ \A f \in Calls : fn'[f].st = "queued" => f = a
                        /\ \A b \in Calls : Active(b) /\ ctx'[b].waiting # None =>
                             fn'[b].st = "await" /\ fn'[b].on = ctx'[b].waiting
      BY <1>1, <2>1, <2>2, <2>12 DEF Tame
    <3>1. \A b \in Calls : Active(b) /\ ctx'[b].waiting # None =>
            fn'[b].st = "await" /\ fn'[b].on = ctx'[b].waiting
      BY <2>4, <2>8, <2>16 DEF IInv, Tame
    <3>2. CASE UNCHANGED <<fn, micro>>
      BY <1>4, <3>1, <3>2
    <3>3. CASE /\ fn' = [f \in Calls |-> IF f \in F
                                         THEN [fn[f] EXCEPT !.st = "queued", !.on = None]
                                         ELSE fn[f]]
               /\ micro' = micro \o SetToSeq(F)
      <4>1. micro' = << >> \o <<a>>
        BY <1>4, <2>16, <3>3, SetToSeqSingle
      <4>2. micro' = <<a>>
        BY <4>1
      <4>3. fn'[a].st = "queued"
        BY <1>2, <2>1, <2>16, <3>3 DEF FnType
      <4>4. \A f \in Calls : fn'[f].st = "queued" => f = a
        BY <1>4, <2>8, <2>16
      <4> QED
        BY <3>1, <4>2, <4>3, <4>4
    <3> QED
      BY <2>5, <3>2, <3>3
  <2>18. AnswerMatchesPromise'
    BY <2>6 DEF IInv, AnswerMatchesPromise
  <2>19. ResultReturned'
    <3> SUFFICES ASSUME ~wild, NEW b \in Calls, co'[b] = "null"
                 PROVE  \/ fn'[b].st \in {"rejected", "aborted"}
                        \/ fn'[b].st = "await" /\ sess'[fn'[b].on].with = None
      BY <1>1 DEF ResultReturned
    <3>1. b # a /\ co[b] = "null" /\ b \notin F
      BY <2>3, <2>16
    <3>2. \/ fn[b].st \in {"rejected", "aborted"}
          \/ fn[b].st = "await" /\ sess[fn[b].on].with = None
      BY <3>1 DEF IInv, ResultReturned
    <3>3. fn[b].st = "await" => fn[b].on \in Sessions \ {s}
      BY <3>1 DEF IInv, FunctionStates
    <3> QED
      BY <2>6, <2>8, <3>1, <3>2, <3>3
  <2> QED
    BY <2>10, <2>11, <2>14, <2>15, <2>17, <2>18, <2>19 DEF IInv
<1>7. \/ /\ awaiting = {}
         /\ sess' = [sess EXCEPT ![s].sent = FALSE]
         /\ UNCHANGED <<co, fn, ctx, current, micro, running, phase>>
      \/ \E a \in awaiting :
           /\ Resumed(a)
           /\ \/ Resolve(ctx[a].promise, s)
              \/ sess' = [sess EXCEPT ![s].sent = FALSE] /\ UNCHANGED <<fn, micro>>
  BY DEF Answered
<1> QED
  BY <1>5, <1>6, <1>7

\* A timeout ends a coroutine that awaits an answer.
LEMMA TimedOutStep ==
  ASSUME IInv, NEW a \in Calls, TimedOut(a)
  PROVE  IInv'
<1> USE NoneIsNone
<1>1. /\ co[a] = "recv" /\ co' = [co EXCEPT ![a] = "abort"]
      /\ UNCHANGED <<fn, ctx, current, micro, sess, running, phase, exec, wild>>
  BY DEF TimedOut
<1>2. co \in [Calls -> CoStates] /\ co'[a] = "abort" /\ \A b \in Calls \ {a} : co'[b] = co[b]
  BY <1>1 DEF IInv, Typed
<1>3. \A b \in Calls : Active(b)' => Active(b)
  BY <1>2 DEF Active
<1>4. Typed' /\ Control'
  BY <1>1, <1>2 DEF IInv, Typed, Control, CoStates
<1>5. Contexts'
  BY <1>1, <1>2, <1>3 DEF IInv, Contexts
<1>6. FunctionStates'
  BY <1>1, <1>3 DEF IInv, FunctionStates
<1>7. Tame'
  BY <1>1, <1>3 DEF IInv, Tame
<1>8. AnswerMatchesPromise' /\ ResultReturned'
  BY <1>1, <1>2 DEF IInv, AnswerMatchesPromise, ResultReturned
<1> QED
  BY <1>4, <1>5, <1>6, <1>7, <1>8 DEF IInv

(***************************************************************************)
(* The invariant, and what it says of the code.                            *)
(***************************************************************************)
LEMMA InitIInv == Init => IInv
<1> SUFFICES ASSUME Init PROVE IInv
  OBVIOUS
<1> USE NoneIsNone DEF Init
<1>1. Typed
  BY JsAssumption DEF Typed, CoStates, FnStates, FnType, ContextType, SessionType, NoContext,
                      NoSession
<1>2. Control
  BY DEF Control
<1>3. Contexts /\ FunctionStates
  BY DEF Contexts, FunctionStates, Active, NoContext
<1>4. Tame
  BY DEF Tame, Active
<1>5. AnswerMatchesPromise /\ ResultReturned
  BY DEF AnswerMatchesPromise, ResultReturned, NoSession
<1> QED
  BY <1>1, <1>2, <1>3, <1>4, <1>5 DEF IInv

\* Every step preserves the invariant.
LEMMA IInvStep == IInv /\ [Next]_vars => IInv'
<1> SUFFICES ASSUME IInv, [Next]_vars PROVE IInv'
  OBVIOUS
<1>1. ASSUME NEW a \in Calls, CallFunc(a) \/ Looping(a) \/ Script(a) \/ TimedOut(a)
      PROVE  IInv'
  <2>1. CASE Script(a)
    BY <2>1, ScriptStep, SegAbortStep
  <2> QED
    BY <1>1, <2>1, CallFuncStep, LoopingStep, TimedOutStep
<1>2. ASSUME NEW s \in Sessions, Answered(s)
      PROVE  IInv'
  BY <1>2, AnsweredStep
<1>3. CASE UNCHANGED vars
  <2>1. \A b \in Calls : Active(b)' <=> Active(b)
    BY <1>3 DEF Active, vars
  <2>2. Typed' /\ Control'
    BY <1>3 DEF IInv, Typed, Control, vars
  <2>3. Contexts' /\ FunctionStates' /\ Tame'
    BY <1>3, <2>1 DEF IInv, Contexts, FunctionStates, Tame, vars
  <2>4. AnswerMatchesPromise' /\ ResultReturned'
    BY <1>3 DEF IInv, AnswerMatchesPromise, ResultReturned, vars
  <2> QED
    BY <2>2, <2>3, <2>4 DEF IInv
<1> QED
  BY <1>1, <1>2, <1>3 DEF Next

\* In every state of the service the contexts, the promises and the coroutines
\* of CallFunc agree, whatever the scripts do (JSService::CallFunc).
THEOREM Inductive == Spec => []IInv
<1> QED
  BY InitIInv, IInvStep, PTL DEF Spec

\* No answer is taken before it is awaited, and none is awaited twice, whatever
\* promises the scripts keep.
THEOREM AwaitsPendingHolds == Spec => []AwaitsPending
<1>1. IInv => AwaitsPending
  BY DEF IInv, Contexts, AwaitsPending, Active
<1> QED
  BY Inductive, <1>1, PTL

\* A promise is resolved by the answer to its own request, whosever coroutine
\* function_call_context_ leads to.
THEOREM AnswerMatchesPromiseHolds == Spec => []AnswerMatchesPromise
<1>1. IInv => AnswerMatchesPromise
  BY DEF IInv
<1> QED
  BY Inductive, <1>1, PTL

\* A coroutine gives up only for a reason of its own, if scripts await what they
\* call: although the microtasks are shared, each runs in its own coroutine.
THEOREM ResultReturnedHolds == Spec => []ResultReturned
<1>1. IInv => ResultReturned
  BY DEF IInv
<1> QED
  BY Inductive, <1>1, PTL
-----------------------------------------------------------------------------
(***************************************************************************)
(* The fields of the rows that scripts hold (DBRowFields).                 *)
(***************************************************************************)

Values == {"default", "x", "wide", "empty", "more"}
RowType == [ver : Nat, val : [Fields -> Values], dirty : SUBSET Fields, gen : Nat]
SqlRowType == [ver : Nat, val : [Fields -> Values \cup {"null"}], dirty : {{}}, gen : Nat]
LoadType == [st : {"none", "query", "answer", "lost"}, form : KeyForms \cup {"none"},
             row : RowType]
SyncType == [st : {"off", "armed", "await", "stopped"}, ver : Nat,
             answer : {"none", "success", "mismatch"}]
UpdateType == [row : RowType, old : Nat]

RowsTyped ==
  /\ kind \in [Fields -> Kinds] /\ kind[Key] # "repeated" /\ columns \subseteq Fields
  /\ sql \in SqlRowType
  /\ cache \in [row : RowType, sqlver : Nat]
  /\ client \in [Clients -> RowType]
  /\ load \in [Clients -> LoadType] /\ sync \in SyncType /\ updates \in Seq(UpdateType)
  /\ gens \in Nat /\ lost \in BOOLEAN

\* No row holds a value that needs 64 bits in a field of 32.
Fits(r) == \A f \in Fields : kind[f] \in Narrow => r.val[f] # "wide"
RowsFit ==
  /\ Fits(sql) /\ Fits(cache.row)
  /\ \A c \in Clients : Fits(client[c]) /\ Fits(load[c].row)
  /\ \A i \in 1..Len(updates) : Fits(updates[i].row)

\* The key is never assigned, and a row that was read is clean.
KeyClean ==
  /\ Key \notin cache.row.dirty
  /\ \A c \in Clients : Key \notin client[c].dirty /\ load[c].row.dirty = {}

\* SqlTableInitReq on the table of a row adds every column that is missing.
Complete ==
  /\ columns = {} => sql = NoRow
  /\ ready /\ sql # NoRow => Fields \subseteq columns

\* Rows come from the SQL table, by way of the cache.
Present ==
  /\ sql.ver = 0 => sql = NoRow
  /\ cache.row.ver = 0 <=> ~Cached
  /\ \A c \in Clients : client[c].ver = 0 <=> client[c] = NoRow
  /\ Cached => sql.ver > 0
  /\ \A c \in Clients : load[c].st = "answer" => sql.ver > 0 /\ load[c].row.ver > 0
  /\ ~Cached => /\ updates = << >> /\ sync = NoSync
                /\ \A c \in Clients : client[c] = NoRow

\* Row a was accepted before row b, or they are the same.
UpTo(a, b) ==
  \/ a.ver < b.ver /\ a.gen < b.gen
  \/ a.ver = b.ver /\ a.gen = b.gen

\* As long as no update is lost, the rows on their way are older than the cached
\* row, and their versions are in the order of the updates that made them.
Ordered ==
  /\ sql.gen <= gens
  /\ \A c \in Clients : load[c].st = "answer" => UpTo(load[c].row, sql)
  /\ Cached => /\ cache.row.gen <= gens /\ UpTo(sql, cache.row)
               /\ \A c \in Clients : client[c].gen <= cache.row.gen
  /\ \A i \in 1..Len(updates) :
       /\ UpTo(updates[i].row, cache.row)
       /\ UpTo(updates[i].row, sql) \/ UpTo(sql, updates[i].row)
       /\ \A j \in i..Len(updates) : UpTo(updates[i].row, updates[j].row)

\* An answer that is not out of date has the row of the SQL table.
AnswersAgree ==
  \A c \in Clients :
    load[c].st = "answer" /\ (load[c].row.gen = sql.gen \/ ~Cached) =>
      /\ load[c].row.ver = sql.ver /\ load[c].row.gen = sql.gen
      /\ \A f \in Stored : load[c].row.val[f] = FromColumn(sql.val[f])

\* Row r was copied from row s, and then fields of it were assigned.
CopyOf(r, s) ==
  /\ s.dirty \subseteq r.dirty
  /\ \A f \in Stored \ r.dirty : r.val[f] = s.val[f]

\* A service that could commit without losing an update has a copy.
CopiesAgree ==
  Cached => \A c \in Clients :
    client[c] # NoRow /\ client[c].gen = cache.row.gen => CopyOf(client[c], cache.row)

\* What update u writes, if SQL accepts it now, is in the cached row.
Writes(u) ==
  u.old = sql.ver /\ sql.ver < u.row.ver =>
    /\ u.row.dirty \subseteq cache.row.dirty \cup {Key}
    /\ u.row.val[Key] = cache.row.val[Key]
    /\ u.row.gen = cache.row.gen =>
         /\ cache.row.dirty \subseteq u.row.dirty
         /\ \A f \in u.row.dirty : u.row.val[f] = cache.row.val[f]

\* The version that the write-back takes for that of SQL is not ahead of it.
UpdatesAgree ==
  /\ cache.sqlver <= sql.ver
  /\ sync.answer = "success" => sync.ver <= sql.ver
  /\ sync.st = "await" /\ updates # << >> => updates[Len(updates)].row.ver = sync.ver
  /\ \A i \in 1..Len(updates) : updates[i].old <= sql.ver /\ Writes(updates[i])

Linked == Ordered /\ AnswersAgree /\ CopiesAgree /\ UpdatesAgree
          /\ CleanFieldsAgree /\ SameVersionSameRow

RowIInv == RowsTyped /\ RowsFit /\ KeyClean /\ Complete /\ Present /\ (~lost => Linked)

\* A field that is stored is read with the type it was written with, and a
\* script can assign what it reads.
LEMMA Conversions ==
  ASSUME NEW k \in Kinds, k # "repeated"
  PROVE  /\ ReadType(k) = DriverType(SqlType(k)) /\ BindType(k) = DriverType(SqlType(k))
         /\ JsType(k) \in Accepts(k)
<1>1. CASE k \in {"int32", "uint32", "float"}
  BY <1>1 DEF ReadType, BindType, DriverType, SqlType, JsType, Accepts,
              Text, Embedded, Numeric, Narrow, Wide
<1>2. CASE k \in {"int64", "uint64", "double"}
  BY <1>2 DEF ReadType, BindType, DriverType, SqlType, JsType, Accepts,
              Text, Embedded, Numeric, Narrow, Wide
<1>3. CASE k \in {"string", "bytes", "message", "listmessage"}
  BY <1>3 DEF ReadType, BindType, DriverType, SqlType, JsType, Accepts,
              Text, Embedded, Numeric, Narrow, Wide
<1>4. CASE k \in {"bool", "enum"}
  BY <1>4 DEF ReadType, BindType, DriverType, SqlType, JsType, Accepts,
              Text, Embedded, Numeric, Narrow, Wide
<1> QED
  BY <1>1, <1>2, <1>3, <1>4 DEF Kinds, Numeric, Narrow, Wide, Text, Embedded

\* What is stored of a field is its value, also when it is read again.
LEMMA ColumnKeeps ==
  ASSUME NEW k \in Kinds, k # "repeated", NEW v \in Values
  PROVE  ToColumn(k, v) = v /\ FromColumn(ToColumn(k, v)) = v
<1>1. ToColumn(k, v) = v
  BY Conversions DEF ToColumn
<1> QED
  BY <1>1 DEF FromColumn, Values

\* A value that is assigned fits the field, and a value the field holds can be
\* assigned again.
LEMMA AssignedFits ==
  ASSUME NEW k, NEW old \in Values, NEW v \in Values, k \in Narrow => old # "wide"
  PROVE  /\ FromJs(k, old, v) \in Values
         /\ k \in Narrow => FromJs(k, old, v) # "wide"
         /\ k # "listmessage" => FromJs(k, old, old) = old
BY DEF FromJs, Values, Narrow, Embedded

\* Scripts read back the values they assign.
LEMMA RowsReadBack ==
  ASSUME RowsTyped, RowsFit
  PROVE  ReadBack
<1> SUFFICES ASSUME NEW c \in Clients, NEW f \in Stored
             PROVE  /\ JsType(kind[f]) \in Accepts(kind[f])
                    /\ kind[f] # "listmessage" =>
                         FromJs(kind[f], client[c].val[f], client[c].val[f]) = client[c].val[f]
  BY DEF ReadBack
<1>1. f \in Fields /\ kind[f] \in Kinds /\ kind[f] # "repeated"
  BY DEF RowsTyped, Stored, Repeated
<1>2. client[c].val[f] \in Values /\ (kind[f] \in Narrow => client[c].val[f] # "wide")
  BY <1>1 DEF RowsTyped, RowType, RowsFit, Fits
<1> QED
  BY <1>1, <1>2, Conversions, AssignedFits

\* A table that is initialized has the columns to read its row.
LEMMA CompleteLoads ==
  ASSUME RowsTyped, Complete
  PROVE  RowLoads
<1> SUFFICES ASSUME ready, sql # NoRow, \A f \in Stored : sql.val[f] # "null"
             PROVE  Readable
  BY DEF RowLoads
<1>1. \A f \in Stored : kind[f] \in Kinds /\ kind[f] # "repeated"
  BY DEF RowsTyped, Stored, Repeated
<1>2. \A f \in Stored : ReadType(kind[f]) = DriverType(SqlType(kind[f]))
  BY <1>1, Conversions
<1> QED
  BY <1>2 DEF Complete, Readable
\* The invariant holds initially.
LEMMA RowInitIInv == RowInit => RowIInv
<1> SUFFICES ASSUME RowInit
             PROVE  RowIInv
  OBVIOUS
<1>1. kind \in [Fields -> Kinds] /\ kind[Key] # "repeated"
  BY RowAssumption DEF RowInit, Fields, Key
<1>2. NoRow \in RowType /\ NoRow \in SqlRowType /\ Fits(NoRow)
  BY DEF NoRow, RowType, SqlRowType, Blank, Values, Fits
<1>3. sql \in SqlRowType /\ Fits(sql) /\ (sql.ver = 0 => sql = NoRow) /\ sql.gen = 0
  <2>1. CASE sql = NoRow
    BY <1>2, <2>1 DEF NoRow
  <2>2. CASE sql # NoRow
    <3>1. sql = [ver |-> 1, val |-> [f \in Fields |-> IF f \in columns THEN "x" ELSE "null"],
                 dirty |-> {}, gen |-> 0]
      BY <2>2 DEF RowInit
    <3> QED
      BY <3>1 DEF SqlRowType, Values, Fits
  <2> QED
    BY <2>1, <2>2
<1>4. /\ cache = NoCache /\ client = [c \in Clients |-> NoRow] /\ load = [c \in Clients |-> NoLoad]
      /\ sync = NoSync /\ updates = << >> /\ gens = 0 /\ lost = FALSE /\ ready = FALSE
      /\ columns \subseteq Fields
  BY DEF RowInit, Fields
<1>5. RowsTyped
  <2>1. cache \in [row : RowType, sqlver : Nat] /\ client \in [Clients -> RowType]
    BY <1>2, <1>4 DEF NoCache
  <2>2. load \in [Clients -> LoadType]
    BY <1>2, <1>4 DEF NoLoad, LoadType
  <2>3. sync \in SyncType
    BY <1>4 DEF NoSync, SyncType
  <2>4. updates \in Seq(UpdateType)
    BY <1>4
  <2>5. gens \in Nat /\ lost \in BOOLEAN
    BY <1>4
  <2> QED
    BY <1>1, <1>3, <1>4, <2>1, <2>2, <2>3, <2>4, <2>5 DEF RowsTyped
<1>6. RowsFit /\ KeyClean
  <2>1. cache.row = NoRow /\ Len(updates) = 0
        /\ \A c \in Clients : client[c] = NoRow /\ load[c].row = NoRow
    BY <1>4 DEF NoCache, NoLoad
  <2>2. NoRow.dirty = {}
    BY DEF NoRow
  <2> QED
    BY <1>2, <1>3, <2>1, <2>2 DEF RowsFit, KeyClean
<1>7. Complete
  BY <1>4 DEF Complete, RowInit
<1>8. Present
  BY <1>3, <1>4 DEF Present, Cached, NoCache, NoLoad, NoRow
<1>9. Linked
  <2>1. ~Cached
    BY <1>4 DEF Cached
  <2>2. Ordered /\ AnswersAgree
    BY <1>3, <1>4, <2>1 DEF Ordered, AnswersAgree, NoLoad
  <2>3. UpdatesAgree
    BY <1>3, <1>4 DEF UpdatesAgree, NoCache, NoSync, SqlRowType
  <2> QED
    BY <2>1, <2>2, <2>3 DEF Linked, CopiesAgree, CleanFieldsAgree, SameVersionSameRow
<1> QED
  BY <1>5, <1>6, <1>7, <1>8, <1>9 DEF RowIInv

\* A step on the table and its columns leaves the rows alone.
LEMMA TableKeeps ==
  ASSUME RowIInv, Complete', columns' \subseteq Fields,
         UNCHANGED <<kind, sql, cache, client, load, sync, updates, gens, lost>>
  PROVE  RowIInv'
<1>1. RowsTyped' /\ RowsFit' /\ KeyClean'
  BY DEF RowIInv, RowsTyped, RowsFit, Fits, KeyClean
<1>2. Present'
  BY DEF RowIInv, Present, Cached
<1>3. Linked => Linked'
  <2>1. Cached' = Cached /\ Stored' = Stored
    BY DEF Cached, Stored, Repeated
  <2>2. Ordered => Ordered'
    BY <2>1 DEF Ordered
  <2>3. AnswersAgree => AnswersAgree'
    BY <2>1 DEF AnswersAgree
  <2>4. CopiesAgree => CopiesAgree'
    BY <2>1 DEF CopiesAgree, CopyOf
  <2>5. UpdatesAgree => UpdatesAgree'
    BY <2>1 DEF UpdatesAgree, Writes
  <2>6. /\ CleanFieldsAgree => CleanFieldsAgree'
        /\ SameVersionSameRow => SameVersionSameRow'
    BY <2>1 DEF CleanFieldsAgree, SameVersionSameRow
  <2> QED
    BY <2>2, <2>3, <2>4, <2>5, <2>6 DEF Linked
<1> QED
  BY <1>1, <1>2, <1>3 DEF RowIInv

\* SqlTableInitReq preserves the invariant.
LEMMA TableInitKeeps ==
  ASSUME RowIInv, CreateTable \/ AlterTable
  PROVE  RowIInv'
<1>1. columns \subseteq Fields /\ Complete
  BY DEF RowIInv, RowsTyped
<1>2. CASE CreateTable
  <2>1. columns' \subseteq Fields /\ sql = NoRow /\ sql' = sql
    BY <1>1, <1>2 DEF CreateTable, Stored, Complete
  <2>2. Complete'
    BY <2>1 DEF Complete
  <2> QED
    BY <1>2, <2>1, <2>2, TableKeeps DEF CreateTable
<1>3. CASE AlterTable
  <2>1. PICK i \in 0..3 :
          /\ columns' = columns \cup ({FieldOrder[j] : j \in 1..i} \cap MissingFields)
          /\ ready' = (i = 3) /\ columns # {} /\ sql' = sql
    BY <1>3 DEF AlterTable, FieldOrder
  <2>2. columns' # {} /\ columns' \subseteq Fields
    BY <1>1, <2>1 DEF MissingFields
  <2>3. ready' => Fields \subseteq columns'
    <3>1. {FieldOrder[j] : j \in 1..3} = Fields
      BY DEF FieldOrder, Fields
    <3> QED
      BY <2>1, <3>1 DEF MissingFields
  <2>4. Complete'
    BY <2>1, <2>2, <2>3 DEF Complete
  <2> QED
    BY <1>3, <2>2, <2>4, TableKeeps DEF AlterTable
<1> QED
  BY <1>2, <1>3

\* A session that times out preserves the invariant.
LEMMA StoppingKeeps ==
  ASSUME RowIInv, InsertFails \/ \E c \in Clients : QueryTimesOut(c)
  PROVE  RowIInv'
<1>1. UNCHANGED <<kind, columns, ready, sql, cache, client, load, sync, updates, gens, lost>>
  BY DEF InsertFails, QueryTimesOut
<1>2. columns' \subseteq Fields /\ Complete'
  BY <1>1 DEF RowIInv, RowsTyped, Complete
<1> QED
  BY <1>1, <1>2, TableKeeps

\* Without a row in SQL there is none anywhere.
LEMMA NoRowAnywhere ==
  ASSUME RowIInv, sql = NoRow
  PROVE  /\ ~Cached /\ cache = NoCache /\ updates = << >>
         /\ \A c \in Clients : load[c].st # "answer" /\ client[c] = NoRow
<1>1. sql.ver = 0
  BY DEF NoRow
<1> QED
  BY <1>1 DEF RowIInv, Present, Cached

\* SqlInsertReq preserves the invariant.
LEMMA InsertKeeps ==
  ASSUME RowIInv, Insert([f \in Fields |-> "x"])
  PROVE  RowIInv'
<1>1. /\ ready /\ sql = NoRow /\ Fields \subseteq columns
      /\ UNCHANGED <<kind, columns, ready, cache, client, load, sync, updates, gens, lost>>
      /\ sql' = [ver |-> 1, val |-> [f \in Fields |-> ToColumn(kind[f], "x")],
                 dirty |-> {}, gen |-> 0]
  BY DEF Insert
<1>2. \A f \in Fields : ToColumn(kind[f], "x") \in {"x", "default"}
  BY DEF ToColumn
<1>3. sql' \in SqlRowType /\ Fits(sql)' /\ sql'.ver = 1 /\ sql'.gen = 0
  <2>1. sql'.val = [f \in Fields |-> ToColumn(kind[f], "x")]
    BY <1>1
  <2>2. sql'.val \in [Fields -> Values \cup {"null"}]
    BY <1>2, <2>1 DEF Values
  <2>3. \A f \in Fields : sql'.val[f] # "wide"
    BY <1>2, <2>1
  <2> QED
    BY <1>1, <2>1, <2>2, <2>3 DEF SqlRowType, Fits
<1>4. /\ ~Cached' /\ cache' = NoCache /\ updates' = << >>
      /\ \A c \in Clients : load'[c].st # "answer" /\ client'[c] = NoRow
  BY <1>1, NoRowAnywhere DEF Cached
<1>5. RowsTyped'
  BY <1>1, <1>3 DEF RowIInv, RowsTyped
<1>6. RowsFit' /\ KeyClean'
  BY <1>1, <1>3 DEF RowIInv, RowsFit, KeyClean, Fits
<1>7. Complete'
  BY <1>1 DEF Complete, RowIInv, RowsTyped, Fields
<1>8. Present'
  BY <1>1, <1>3, <1>4 DEF RowIInv, Present, Cached
<1>9. Linked'
  <2>1. cache'.sqlver = 0 /\ gens' \in Nat /\ sync'.answer = "none"
    BY <1>4, <1>5, <1>8 DEF NoCache, RowsTyped, Present, NoSync
  <2>2. Ordered' /\ AnswersAgree' /\ CopiesAgree'
    BY <1>3, <1>4, <2>1 DEF Ordered, AnswersAgree, CopiesAgree
  <2>3. UpdatesAgree'
    BY <1>3, <1>4, <2>1 DEF UpdatesAgree
  <2> QED
    BY <1>4, <2>2, <2>3 DEF Linked, CleanFieldsAgree, SameVersionSameRow
<1> QED
  BY <1>5, <1>6, <1>7, <1>8, <1>9 DEF RowIInv

\* A request to SqlService or its answer, r, preserves the invariant if a row in
\* it is the row of the SQL table.
LEMMA AnswerKeeps ==
  ASSUME RowIInv, NEW c \in Clients, NEW r \in LoadType, load' = [load EXCEPT ![c] = r],
         r.row.dirty = {}, Fits(r.row),
         r.st = "answer" => /\ sql.ver > 0 /\ r.row.ver = sql.ver /\ r.row.gen = sql.gen
                            /\ \A f \in Stored : r.row.val[f] = FromColumn(sql.val[f]),
         UNCHANGED <<kind, columns, ready, sql, cache, client, sync, updates, gens, lost>>
  PROVE  RowIInv'
<1>1. Cached' = Cached /\ Stored' = Stored /\ Complete'
  BY DEF Cached, Stored, Repeated, Complete, RowIInv
<1>2. load \in [Clients -> LoadType]
  BY DEF RowIInv, RowsTyped, LoadType
<1>3. /\ load' \in [Clients -> LoadType] /\ load'[c] = r
      /\ \A d \in Clients : d # c => load'[d] = load[d]
  BY <1>2
<1>4. RowsTyped'
  BY <1>3 DEF RowIInv, RowsTyped, LoadType
<1>5. RowsFit' /\ KeyClean'
  <2>1. \A d \in Clients : Fits(load'[d].row) /\ load'[d].row.dirty = {}
    BY <1>3 DEF RowIInv, RowsFit, KeyClean
  <2> QED
    BY <2>1 DEF RowIInv, RowsFit, KeyClean, Fits
<1>6. Present'
  <2>1. \A d \in Clients : load'[d].st = "answer" => sql.ver > 0 /\ load'[d].row.ver > 0
    BY <1>3 DEF RowIInv, Present
  <2> QED
    BY <1>1, <2>1 DEF RowIInv, Present
<1>7. ASSUME Linked
      PROVE  Linked'
  <2>1. Ordered'
    <3>1. \A d \in Clients : load'[d].st = "answer" => UpTo(load'[d].row, sql)
      BY <1>3, <1>7 DEF Linked, Ordered, UpTo
    <3> QED
      BY <1>1, <1>7, <3>1 DEF Linked, Ordered, UpTo
  <2>2. AnswersAgree'
    BY <1>1, <1>3, <1>7 DEF Linked, AnswersAgree
  <2>3. CopiesAgree' /\ CleanFieldsAgree' /\ SameVersionSameRow'
    BY <1>1, <1>7 DEF Linked, CopiesAgree, CopyOf, CleanFieldsAgree, SameVersionSameRow
  <2>4. UpdatesAgree'
    BY <1>7 DEF Linked, UpdatesAgree, Writes
  <2> QED
    BY <2>1, <2>2, <2>3, <2>4 DEF Linked
<1> QED
  BY <1>1, <1>4, <1>5, <1>6, <1>7 DEF RowIInv

\* A service gets another row, r, or its row is changed: that preserves the
\* invariant if r is the cached row, a changed copy of it, or older.
LEMMA ClientKeeps ==
  ASSUME RowIInv, NEW c \in Clients, NEW r \in RowType, client' = [client EXCEPT ![c] = r],
         Fits(r), Key \notin r.dirty, r.ver # 0, Cached,
         Linked => /\ r.gen <= cache.row.gen
                   /\ r.gen = cache.row.gen => CopyOf(r, cache.row),
         UNCHANGED <<kind, columns, ready, sql, cache, load, sync, updates, gens, lost>>
  PROVE  RowIInv'
<1>1. Cached' = Cached /\ Stored' = Stored /\ Complete'
  BY DEF Cached, Stored, Repeated, Complete, RowIInv
<1>2. client \in [Clients -> RowType]
  BY DEF RowIInv, RowsTyped
<1>3. /\ client' \in [Clients -> RowType] /\ client'[c] = r
      /\ \A d \in Clients : d # c => client'[d] = client[d]
  BY <1>2
<1>4. RowsTyped'
  BY <1>3 DEF RowIInv, RowsTyped
<1>5. RowsFit' /\ KeyClean'
  <2>1. \A d \in Clients : Fits(client'[d]) /\ Key \notin client'[d].dirty
    BY <1>3 DEF RowIInv, RowsFit, KeyClean
  <2> QED
    BY <2>1 DEF RowIInv, RowsFit, KeyClean, Fits
<1>6. Present'
  <2>1. \A d \in Clients : client'[d].ver = 0 <=> client'[d] = NoRow
    <3>1. NoRow.ver = 0
      BY DEF NoRow
    <3> QED
      BY <1>3, <3>1 DEF RowIInv, Present
  <2> QED
    BY <1>1, <2>1 DEF RowIInv, Present
<1>7. ASSUME Linked
      PROVE  Linked'
  <2>1. Ordered'
    <3>1. \A d \in Clients : client'[d].gen <= cache.row.gen
      BY <1>3, <1>7 DEF Linked, Ordered
    <3> QED
      BY <1>1, <1>7, <3>1 DEF Linked, Ordered, UpTo
  <2>2. CopiesAgree'
    <3> SUFFICES ASSUME NEW d \in Clients, client'[d] # NoRow, client'[d].gen = cache.row.gen
                 PROVE  CopyOf(client'[d], cache.row)
      BY <1>1 DEF CopiesAgree, CopyOf
    <3> QED
      BY <1>3, <1>7 DEF Linked, CopiesAgree
  <2>3. AnswersAgree' /\ CleanFieldsAgree' /\ SameVersionSameRow'
    BY <1>1, <1>7 DEF Linked, AnswersAgree, CleanFieldsAgree, SameVersionSameRow
  <2>4. UpdatesAgree'
    BY <1>7 DEF Linked, UpdatesAgree, Writes
  <2> QED
    BY <2>1, <2>2, <2>3, <2>4 DEF Linked
<1> QED
  BY <1>1, <1>4, <1>5, <1>6, <1>7 DEF RowIInv

\* DBRowLoadReq preserves the invariant.
LEMMA LoadKeeps ==
  ASSUME RowIInv, NEW c \in Clients, NEW form \in KeyForms, Load(c, form)
  PROVE  RowIInv'
<1>1. UNCHANGED <<kind, columns, ready, sql, cache, sync, updates, gens, lost>>
  BY DEF Load
<1>2. CASE Cached /\ client' = [client EXCEPT ![c] = cache.row] /\ load' = load
  <2>1. cache.row \in RowType /\ cache.row.ver # 0 /\ Fits(cache.row) /\ Key \notin cache.row.dirty
    BY <1>2 DEF RowIInv, RowsTyped, Present, RowsFit, KeyClean
  <2>2. cache.row.gen <= cache.row.gen /\ CopyOf(cache.row, cache.row)
    BY <2>1 DEF RowType, CopyOf
  <2>3. UNCHANGED <<kind, columns, ready, sql, cache, load, sync, updates, gens, lost>>
    BY <1>1, <1>2
  <2> QED
    BY <1>2, <2>1, <2>2, <2>3, ClientKeeps
<1>3. CASE /\ load' = [load EXCEPT ![c] = [st |-> "query", form |-> form, row |-> NoRow]]
           /\ client' = client
  <2>1. PICK r : r = [st |-> "query", form |-> form, row |-> NoRow]
    OBVIOUS
  <2>2. load[c].row = NoRow /\ load[c] \in LoadType
    BY DEF Load, NoLoad, RowIInv, RowsTyped, LoadType
  <2>3. NoRow \in RowType /\ NoRow.dirty = {} /\ Fits(NoRow)
    BY <2>2 DEF LoadType, RowIInv, RowsFit, KeyClean
  <2>4. r \in LoadType /\ r.row = NoRow /\ r.st = "query"
    BY <2>1, <2>3 DEF LoadType
  <2>5. UNCHANGED <<kind, columns, ready, sql, cache, client, sync, updates, gens, lost>>
    BY <1>1, <1>3
  <2> QED
    BY <1>3, <2>1, <2>3, <2>4, <2>5, AnswerKeeps
<1> QED
  BY <1>2, <1>3 DEF Load, CacheHit

\* SqlQueryReq preserves the invariant.
LEMMA SqlQueryKeeps ==
  ASSUME RowIInv, NEW c \in Clients, SqlQuery(c)
  PROVE  RowIInv'
<1>1. UNCHANGED <<kind, columns, ready, sql, cache, client, sync, updates, gens, lost>>
  BY DEF SqlQuery
<1>2. NoLoad \in LoadType /\ NoLoad.row = NoRow /\ NoRow \in RowType /\ NoRow.dirty = {}
      /\ Fits(NoRow) /\ NoLoad.st = "none"
  BY DEF NoLoad, LoadType, NoRow, RowType, Blank, Values, Fits
<1>3. CASE load' = [load EXCEPT ![c] = NoLoad]
  BY <1>1, <1>2, <1>3, AnswerKeeps
<1>4. CASE load' = [load EXCEPT ![c] = [NoLoad EXCEPT !.st = "lost"]]
  <2>1. PICK r : r = [NoLoad EXCEPT !.st = "lost"]
    OBVIOUS
  <2>2. r \in LoadType /\ r.row = NoRow /\ r.st = "lost"
    BY <1>2, <2>1 DEF LoadType
  <2> QED
    BY <1>1, <1>2, <1>4, <2>1, <2>2, AnswerKeeps
<1> DEFINE val == [f \in Fields |-> IF f \in Stored THEN FromColumn(sql.val[f]) ELSE "default"]
<1>5. CASE /\ sql # NoRow
           /\ load' = [load EXCEPT ![c] =
                [st |-> "answer", form |-> "none", row |-> [sql EXCEPT !.val = val]]]
  <2>1. sql \in SqlRowType /\ Fits(sql)
    BY DEF RowIInv, RowsTyped, RowsFit
  <2>2. /\ val \in [Fields -> Values]
        /\ \A f \in Fields : val[f] = "wide" => sql.val[f] = "wide"
        /\ \A f \in Stored : val[f] = FromColumn(sql.val[f])
    BY <2>1 DEF SqlRowType, FromColumn, Values, Stored
  <2>3. PICK v : v = val
    OBVIOUS
  <2> HIDE DEF val
  <2>4. PICK row : row = [sql EXCEPT !.val = v]
    OBVIOUS
  <2>5. /\ row \in RowType /\ row.ver = sql.ver /\ row.gen = sql.gen /\ row.dirty = {}
        /\ row.val = v
    BY <2>1, <2>2, <2>3, <2>4 DEF SqlRowType, RowType
  <2>6. Fits(row)
    BY <2>1, <2>2, <2>3, <2>5 DEF Fits
  <2>7. PICK r : r = [st |-> "answer", form |-> "none", row |-> row]
    OBVIOUS
  <2>8. r \in LoadType /\ r.row = row
    BY <2>5, <2>7 DEF LoadType
  <2>9. sql.ver > 0
    BY <1>5, <2>1 DEF RowIInv, Present, SqlRowType
  <2>10. load' = [load EXCEPT ![c] = r]
    BY <1>5, <2>3, <2>4, <2>7
  <2> QED
    BY <1>1, <2>2, <2>3, <2>5, <2>6, <2>8, <2>9, <2>10, AnswerKeeps
<1> QED
  BY <1>3, <1>4, <1>5 DEF SqlQuery

\* DBRowObject::SetProperty preserves the invariant.
LEMMA AssignKeeps ==
  ASSUME RowIInv, NEW c \in Clients, NEW f \in Fields, NEW t \in JsTypes,
         NEW v \in JsValues(t), Assign(c, f, t, v)
  PROVE  RowIInv'
<1> DEFINE m == Marked(client[c], f)
           w == FromJs(kind[f], client[c].val[f], v)
           r == SetProperty(client[c], f, t, v)
<1>1. client' = [client EXCEPT ![c] = r]
  BY DEF Assign
<1>2. PICK q \in RowType : q = client[c]
  BY DEF RowIInv, RowsTyped
<1>3. r = m \/ r = [m EXCEPT !.val[f] = w]
  BY DEF SetProperty
<1> HIDE DEF r
<1>4. /\ m \in RowType /\ m.ver = q.ver /\ m.gen = q.gen /\ m.val = q.val
      /\ m.dirty = q.dirty \cup {f}
  BY <1>2 DEF Marked, RowType
<1>5. v \in Values
  BY DEF JsValues, Values
<1>6. m.val[f] \in Values /\ (kind[f] \in Narrow => m.val[f] # "wide")
  <2> HIDE DEF m
  <2> QED
    BY <1>2, <1>4 DEF RowIInv, RowsFit, Fits, RowType
<1>7. w \in Values /\ (kind[f] \in Narrow => w # "wide")
  <2> HIDE DEF m
  <2>1. client[c].val[f] \in Values /\ (kind[f] \in Narrow => client[c].val[f] # "wide")
    BY <1>2, <1>4, <1>6
  <2>2. /\ FromJs(kind[f], client[c].val[f], v) \in Values
        /\ kind[f] \in Narrow => FromJs(kind[f], client[c].val[f], v) # "wide"
    BY <1>5, <2>1, AssignedFits
  <2> QED
    BY <2>2
<1> HIDE DEF m, w
<1>8. /\ r \in RowType /\ r.ver = q.ver /\ r.gen = q.gen /\ r.dirty = q.dirty \cup {f}
      /\ \A g \in Fields : r.val[g] = q.val[g] \/ (g = f /\ r.val[g] = w)
  <2>1. CASE r = m
    BY <1>4, <2>1
  <2>2. CASE r = [m EXCEPT !.val[f] = w]
    <3>1. /\ r.ver = m.ver /\ r.gen = m.gen /\ r.dirty = m.dirty
          /\ r.val = [m.val EXCEPT ![f] = w] /\ r \in RowType
      BY <1>4, <1>7, <2>2 DEF RowType
    <3>2. m.val \in [Fields -> Values]
      BY <1>4 DEF RowType
    <3> QED
      BY <1>4, <3>1, <3>2
  <2> QED
    BY <1>3, <2>1, <2>2
<1>9. client[c] # NoRow /\ f # Key
  BY DEF Assign
<1>10. Fits(r) /\ Key \notin r.dirty
  BY <1>2, <1>7, <1>8, <1>9 DEF RowIInv, RowsFit, KeyClean, Fits
<1>11. Cached /\ r.ver # 0
  BY <1>2, <1>8, <1>9 DEF RowIInv, Present
<1>12. Linked => /\ r.gen <= cache.row.gen
                 /\ r.gen = cache.row.gen => CopyOf(r, cache.row)
  <2> SUFFICES ASSUME Linked
               PROVE  /\ r.gen <= cache.row.gen
                      /\ r.gen = cache.row.gen => CopyOf(r, cache.row)
    OBVIOUS
  <2>1. r.gen <= cache.row.gen
    BY <1>2, <1>8, <1>11 DEF Linked, Ordered
  <2>2. q.gen = cache.row.gen => CopyOf(q, cache.row)
    BY <1>2, <1>9, <1>11 DEF Linked, CopiesAgree
  <2>3. CopyOf(q, cache.row) => CopyOf(r, cache.row)
    BY <1>8 DEF CopyOf, Stored
  <2> QED
    BY <1>8, <2>1, <2>2, <2>3
<1>13. UNCHANGED <<kind, columns, ready, sql, cache, load, sync, updates, gens, lost>>
  BY DEF Assign
<1> QED
  BY <1>1, <1>8, <1>10, <1>11, <1>12, <1>13, ClientKeeps

\* A restart preserves the invariant: only the SQL table is left.
LEMMA RestartKeeps ==
  ASSUME RowIInv, Restart
  PROVE  RowIInv'
<1>1. /\ ready' = FALSE /\ cache' = NoCache /\ sync' = NoSync /\ updates' = << >>
      /\ client' = [c \in Clients |-> NoRow] /\ load' = [c \in Clients |-> NoLoad]
      /\ UNCHANGED <<kind, columns, sql, gens, lost>>
  BY DEF Restart
<1>2. NoRow \in RowType /\ Fits(NoRow)' /\ NoRow.dirty = {} /\ NoRow.ver = 0
  BY DEF NoRow, RowType, Blank, Values, Fits
<1>3. RowsTyped'
  <2>1. cache' \in [row : RowType, sqlver : Nat] /\ client' \in [Clients -> RowType]
    BY <1>1, <1>2 DEF NoCache
  <2>2. load' \in [Clients -> LoadType]
    BY <1>1, <1>2 DEF NoLoad, LoadType
  <2>3. sync' \in SyncType
    BY <1>1 DEF NoSync, SyncType
  <2>4. updates' \in Seq(UpdateType)
    BY <1>1
  <2> QED
    BY <1>1, <2>1, <2>2, <2>3, <2>4 DEF RowIInv, RowsTyped
<1>4. /\ cache'.row = NoRow /\ cache'.sqlver = 0 /\ Len(updates') = 0
      /\ \A c \in Clients : client'[c] = NoRow /\ load'[c].row = NoRow /\ load'[c].st = "none"
      /\ sync'.answer = "none" /\ sync'.st = "off"
  BY <1>1 DEF NoCache, NoLoad, NoSync
<1>5. RowsFit' /\ KeyClean'
  BY <1>1, <1>2, <1>4 DEF RowIInv, RowsFit, KeyClean, Fits
<1>6. ~Cached' /\ Complete'
  BY <1>1 DEF Cached, Complete, RowIInv
<1>7. Present'
  BY <1>1, <1>2, <1>4, <1>6 DEF RowIInv, Present
<1>8. Linked => Linked'
  <2> SUFFICES ASSUME Linked
               PROVE  Linked'
    OBVIOUS
  <2>1. Ordered' /\ AnswersAgree' /\ CopiesAgree'
    BY <1>1, <1>4, <1>6 DEF Linked, Ordered, AnswersAgree, CopiesAgree
  <2>2. UpdatesAgree'
    BY <1>3, <1>4 DEF UpdatesAgree, RowsTyped, SqlRowType
  <2> QED
    BY <1>6, <2>1, <2>2 DEF Linked, CleanFieldsAgree, SameVersionSameRow
<1> QED
  BY <1>1, <1>3, <1>5, <1>6, <1>7, <1>8 DEF RowIInv

\* The end of a write-back preserves the invariant if version v, which SQL is
\* taken to have then, is not ahead of it.
LEMMA SyncEnds ==
  ASSUME RowIInv, Cached, NEW v \in Nat, cache' = [cache EXCEPT !.sqlver = v],
         Linked => v <= sql.ver,
         sync' \in SyncType, sync'.st # "await",
         Linked /\ sync'.answer = "success" => sync'.ver <= sql.ver,
         UNCHANGED <<kind, columns, ready, sql, client, load, updates, gens, lost>>
  PROVE  RowIInv'
<1>1. cache \in [row : RowType, sqlver : Nat] /\ cache.row.ver # 0
  BY DEF RowIInv, RowsTyped, Present
<1>2. cache' \in [row : RowType, sqlver : Nat] /\ cache'.row = cache.row /\ cache'.sqlver = v
  BY <1>1
<1>3. Cached' /\ Stored' = Stored /\ Complete'
  <2>1. NoCache.row.ver = 0
    BY DEF NoCache, NoRow
  <2> QED
    BY <1>1, <1>2, <2>1 DEF Cached, Stored, Repeated, Complete, RowIInv
<1>4. RowsTyped'
  BY <1>2 DEF RowIInv, RowsTyped, SyncType
<1>5. RowsFit' /\ KeyClean'
  BY <1>2 DEF RowIInv, RowsFit, KeyClean, Fits
<1>6. Present'
  BY <1>1, <1>2, <1>3 DEF RowIInv, Present
<1>7. ASSUME Linked
      PROVE  Linked'
  <2>1. Ordered'
    BY <1>2, <1>3, <1>7 DEF Linked, Ordered
  <2>2. AnswersAgree' /\ CopiesAgree'
    BY <1>2, <1>3, <1>7 DEF Linked, AnswersAgree, CopiesAgree, CopyOf
  <2>3. CleanFieldsAgree' /\ SameVersionSameRow'
    BY <1>2, <1>3, <1>7 DEF Linked, CleanFieldsAgree, SameVersionSameRow
  <2>4. UpdatesAgree'
    <3>1. \A i \in 1..Len(updates) : updates[i].old <= sql.ver /\ Writes(updates[i])'
      BY <1>2, <1>7 DEF Linked, UpdatesAgree, Writes
    <3> QED
      BY <1>2, <1>7, <3>1 DEF UpdatesAgree, Linked, Writes
  <2> QED
    BY <2>1, <2>2, <2>3, <2>4 DEF Linked
<1> QED
  BY <1>3, <1>4, <1>5, <1>6, <1>7 DEF RowIInv

\* The answer to SqlUpdateReq, and a write-back that times out, preserve the
\* invariant.
LEMMA SyncAnsweredKeeps ==
  ASSUME RowIInv, SyncAnswered \/ SyncTimeout
  PROVE  RowIInv'
<1>1. /\ sync.st = "await" /\ UNCHANGED <<kind, columns, ready, sql, client, load, updates,
                                         gens, lost>>
  BY DEF SyncAnswered, SyncTimeout
<1>2. Cached
  BY <1>1 DEF RowIInv, Present, NoSync
<1>3. /\ cache \in [row : RowType, sqlver : Nat] /\ sync \in SyncType
      /\ cache = [cache EXCEPT !.sqlver = cache.sqlver]
  BY DEF RowIInv, RowsTyped, SyncType
<1>4. /\ sync' \in SyncType /\ sync'.st # "await" /\ sync'.answer = "none"
  <2>1. \A st \in {"armed", "stopped"} :
          /\ [NoSync EXCEPT !.st = st] \in SyncType /\ [NoSync EXCEPT !.st = st].st = st
          /\ [NoSync EXCEPT !.st = st].answer = "none"
    BY DEF NoSync, SyncType
  <2> QED
    BY <2>1 DEF SyncAnswered, SyncTimeout
<1>5. CASE SyncAnswered /\ sync.answer = "success" /\ cache' = [cache EXCEPT !.sqlver = sync.ver]
  <2>1. Linked => sync.ver <= sql.ver
    BY <1>5 DEF Linked, UpdatesAgree
  <2>2. sync.ver \in Nat
    BY <1>3 DEF SyncType
  <2> QED
    BY <1>1, <1>2, <1>4, <1>5, <2>1, <2>2, SyncEnds
<1>6. CASE cache' = cache
  <2>1. Linked => cache.sqlver <= sql.ver
    BY DEF Linked, UpdatesAgree
  <2>2. cache.sqlver \in Nat /\ cache' = [cache EXCEPT !.sqlver = cache.sqlver]
    BY <1>3, <1>6
  <2> QED
    BY <1>1, <1>2, <1>4, <2>1, <2>2, SyncEnds
<1> QED
  BY <1>5, <1>6 DEF SyncAnswered, SyncTimeout

\* CopyDirtyTo: the version and the dirty fields of the row, and its key.
LEMMA CopyDirtyIs ==
  ASSUME NEW r \in RowType
  PROVE  /\ CopyDirtyTo(r) \in RowType
         /\ CopyDirtyTo(r).ver = r.ver /\ CopyDirtyTo(r).gen = r.gen
         /\ CopyDirtyTo(r).dirty = r.dirty \cup {Key}
         /\ \A f \in r.dirty \cup {Key} : CopyDirtyTo(r).val[f] = r.val[f]
         /\ \A f \in Fields : CopyDirtyTo(r).val[f] \in {r.val[f], "default"}
<1> DEFINE v == [f \in Fields |-> IF f \in r.dirty \cup {Key} THEN r.val[f] ELSE "default"]
<1>1. /\ r.ver \in Nat /\ r.gen \in Nat /\ r.dirty \subseteq Fields /\ Key \in Fields
      /\ \A f \in Fields : r.val[f] \in Values
  BY DEF RowType, Key, Fields
<1>2. /\ v \in [Fields -> Values] /\ \A f \in r.dirty \cup {Key} : v[f] = r.val[f]
      /\ \A f \in Fields : v[f] \in {r.val[f], "default"}
  BY <1>1 DEF Values
<1>3. CopyDirtyTo(r) = [r EXCEPT !.dirty = r.dirty \cup {Key}, !.val = v]
  BY DEF CopyDirtyTo, RowType
<1> HIDE DEF v
<1>4. PICK u : u = v
  OBVIOUS
<1>5. CopyDirtyTo(r) = [ver |-> r.ver, val |-> u, dirty |-> r.dirty \cup {Key}, gen |-> r.gen]
  BY <1>3, <1>4 DEF RowType
<1> QED
  BY <1>1, <1>2, <1>4, <1>5 DEF RowType

\* UpTo is an order.
LEMMA UpToIs ==
  ASSUME NEW a \in RowType \cup SqlRowType, NEW b \in RowType \cup SqlRowType,
         NEW d \in RowType \cup SqlRowType
  PROVE  UpTo(a, a) /\ (UpTo(a, b) /\ UpTo(b, d) => UpTo(a, d))
BY DEF UpTo, RowType, SqlRowType

\* A write-back that is sent preserves the invariant.
LEMMA TickSyncSends ==
  ASSUME RowIInv, TickSync,
         updates' = Append(updates, [row |-> CopyDirtyTo(cache.row), old |-> cache.sqlver]),
         sync' = [st |-> "await", ver |-> cache.row.ver, answer |-> "none"]
  PROVE  RowIInv'
<1>1. UNCHANGED <<kind, columns, ready, sql, cache, client, load, gens, lost>>
  BY DEF TickSync
<1>2. /\ updates \in Seq(UpdateType) /\ cache.row \in RowType /\ cache.sqlver \in Nat
      /\ sql \in SqlRowType
  BY DEF RowIInv, RowsTyped
<1>3. Cached /\ Cached' /\ Stored' = Stored /\ Complete'
  <2>1. sync.st = "armed"
    BY DEF TickSync
  <2>2. Cached
    BY <2>1 DEF RowIInv, Present, NoSync
  <2> QED
    BY <1>1, <2>2 DEF Cached, Stored, Repeated, Complete, RowIInv
<1>4. PICK r : r = CopyDirtyTo(cache.row)
  OBVIOUS
<1>5. /\ r \in RowType /\ r.ver = cache.row.ver /\ r.gen = cache.row.gen
      /\ r.dirty = cache.row.dirty \cup {Key}
      /\ \A f \in r.dirty : r.val[f] = cache.row.val[f]
      /\ \A f \in Fields : r.val[f] \in {cache.row.val[f], "default"}
  BY <1>2, <1>4, CopyDirtyIs
<1>6. PICK u \in UpdateType : u.row = r /\ u.old = cache.sqlver /\ updates' = Append(updates, u)
  BY <1>2, <1>4, <1>5 DEF UpdateType
<1>7. PICK n \in Nat : n = Len(updates)
  BY <1>2
<1>8. /\ updates' \in Seq(UpdateType) /\ Len(updates') = n + 1 /\ updates'[n + 1] = u
      /\ \A i \in 1..n : updates'[i] = updates[i]
  BY <1>2, <1>6, <1>7
<1>9. \A i \in 1..n + 1 : i \in 1..n \/ i = n + 1
  BY <1>7
<1>10. sync' \in SyncType /\ sync'.answer = "none" /\ sync'.ver = cache.row.ver
  BY <1>2 DEF SyncType, RowType
<1>11. RowsTyped'
  BY <1>1, <1>8, <1>10 DEF RowIInv, RowsTyped, SyncType
<1>12. RowsFit' /\ KeyClean'
  <2>1. Fits(r)
    BY <1>5 DEF RowIInv, RowsFit, Fits
  <2>2. \A i \in 1..Len(updates') : Fits(updates'[i].row)
    BY <1>6, <1>7, <1>8, <1>9, <2>1 DEF RowIInv, RowsFit
  <2> QED
    BY <1>1, <2>2 DEF RowIInv, RowsFit, KeyClean, Fits
<1>13. Present'
  BY <1>1, <1>3 DEF RowIInv, Present
<1>14. ASSUME Linked
       PROVE  Linked'
  <2>1. UpTo(sql, cache.row)
    BY <1>3, <1>14 DEF Linked, Ordered
  <2>2. UpTo(r, cache.row) /\ UpTo(r, r) /\ UpTo(sql, r)
    BY <1>5, <2>1 DEF UpTo
  <2>3. \A i \in 1..n : UpTo(updates[i].row, cache.row) /\ UpTo(updates[i].row, r)
    BY <1>5, <1>7, <1>14 DEF Linked, Ordered, UpTo
  <2>4. Ordered'
    <3>1. ASSUME NEW i \in 1..n + 1
          PROVE  /\ UpTo(updates'[i].row, cache.row)
                 /\ UpTo(updates'[i].row, sql) \/ UpTo(sql, updates'[i].row)
                 /\ \A j \in i..n + 1 : UpTo(updates'[i].row, updates'[j].row)
      <4>1. CASE i = n + 1
        BY <1>6, <1>8, <2>2, <4>1
      <4>2. CASE i \in 1..n
        <5>1. updates'[i] = updates[i]
          BY <1>8, <4>2
        <5>2. ASSUME NEW j \in i..n + 1
              PROVE  UpTo(updates'[i].row, updates'[j].row)
          <6>1. CASE j = n + 1
            BY <1>6, <1>8, <2>3, <4>2, <5>1, <6>1
          <6>2. CASE j \in i..n
            BY <1>7, <1>8, <1>14, <4>2, <5>1, <6>2 DEF Linked, Ordered
          <6> QED
            BY <1>7, <4>2, <6>1, <6>2
        <5> QED
          BY <1>7, <1>14, <4>2, <5>1, <5>2, <2>3 DEF Linked, Ordered
      <4> QED
        BY <1>9, <4>1, <4>2
    <3>2. /\ sql.gen <= gens
          /\ \A c \in Clients : load[c].st = "answer" => UpTo(load[c].row, sql)
          /\ cache.row.gen <= gens /\ UpTo(sql, cache.row)
          /\ \A c \in Clients : client[c].gen <= cache.row.gen
      BY <1>3, <1>14 DEF Linked, Ordered
    <3> QED
      BY <1>1, <1>8, <3>1, <3>2 DEF Ordered
  <2>5. AnswersAgree' /\ CopiesAgree'
    BY <1>1, <1>3, <1>14 DEF Linked, AnswersAgree, CopiesAgree, CopyOf
  <2>6. CleanFieldsAgree' /\ SameVersionSameRow'
    BY <1>1, <1>3, <1>14 DEF Linked, CleanFieldsAgree, SameVersionSameRow
  <2>7. UpdatesAgree'
    <3>1. Writes(u)
      BY <1>5, <1>6 DEF Writes
    <3>2. \A i \in 1..n + 1 : updates'[i].old <= sql.ver /\ Writes(updates'[i])
      BY <1>6, <1>7, <1>8, <1>9, <1>14, <3>1 DEF Linked, UpdatesAgree
    <3>3. \A i \in 1..Len(updates') : (updates[i].old <= sql.ver /\ Writes(updates[i]))'
      BY <1>1, <1>8, <3>2 DEF Writes
    <3>4. cache.sqlver <= sql.ver
      BY <1>14 DEF Linked, UpdatesAgree
    <3>5. updates'[Len(updates')].row.ver = sync'.ver
      BY <1>5, <1>6, <1>8, <1>10
    <3> QED
      BY <1>1, <1>10, <3>3, <3>4, <3>5 DEF UpdatesAgree
  <2> QED
    BY <2>4, <2>5, <2>6, <2>7 DEF Linked
<1> QED
  BY <1>1, <1>3, <1>11, <1>12, <1>13, <1>14 DEF RowIInv

\* DBRowTickSync preserves the invariant.
LEMMA TickSyncKeeps ==
  ASSUME RowIInv, TickSync
  PROVE  RowIInv'
<1>1. CASE sync' = [sync EXCEPT !.st = "stopped"] /\ updates' = updates
  <2>1. cache \in [row : RowType, sqlver : Nat] /\ sync \in SyncType /\ sync.st = "armed"
    BY DEF RowIInv, RowsTyped, SyncType, TickSync
  <2>2. /\ sync' \in SyncType /\ sync'.st = "stopped" /\ sync'.ver = sync.ver
        /\ sync'.answer = sync.answer
    BY <1>1, <2>1 DEF SyncType
  <2>3. Cached
    BY <2>1 DEF RowIInv, Present, NoSync
  <2>4. /\ cache' = [cache EXCEPT !.sqlver = cache.sqlver] /\ cache.sqlver \in Nat
        /\ UNCHANGED <<kind, columns, ready, sql, client, load, updates, gens, lost>>
    BY <1>1, <2>1 DEF TickSync
  <2>5. Linked => /\ cache.sqlver <= sql.ver
                  /\ sync'.answer = "success" => sync'.ver <= sql.ver
    BY <2>2 DEF Linked, UpdatesAgree
  <2> QED
    BY <2>2, <2>3, <2>4, <2>5, SyncEnds
<1> QED
  BY <1>1, TickSyncSends DEF TickSync

\* Written: the dirty fields of row r, and the other fields as they were.
LEMMA WrittenIs ==
  ASSUME RowsTyped, Fits(sql), NEW r \in RowType, Fits(r)
  PROVE  /\ Written(r) \in SqlRowType /\ Fits(Written(r))
         /\ Written(r).ver = r.ver /\ Written(r).gen = r.gen
         /\ \A f \in Stored : FromColumn(Written(r).val[f]) =
              IF f \in r.dirty THEN r.val[f] ELSE FromColumn(sql.val[f])
<1> DEFINE v == [f \in Fields |-> IF f \in r.dirty THEN ToColumn(kind[f], r.val[f]) ELSE sql.val[f]]
<1>1. sql \in SqlRowType /\ kind \in [Fields -> Kinds]
  BY DEF RowsTyped
<1>2. /\ \A f \in Fields : r.val[f] \in Values /\ sql.val[f] \in Values \cup {"null"}
      /\ r.ver \in Nat /\ r.gen \in Nat
  BY <1>1 DEF SqlRowType, RowType
<1>3. \A f \in Fields : ToColumn(kind[f], r.val[f]) \in {r.val[f], "default"}
  BY DEF ToColumn
<1>4. /\ v \in [Fields -> Values \cup {"null"}]
      /\ \A f \in Fields : v[f] = "wide" => r.val[f] = "wide" \/ sql.val[f] = "wide"
  BY <1>2, <1>3 DEF Values
<1>5. \A f \in Stored : FromColumn(v[f]) = IF f \in r.dirty THEN r.val[f] ELSE FromColumn(sql.val[f])
  <2> TAKE f \in Stored
  <2>1. f \in Fields /\ kind[f] \in Kinds /\ kind[f] # "repeated"
    BY <1>1 DEF Stored, Repeated
  <2>2. FromColumn(ToColumn(kind[f], r.val[f])) = r.val[f]
    BY <1>2, <2>1, ColumnKeeps
  <2> QED
    BY <2>1, <2>2
<1>6. Written(r) = [sql EXCEPT !.ver = r.ver, !.gen = r.gen, !.val = v]
  BY DEF Written
<1>7. PICK w : w = v
  OBVIOUS
<1> HIDE DEF v
<1>8. Written(r) = [ver |-> r.ver, val |-> w, dirty |-> {}, gen |-> r.gen]
  BY <1>1, <1>6, <1>7 DEF SqlRowType
<1>9. Fits(Written(r))
  <2>1. Written(r).val = v
    BY <1>7, <1>8
  <2> QED
    BY <1>4, <2>1 DEF Fits
<1> QED
  BY <1>2, <1>4, <1>5, <1>7, <1>8, <1>9 DEF SqlRowType

\* The request that SqlService handles is taken from updates.
LEMMA Handled ==
  ASSUME RowIInv, SqlUpdate
  PROVE  /\ Head(updates) = updates[1] /\ Len(updates) \in Nat \ {0}
         /\ updates' \in Seq(UpdateType) /\ Len(updates') = Len(updates) - 1
         /\ \A i \in 1..Len(updates) - 1 : updates'[i] = updates[i + 1] /\ i + 1 \in 1..Len(updates)
         /\ updates[1] \in UpdateType /\ \A i \in 1..Len(updates) : updates[i] \in UpdateType
<1>1. updates \in Seq(UpdateType) /\ updates # << >> /\ updates' = Tail(updates)
  BY DEF RowIInv, RowsTyped, SqlUpdate
<1> QED
  BY <1>1

\* SqlUpdateReq preserves the invariant when the version is not the expected one.
LEMMA SqlMismatch ==
  ASSUME RowIInv, ~lost, SqlUpdate, sql' = sql,
         sync' \in {sync, [sync EXCEPT !.answer = "mismatch"]}
  PROVE  RowIInv'
<1>1. UNCHANGED <<kind, columns, ready, cache, client, load, gens, lost>>
  BY DEF SqlUpdate
<1>2. PICK n \in Nat : n = Len(updates)
  BY Handled
<1>3. /\ n > 0 /\ updates' \in Seq(UpdateType) /\ Len(updates') = n - 1
      /\ \A i \in 1..n - 1 : updates'[i] = updates[i + 1] /\ i + 1 \in 1..n
  BY <1>2, Handled
<1>4. sync \in SyncType
  BY DEF RowIInv, RowsTyped, SyncType
<1>5. /\ sync' \in SyncType /\ sync'.st = sync.st /\ sync'.ver = sync.ver
      /\ sync'.answer \in {sync.answer, "mismatch"}
  BY <1>4 DEF SyncType
<1>6. Cached /\ Cached' /\ Stored' = Stored /\ Complete'
  <2>1. Cached
    BY <1>2, <1>3 DEF RowIInv, Present
  <2> QED
    BY <1>1, <2>1 DEF Cached, Stored, Repeated, Complete, RowIInv
<1>7. RowsTyped'
  BY <1>1, <1>3, <1>5 DEF RowIInv, RowsTyped, SyncType
<1>8. RowsFit' /\ KeyClean'
  <2>1. \A i \in 1..n - 1 : Fits(updates'[i].row)
    BY <1>2, <1>3 DEF RowIInv, RowsFit
  <2> QED
    BY <1>1, <1>3, <2>1 DEF RowIInv, RowsFit, KeyClean, Fits
<1>9. Present'
  BY <1>1, <1>6 DEF RowIInv, Present
<1>10. Linked
  BY DEF RowIInv
<1>11. Ordered'
  <2>1. ASSUME NEW i \in 1..n - 1
        PROVE  /\ UpTo(updates'[i].row, cache.row)
               /\ UpTo(updates'[i].row, sql) \/ UpTo(sql, updates'[i].row)
               /\ \A j \in i..n - 1 : UpTo(updates'[i].row, updates'[j].row)
    <3>1. \A j \in i..n - 1 : j \in 1..n - 1 /\ j + 1 \in i + 1..n
      BY <1>2
    <3> QED
      BY <1>2, <1>3, <1>10, <3>1 DEF Linked, Ordered
  <2>2. /\ sql.gen <= gens
        /\ \A c \in Clients : load[c].st = "answer" => UpTo(load[c].row, sql)
        /\ cache.row.gen <= gens /\ UpTo(sql, cache.row)
        /\ \A c \in Clients : client[c].gen <= cache.row.gen
    BY <1>6, <1>10 DEF Linked, Ordered
  <2> QED
    BY <1>1, <1>3, <2>1, <2>2 DEF Ordered
<1>12. AnswersAgree' /\ CopiesAgree' /\ CleanFieldsAgree' /\ SameVersionSameRow'
  BY <1>1, <1>6, <1>10 DEF Linked, AnswersAgree, CopiesAgree, CopyOf, CleanFieldsAgree,
                           SameVersionSameRow
<1>13. UpdatesAgree'
  <2>1. \A i \in 1..n - 1 : updates'[i].old <= sql.ver /\ Writes(updates'[i])
    BY <1>2, <1>3, <1>10 DEF Linked, UpdatesAgree
  <2>2. \A i \in 1..Len(updates') : (updates[i].old <= sql.ver /\ Writes(updates[i]))'
    BY <1>1, <1>3, <2>1 DEF Writes
  <2>3. cache.sqlver <= sql.ver /\ (sync'.answer = "success" => sync'.ver <= sql.ver)
    BY <1>5, <1>10 DEF Linked, UpdatesAgree
  <2>4. sync'.st = "await" /\ updates' # << >> => updates'[Len(updates')].row.ver = sync'.ver
    <3> HAVE sync'.st = "await" /\ updates' # << >>
    <3>1. n - 1 \in 1..n - 1 /\ updates # << >>
      BY <1>2, <1>3
    <3>2. updates'[n - 1] = updates[n]
      BY <1>2, <1>3, <3>1
    <3> QED
      BY <1>2, <1>3, <1>5, <1>10, <3>1, <3>2 DEF Linked, UpdatesAgree
  <2> QED
    BY <1>1, <2>2, <2>3, <2>4 DEF UpdatesAgree
<1> QED
  BY <1>6, <1>7, <1>8, <1>9, <1>11, <1>12, <1>13 DEF RowIInv, Linked

\* SqlUpdateReq preserves the invariant when the row is written.
LEMMA SqlMatch ==
  ASSUME RowIInv, ~lost, SqlUpdate, updates[1].old = sql.ver, sql.ver < updates[1].row.ver,
         sql' = Written(updates[1].row),
         \/ sync' = sync
         \/ Len(updates) = 1 /\ sync.st = "await" /\ sync' = [sync EXCEPT !.answer = "success"]
  PROVE  RowIInv'
<1>1. UNCHANGED <<kind, columns, ready, cache, client, load, gens, lost>>
  BY DEF SqlUpdate
<1>2. PICK n \in Nat : n = Len(updates)
  BY Handled
<1>3. /\ n > 0 /\ updates' \in Seq(UpdateType) /\ Len(updates') = n - 1
      /\ \A i \in 1..n - 1 : updates'[i] = updates[i + 1] /\ i + 1 \in 1..n
      /\ 1 \in 1..n /\ \A i \in 1..n : updates[i] \in UpdateType
  BY <1>2, Handled
<1>4. PICK u \in UpdateType : u = updates[1]
  BY <1>3
<1>5. /\ u.row \in RowType /\ u.old \in Nat /\ u.row.ver \in Nat /\ u.row.gen \in Nat
      /\ sql \in SqlRowType /\ sql.ver \in Nat /\ sql.gen \in Nat
      /\ cache.row \in RowType /\ cache.row.ver \in Nat /\ cache.row.gen \in Nat
      /\ gens \in Nat
  BY <1>4 DEF UpdateType, RowIInv, RowsTyped, RowType, SqlRowType
<1>6. Cached /\ Cached' /\ Stored' = Stored
  <2>1. Cached
    BY <1>2, <1>3 DEF RowIInv, Present
  <2> QED
    BY <1>1, <2>1 DEF Cached, Stored, Repeated
<1>7. /\ sql' \in SqlRowType /\ Fits(sql') /\ sql'.ver = u.row.ver /\ sql'.gen = u.row.gen
      /\ \A f \in Stored : FromColumn(sql'.val[f]) =
           IF f \in u.row.dirty THEN u.row.val[f] ELSE FromColumn(sql.val[f])
  <2>1. Fits(u.row) /\ Fits(sql) /\ RowsTyped
    BY <1>2, <1>3, <1>4 DEF RowIInv, RowsFit
  <2> QED
    BY <1>4, <1>5, <2>1, WrittenIs
<1>8. Linked
  BY DEF RowIInv
<1>9. /\ sql.ver < u.row.ver /\ sql.gen < u.row.gen /\ UpTo(u.row, cache.row)
      /\ \A j \in 1..n : UpTo(u.row, updates[j].row)
  <2>1. /\ UpTo(u.row, cache.row) /\ \A j \in 1..n : UpTo(u.row, updates[j].row)
        /\ UpTo(u.row, sql) \/ UpTo(sql, u.row)
    BY <1>2, <1>3, <1>4, <1>8 DEF Linked, Ordered
  <2> QED
    BY <1>4, <1>5, <2>1 DEF UpTo
<1>10. sync \in SyncType
  BY DEF RowIInv, RowsTyped, SyncType
<1>11. /\ sync' \in SyncType /\ sync'.st = sync.st /\ sync'.ver = sync.ver
       /\ sync'.answer = sync.answer \/ (n = 1 /\ sync.st = "await")
  BY <1>2, <1>10 DEF SyncType
<1>12. RowsTyped'
  BY <1>1, <1>3, <1>7, <1>11 DEF RowIInv, RowsTyped, SyncType
<1>13. RowsFit' /\ KeyClean'
  <2>1. \A i \in 1..n - 1 : Fits(updates'[i].row)
    BY <1>2, <1>3 DEF RowIInv, RowsFit
  <2> QED
    BY <1>1, <1>3, <1>7, <2>1 DEF RowIInv, RowsFit, KeyClean, Fits
<1>14. sql.ver > 0 /\ sql'.ver > 0 /\ sql # NoRow
  <2>1. sql.ver > 0
    BY <1>6 DEF RowIInv, Present
  <2> QED
    BY <1>5, <1>7, <1>9, <2>1 DEF NoRow
<1>15. Complete'
  BY <1>1, <1>14 DEF RowIInv, Complete
<1>16. Present'
  BY <1>1, <1>6, <1>14 DEF RowIInv, Present
<1>17. Ordered'
  <2>1. ASSUME NEW i \in 1..n - 1
        PROVE  /\ UpTo(updates'[i].row, cache.row) /\ UpTo(sql', updates'[i].row)
               /\ \A j \in i..n - 1 : UpTo(updates'[i].row, updates'[j].row)
    <3>1. \A j \in i..n - 1 : j \in 1..n - 1 /\ j + 1 \in i + 1..n
      BY <1>2
    <3>2. UpTo(u.row, updates'[i].row)
      BY <1>3, <1>9
    <3>3. UpTo(sql', updates'[i].row)
      BY <1>7, <3>2 DEF UpTo
    <3> QED
      BY <1>2, <1>3, <1>8, <3>1, <3>3 DEF Linked, Ordered
  <2>2. ASSUME NEW c \in Clients, load[c].st = "answer"
        PROVE  UpTo(load[c].row, sql')
    <3>1. load[c].row.ver \in Nat /\ load[c].row.gen \in Nat
      BY DEF RowIInv, RowsTyped, LoadType, RowType
    <3>2. UpTo(load[c].row, sql)
      BY <1>8, <2>2 DEF Linked, Ordered
    <3> QED
      BY <1>5, <1>7, <1>9, <3>1, <3>2 DEF UpTo
  <2>3. UpTo(sql', cache.row) /\ cache.row.gen <= gens
    BY <1>6, <1>7, <1>8, <1>9 DEF UpTo, Linked, Ordered
  <2>4. sql'.gen <= gens
    BY <1>5, <1>7, <2>3 DEF UpTo
  <2>5. \A c \in Clients : client[c].gen <= cache.row.gen
    BY <1>6, <1>8 DEF Linked, Ordered
  <2> QED
    BY <1>1, <1>3, <2>1, <2>2, <2>3, <2>4, <2>5 DEF Ordered
<1>18. AnswersAgree'
  <2>1. ASSUME NEW c \in Clients, load[c].st = "answer"
        PROVE  load[c].row.gen # sql'.gen
    <3>1. load[c].row.ver \in Nat /\ load[c].row.gen \in Nat
      BY DEF RowIInv, RowsTyped, LoadType, RowType
    <3>2. UpTo(load[c].row, sql)
      BY <1>8, <2>1 DEF Linked, Ordered
    <3> QED
      BY <1>5, <1>7, <1>9, <3>1, <3>2 DEF UpTo
  <2> QED
    BY <1>1, <1>6, <2>1 DEF AnswersAgree
<1>19. CopiesAgree'
  BY <1>1, <1>6, <1>8 DEF Linked, CopiesAgree, CopyOf
<1>20. Writes(u)
  BY <1>2, <1>3, <1>4, <1>8 DEF Linked, UpdatesAgree
<1>21. CleanFieldsAgree'
  <2> SUFFICES ASSUME NEW f \in Stored \ cache.row.dirty
               PROVE  cache.row.val[f] = FromColumn(sql'.val[f])
    BY <1>1, <1>6 DEF CleanFieldsAgree
  <2>1. CASE f \in u.row.dirty
    <3>1. f = Key /\ u.row.val[f] = cache.row.val[f]
      BY <1>4, <1>20, <2>1 DEF Writes
    <3> QED
      BY <1>7, <2>1, <3>1
  <2>2. CASE f \notin u.row.dirty
    BY <1>6, <1>7, <1>8, <2>2 DEF Linked, CleanFieldsAgree
  <2> QED
    BY <2>1, <2>2
<1>22. SameVersionSameRow'
  <2> SUFFICES ASSUME cache.row.ver = sql'.ver, NEW f \in Stored
               PROVE  cache.row.val[f] = FromColumn(sql'.val[f])
    BY <1>1, <1>6 DEF SameVersionSameRow
  <2>1. u.row.gen = cache.row.gen
    BY <1>5, <1>7, <1>9 DEF UpTo
  <2>2. /\ cache.row.dirty \subseteq u.row.dirty
        /\ \A g \in u.row.dirty : u.row.val[g] = cache.row.val[g]
    BY <1>4, <1>20, <2>1 DEF Writes
  <2>3. CASE f \in u.row.dirty
    BY <1>7, <2>2, <2>3
  <2>4. CASE f \notin u.row.dirty
    BY <1>6, <1>7, <1>8, <2>2, <2>4 DEF Linked, CleanFieldsAgree
  <2> QED
    BY <2>3, <2>4
<1>23. UpdatesAgree'
  <2>1. ASSUME NEW i \in 1..n - 1
        PROVE  updates'[i].old <= sql'.ver /\ updates'[i].old # sql'.ver
    <3>1. updates'[i].old <= sql.ver /\ updates'[i].old \in Nat
      BY <1>2, <1>3, <1>8 DEF Linked, UpdatesAgree, UpdateType
    <3> QED
      BY <1>5, <1>7, <1>9, <3>1
  <2>2. \A i \in 1..Len(updates') : (updates[i].old <= sql.ver /\ Writes(updates[i]))'
    BY <1>3, <2>1 DEF Writes
  <2>3. cache.sqlver <= sql'.ver
    <3>1. cache.sqlver <= sql.ver /\ cache.sqlver \in Nat
      BY <1>8 DEF Linked, UpdatesAgree, RowIInv, RowsTyped
    <3> QED
      BY <1>5, <1>7, <1>9, <3>1
  <2>4. sync'.answer = "success" => sync'.ver <= sql'.ver
    <3>1. CASE n = 1 /\ sync.st = "await"
      <4>1. Len(updates) = 1 /\ updates # << >>
        BY <1>2, <3>1 DEF SqlUpdate
      <4>2. updates[Len(updates)].row.ver = sync.ver
        BY <1>8, <3>1, <4>1 DEF Linked, UpdatesAgree
      <4>3. sync'.ver = sql'.ver
        BY <1>4, <1>7, <1>11, <4>1, <4>2
      <4> QED
        BY <1>5, <1>7, <4>3
    <3>2. CASE sync'.answer = sync.answer
      <4>1. sync.answer = "success" => sync.ver <= sql.ver
        BY <1>8 DEF Linked, UpdatesAgree
      <4>2. sync.ver \in Nat
        BY <1>10 DEF SyncType
      <4> QED
        BY <1>5, <1>7, <1>9, <1>11, <3>2, <4>1, <4>2
    <3> QED
      BY <1>11, <3>1, <3>2
  <2>5. sync'.st = "await" /\ updates' # << >> => updates'[Len(updates')].row.ver = sync'.ver
    <3> HAVE sync'.st = "await" /\ updates' # << >>
    <3>1. n - 1 \in 1..n - 1 /\ updates # << >>
      BY <1>2, <1>3
    <3>2. updates'[n - 1] = updates[n]
      BY <1>2, <1>3, <3>1
    <3> QED
      BY <1>2, <1>3, <1>8, <1>11, <3>1, <3>2 DEF Linked, UpdatesAgree
  <2> QED
    BY <1>1, <2>2, <2>3, <2>4, <2>5 DEF UpdatesAgree
<1> QED
  BY <1>12, <1>13, <1>15, <1>16, <1>17, <1>18, <1>19, <1>21, <1>22, <1>23 DEF RowIInv, Linked

\* SqlUpdateReq preserves the invariant.
LEMMA SqlUpdateKeeps ==
  ASSUME RowIInv, ~lost, SqlUpdate
  PROVE  RowIInv'
<1>1. Head(updates) = updates[1]
  BY Handled
<1>2. CASE updates[1].old = sql.ver /\ sql.ver < updates[1].row.ver
  BY <1>1, <1>2, SqlMatch DEF SqlUpdate
<1>3. CASE ~(updates[1].old = sql.ver /\ sql.ver < updates[1].row.ver)
  <2>1. sql' = sql /\ sync' \in {sync, [sync EXCEPT !.answer = "mismatch"]}
    BY <1>1, <1>3 DEF SqlUpdate
  <2> QED
    BY <2>1, SqlMismatch
<1> QED
  BY <1>2, <1>3

\* The rows in the requests that were sent.
LEMMA UpdatesAre ==
  ASSUME RowsTyped, NEW i \in 1..Len(updates)
  PROVE  /\ updates[i] \in UpdateType /\ updates[i].row \in RowType /\ updates[i].old \in Nat
         /\ updates[i].row.ver \in Nat /\ updates[i].row.gen \in Nat
<1>1. updates[i] \in UpdateType
  BY DEF RowsTyped
<1>2. updates[i].row \in RowType /\ updates[i].old \in Nat
  BY <1>1 DEF UpdateType
<1> QED
  BY <1>1, <1>2 DEF RowType

\* A row up to one that is older than d is older than d.
LEMMA UpToLess ==
  ASSUME NEW a \in RowType, NEW b \in RowType, NEW d \in RowType, UpTo(a, b),
         b.ver < d.ver, b.gen < d.gen
  PROVE  UpTo(a, d) /\ a.gen # d.gen
BY DEF UpTo, RowType

\* DBRowUpdateReq preserves the invariant when it is accepted: row r is the row
\* of service c with the next version.
LEMMA CommitAccepted ==
  ASSUME RowIInv, ~lost, NEW c \in Clients, client[c] # NoRow, NEW r \in RowType,
         r.ver = client[c].ver + 1, r.gen = gens + 1, r.val = client[c].val,
         r.dirty = client[c].dirty, r.ver > cache.row.ver,
         client' = [client EXCEPT ![c] = r], cache' = [cache EXCEPT !.row = r],
         gens' = gens + 1, lost' = (lost \/ client[c].gen # cache.row.gen),
         UNCHANGED <<kind, columns, ready, sql, load, sync, updates>>
  PROVE  RowIInv'
<1>1. /\ cache \in [row : RowType, sqlver : Nat] /\ client \in [Clients -> RowType]
      /\ gens \in Nat /\ sql.ver \in Nat /\ sql.gen \in Nat
      /\ cache.row.ver \in Nat /\ cache.row.gen \in Nat
      /\ \A d \in Clients : client[d].gen \in Nat
  BY DEF RowIInv, RowsTyped, RowType, SqlRowType
<1>2. /\ cache' \in [row : RowType, sqlver : Nat] /\ cache'.row = r
      /\ cache'.sqlver = cache.sqlver
      /\ client' \in [Clients -> RowType] /\ client'[c] = r
      /\ \A d \in Clients : d # c => client'[d] = client[d]
  BY <1>1
<1>3. r.ver # 0 /\ r.ver \in Nat /\ r.gen \in Nat /\ NoRow.ver = 0
  BY <1>1 DEF RowType, NoRow
<1>4. Cached /\ Cached' /\ Stored' = Stored
  <2>1. Cached
    BY DEF RowIInv, Present
  <2>2. NoCache.row.ver = 0
    BY <1>3 DEF NoCache
  <2> QED
    BY <1>2, <1>3, <2>1, <2>2 DEF Cached, Stored, Repeated
<1>5. RowsTyped'
  BY <1>1, <1>2 DEF RowIInv, RowsTyped
<1>6. RowsFit' /\ KeyClean'
  <2>1. Fits(r) /\ Key \notin r.dirty
    BY DEF RowIInv, RowsFit, Fits, KeyClean
  <2>2. \A d \in Clients : Fits(client'[d]) /\ Key \notin client'[d].dirty
    BY <1>2, <2>1 DEF RowIInv, RowsFit, KeyClean
  <2> QED
    BY <1>2, <2>1, <2>2 DEF RowIInv, RowsFit, KeyClean, Fits
<1>7. Complete'
  BY DEF RowIInv, Complete
<1>8. Present'
  <2>1. \A d \in Clients : client'[d].ver = 0 <=> client'[d] = NoRow
    BY <1>2, <1>3 DEF RowIInv, Present
  <2> QED
    BY <1>2, <1>3, <1>4, <2>1 DEF RowIInv, Present
<1>9. ASSUME ~lost'
      PROVE  Linked'
  <2>1. Linked /\ client[c].gen = cache.row.gen
    BY <1>9 DEF RowIInv
  <2>2. CopyOf(client[c], cache.row)
    BY <1>4, <2>1 DEF Linked, CopiesAgree
  <2>3. /\ cache.row.gen <= gens /\ UpTo(sql, cache.row) /\ sql.gen <= gens
        /\ \A d \in Clients : client[d].gen <= gens
    BY <1>1, <1>4, <2>1 DEF Linked, Ordered
  <2>4. UpTo(sql, r) /\ sql.ver < r.ver
    BY <1>1, <1>3, <2>3 DEF UpTo
  <2>5. ASSUME NEW i \in 1..Len(updates)
        PROVE  UpTo(updates[i].row, r) /\ updates[i].row.gen # r.gen
    <3>1. updates[i].row \in RowType /\ cache.row \in RowType
      BY <1>1, UpdatesAre DEF RowIInv
    <3>2. UpTo(updates[i].row, cache.row)
      BY <2>1 DEF Linked, Ordered
    <3>3. cache.row.ver < r.ver /\ cache.row.gen < r.gen
      BY <1>1, <1>3, <2>3
    <3> QED
      BY <3>1, <3>2, <3>3, UpToLess
  <2>6. Ordered'
    <3>1. sql.gen <= gens + 1 /\ r.gen <= gens + 1
      BY <1>1, <2>3
    <3>2. \A d \in Clients : client'[d].gen <= r.gen
      BY <1>1, <1>2, <2>3
    <3>3. \A d \in Clients : load[d].st = "answer" => UpTo(load[d].row, sql)
      BY <2>1 DEF Linked, Ordered
    <3>4. \A i \in 1..Len(updates) :
            /\ UpTo(updates[i].row, sql) \/ UpTo(sql, updates[i].row)
            /\ \A j \in i..Len(updates) : UpTo(updates[i].row, updates[j].row)
      BY <2>1 DEF Linked, Ordered
    <3> QED
      BY <1>2, <2>4, <2>5, <3>1, <3>2, <3>3, <3>4 DEF Ordered
  <2>7. AnswersAgree'
    BY <1>4, <2>1 DEF Linked, AnswersAgree
  <2>8. CopiesAgree'
    <3>1. \A d \in Clients : d # c => client'[d].gen # r.gen
      BY <1>1, <1>2, <2>3
    <3>2. CopyOf(r, r)
      BY DEF CopyOf
    <3> QED
      BY <1>2, <1>4, <3>1, <3>2 DEF CopiesAgree, CopyOf
  <2>9. CleanFieldsAgree'
    <3> SUFFICES ASSUME NEW f \in Stored \ r.dirty
                 PROVE  r.val[f] = FromColumn(sql.val[f])
      BY <1>2, <1>4 DEF CleanFieldsAgree
    <3>1. f \in Stored \ cache.row.dirty /\ r.val[f] = cache.row.val[f]
      BY <2>2 DEF CopyOf
    <3> QED
      BY <1>4, <2>1, <3>1 DEF Linked, CleanFieldsAgree
  <2>10. SameVersionSameRow'
    BY <1>1, <1>2, <1>3, <2>4 DEF SameVersionSameRow
  <2>11. UpdatesAgree'
    <3>1. Key \in Stored \ client[c].dirty
      BY DEF RowIInv, RowsTyped, KeyClean, Stored, Repeated, Key, Fields
    <3>2. cache.row.dirty \subseteq r.dirty /\ r.val[Key] = cache.row.val[Key]
      BY <2>2, <3>1 DEF CopyOf
    <3>3. ASSUME NEW i \in 1..Len(updates)
          PROVE  updates[i].old <= sql.ver /\ Writes(updates[i])'
      <4>1. updates[i].old <= sql.ver /\ Writes(updates[i])
        BY <2>1 DEF Linked, UpdatesAgree
      <4> QED
        BY <1>2, <2>5, <3>2, <4>1 DEF Writes
    <3>4. /\ cache.sqlver <= sql.ver
          /\ sync.answer = "success" => sync.ver <= sql.ver
          /\ sync.st = "await" /\ updates # << >> => updates[Len(updates)].row.ver = sync.ver
      BY <2>1 DEF Linked, UpdatesAgree
    <3>5. \A i \in 1..Len(updates') : (updates[i].old <= sql.ver /\ Writes(updates[i]))'
      BY <3>3 DEF Writes
    <3> QED
      BY <1>2, <3>4, <3>5 DEF UpdatesAgree
  <2> QED
    BY <2>6, <2>7, <2>8, <2>9, <2>10, <2>11 DEF Linked
<1> QED
  BY <1>5, <1>6, <1>7, <1>8, <1>9 DEF RowIInv

\* DBRow::Commit preserves the invariant.
LEMMA CommitKeeps ==
  ASSUME RowIInv, ~lost, NEW c \in Clients, Commit(c)
  PROVE  RowIInv'
<1>1. PICK q \in RowType : q = client[c]
  BY DEF RowIInv, RowsTyped
<1>2. /\ q.ver \in Nat /\ q.gen \in Nat /\ q.val \in [Fields -> Values]
      /\ q.dirty \in SUBSET Fields /\ gens \in Nat
  BY <1>1 DEF RowType, RowIInv, RowsTyped
<1>3. /\ client[c] # NoRow /\ UNCHANGED <<kind, columns, ready, sql, load, sync, updates>>
      /\ Cached
  BY DEF Commit, RowIInv, Present
<1>4. CASE /\ q.ver + 1 > cache.row.ver /\ gens' = gens + 1
           /\ client' = [client EXCEPT ![c] = [q EXCEPT !.ver = q.ver + 1, !.gen = gens + 1]]
           /\ cache' = [cache EXCEPT !.row = [q EXCEPT !.ver = q.ver + 1, !.gen = gens + 1]]
           /\ lost' = (lost \/ q.gen # cache.row.gen)
  <2>1. PICK r : r = [q EXCEPT !.ver = q.ver + 1, !.gen = gens + 1]
    OBVIOUS
  <2>2. /\ r \in RowType /\ r.ver = q.ver + 1 /\ r.gen = gens + 1 /\ r.val = q.val
        /\ r.dirty = q.dirty
    <3>1. r = [ver |-> q.ver + 1, val |-> q.val, dirty |-> q.dirty, gen |-> gens + 1]
      BY <2>1 DEF RowType
    <3> QED
      BY <1>2, <3>1 DEF RowType
  <2> QED
    BY <1>1, <1>3, <1>4, <2>1, <2>2, CommitAccepted
<1>5. CASE /\ client' = [client EXCEPT ![c] = [q EXCEPT !.ver = q.ver + 1]]
           /\ UNCHANGED <<gens, cache, lost>>
  <2>1. PICK r : r = [q EXCEPT !.ver = q.ver + 1]
    OBVIOUS
  <2>2. /\ r \in RowType /\ r.ver = q.ver + 1 /\ r.gen = q.gen /\ r.val = q.val
        /\ r.dirty = q.dirty
    BY <1>2, <2>1 DEF RowType
  <2>3. Fits(r) /\ Key \notin r.dirty /\ r.ver # 0
    BY <1>1, <1>2, <2>2 DEF RowIInv, RowsFit, Fits, KeyClean
  <2>4. Linked => /\ r.gen <= cache.row.gen
                  /\ r.gen = cache.row.gen => CopyOf(r, cache.row)
    <3>1. Linked => q.gen <= cache.row.gen
      BY <1>1, <1>3 DEF Linked, Ordered
    <3>2. Linked /\ q.gen = cache.row.gen => CopyOf(q, cache.row)
      BY <1>1, <1>3 DEF Linked, CopiesAgree
    <3>3. CopyOf(q, cache.row) => CopyOf(r, cache.row)
      BY <2>2 DEF CopyOf
    <3> QED
      BY <2>2, <3>1, <3>2, <3>3
  <2>5. UNCHANGED <<kind, columns, ready, sql, cache, load, sync, updates, gens, lost>>
    BY <1>3, <1>5
  <2>6. client' = [client EXCEPT ![c] = r]
    BY <1>5, <2>1
  <2> QED
    BY <1>3, <2>2, <2>3, <2>4, <2>5, <2>6, ClientKeeps
<1> QED
  BY <1>1, <1>3, <1>4, <1>5 DEF Commit

\* LocalCacheDBRow preserves the invariant.
LEMMA LocalCacheKeeps ==
  ASSUME RowIInv, ~lost, NEW c \in Clients, LocalCacheDBRow(c)
  PROVE  RowIInv'
<1>1. PICK r \in RowType : r = load[c].row
  BY DEF RowIInv, RowsTyped, LoadType
<1>2. /\ load[c].st = "answer"
      /\ cache' = [row |-> r, sqlver |-> r.ver]
      /\ client' = [client EXCEPT ![c] = r]
      /\ load' = [load EXCEPT ![c] = NoLoad]
      /\ sync' = IF Cached THEN sync ELSE [sync EXCEPT !.st = "armed"]
      /\ lost' = (lost \/ (Cached /\ cache.row.gen # r.gen))
      /\ UNCHANGED <<kind, columns, ready, sql, updates, gens>>
  BY <1>1 DEF LocalCacheDBRow
<1>3. /\ client \in [Clients -> RowType] /\ load \in [Clients -> LoadType] /\ sync \in SyncType
      /\ r.ver \in Nat /\ r.gen \in Nat /\ sql.ver \in Nat /\ sql.gen \in Nat
      /\ cache.row.ver \in Nat /\ cache.row.gen \in Nat
  BY DEF RowIInv, RowsTyped, LoadType, SyncType, RowType, SqlRowType
<1>4. /\ r.ver > 0 /\ sql.ver > 0 /\ r.dirty = {} /\ Fits(r) /\ NoRow.ver = 0
      /\ NoCache.row.ver = 0
  BY <1>1, <1>2 DEF RowIInv, Present, KeyClean, RowsFit, NoRow, NoCache
<1>5. NoLoad \in LoadType /\ NoLoad.st = "none" /\ NoLoad.row = NoRow
      /\ NoRow.dirty = {} /\ Fits(NoRow)
  BY DEF NoLoad, LoadType, NoRow, RowType, Blank, Values, Fits
<1>6. /\ client' \in [Clients -> RowType] /\ client'[c] = r
      /\ \A d \in Clients : d # c => client'[d] = client[d]
      /\ load' \in [Clients -> LoadType] /\ load'[c] = NoLoad
      /\ \A d \in Clients : d # c => load'[d] = load[d]
  BY <1>2, <1>3, <1>5
<1>7. cache'.row = r /\ cache'.sqlver = r.ver /\ Cached' /\ Stored' = Stored
  BY <1>2, <1>4 DEF Cached, Stored, Repeated
<1>8. /\ sync' \in SyncType /\ sync'.ver = sync.ver /\ sync'.answer = sync.answer
      /\ sync'.st = "await" => sync.st = "await"
  BY <1>2, <1>3 DEF SyncType
<1>9. RowsTyped'
  <2>1. cache' \in [row : RowType, sqlver : Nat]
    BY <1>2, <1>3
  <2> QED
    BY <1>2, <1>6, <1>8, <2>1 DEF RowIInv, RowsTyped, LoadType, SyncType
<1>10. RowsFit' /\ KeyClean'
  <2>1. \A d \in Clients : /\ Fits(client'[d]) /\ Fits(load'[d].row)
                           /\ Key \notin client'[d].dirty /\ load'[d].row.dirty = {}
    BY <1>4, <1>5, <1>6 DEF RowIInv, RowsFit, KeyClean
  <2> QED
    BY <1>2, <1>4, <1>7, <2>1 DEF RowIInv, RowsFit, KeyClean, Fits
<1>11. Complete'
  BY <1>2 DEF RowIInv, Complete
<1>12. Present'
  <2>1. \A d \in Clients :
          /\ client'[d].ver = 0 <=> client'[d] = NoRow
          /\ load'[d].st = "answer" => sql.ver > 0 /\ load'[d].row.ver > 0
    BY <1>4, <1>5, <1>6 DEF RowIInv, Present
  <2> QED
    BY <1>2, <1>4, <1>7, <2>1 DEF RowIInv, Present
<1>13. ASSUME ~lost'
       PROVE  Linked'
  <2>1. Linked /\ (Cached => cache.row.gen = r.gen)
    BY <1>2, <1>13 DEF RowIInv
  <2>2. /\ UpTo(r, sql) /\ sql.gen <= gens
        /\ Cached => UpTo(sql, cache.row) /\ cache.row.gen <= gens
    BY <1>1, <1>2, <2>1 DEF Linked, Ordered
  <2>3. Cached => r.gen = sql.gen /\ cache.row.ver = sql.ver
    BY <1>3, <2>1, <2>2 DEF UpTo
  <2>4. /\ r.ver = sql.ver /\ r.gen = sql.gen
        /\ \A f \in Stored : r.val[f] = FromColumn(sql.val[f])
    BY <1>1, <1>2, <2>1, <2>3 DEF Linked, AnswersAgree
  <2>5. ~Cached => Len(updates) = 0 /\ \A d \in Clients : client[d] = NoRow
    BY DEF RowIInv, Present
  <2>6. Ordered'
    <3>1. \A d \in Clients : load'[d].st = "answer" => UpTo(load'[d].row, sql)
      BY <1>5, <1>6, <2>1 DEF Linked, Ordered
    <3>2. UpTo(sql, r) /\ r.gen <= gens
      BY <2>2, <2>4 DEF UpTo
    <3>3. \A d \in Clients : client'[d].gen <= r.gen
      <4>1. NoRow.gen = 0
        BY DEF NoRow
      <4> QED
        BY <1>3, <1>6, <2>1, <2>5, <4>1 DEF Linked, Ordered
    <3>4. \A i \in 1..Len(updates) :
            /\ UpTo(updates[i].row, r)
            /\ UpTo(updates[i].row, sql) \/ UpTo(sql, updates[i].row)
            /\ \A j \in i..Len(updates) : UpTo(updates[i].row, updates[j].row)
      BY <2>1, <2>3, <2>4, <2>5 DEF Linked, Ordered, UpTo
    <3> QED
      BY <1>2, <1>7, <2>2, <3>1, <3>2, <3>3, <3>4 DEF Ordered
  <2>7. AnswersAgree'
    BY <1>2, <1>5, <1>6, <1>7, <2>1 DEF Linked, AnswersAgree
  <2>8. CopiesAgree'
    <3>1. ASSUME NEW d \in Clients, client'[d] # NoRow, client'[d].gen = r.gen
          PROVE  CopyOf(client'[d], r)
      <4>1. CASE d = c
        BY <1>6, <4>1 DEF CopyOf
      <4>2. CASE d # c
        <5>1. Cached /\ CopyOf(client[d], cache.row) /\ client'[d] = client[d]
          BY <1>6, <2>1, <2>5, <3>1, <4>2 DEF Linked, CopiesAgree
        <5>2. \A f \in Stored \ cache.row.dirty : cache.row.val[f] = r.val[f]
          BY <2>1, <2>4, <5>1 DEF Linked, RowIInv, CleanFieldsAgree
        <5> QED
          BY <1>4, <5>1, <5>2 DEF CopyOf
      <4> QED
        BY <4>1, <4>2
    <3> QED
      BY <1>7, <3>1 DEF CopiesAgree, CopyOf
  <2>9. CleanFieldsAgree' /\ SameVersionSameRow'
    BY <1>2, <1>7, <2>4 DEF CleanFieldsAgree, SameVersionSameRow
  <2>10. UpdatesAgree'
    <3>1. ASSUME NEW i \in 1..Len(updates)
          PROVE  updates[i].old <= sql.ver /\ ~(sql.ver < updates[i].row.ver)
      <4>1. updates[i].row.ver \in Nat /\ updates[i].row.gen \in Nat
        BY UpdatesAre DEF RowIInv
      <4>2. Cached /\ UpTo(updates[i].row, cache.row) /\ updates[i].old <= sql.ver
        BY <2>1, <2>5 DEF Linked, Ordered, UpdatesAgree
      <4> QED
        BY <1>3, <2>3, <4>1, <4>2 DEF UpTo
    <3>2. \A i \in 1..Len(updates') : (updates[i].old <= sql.ver /\ Writes(updates[i]))'
      BY <1>2, <3>1 DEF Writes
    <3>3. r.ver <= sql.ver
      BY <1>3, <2>4
    <3>4. /\ sync.answer = "success" => sync.ver <= sql.ver
          /\ sync.st = "await" /\ updates # << >> => updates[Len(updates)].row.ver = sync.ver
      BY <2>1 DEF Linked, UpdatesAgree
    <3> QED
      BY <1>2, <1>7, <1>8, <3>2, <3>3, <3>4 DEF UpdatesAgree
  <2> QED
    BY <2>6, <2>7, <2>8, <2>9, <2>10 DEF Linked
<1> QED
  BY <1>9, <1>10, <1>11, <1>12, <1>13 DEF RowIInv

\* Every step preserves the invariant.
LEMMA RowStep ==
  ASSUME RowIInv, [RowNext]_rowvars
  PROVE  RowIInv'
<1>1. CASE CreateTable \/ AlterTable
  BY <1>1, TableInitKeeps
<1>2. CASE InsertFails \/ \E c \in Clients : QueryTimesOut(c)
  BY <1>2, StoppingKeeps
<1>3. CASE Insert([f \in Fields |-> "x"])
  BY <1>3, InsertKeeps
<1>4. CASE \E c \in Clients : \/ \E form \in KeyForms : Load(c, form)
                              \/ SqlQuery(c)
  BY <1>4, LoadKeeps, SqlQueryKeeps
<1>5. CASE ~lost /\ \E c \in Clients : LocalCacheDBRow(c) \/ Commit(c)
  BY <1>5, LocalCacheKeeps, CommitKeeps
<1>6. CASE \E c \in Clients, f \in Fields, t \in JsTypes :
             \E v \in JsValues(t) : Assign(c, f, t, v)
  BY <1>6, AssignKeeps
<1>7. CASE TickSync
  BY <1>7, TickSyncKeeps
<1>8. CASE SyncAnswered \/ SyncTimeout
  BY <1>8, SyncAnsweredKeeps
<1>9. CASE ~lost /\ SqlUpdate
  BY <1>9, SqlUpdateKeeps
<1>10. CASE Restart
  BY <1>10, RestartKeeps
<1>11. CASE UNCHANGED rowvars
  <2>1. /\ columns' \subseteq Fields /\ Complete'
        /\ UNCHANGED <<kind, sql, cache, client, load, sync, updates, gens, lost>>
    BY <1>11 DEF rowvars, RowIInv, RowsTyped, Complete
  <2> QED
    BY <2>1, TableKeeps
<1> QED
  BY <1>1, <1>2, <1>3, <1>4, <1>5, <1>6, <1>7, <1>8, <1>9, <1>10, <1>11 DEF RowNext, Working

\* The rows, the cached row, the SQL row and the requests between them keep to
\* the invariant in every behaviour.
THEOREM RowInductive == RowSpec => []RowIInv
<1>1. RowIInv /\ [RowNext]_rowvars => RowIInv'
  BY RowStep
<1> QED
  BY RowInitIInv, <1>1, PTL DEF RowSpec

\* Dirty flags are enough: unless an update was replaced, a field of the cached
\* row without a flag has the value that SQL has.
THEOREM CleanFieldsAgreeHolds == RowSpec => []CleanFieldsAgree
<1>1. RowIInv => CleanFieldsAgree
  BY DEF RowIInv, Linked, CleanFieldsAgree
<1> QED
  BY RowInductive, <1>1, PTL

\* A cached row with the version of the row in SQL is that row.
THEOREM SameVersionSameRowHolds == RowSpec => []SameVersionSameRow
<1>1. RowIInv => SameVersionSameRow
  BY DEF RowIInv, Linked, SameVersionSameRow
<1> QED
  BY RowInductive, <1>1, PTL

\* A script can assign to a field what it reads from it, and nothing changes,
\* unless the field is a message with a list in it, which grows.
THEOREM ReadBackHolds == RowSpec => []ReadBack
<1>1. RowIInv => ReadBack
  BY RowsReadBack DEF RowIInv
<1> QED
  BY RowInductive, <1>1, PTL

\* A row with all its values can be loaded once the table is initialized.
THEOREM RowLoadsHolds == RowSpec => []RowLoads
<1>1. RowIInv => RowLoads
  BY CompleteLoads DEF RowIInv
<1> QED
  BY RowInductive, <1>1, PTL
=============================================================================
