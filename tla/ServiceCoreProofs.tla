--------------------------- MODULE ServiceCoreProofs ---------------------------
(***************************************************************************)
(* Proofs about ServiceCore, for any number of sessions, awaits, requests  *)
(* and lifecycle messages, and with or without awaits that never time out. *)
(***************************************************************************)
EXTENDS ServiceCore, TLAPS

\* A request that was not sent yet is nowhere.
NothingBeforePost ==
  \A r \in Requests \ posted :
    /\ answered[r] = 0
    /\ \A n \in 1..Len(msgs) : ~Mailed(r, n)
    /\ \A i \in Sessions : ~Held(r, i)

\* A service that never started has no coroutine.
NoTaskBeforeStart == stage = "Ready" => \A i \in Sessions : tasks[i] = NoTask

IInv == TypeOK /\ RequestInOnePlace /\ NothingBeforePost /\ NoTaskBeforeStart

(***************************************************************************)
(* Lemmas about messages, coroutines and the operators of the model.       *)
(***************************************************************************)

\* The mailbox without its first message, and with another message at its end,
\* by position.
LEMMA TailAt ==
  ASSUME NEW S, NEW q \in Seq(S), q # << >>
  PROVE  /\ Tail(q) \in Seq(S) /\ Head(q) \in S
         /\ 1 \in 1..Len(q) /\ Head(q) = q[1]
         /\ \A n \in 1..Len(Tail(q)) : n + 1 \in 1..Len(q) /\ Tail(q)[n] = q[n + 1]
         /\ \A n \in 1..Len(q) : n = 1 \/ (n - 1 \in 1..Len(Tail(q)) /\ Tail(q)[n - 1] = q[n])
OBVIOUS

\* A mailbox with one more message, by position.
LEMMA AppendAt ==
  ASSUME NEW S, NEW q \in Seq(S), NEW x \in S
  PROVE  /\ Append(q, x) \in Seq(S)
         /\ Len(q) + 1 \in 1..Len(Append(q, x)) /\ Append(q, x)[Len(q) + 1] = x
         /\ \A n \in 1..Len(q) : n \in 1..Len(Append(q, x)) /\ Append(q, x)[n] = q[n]
         /\ \A n \in 1..Len(Append(q, x)) : n \in 1..Len(q) \/ n = Len(q) + 1
OBVIOUS

\* A message that the model makes is a message.
LEMMA MessageTyped ==
  ASSUME NEW type \in {"start", "stop", "exit", "request", "reply", "timeout"},
         NEW s \in 0..MaxSessions, NEW r \in Requests \cup {NoRequest}
  PROVE  /\ Message(type, s, r) \in MessageType
         /\ Message(type, s, r).type = type
         /\ Message(type, s, r).session = s
         /\ Message(type, s, r).request = r
BY DEF Message, MessageType

\* The type and the fields of a task.
LEMMA TaskTyped ==
  ASSUME NEW role \in Roles, NEW r \in Requests \cup {NoRequest}, NEW timed \in BOOLEAN
  PROVE  /\ Task(role, r, timed) \in TaskType
         /\ Task(role, r, timed).request = r /\ Task(role, r, timed).timed = timed
BY DEF Task, TaskType

\* The same of NoTask.
LEMMA NoTaskTyped ==
  NoTask \in TaskType /\ NoTask.request = NoRequest /\ NoTask.timed = FALSE
BY DEF NoTask, Task, TaskType, Roles

\* The messages of the mailbox are of their type.
LEMMA HeadTyped ==
  ASSUME TypeOK, msgs # << >>
  PROVE  /\ Head(msgs).type \in {"start", "stop", "exit", "request", "reply", "timeout"}
         /\ Head(msgs).session \in 0..MaxSessions
         /\ Head(msgs).request \in Requests \cup {NoRequest}
         /\ Tail(msgs) \in Seq(MessageType)
<1>1. Head(msgs) \in MessageType /\ Tail(msgs) \in Seq(MessageType)
  BY TailAt DEF TypeOK
<1> QED
  BY <1>1 DEF MessageType

(***************************************************************************)
(* A step may take the first message of the mailbox, and may append one.   *)
(* The mailbox after it is told by the number d of messages taken: what is *)
(* at n was at n + d, or it is the message m that is new.                  *)
(***************************************************************************)
Shifted(d, m) ==
  /\ d \in {0, 1}
  /\ \A n \in 1..Len(msgs') :
       (n + d \in 1..Len(msgs) /\ msgs'[n] = msgs[n + d]) \/ msgs'[n] = m
  /\ \A n \in 1..Len(msgs) : n = d \/ (n - d \in 1..Len(msgs') /\ msgs'[n - d] = msgs[n])

\* PushMsg appends the message or leaves the mailbox alone.
LEMMA PushedShifted ==
  ASSUME TypeOK, NEW m \in MessageType, msgs' = Pushed(m)
  PROVE  Shifted(0, m) /\ msgs' \in Seq(MessageType)
<1>1. msgs \in Seq(MessageType) /\ Len(msgs) \in Nat
  BY DEF TypeOK
<1>2. CASE msgs' = msgs
  BY <1>1, <1>2 DEF Shifted
<1>3. CASE msgs' = Append(msgs, m)
  BY <1>1, <1>3, AppendAt DEF Shifted
<1> QED
  BY <1>2, <1>3 DEF Pushed

\* ProcessMsg takes a message, and may send one to its own service.
LEMMA TakenShifted ==
  ASSUME TypeOK, msgs # << >>, NEW m \in MessageType,
         msgs' = Tail(msgs) \/ msgs' = Append(Tail(msgs), m)
  PROVE  Shifted(1, m) /\ msgs' \in Seq(MessageType)
<1>1. msgs \in Seq(MessageType) /\ Len(msgs) \in Nat
  BY DEF TypeOK
<1>2. /\ Tail(msgs) \in Seq(MessageType) /\ Len(Tail(msgs)) \in Nat
      /\ \A n \in 1..Len(Tail(msgs)) : n + 1 \in 1..Len(msgs) /\ Tail(msgs)[n] = msgs[n + 1]
      /\ \A n \in 1..Len(msgs) : n = 1 \/ (n - 1 \in 1..Len(Tail(msgs))
                                             /\ Tail(msgs)[n - 1] = msgs[n])
  BY <1>1, TailAt
<1>3. CASE msgs' = Tail(msgs)
  BY <1>2, <1>3 DEF Shifted
<1>4. CASE msgs' = Append(Tail(msgs), m)
  BY <1>2, <1>4, AppendAt DEF Shifted
<1> QED
  BY <1>3, <1>4

\* OwnReply, appended, is one of these two.
LEMMA OwnReplyAppends ==
  ASSUME TypeOK, msgs # << >>, NEW end, NEW role, NEW st,
         msgs' = Tail(msgs) \o OwnReply(end, role, st)
  PROVE  \/ msgs' = Tail(msgs)
         \/ msgs' = Append(Tail(msgs), Message("reply", 0, NoRequest))
<1>1. Tail(msgs) \in Seq(MessageType)
  BY HeadTyped
<1>2. \A q \in Seq(MessageType) : q \o << >> = q
  OBVIOUS
<1>3. Message("reply", 0, NoRequest) \in MessageType
  BY MessageTyped, CoreAssumption
<1>4. \A q \in Seq(MessageType), x \in MessageType : q \o <<x>> = Append(q, x)
  OBVIOUS
<1> QED
  BY <1>1, <1>2, <1>3, <1>4 DEF OwnReply

(***************************************************************************)
(* Where a coroutine that suspends is found afterwards: nowhere (it is     *)
(* destroyed), or under a session that was free.                           *)
(***************************************************************************)
LEMMA SuspendsEffect ==
  ASSUME TypeOK, NEW ts \in [Sessions -> TaskType], NEW role \in Roles,
         NEW r \in Requests \cup {NoRequest}, Suspends(ts, role, r)
  PROVE  /\ \E i \in 0..MaxSessions, timed \in BOOLEAN :
              /\ monitor' = IF i = 0 \/ ~timed THEN monitor
                            ELSE [monitor EXCEPT ![i] = @ + 1]
              /\ \/ tasks' = ts
                 \/ /\ i \in Sessions /\ ts[i] = NoTask
                    /\ tasks' = [ts EXCEPT ![i] = Task(role, r, timed)]
         /\ awaits' \in 0..MaxAwaits /\ opened' \in 0..MaxSessions
         /\ peer' \subseteq Sessions
<1> USE CoreAssumption
<1>1. opened \in 0..MaxSessions /\ awaits \in 0..MaxAwaits /\ peer \subseteq Sessions
  BY DEF TypeOK
<1>2. PICK timed \in Timed :
        \/ /\ opened < MaxSessions
           /\ opened' = opened + 1
           /\ peer' = peer \cup {opened + 1}
           /\ Push(ts, opened + 1, Task(role, r, timed))
        \/ /\ \E i \in 0..opened : Push(ts, i, Task(role, r, timed))
           /\ UNCHANGED <<opened, peer>>
  BY DEF Suspends
<1>3. timed \in BOOLEAN /\ Task(role, r, timed).timed = timed
  <2>1. timed \in BOOLEAN
    BY Zenon
  <2> QED
    BY <2>1 DEF Task
<1>4. \E i \in 0..MaxSessions : Push(ts, i, Task(role, r, timed))
  BY <1>1, <1>2
<1>5. PICK i \in 0..MaxSessions : Push(ts, i, Task(role, r, timed))
  BY <1>4
<1>6. i = 0 \/ i \in Sessions
  BY DEF Sessions
<1>7. /\ monitor' = IF i = 0 \/ ~timed THEN monitor ELSE [monitor EXCEPT ![i] = @ + 1]
      /\ \/ tasks' = ts
         \/ /\ i \in Sessions /\ ts[i] = NoTask
            /\ tasks' = [ts EXCEPT ![i] = Task(role, r, timed)]
  BY <1>3, <1>5, <1>6 DEF Push
<1>8. opened' \in 0..MaxSessions /\ peer' \subseteq Sessions
  <2>1. \/ opened < MaxSessions /\ opened' = opened + 1 /\ peer' = peer \cup {opened + 1}
        \/ opened' = opened /\ peer' = peer
    BY <1>2
  <2>2. CASE opened < MaxSessions /\ opened' = opened + 1 /\ peer' = peer \cup {opened + 1}
    <3>1. opened + 1 \in Sessions /\ opened + 1 \in 0..MaxSessions
      BY <1>1, <2>2 DEF Sessions
    <3> QED
      BY <1>1, <2>2, <3>1
  <2> QED
    BY <1>1, <2>1, <2>2
<1>9. awaits' \in 0..MaxAwaits
  BY <1>1 DEF Suspends
<1> QED
  BY <1>3, <1>7, <1>8, <1>9
\* The type of what is left of tasks_ when a coroutine is taken out of it.
LEMMA WithoutTyped ==
  ASSUME TypeOK, NEW i \in Sessions
  PROVE  /\ Without(i) \in [Sessions -> TaskType]
         /\ Without(i)[i] = NoTask
         /\ \A j \in Sessions : j # i => Without(i)[j] = tasks[j]
BY NoTaskTyped DEF Without, TypeOK

\* Which role and which request a suspended coroutine has.
LEMMA TaskFields ==
  ASSUME TypeOK, NEW i \in Sessions
  PROVE  tasks[i].role \in Roles /\ tasks[i].request \in Requests \cup {NoRequest}
<1>1. tasks[i] \in TaskType
  BY DEF TypeOK
<1> QED
  BY <1>1 DEF TaskType

(***************************************************************************)
(* Type correctness.                                                       *)
(***************************************************************************)

\* What a run of a coroutine changes keeps its type.
CoroutineTyped ==
  /\ tasks' \in [Sessions -> TaskType] /\ monitor' \in [Sessions -> Nat]
  /\ opened' \in 0..MaxSessions /\ peer' \subseteq Sessions /\ awaits' \in 0..MaxAwaits

\* A coroutine that ends leaves values of the right types.
LEMMA CompletesTyped ==
  ASSUME TypeOK, NEW ts \in [Sessions -> TaskType], Completes(ts)
  PROVE  CoroutineTyped
BY DEF Completes, TypeOK, CoroutineTyped

\* So does one that awaits a session.
LEMMA SuspendsTyped ==
  ASSUME TypeOK, NEW ts \in [Sessions -> TaskType], NEW role \in Roles,
         NEW r \in Requests \cup {NoRequest}, Suspends(ts, role, r)
  PROVE  CoroutineTyped
<1>1. PICK i \in 0..MaxSessions, timed \in BOOLEAN :
        /\ monitor' = IF i = 0 \/ ~timed THEN monitor ELSE [monitor EXCEPT ![i] = @ + 1]
        /\ \/ tasks' = ts
           \/ /\ i \in Sessions /\ ts[i] = NoTask
              /\ tasks' = [ts EXCEPT ![i] = Task(role, r, timed)]
  BY SuspendsEffect
<1>2. tasks' \in [Sessions -> TaskType]
  BY <1>1, TaskTyped
<1>3. monitor \in [Sessions -> Nat]
  BY DEF TypeOK
<1>4. i = 0 \/ i \in Sessions
  BY CoreAssumption DEF Sessions
<1>5. monitor' = monitor \/ (i \in Sessions /\ monitor' = [monitor EXCEPT ![i] = @ + 1])
  BY <1>1, <1>4
<1>6. monitor' \in [Sessions -> Nat]
  BY <1>3, <1>5
<1> QED
  BY <1>2, <1>6, SuspendsEffect DEF CoroutineTyped

\* Every step preserves the types.
LEMMA TypeStep ==
  ASSUME TypeOK, [Next]_vars
  PROVE  TypeOK'
<1> USE CoreAssumption
<1>1. ASSUME NEW type \in Controls, PostControl(type)
      PROVE  TypeOK'
  <2>1. Message(type, 0, NoRequest) \in MessageType
    BY MessageTyped DEF Controls
  <2>2. msgs' \in Seq(MessageType)
    BY <1>1, <2>1, PushedShifted DEF PostControl
  <2> QED
    BY <1>1, <2>2 DEF PostControl, TypeOK
<1>2. ASSUME NEW r \in Requests, PostRequest(r)
      PROVE  TypeOK'
  <2>1. Message("request", 0, r) \in MessageType
    BY MessageTyped
  <2>2. msgs' \in Seq(MessageType)
    BY <1>2, <2>1, PushedShifted DEF PostRequest
  <2> QED
    BY <1>2, <2>2 DEF PostRequest, TypeOK
<1>3. ASSUME NEW i \in Sessions, PeerReply(i)
      PROVE  TypeOK'
  <2>1. Message("reply", i, NoRequest) \in MessageType
    BY MessageTyped DEF Sessions
  <2>2. msgs' \in Seq(MessageType)
    BY <1>3, <2>1, PushedShifted DEF PeerReply
  <2> QED
    BY <1>3, <2>2 DEF PeerReply, TypeOK
<1>4. ASSUME NEW i \in Sessions, MonitorTimeout(i)
      PROVE  TypeOK'
  <2>1. Message("timeout", i, NoRequest) \in MessageType
    BY MessageTyped DEF Sessions
  <2>2. msgs' \in Seq(MessageType)
    BY <1>4, <2>1, PushedShifted DEF MonitorTimeout
  <2>3. monitor' \in [Sessions -> Nat]
    BY <1>4 DEF MonitorTimeout, TypeOK
  <2> QED
    BY <1>4, <2>2, <2>3 DEF MonitorTimeout, TypeOK
<1>5. ASSUME msgs # << >>, msgs' = Tail(msgs)
      PROVE  msgs' \in Seq(MessageType)
  BY <1>5, HeadTyped
<1>6. ASSUME NEW end, NEW role, NEW st, msgs # << >>,
             msgs' = Tail(msgs) \o OwnReply(end, role, st)
      PROVE  msgs' \in Seq(MessageType)
  <2>1. Message("reply", 0, NoRequest) \in MessageType
    BY MessageTyped
  <2> QED
    BY <1>6, <2>1, OwnReplyAppends, TakenShifted
<1>7. tasks \in [Sessions -> TaskType] /\ {"OnStart", "OnStop", "OnMsg"} \subseteq Roles
  BY DEF TypeOK, Roles
<1>8. CASE ProcessStart
  <2>1. stage' \in Stages
    BY <1>8 DEF ProcessStart, Stages
  <2>2. msgs' \in Seq(MessageType)
    BY <1>5, <1>6, <1>8 DEF ProcessStart, Takes
  <2>3. CoroutineTyped
    BY <1>7, <1>8, CompletesTyped, SuspendsTyped DEF ProcessStart
  <2> QED
    BY <1>8, <2>1, <2>2, <2>3 DEF ProcessStart, TypeOK, CoroutineTyped
<1>9. CASE ProcessStop
  <2>1. stage' \in Stages
    BY <1>9 DEF ProcessStop, Stages
  <2>2. msgs' \in Seq(MessageType)
    BY <1>5, <1>9 DEF ProcessStop, Pop, Takes
  <2>3. CoroutineTyped
    BY <1>7, <1>9, CompletesTyped, SuspendsTyped DEF ProcessStop
  <2> QED
    BY <1>9, <2>1, <2>2, <2>3 DEF ProcessStop, TypeOK, CoroutineTyped
<1>10. CASE ProcessExit
  <2>1. stage' \in Stages
    BY <1>10 DEF ProcessExit, Stages
  <2>2. msgs' \in Seq(MessageType)
    BY <1>5, <1>10 DEF ProcessExit, Pop, Takes
  <2> QED
    BY <1>10, <2>1, <2>2 DEF ProcessExit, TypeOK
<1>11. ASSUME NEW end, NEW r \in Requests \cup {NoRequest}, ReplyMsg(end, r)
       PROVE  answered' \in [Requests -> Nat]
  BY <1>11 DEF ReplyMsg, TypeOK
<1>12. CASE ProcessReply
  <2> DEFINE i == Head(msgs).session
  <2>1. i \in Sessions
    BY <1>12 DEF ProcessReply, Waiting
  <2>2. Without(i) \in [Sessions -> TaskType]
    BY <2>1, WithoutTyped
  <2>3. tasks[i].role \in Roles /\ tasks[i].request \in Requests \cup {NoRequest}
    BY <2>1, TaskFields
  <2>4. stage' \in Stages
    BY <1>12 DEF ProcessReply, StageAfterReply, Stages
  <2>5. msgs' \in Seq(MessageType)
    BY <1>5, <1>6, <1>12 DEF ProcessReply, Takes
  <2>6. CoroutineTyped
    BY <1>12, <2>2, <2>3, CompletesTyped, SuspendsTyped DEF ProcessReply
  <2>7. answered' \in [Requests -> Nat]
    BY <1>11, <1>12, <2>3 DEF ProcessReply, TypeOK
  <2> QED
    BY <1>12, <2>4, <2>5, <2>6, <2>7 DEF ProcessReply, TypeOK, CoroutineTyped
<1>13. CASE ProcessTimeout
  <2> DEFINE i == Head(msgs).session
  <2>1. i \in Sessions => /\ Without(i) \in [Sessions -> TaskType]
                          /\ tasks[i].role \in Roles
                          /\ tasks[i].request \in Requests \cup {NoRequest}
    BY WithoutTyped, TaskFields
  <2>2. stage' \in Stages /\ msgs # << >>
    BY <1>13 DEF ProcessTimeout, Takes, TypeOK, Stages
  <2>3. msgs' = Tail(msgs) \/ msgs' = Append(Tail(msgs), Message("exit", 0, NoRequest))
    BY <1>13 DEF ProcessTimeout
  <2>4. msgs' \in Seq(MessageType)
    <3>1. Message("exit", 0, NoRequest) \in MessageType
      BY MessageTyped
    <3> QED
      BY <2>2, <2>3, <3>1, TakenShifted
  <2>5. CoroutineTyped
    BY <1>7, <1>13, <2>1, CompletesTyped, SuspendsTyped DEF ProcessTimeout, Waiting
  <2> QED
    BY <1>13, <2>2, <2>4, <2>5 DEF ProcessTimeout, TypeOK, CoroutineTyped
<1>14. CASE ProcessRequest
  <2>1. msgs # << >> /\ Head(msgs).request \in Requests \cup {NoRequest}
    BY <1>14, HeadTyped DEF ProcessRequest, Pop, Takes
  <2>2. msgs' \in Seq(MessageType)
    BY <1>5, <1>14 DEF ProcessRequest, Pop, Takes
  <2>3. CoroutineTyped
    BY <1>7, <1>14, <2>1, CompletesTyped, SuspendsTyped DEF ProcessRequest
  <2>4. answered' \in [Requests -> Nat]
    BY <1>11, <1>14, <2>1 DEF ProcessRequest, TypeOK
  <2> QED
    BY <1>14, <2>2, <2>3, <2>4 DEF ProcessRequest, TypeOK, CoroutineTyped
<1>15. ASSUME NEW type, Drop(type)
       PROVE  TypeOK'
  <2>1. msgs' \in Seq(MessageType)
    BY <1>5, <1>15 DEF Drop, Pop, Takes
  <2> QED
    BY <1>15, <2>1 DEF Drop, TypeOK
<1>16. CASE DropMsg
  BY <1>15, <1>16 DEF DropMsg
<1>17. CASE UNCHANGED vars
  BY <1>17 DEF vars, TypeOK
<1> QED
  BY <1>1, <1>2, <1>3, <1>4, <1>8, <1>9, <1>10, <1>12, <1>13, <1>14, <1>16, <1>17
     DEF Next, ProcessMsg
(***************************************************************************)
(* A request is in one place.                                              *)
(***************************************************************************)

\* What a step that handles request q does, if it handles one: q leaves where
\* it was (the head of the mailbox, or the suspended coroutine that goes on)
\* and is then with a suspended coroutine, answered, or nowhere.  ts is tasks_
\* without the coroutine that goes on, m a message that is appended.
Handles(q, ts, d, m) ==
  /\ Shifted(d, m) /\ m.request = NoRequest
  /\ \A i \in Sessions : ts[i] = tasks[i] \/ ts[i] = NoTask
  /\ q \in Requests =>
       /\ q \in posted /\ answered[q] = 0
       /\ \A n \in 1..Len(msgs') : msgs'[n].request # q
       /\ \A i \in Sessions : ts[i].request # q
  /\ \/ tasks' = ts /\ answered' = answered
     \/ /\ \E i \in Sessions, task \in TaskType :
             ts[i] = NoTask /\ task.request = q /\ tasks' = [ts EXCEPT ![i] = task]
        /\ answered' = answered
     \/ q \in Requests /\ tasks' = ts /\ answered' = [answered EXCEPT ![q] = @ + 1]

PlacesInv == RequestInOnePlace /\ NothingBeforePost

\* Such a step leaves every request in one place.
LEMMA HandlesInOnePlace ==
  ASSUME TypeOK, PlacesInv, UNCHANGED posted,
         NEW q \in Requests \cup {NoRequest}, NEW ts \in [Sessions -> TaskType],
         NEW d, NEW m, Handles(q, ts, d, m)
  PROVE  PlacesInv'
<1> USE CoreAssumption
<1> SUFFICES ASSUME NEW r \in Requests
             PROVE  /\ (answered[r] <= 1)'
                    /\ \A k, n \in 1..Len(msgs') : (Mailed(r, k) /\ Mailed(r, n))' => k = n
                    /\ \A i, j \in Sessions : (Held(r, i) /\ Held(r, j))' => i = j
                    /\ \A n \in 1..Len(msgs'), i \in Sessions : ~(Mailed(r, n) /\ Held(r, i))'
                    /\ (answered[r] = 1)' => /\ \A n \in 1..Len(msgs') : ~Mailed(r, n)'
                                             /\ \A i \in Sessions : ~Held(r, i)'
                    /\ r \notin posted => /\ (answered[r] = 0)'
                                          /\ \A n \in 1..Len(msgs') : ~Mailed(r, n)'
                                          /\ \A i \in Sessions : ~Held(r, i)'
  BY DEF PlacesInv, RequestInOnePlace, NothingBeforePost
<1>1. /\ answered[r] <= 1 /\ answered[r] \in Nat
      /\ \A k, n \in 1..Len(msgs) : msgs[k].request = r /\ msgs[n].request = r => k = n
      /\ \A i, j \in Sessions : tasks[i].request = r /\ tasks[j].request = r => i = j
      /\ \A n \in 1..Len(msgs), i \in Sessions : ~(msgs[n].request = r /\ tasks[i].request = r)
      /\ answered[r] = 1 => /\ \A n \in 1..Len(msgs) : msgs[n].request # r
                            /\ \A i \in Sessions : tasks[i].request # r
      /\ r \notin posted => /\ answered[r] = 0
                            /\ \A n \in 1..Len(msgs) : msgs[n].request # r
                            /\ \A i \in Sessions : tasks[i].request # r
  BY DEF PlacesInv, RequestInOnePlace, NothingBeforePost, Mailed, Held, TypeOK
<1>2. d \in {0, 1} /\ Len(msgs) \in Nat /\ Len(msgs') \in Nat
  BY DEF Handles, Shifted, TypeOK
<1>3. \A n \in 1..Len(msgs') : msgs'[n].request = r =>
        n + d \in 1..Len(msgs) /\ msgs[n + d].request = r
  BY DEF Handles, Shifted
<1>4. NoTask.request = NoRequest /\ NoRequest # r
  BY NoTaskTyped
<1>5. \A i \in Sessions : ts[i].request = r => tasks[i].request = r
  BY <1>4 DEF Handles
<1>6. \A k, n \in 1..Len(msgs') : msgs'[k].request = r /\ msgs'[n].request = r => k = n
  BY <1>1, <1>2, <1>3
<1>7. CASE r # q
  <2>1. answered'[r] = answered[r]
    BY <1>7 DEF Handles, TypeOK
  <2>2. \A i \in Sessions : tasks'[i].request = r => ts[i].request = r
    BY <1>7 DEF Handles
  <2>3. \A i \in Sessions : tasks'[i].request = r => tasks[i].request = r
    BY <1>5, <2>2
  <2>4. \A n \in 1..Len(msgs'), i \in Sessions :
          ~(msgs'[n].request = r /\ tasks'[i].request = r)
    BY <1>1, <1>3, <2>3
  <2>5. \A i, j \in Sessions : tasks'[i].request = r /\ tasks'[j].request = r => i = j
    BY <1>1, <2>3
  <2>6. answered[r] = 1 \/ r \notin posted =>
          /\ \A n \in 1..Len(msgs') : msgs'[n].request # r
          /\ \A i \in Sessions : tasks'[i].request # r
    BY <1>1, <1>3, <2>3
  <2> QED
    BY <1>1, <1>6, <2>1, <2>4, <2>5, <2>6 DEF Mailed, Held
<1>8. CASE r = q
  <2>1. /\ r \in posted /\ answered[r] = 0
        /\ \A n \in 1..Len(msgs') : msgs'[n].request # r
        /\ \A i \in Sessions : ts[i].request # r
    BY <1>8 DEF Handles
  <2>2. CASE tasks' = ts /\ answered' = answered
    BY <2>1, <2>2 DEF Mailed, Held
  <2>3. CASE /\ \E i \in Sessions, task \in TaskType :
                  ts[i] = NoTask /\ task.request = q /\ tasks' = [ts EXCEPT ![i] = task]
             /\ answered' = answered
    <3>1. PICK i \in Sessions : \A j \in Sessions : tasks'[j].request = r => j = i
      BY <2>1, <2>3
    <3> QED
      BY <2>1, <2>3, <3>1 DEF Mailed, Held
  <2>4. CASE q \in Requests /\ tasks' = ts /\ answered' = [answered EXCEPT ![q] = @ + 1]
    <3>1. answered'[r] = 1
      BY <1>8, <2>1, <2>4 DEF TypeOK
    <3> QED
      BY <2>1, <2>4, <3>1 DEF Mailed, Held
  <2> QED
    BY <2>2, <2>3, <2>4 DEF Handles
<1> QED
  BY <1>7, <1>8

\* A coroutine that completes or suspends is one that Handles describes.
LEMMA CompletesOrSuspends ==
  ASSUME TypeOK, NEW ts \in [Sessions -> TaskType], NEW role \in Roles,
         NEW q \in Requests \cup {NoRequest}, Completes(ts) \/ Suspends(ts, role, q)
  PROVE  \/ tasks' = ts
         \/ \E i \in Sessions, task \in TaskType :
              ts[i] = NoTask /\ task.request = q /\ tasks' = [ts EXCEPT ![i] = task]
<1>1. CASE Completes(ts)
  BY <1>1 DEF Completes
<1>2. CASE Suspends(ts, role, q)
  <2>1. PICK i \in 0..MaxSessions, timed \in BOOLEAN :
          \/ tasks' = ts
          \/ /\ i \in Sessions /\ ts[i] = NoTask
             /\ tasks' = [ts EXCEPT ![i] = Task(role, q, timed)]
    BY <1>2, SuspendsEffect
  <2> QED
    BY <2>1, TaskTyped
<1> QED
  BY <1>1, <1>2

\* A request at the head of the mailbox, or with a suspended coroutine, is
\* nowhere else.
LEMMA HeadRequest ==
  ASSUME TypeOK, PlacesInv, msgs # << >>, Head(msgs).request \in Requests
  PROVE  LET q == Head(msgs).request IN
         /\ q \in posted /\ answered[q] = 0
         /\ \A n \in 1..Len(Tail(msgs)) : Tail(msgs)[n].request # q
         /\ \A i \in Sessions : tasks[i].request # q
<1> DEFINE q == Head(msgs).request
<1>1. msgs \in Seq(MessageType)
  BY DEF TypeOK
<1>2. /\ 1 \in 1..Len(msgs) /\ msgs[1].request = q /\ Len(Tail(msgs)) \in Nat
      /\ \A n \in 1..Len(Tail(msgs)) : n + 1 \in 1..Len(msgs) /\ Tail(msgs)[n] = msgs[n + 1]
  BY <1>1, TailAt
<1>3. Mailed(q, 1)
  BY <1>2 DEF Mailed
<1>4. q \in posted
  BY <1>2, <1>3 DEF PlacesInv, NothingBeforePost
<1>5. answered[q] = 0
  <2>1. answered[q] <= 1 /\ answered[q] # 1
    BY <1>2, <1>3 DEF PlacesInv, RequestInOnePlace
  <2>2. answered[q] \in Nat
    BY DEF TypeOK
  <2> QED
    BY <2>1, <2>2
<1>6. \A n \in 1..Len(msgs) : msgs[n].request = q => n = 1
  BY <1>2, <1>3 DEF PlacesInv, RequestInOnePlace, Mailed
<1>7. \A n \in 1..Len(Tail(msgs)) : Tail(msgs)[n].request # q
  BY <1>2, <1>6
<1>8. \A i \in Sessions : tasks[i].request # q
  BY <1>2, <1>3 DEF PlacesInv, RequestInOnePlace, Held
<1> QED
  BY <1>4, <1>5, <1>7, <1>8

\* The request of a suspended coroutine is nowhere else.
LEMMA TaskRequest ==
  ASSUME TypeOK, PlacesInv, NEW i \in Sessions, tasks[i].request \in Requests
  PROVE  LET q == tasks[i].request IN
         /\ q \in posted /\ answered[q] = 0
         /\ \A n \in 1..Len(msgs) : msgs[n].request # q
         /\ \A j \in Sessions : Without(i)[j].request # q
<1> DEFINE q == tasks[i].request
<1>1. Held(q, i)
  BY DEF Held
<1>2. q \in posted
  BY <1>1 DEF PlacesInv, NothingBeforePost
<1>3. answered[q] = 0
  <2>1. answered[q] <= 1 /\ answered[q] # 1
    BY <1>1 DEF PlacesInv, RequestInOnePlace
  <2>2. answered[q] \in Nat
    BY DEF TypeOK
  <2> QED
    BY <2>1, <2>2
<1>4. \A n \in 1..Len(msgs) : msgs[n].request # q
  BY <1>1 DEF PlacesInv, RequestInOnePlace, Mailed
<1>5. \A j \in Sessions : tasks[j].request = q => j = i
  BY <1>1 DEF PlacesInv, RequestInOnePlace, Held
<1>6. \A j \in Sessions : Without(i)[j].request # q
  BY <1>5, WithoutTyped, NoTaskTyped, CoreAssumption
<1> QED
  BY <1>2, <1>3, <1>4, <1>6

\* Every step keeps every request in one place.
LEMMA PlacesStep ==
  ASSUME TypeOK, PlacesInv, [Next]_vars
  PROVE  PlacesInv'
<1> USE CoreAssumption
<1>1. tasks \in [Sessions -> TaskType] /\ NoRequest \in Requests \cup {NoRequest}
  BY DEF TypeOK
<1>2. ASSUME NEW m \in MessageType, m.request = NoRequest, NEW d, Shifted(d, m),
             UNCHANGED <<tasks, answered, posted>>
      PROVE  PlacesInv'
  <2>1. Handles(NoRequest, tasks, d, m)
    BY <1>2 DEF Handles
  <2> QED
    BY <1>1, <1>2, <2>1, HandlesInOnePlace
<1>3. ASSUME NEW type \in Controls, PostControl(type)
      PROVE  PlacesInv'
  <2>1. /\ Message(type, 0, NoRequest) \in MessageType
        /\ Message(type, 0, NoRequest).request = NoRequest
    BY MessageTyped DEF Controls
  <2>2. Shifted(0, Message(type, 0, NoRequest))
    BY <1>3, <2>1, PushedShifted DEF PostControl
  <2> QED
    BY <1>2, <1>3, <2>1, <2>2 DEF PostControl
<1>4. ASSUME NEW i \in Sessions, PeerReply(i)
      PROVE  PlacesInv'
  <2>1. /\ Message("reply", i, NoRequest) \in MessageType
        /\ Message("reply", i, NoRequest).request = NoRequest
    BY MessageTyped DEF Sessions
  <2>2. Shifted(0, Message("reply", i, NoRequest))
    BY <1>4, <2>1, PushedShifted DEF PeerReply
  <2> QED
    BY <1>2, <1>4, <2>1, <2>2 DEF PeerReply
<1>5. ASSUME NEW i \in Sessions, MonitorTimeout(i)
      PROVE  PlacesInv'
  <2>1. /\ Message("timeout", i, NoRequest) \in MessageType
        /\ Message("timeout", i, NoRequest).request = NoRequest
    BY MessageTyped DEF Sessions
  <2>2. Shifted(0, Message("timeout", i, NoRequest))
    BY <1>5, <2>1, PushedShifted DEF MonitorTimeout
  <2> QED
    BY <1>2, <1>5, <2>1, <2>2 DEF MonitorTimeout
<1>6. ASSUME NEW r \in Requests, PostRequest(r)
      PROVE  PlacesInv'
  <2>1. Message("request", 0, r) \in MessageType /\ Message("request", 0, r).request = r
    BY MessageTyped
  <2>2. msgs \in Seq(MessageType) /\ Len(msgs) \in Nat
    BY DEF TypeOK
  <2>3. CASE msgs' = msgs
    BY <1>6, <2>3 DEF PostRequest, PlacesInv, RequestInOnePlace, NothingBeforePost,
                      Mailed, Held
  <2>4. CASE msgs' = Append(msgs, Message("request", 0, r))
    <3>1. \A s \in Requests \ {r}, n \in 1..Len(msgs') : Mailed(s, n)' =>
            n \in 1..Len(msgs) /\ Mailed(s, n)
      BY <2>1, <2>2, <2>4, AppendAt DEF Mailed
    <3>2. \A n \in 1..Len(msgs') : Mailed(r, n)' => n = Len(msgs) + 1
      <4>1. \A n \in 1..Len(msgs) : ~Mailed(r, n)
        BY <1>6 DEF PostRequest, PlacesInv, NothingBeforePost
      <4>2. \A n \in 1..Len(msgs') : (n \in 1..Len(msgs) /\ msgs'[n] = msgs[n])
                                       \/ n = Len(msgs) + 1
        BY <2>1, <2>2, <2>4, AppendAt
      <4> QED
        BY <4>1, <4>2 DEF Mailed
    <3>3. answered[r] = 0 /\ \A i \in Sessions : ~Held(r, i)
      BY <1>6 DEF PostRequest, PlacesInv, NothingBeforePost
    <3>4. answered' = answered /\ \A s, i : Held(s, i)' <=> Held(s, i)
      BY <1>6 DEF PostRequest, Held
    <3>5. RequestInOnePlace'
      BY <3>1, <3>2, <3>3, <3>4 DEF PlacesInv, RequestInOnePlace
    <3>6. NothingBeforePost'
      BY <1>6, <3>1, <3>4 DEF PlacesInv, NothingBeforePost, PostRequest
    <3> QED
      BY <3>5, <3>6 DEF PlacesInv
  <2> QED
    BY <1>6, <2>3, <2>4 DEF PostRequest, Pushed
<1>7. ASSUME NEW q \in Requests \cup {NoRequest}, NEW ts \in [Sessions -> TaskType],
             NEW role \in Roles, NEW m \in MessageType, m.request = NoRequest,
             msgs # << >>, msgs' = Tail(msgs) \/ msgs' = Append(Tail(msgs), m),
             \A i \in Sessions : ts[i] = tasks[i] \/ ts[i] = NoTask,
             q \in Requests =>
               /\ q \in posted /\ answered[q] = 0
               /\ \A n \in 1..Len(Tail(msgs)) : Tail(msgs)[n].request # q
               /\ \A i \in Sessions : ts[i].request # q,
             \/ (Completes(ts) \/ Suspends(ts, role, q)) /\ answered' = answered
             \/ Completes(ts) /\ \E end \in Ends : ReplyMsg(end, q),
             UNCHANGED posted
      PROVE  PlacesInv'
  <2>1. Shifted(1, m)
    BY <1>7, TakenShifted
  <2>2. Tail(msgs) \in Seq(MessageType)
    BY <1>7, HeadTyped
  <2>3. q \in Requests => \A n \in 1..Len(msgs') : msgs'[n].request # q
    <3>1. CASE msgs' = Tail(msgs)
      BY <1>7, <3>1
    <3>2. CASE msgs' = Append(Tail(msgs), m)
      <4>1. \A n \in 1..Len(msgs') : (n \in 1..Len(Tail(msgs)) /\ msgs'[n] = Tail(msgs)[n])
                                      \/ msgs'[n] = m
        BY <2>2, <3>2, AppendAt
      <4> QED
        BY <1>7, <4>1
    <3> QED
      BY <1>7, <3>1, <3>2
  <2>4. \/ tasks' = ts
        \/ \E i \in Sessions, task \in TaskType :
             ts[i] = NoTask /\ task.request = q /\ tasks' = [ts EXCEPT ![i] = task]
    BY <1>7, CompletesOrSuspends
  <2>5. CASE answered' = answered
    <3>1. Handles(q, ts, 1, m)
      BY <1>7, <2>1, <2>3, <2>4, <2>5 DEF Handles
    <3> QED
      BY <1>7, <3>1, HandlesInOnePlace
  <2>6. CASE Completes(ts) /\ \E end \in Ends : ReplyMsg(end, q)
    <3>1. tasks' = ts
      BY <2>6 DEF Completes
    <3>2. answered' = answered
            \/ (q \in Requests /\ answered' = [answered EXCEPT ![q] = @ + 1])
      BY <2>6 DEF ReplyMsg
    <3>3. Handles(q, ts, 1, m)
      BY <1>7, <2>1, <2>3, <3>1, <3>2 DEF Handles
    <3> QED
      BY <1>7, <3>3, HandlesInOnePlace
  <2> QED
    BY <1>7, <2>5, <2>6
<1>8. {"OnStart", "OnStop", "OnMsg"} \subseteq Roles
  BY DEF Roles
<1>9. /\ Message("reply", 0, NoRequest) \in MessageType
      /\ Message("reply", 0, NoRequest).request = NoRequest
      /\ Message("exit", 0, NoRequest) \in MessageType
      /\ Message("exit", 0, NoRequest).request = NoRequest
  BY MessageTyped
<1>10. CASE ProcessStart
  <2>1. /\ msgs # << >>
        /\ msgs' = Tail(msgs) \/ msgs' = Append(Tail(msgs), Message("reply", 0, NoRequest))
    BY <1>10, OwnReplyAppends DEF ProcessStart, Takes
  <2>2. Completes(tasks) \/ Suspends(tasks, "OnStart", NoRequest)
    BY <1>10 DEF ProcessStart
  <2>3. answered' = answered /\ posted' = posted
    BY <1>10 DEF ProcessStart
  <2> QED
    BY <1>1, <1>7, <1>8, <1>9, <2>1, <2>2, <2>3
<1>11. CASE ProcessStop
  <2>1. msgs # << >> /\ msgs' = Tail(msgs)
    BY <1>11 DEF ProcessStop, Pop, Takes
  <2>2. Completes(tasks) \/ Suspends(tasks, "OnStop", NoRequest)
    BY <1>11 DEF ProcessStop
  <2>3. answered' = answered /\ posted' = posted
    BY <1>11 DEF ProcessStop
  <2> QED
    BY <1>1, <1>7, <1>8, <1>9, <2>1, <2>2, <2>3
<1>12. ASSUME msgs # << >>, msgs' = Tail(msgs), UNCHANGED <<tasks, answered, posted>>
       PROVE  PlacesInv'
  BY <1>2, <1>9, <1>12, TakenShifted
<1>13. CASE ProcessExit
  BY <1>12, <1>13 DEF ProcessExit, Pop, Takes
<1>14. ASSUME NEW i \in Sessions, msgs # << >>
       PROVE  /\ Without(i) \in [Sessions -> TaskType] /\ tasks[i].role \in Roles
              /\ tasks[i].request \in Requests \cup {NoRequest}
              /\ \A j \in Sessions : Without(i)[j] = tasks[j] \/ Without(i)[j] = NoTask
              /\ tasks[i].request \in Requests =>
                   /\ tasks[i].request \in posted /\ answered[tasks[i].request] = 0
                   /\ \A n \in 1..Len(Tail(msgs)) : Tail(msgs)[n].request # tasks[i].request
                   /\ \A j \in Sessions : Without(i)[j].request # tasks[i].request
  <2>1. msgs \in Seq(MessageType)
    BY DEF TypeOK
  <2>2. \A n \in 1..Len(Tail(msgs)) : n + 1 \in 1..Len(msgs) /\ Tail(msgs)[n] = msgs[n + 1]
    BY <1>14, <2>1, TailAt
  <2> QED
    BY <1>14, <2>2, WithoutTyped, TaskFields, TaskRequest
<1>15. CASE ProcessReply
  <2> DEFINE i == Head(msgs).session
  <2>1. i \in Sessions /\ msgs # << >>
    BY <1>15 DEF ProcessReply, Waiting, Takes
  <2>2. msgs' = Tail(msgs) \/ msgs' = Append(Tail(msgs), Message("reply", 0, NoRequest))
    BY <1>15, <2>1, OwnReplyAppends DEF ProcessReply
  <2>3. \/ Suspends(Without(i), tasks[i].role, tasks[i].request) /\ answered' = answered
        \/ Completes(Without(i)) /\ \E end \in Ends : ReplyMsg(end, tasks[i].request)
    BY <1>15 DEF ProcessReply
  <2>4. posted' = posted
    BY <1>15 DEF ProcessReply
  <2>5. /\ Without(i) \in [Sessions -> TaskType] /\ tasks[i].role \in Roles
        /\ tasks[i].request \in Requests \cup {NoRequest}
        /\ \A j \in Sessions : Without(i)[j] = tasks[j] \/ Without(i)[j] = NoTask
        /\ tasks[i].request \in Requests =>
             /\ tasks[i].request \in posted /\ answered[tasks[i].request] = 0
             /\ \A n \in 1..Len(Tail(msgs)) : Tail(msgs)[n].request # tasks[i].request
             /\ \A j \in Sessions : Without(i)[j].request # tasks[i].request
    BY <1>14, <2>1
  <2> HIDE DEF i
  <2> QED
    BY <1>7, <1>9, <2>1, <2>2, <2>3, <2>4, <2>5
<1>16. CASE ProcessTimeout
  <2> DEFINE i == Head(msgs).session
  <2>1. /\ msgs # << >>
        /\ msgs' = Tail(msgs) \/ msgs' = Append(Tail(msgs), Message("exit", 0, NoRequest))
    BY <1>16 DEF ProcessTimeout, Takes
  <2>2. answered' = answered /\ posted' = posted
    BY <1>16 DEF ProcessTimeout
  <2>3. CASE Completes(tasks)
    BY <1>1, <1>7, <1>8, <1>9, <2>1, <2>2, <2>3
  <2>4. CASE /\ i \in Sessions
             /\ Completes(Without(i)) \/ Suspends(Without(i), tasks[i].role, tasks[i].request)
    <3>1. /\ Without(i) \in [Sessions -> TaskType] /\ tasks[i].role \in Roles
          /\ tasks[i].request \in Requests \cup {NoRequest}
          /\ \A j \in Sessions : Without(i)[j] = tasks[j] \/ Without(i)[j] = NoTask
          /\ tasks[i].request \in Requests =>
               /\ tasks[i].request \in posted /\ answered[tasks[i].request] = 0
               /\ \A n \in 1..Len(Tail(msgs)) : Tail(msgs)[n].request # tasks[i].request
               /\ \A j \in Sessions : Without(i)[j].request # tasks[i].request
      BY <1>14, <2>1, <2>4
    <3> HIDE DEF i
    <3> QED
      BY <1>7, <1>9, <2>1, <2>2, <2>4, <3>1
  <2> QED
    BY <1>16, <2>3, <2>4 DEF ProcessTimeout, Waiting
<1>17. CASE ProcessRequest
  <2> DEFINE q == Head(msgs).request
  <2>1. msgs # << >> /\ msgs' = Tail(msgs) /\ q \in Requests \cup {NoRequest}
    BY <1>17, HeadTyped DEF ProcessRequest, Pop, Takes
  <2>2. q \in Requests =>
          /\ q \in posted /\ answered[q] = 0
          /\ \A n \in 1..Len(Tail(msgs)) : Tail(msgs)[n].request # q
          /\ \A i \in Sessions : tasks[i].request # q
    BY <2>1, HeadRequest
  <2>3. \/ Suspends(tasks, "OnMsg", q) /\ answered' = answered
        \/ Completes(tasks) /\ \E end \in Ends : ReplyMsg(end, q)
    BY <1>17 DEF ProcessRequest
  <2>4. posted' = posted
    BY <1>17 DEF ProcessRequest
  <2> QED
    BY <1>1, <1>7, <1>8, <1>9, <2>1, <2>2, <2>3, <2>4
<1>18. ASSUME NEW type, Drop(type)
       PROVE  PlacesInv'
  BY <1>12, <1>18 DEF Drop, Pop, Takes
<1>19. CASE DropMsg
  BY <1>18, <1>19 DEF DropMsg
<1>20. CASE UNCHANGED vars
  BY <1>20 DEF vars, PlacesInv, RequestInOnePlace, NothingBeforePost, Mailed, Held
<1> QED
  BY <1>3, <1>4, <1>5, <1>6, <1>10, <1>11, <1>13, <1>15, <1>16, <1>17, <1>19, <1>20
     DEF Next, ProcessMsg

(***************************************************************************)
(* The inductive invariant.                                                *)
(***************************************************************************)
LEMMA InitIInv == Init => IInv
<1> SUFFICES ASSUME Init PROVE IInv
  OBVIOUS
<1> USE CoreAssumption DEF Init
<1>1. TypeOK
  BY NoTaskTyped DEF TypeOK, Stages, Sessions, Controls
<1>2. /\ \A r, n : n \in 1..Len(msgs) => ~Mailed(r, n)
      /\ \A r \in Requests, i \in Sessions : ~Held(r, i)
      /\ \A r \in Requests : answered[r] = 0
  BY NoTaskTyped DEF Mailed, Held
<1>3. RequestInOnePlace /\ NothingBeforePost
  BY <1>2 DEF RequestInOnePlace, NothingBeforePost
<1> QED
  BY <1>1, <1>3 DEF IInv, NoTaskBeforeStart

\* Every step preserves the invariant.
LEMMA IInvStep == IInv /\ [Next]_vars => IInv'
<1> SUFFICES ASSUME IInv, [Next]_vars PROVE IInv'
  OBVIOUS
<1>1. TypeOK' /\ PlacesInv'
  BY TypeStep, PlacesStep DEF IInv, PlacesInv
<1>2. NoTaskBeforeStart'
  <2>1. SUFFICES ASSUME stage' = "Ready" PROVE tasks' = tasks /\ stage = "Ready"
    BY DEF IInv, NoTaskBeforeStart
  <2>2. ASSUME NEW type \in Controls, PostControl(type)
        PROVE  tasks' = tasks /\ stage = "Ready"
    BY <2>1, <2>2 DEF PostControl
  <2>3. ASSUME NEW r \in Requests, PostRequest(r)
        PROVE  tasks' = tasks /\ stage = "Ready"
    BY <2>1, <2>3 DEF PostRequest
  <2>4. ASSUME NEW i \in Sessions, PeerReply(i) \/ MonitorTimeout(i)
        PROVE  tasks' = tasks /\ stage = "Ready"
    BY <2>1, <2>4 DEF PeerReply, MonitorTimeout
  <2>5. ~ProcessStart /\ ~ProcessStop /\ ~ProcessExit /\ ~ProcessRequest
    BY <2>1 DEF ProcessStart, ProcessStop, ProcessExit, ProcessRequest
  <2>6. ~ProcessReply
    BY <2>1 DEF ProcessReply, StageAfterReply
  <2>7. CASE ProcessTimeout
    <3>1. stage = "Ready"
      BY <2>1, <2>7 DEF ProcessTimeout
    <3>2. \A i : ~Waiting(i)
      BY <3>1 DEF IInv, NoTaskBeforeStart, Waiting
    <3> QED
      BY <2>7, <3>1, <3>2 DEF ProcessTimeout, Completes
  <2>8. CASE DropMsg
    BY <2>1, <2>8 DEF DropMsg, Drop
  <2> QED
    BY <2>1, <2>2, <2>3, <2>4, <2>5, <2>6, <2>7, <2>8 DEF Next, ProcessMsg, vars
<1> QED
  BY <1>1, <1>2 DEF IInv, PlacesInv

\* Every state that ProcessMsg, the monitor and the senders lead to satisfies
\* the invariant: nothing of a request exists before the request is posted.
THEOREM Inductive == Spec => []IInv
<1> QED
  BY InitIInv, IInvStep, PTL DEF Spec

\* The types of the fields hold, for any number of sessions and requests.
THEOREM TypeCorrect == Spec => []TypeOK
<1>1. IInv => TypeOK
  BY DEF IInv
<1> QED
  BY Inductive, <1>1, PTL

\* However its coroutine is suspended, resumed and timed out, a request is in
\* the mailbox, with one coroutine, or answered, and answered once.
THEOREM RequestInOnePlaceHolds == Spec => []RequestInOnePlace
<1>1. IInv => RequestInOnePlace
  BY DEF IInv
<1> QED
  BY Inductive, <1>1, PTL

(***************************************************************************)
(* The stages.                                                             *)
(***************************************************************************)

\* Each step moves the stage as ServiceScheduler assumes that it may.  A service
\* that never started has no coroutine, so a timeout does not stop it.
THEOREM StageFollowsLifecycleHolds == Spec => StageFollowsLifecycle
<1> DEFINE A == stage' # stage =>
                  /\ msgs # << >>
                  /\ LET k == Kind(Head(msgs)) IN
                     /\ Allowed(stage, k)
                     /\ stage' \in StageLeave(StageEnter(stage, k), k)
<1>1. ASSUME IInv, Next PROVE A
  <2>1. SUFFICES ASSUME stage' # stage
                 PROVE  /\ msgs # << >>
                        /\ Allowed(stage, Kind(Head(msgs)))
                        /\ stage' \in StageLeave(StageEnter(stage, Kind(Head(msgs))),
                                                 Kind(Head(msgs)))
    OBVIOUS
  <2> USE DEF Allowed, StageLeave, StageEnter, Controls, Kind, Takes
  <2>2. CASE ProcessStart
    BY <2>2 DEF ProcessStart
  <2>3. CASE ProcessStop
    BY <2>3 DEF ProcessStop, Pop
  <2>4. CASE ProcessExit
    BY <2>4 DEF ProcessExit, Pop
  <2>5. CASE ProcessReply
    BY <2>1, <2>5 DEF ProcessReply, StageAfterReply
  <2>6. CASE ProcessTimeout
    <3>1. Head(msgs).type = "timeout" /\ msgs # << >> /\ stage # "Exited"
      BY <2>6 DEF ProcessTimeout
    <3>2. stage' = "Stopped"
      BY <2>1, <2>6 DEF ProcessTimeout
    <3>3. stage # "Ready"
      <4>1. SUFFICES ASSUME stage = "Ready" PROVE FALSE
        OBVIOUS
      <4>2. ~Waiting(Head(msgs).session)
        BY <1>1, <4>1 DEF IInv, NoTaskBeforeStart, Waiting
      <4> QED
        BY <2>1, <2>6, <4>1, <4>2 DEF ProcessTimeout
    <3>4. stage \in Stages
      BY <1>1 DEF IInv, TypeOK
    <3> QED
      BY <2>1, <3>1, <3>2, <3>3, <3>4 DEF Stages
  <2>7. stage' = stage \/ ProcessStart \/ ProcessStop \/ ProcessExit \/ ProcessReply
          \/ ProcessTimeout
    BY <1>1 DEF Next, ProcessMsg, PostControl, PostRequest, PeerReply, MonitorTimeout,
                ProcessRequest, DropMsg, Drop
  <2> QED
    BY <2>1, <2>2, <2>3, <2>4, <2>5, <2>6, <2>7
<1>2. IInv /\ [Next]_vars =>
        [stage' # stage =>
           /\ msgs # << >>
           /\ LET k == Kind(Head(msgs)) IN
              /\ Allowed(stage, k)
              /\ stage' \in StageLeave(StageEnter(stage, k), k)]_vars
  BY <1>1
<1> QED
  BY Inductive, <1>2, PTL DEF Spec, StageFollowsLifecycle

(***************************************************************************)
(* The timeouts.                                                           *)
(***************************************************************************)

\* A timeout in the mailbox stays there, unless it is the message taken.
LEMMA TimeoutStays ==
  ASSUME NEW i, TimeoutDue(i), NEW d, NEW m, Shifted(d, m),
         d = 1 => msgs[1].type # "timeout" \/ msgs[1].session # i
  PROVE  TimeoutDue(i)'
<1>1. PICK n \in 1..Len(msgs) : msgs[n].type = "timeout" /\ msgs[n].session = i
  BY DEF TimeoutDue
<1>2. n # d
  BY <1>1 DEF Shifted
<1>3. n - d \in 1..Len(msgs') /\ msgs'[n - d] = msgs[n]
  BY <1>2 DEF Shifted
<1> QED
  BY <1>1, <1>3 DEF TimeoutDue

\* A coroutine that is found under session i after a step was there before, or
\* the monitor has been told of it.
LEMMA MonitorTold ==
  ASSUME TypeOK, NEW ts \in [Sessions -> TaskType], NEW role \in Roles,
         NEW q \in Requests \cup {NoRequest}, Completes(ts) \/ Suspends(ts, role, q),
         NEW i \in Sessions, tasks'[i].timed
  PROVE  /\ monitor[i] > 0 => monitor'[i] > 0
         /\ tasks'[i] = ts[i] \/ monitor'[i] > 0
<1>1. monitor \in [Sessions -> Nat]
  BY DEF TypeOK
<1>2. CASE Completes(ts)
  BY <1>2 DEF Completes
<1>3. CASE Suspends(ts, role, q)
  <2>1. PICK j \in 0..MaxSessions, timed \in BOOLEAN :
          /\ monitor' = IF j = 0 \/ ~timed THEN monitor ELSE [monitor EXCEPT ![j] = @ + 1]
          /\ \/ tasks' = ts
             \/ /\ j \in Sessions /\ ts[j] = NoTask
                /\ tasks' = [ts EXCEPT ![j] = Task(role, q, timed)]
    BY <1>3, SuspendsEffect
  <2>2. (j = 0 \/ ~timed) \/ j \in Sessions
    BY CoreAssumption DEF Sessions
  <2>3. monitor' = monitor \/ (j \in Sessions /\ monitor' = [monitor EXCEPT ![j] = @ + 1])
    BY <2>1, <2>2
  <2>4. monitor[i] > 0 => monitor'[i] > 0
    BY <1>1, <2>3
  <2>5. CASE tasks'[i] = ts[i]
    BY <2>4, <2>5
  <2>6. CASE tasks'[i] # ts[i]
    <3>1. j \in Sessions /\ i = j /\ tasks'[i] = Task(role, q, timed)
      BY <2>1, <2>6
    <3>2. timed
      <4>1. Task(role, q, timed).timed = timed
        BY TaskTyped
      <4> QED
        BY <3>1, <4>1
    <3>3. j # 0
      BY <3>1 DEF Sessions
    <3>4. monitor' = [monitor EXCEPT ![j] = @ + 1]
      BY <2>1, <3>2, <3>3
    <3>5. monitor'[i] > 0
      BY <1>1, <3>1, <3>4
    <3> QED
      BY <2>4, <3>5
  <2> QED
    BY <2>5, <2>6
<1> QED
  BY <1>2, <1>3

\* A step that takes a message, if it is not the timeout of session i.
LEMMA KeptByCoroutine ==
  ASSUME TypeOK, NEW i \in Sessions, Covered(i), NEW d, NEW m, Shifted(d, m),
         NEW ts \in [Sessions -> TaskType], NEW role \in Roles,
         NEW q \in Requests \cup {NoRequest}, Completes(ts) \/ Suspends(ts, role, q),
         ts[i] = tasks[i] \/ ts[i] = NoTask,
         \/ d = 1 => msgs[1].type # "timeout" \/ msgs[1].session # i
         \/ ts[i] = NoTask
  PROVE  Covered(i)'
<1>1. SUFFICES ASSUME tasks'[i].timed
               PROVE  monitor'[i] > 0 \/ TimeoutDue(i)'
  BY DEF Covered
<1>2. /\ monitor[i] > 0 => monitor'[i] > 0
      /\ tasks'[i] = ts[i] \/ monitor'[i] > 0
  BY <1>1, MonitorTold
<1>3. CASE tasks'[i] = ts[i] /\ ts[i] = NoTask
  BY <1>1, <1>3, NoTaskTyped
<1>4. CASE /\ tasks'[i] = tasks[i]
           /\ d = 1 => msgs[1].type # "timeout" \/ msgs[1].session # i
  <2>1. monitor[i] > 0 \/ TimeoutDue(i)
    BY <1>1, <1>4 DEF Covered
  <2>2. TimeoutDue(i) => TimeoutDue(i)'
    BY <1>4, TimeoutStays
  <2> QED
    BY <1>2, <2>1, <2>2
<1> QED
  BY <1>2, <1>3, <1>4

\* As long as the mailbox is open, no step takes its timeout from a coroutine.
THEOREM TimeoutKeptHolds == Spec => TimeoutKept
<1> USE CoreAssumption
<1>1. ASSUME IInv, Next, Open(stage), Open(stage'), NEW i \in Sessions, Covered(i)
      PROVE  Covered(i)'
  <2>1. TypeOK /\ tasks \in [Sessions -> TaskType] /\ msgs \in Seq(MessageType)
    BY <1>1 DEF IInv, TypeOK
  <2>2. ASSUME NEW d, NEW m, Shifted(d, m), UNCHANGED <<tasks, monitor>>,
               d = 1 => msgs[1].type # "timeout" \/ msgs[1].session # i
        PROVE  Covered(i)'
    BY <1>1, <2>2, TimeoutStays DEF Covered
  <2>3. ASSUME NEW type \in Controls, PostControl(type)
        PROVE  Covered(i)'
    <3>1. Message(type, 0, NoRequest) \in MessageType
      BY MessageTyped DEF Controls
    <3>2. Shifted(0, Message(type, 0, NoRequest))
      BY <2>1, <2>3, <3>1, PushedShifted DEF PostControl
    <3> QED
      BY <2>2, <2>3, <3>2 DEF PostControl
  <2>4. ASSUME NEW r \in Requests, PostRequest(r)
        PROVE  Covered(i)'
    <3>1. Message("request", 0, r) \in MessageType
      BY MessageTyped
    <3>2. Shifted(0, Message("request", 0, r))
      BY <2>1, <2>4, <3>1, PushedShifted DEF PostRequest
    <3> QED
      BY <2>2, <2>4, <3>2 DEF PostRequest
  <2>5. ASSUME NEW j \in Sessions, PeerReply(j)
        PROVE  Covered(i)'
    <3>1. Message("reply", j, NoRequest) \in MessageType
      BY MessageTyped DEF Sessions
    <3>2. Shifted(0, Message("reply", j, NoRequest))
      BY <2>1, <2>5, <3>1, PushedShifted DEF PeerReply
    <3> QED
      BY <2>2, <2>5, <3>2 DEF PeerReply
  <2>6. ASSUME NEW j \in Sessions, MonitorTimeout(j)
        PROVE  Covered(i)'
    <3> DEFINE m == Message("timeout", j, NoRequest)
    <3>1. m \in MessageType /\ m.type = "timeout" /\ m.session = j
      BY MessageTyped DEF Sessions
    <3>2. Shifted(0, m)
      BY <2>1, <2>6, <3>1, PushedShifted DEF MonitorTimeout
    <3>3. msgs' = Append(msgs, m)
      BY <1>1, <2>6, <3>1 DEF MonitorTimeout, Pushed, Kind, Controls, Accepts, Open
    <3>4. CASE i = j
      <4>1. Len(msgs) + 1 \in 1..Len(msgs') /\ msgs'[Len(msgs) + 1] = m
        BY <2>1, <3>1, <3>3, AppendAt
      <4>2. TimeoutDue(i)'
        BY <3>1, <3>4, <4>1 DEF TimeoutDue
      <4> QED
        BY <4>2 DEF Covered
    <3>5. CASE i # j
      <4>1. monitor'[i] = monitor[i] /\ tasks' = tasks
        BY <2>1, <2>6, <3>5 DEF MonitorTimeout, TypeOK
      <4>2. TimeoutDue(i) => TimeoutDue(i)'
        BY <3>2, TimeoutStays
      <4> QED
        BY <1>1, <4>1, <4>2 DEF Covered
    <3> QED
      BY <3>4, <3>5
  <2>7. ASSUME msgs # << >>
        PROVE  /\ Head(msgs) = msgs[1]
               /\ \A m \in MessageType : msgs' = Tail(msgs) \/ msgs' = Append(Tail(msgs), m)
                                         => Shifted(1, m)
    BY <2>1, <2>7, TailAt, TakenShifted
  <2>8. /\ Message("reply", 0, NoRequest) \in MessageType
        /\ Message("exit", 0, NoRequest) \in MessageType
    BY MessageTyped
  <2>9. {"OnStart", "OnStop", "OnMsg"} \subseteq Roles /\ NoRequest \in Requests \cup {NoRequest}
    BY DEF Roles
  <2>10. ASSUME msgs # << >>, msgs' = Tail(msgs), UNCHANGED <<tasks, monitor>>,
                Head(msgs).type # "timeout"
         PROVE  Covered(i)'
    BY <2>2, <2>7, <2>8, <2>10
  <2>11. CASE ProcessStart
    <3>1. msgs # << >> /\ Head(msgs).type = "start"
      BY <2>11 DEF ProcessStart, Takes
    <3>2. msgs' = Tail(msgs) \/ msgs' = Append(Tail(msgs), Message("reply", 0, NoRequest))
      BY <2>1, <2>11, <3>1, OwnReplyAppends DEF ProcessStart
    <3>3. Completes(tasks) \/ Suspends(tasks, "OnStart", NoRequest)
      BY <2>11 DEF ProcessStart
    <3> QED
      BY <1>1, <2>1, <2>7, <2>8, <2>9, <3>1, <3>2, <3>3, KeptByCoroutine
  <2>12. CASE ProcessStop
    <3>1. msgs # << >> /\ Head(msgs).type = "stop" /\ msgs' = Tail(msgs)
      BY <2>12 DEF ProcessStop, Pop, Takes
    <3>2. Completes(tasks) \/ Suspends(tasks, "OnStop", NoRequest)
      BY <2>12 DEF ProcessStop
    <3> QED
      BY <1>1, <2>1, <2>7, <2>8, <2>9, <3>1, <3>2, KeptByCoroutine
  <2>13. CASE ProcessExit
    BY <2>10, <2>13 DEF ProcessExit, Pop, Takes
  <2>14. CASE ProcessReply
    <3> DEFINE j == Head(msgs).session
    <3>1. msgs # << >> /\ Head(msgs).type = "reply" /\ j \in Sessions
      BY <2>14 DEF ProcessReply, Takes, Waiting
    <3>2. msgs' = Tail(msgs) \/ msgs' = Append(Tail(msgs), Message("reply", 0, NoRequest))
      BY <2>1, <2>14, <3>1, OwnReplyAppends DEF ProcessReply
    <3>3. Completes(Without(j)) \/ Suspends(Without(j), tasks[j].role, tasks[j].request)
      BY <2>14 DEF ProcessReply
    <3>4. /\ Without(j) \in [Sessions -> TaskType] /\ tasks[j].role \in Roles
          /\ tasks[j].request \in Requests \cup {NoRequest}
          /\ Without(j)[i] = tasks[i] \/ Without(j)[i] = NoTask
      BY <2>1, <3>1, WithoutTyped, TaskFields
    <3>5. Shifted(1, Message("reply", 0, NoRequest)) /\ msgs[1].type # "timeout"
      BY <2>7, <2>8, <3>1, <3>2
    <3> HIDE DEF j
    <3> QED
      BY <1>1, <2>1, <3>3, <3>4, <3>5, KeptByCoroutine
  <2>15. CASE ProcessTimeout
    <3> DEFINE j == Head(msgs).session
    <3>1. /\ msgs # << >>
          /\ msgs' = Tail(msgs) \/ msgs' = Append(Tail(msgs), Message("exit", 0, NoRequest))
      BY <2>15 DEF ProcessTimeout, Takes
    <3>2. Shifted(1, Message("exit", 0, NoRequest)) /\ j = msgs[1].session
      BY <2>7, <2>8, <3>1
    <3>3. CASE ~Waiting(j) /\ Completes(tasks)
      <4>1. j = i => tasks[i] = NoTask
        BY <3>3 DEF Waiting
      <4> QED
        BY <1>1, <2>1, <2>9, <3>2, <3>3, <4>1, KeptByCoroutine
    <3>4. CASE /\ j \in Sessions
               /\ Completes(Without(j)) \/ Suspends(Without(j), tasks[j].role, tasks[j].request)
      <4>1. /\ Without(j) \in [Sessions -> TaskType] /\ tasks[j].role \in Roles
            /\ tasks[j].request \in Requests \cup {NoRequest}
            /\ Without(j)[i] = tasks[i] \/ Without(j)[i] = NoTask
            /\ j = i => Without(j)[i] = NoTask
        BY <2>1, <3>4, WithoutTyped, TaskFields
      <4> HIDE DEF j
      <4> QED
        BY <1>1, <2>1, <3>2, <3>4, <4>1, KeptByCoroutine
    <3> QED
      BY <2>15, <3>3, <3>4 DEF ProcessTimeout, Waiting
  <2>16. CASE ProcessRequest
    <3> DEFINE q == Head(msgs).request
    <3>1. /\ msgs # << >> /\ Head(msgs).type = "request" /\ msgs' = Tail(msgs)
          /\ q \in Requests \cup {NoRequest}
      BY <2>1, <2>16, HeadTyped DEF ProcessRequest, Pop, Takes
    <3>2. Completes(tasks) \/ Suspends(tasks, "OnMsg", q)
      BY <2>16 DEF ProcessRequest
    <3> QED
      BY <1>1, <2>1, <2>7, <2>8, <2>9, <3>1, <3>2, KeptByCoroutine
  <2>17. CASE DropMsg
    BY <2>10, <2>17 DEF DropMsg, Drop, Pop, Takes
  <2> QED
    BY <1>1, <2>3, <2>4, <2>5, <2>6, <2>11, <2>12, <2>13, <2>14, <2>15, <2>16, <2>17
       DEF Next, ProcessMsg
<1>2. IInv /\ [Next]_vars =>
        [Open(stage) /\ Open(stage') =>
           \A i \in Sessions : Covered(i) => Covered(i)']_vars
  BY <1>1
<1> QED
  BY Inductive, <1>2, PTL DEF Spec, TimeoutKept
=============================================================================
