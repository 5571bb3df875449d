---------------------------- MODULE DBServiceProofs ----------------------------
(***************************************************************************)
(* Proofs about DBService, for any number of clients, calls, versions and  *)
(* faults.                                                                 *)
(***************************************************************************)
EXTENDS DBService, FiniteSetTheorems, TLAPS

\* A coroutine and its request belong together: a request in the mailbox of
\* SqlService is the one its session is awaited for, unless that timed out.
RequestsMatch ==
  \A n \in 1..Len(sqlq) : call[sqlq[n].id] \in {NoCall, sqlq[n].req}

\* A write-back that is awaited was sent for a newer row, and replaces a version
\* that the database had by then.
UpdatesForward ==
  \A i \in Calls : call[i].op = "update" =>
    0 < call[i].old /\ call[i].old <= sql /\ call[i].old < call[i].new

\* What an answer in the mailbox of DBService says of the database still holds
\* when it is read: a version that was found or written is not ahead of it, and
\* a version that did not match is behind it.
Truthful(c, answer, version) ==
  /\ c.op = "query" => answer <= version
  /\ c.op = "update" /\ answer = 1 => c.new <= version
  /\ c.op = "update" /\ answer = 0 => c.old < version

AnswersTruthful == \A n \in 1..Len(mail) : Truthful(call[mail[n].id], mail[n].answer, sql)

\* A cached row was loaded, so a version of it is known.
CachedKnown == cached => 0 < known

IInv ==
  /\ TypeOK /\ OneWriteBack /\ NeverAhead
  /\ RequestsMatch /\ UpdatesForward /\ AnswersTruthful /\ CachedKnown

(***************************************************************************)
(* Lemmas about calls and the operators of the model.                      *)
(***************************************************************************)

\* What the type of a call says of its fields.
LEMMA CallFields ==
  ASSUME NEW c \in CallType
  PROVE  /\ c.op \in {"none", "insert", "query", "update"}
         /\ c.op = "none" <=> c = NoCall
         /\ c.op = "query" => c.client \in Clients
         /\ c.op = "update" => c.old \in Versions /\ c.new \in Versions
BY DEF CallType, NoCall, Insert, Query, Update

\* A session that nobody awaits is not that of a write-back.
LEMMA NoCallIs == NoCall.op # "update"
BY DEF NoCall

\* Versions are natural numbers.
LEMMA VersionsNat == \A v \in Versions : v \in Nat
BY DBAssumption DEF Versions

\* CallSql takes a free session: nobody awaits it, and no message has it.
LEMMA CallSqlEffect ==
  ASSUME NEW c, CallSql(c)
  PROVE  \E i \in Calls :
           /\ call[i] = NoCall /\ i \notin Ids(sqlq) /\ i \notin Ids(mail)
           /\ call' = [call EXCEPT ![i] = c]
           /\ sqlq' = Append(sqlq, [id |-> i, req |-> c])
<1> DEFINE i == CHOOSE j \in Free : TRUE
<1>1. i \in Free
  BY DEF CallSql
<1> QED
  BY <1>1 DEF CallSql, Free

Updating(f) == {i \in Calls : f[i].op = "update"}

\* How the number of write-backs in progress follows one change of call.
LEMMA UpdatingExcept ==
  ASSUME NEW f \in [Calls -> CallType], NEW i \in Calls, NEW c
  PROVE  LET g == [f EXCEPT ![i] = c] IN
         /\ Cardinality(Updating(f)) \in Nat
         /\ c.op = "update" /\ f[i].op = "update"
              => Cardinality(Updating(g)) = Cardinality(Updating(f))
         /\ c.op = "update" /\ f[i].op # "update"
              => Cardinality(Updating(g)) = Cardinality(Updating(f)) + 1
         /\ c.op # "update" /\ f[i].op = "update"
              => /\ Cardinality(Updating(g)) = Cardinality(Updating(f)) - 1
                 /\ Cardinality(Updating(f)) > 0
         /\ c.op # "update" /\ f[i].op # "update"
              => Cardinality(Updating(g)) = Cardinality(Updating(f))
<1> DEFINE g == [f EXCEPT ![i] = c]
<1>1. IsFiniteSet(Calls)
  BY DBAssumption, FS_Interval DEF Calls
<1>2. IsFiniteSet(Updating(f)) /\ Cardinality(Updating(f)) \in Nat
  BY <1>1, FS_Subset, FS_CardinalityType DEF Updating
<1>3. CASE c.op = "update"
  <2>1. Updating(g) = Updating(f) \cup {i}
    BY <1>3 DEF Updating
  <2> QED
    BY <1>2, <1>3, <2>1, FS_AddElement DEF Updating
<1>4. CASE c.op # "update"
  <2>1. Updating(g) = Updating(f) \ {i}
    BY <1>4 DEF Updating
  <2>2. i \in Updating(f) => Cardinality(Updating(f)) # 0
    BY <1>2, FS_EmptySet
  <2> QED
    <3>1. Cardinality(Updating(g)) = IF i \in Updating(f) THEN Cardinality(Updating(f)) - 1
                                     ELSE Cardinality(Updating(f))
      BY <1>2, <2>1, FS_RemoveElement
    <3>2. i \in Updating(f) <=> f[i].op = "update"
      BY DEF Updating
    <3>3. Cardinality(Updating(f)) \in Nat
      BY <1>2
    <3>4. CASE f[i].op = "update"
      BY <1>4, <2>2, <3>1, <3>2, <3>3, <3>4
    <3>5. CASE f[i].op # "update"
      BY <1>4, <3>1, <3>2, <3>3, <3>5
    <3> QED
      BY <3>4, <3>5
<1> QED
  BY <1>3, <1>4

\* WriteBacks is a number, and the timer is armed for cached rows only.
LEMMA WriteBacksNat ==
  ASSUME TypeOK
  PROVE  /\ WriteBacks = armed + Cardinality(Updating(call))
         /\ Cardinality(Updating(call)) \in Nat /\ armed \in Nat
<1>1. IsFiniteSet(Calls)
  BY DBAssumption, FS_Interval DEF Calls
<1>2. Cardinality(Updating(call)) \in Nat
  BY <1>1, FS_Subset, FS_CardinalityType DEF Updating
<1> QED
  BY <1>2 DEF WriteBacks, Updating, TypeOK

\* A timer runs only for a row in the cache.
LEMMA ArmedCached ==
  ASSUME TypeOK, OneWriteBack, armed > 0
  PROVE  cached
<1>1. WriteBacks = 1
  BY WriteBacksNat DEF OneWriteBack
<1> QED
  BY <1>1 DEF OneWriteBack

\* The ids of a mailbox, by position.
LEMMA IdsAt ==
  ASSUME NEW q, NEW n \in 1..Len(q)
  PROVE  q[n].id \in Ids(q)
BY DEF Ids

\* Appending to a mailbox and taking its head, by position.
LEMMA AppendAt ==
  ASSUME NEW S, NEW q \in Seq(S), NEW x \in S
  PROVE  /\ Append(q, x) \in Seq(S)
         /\ \A n \in 1..Len(Append(q, x)) :
              \/ n \in 1..Len(q) /\ Append(q, x)[n] = q[n]
              \/ Append(q, x)[n] = x
OBVIOUS

\* A mailbox without its first message, by position.
LEMMA TailAt ==
  ASSUME NEW S, NEW q \in Seq(S), q # << >>
  PROVE  /\ Tail(q) \in Seq(S) /\ Head(q) \in S
         /\ 1 \in 1..Len(q) /\ Head(q) = q[1]
         /\ \A n \in 1..Len(Tail(q)) : n + 1 \in 1..Len(q) /\ Tail(q)[n] = q[n + 1]
OBVIOUS

\* The messages of the two mailboxes are of their types.
LEMMA MailAt ==
  ASSUME TypeOK, NEW n \in 1..Len(mail)
  PROVE  /\ mail[n].id \in Calls /\ mail[n].answer \in Versions
         /\ call[mail[n].id] \in CallType
<1> DEFINE S == [id : Calls, answer : Versions]
<1>1. mail \in Seq(S)
  BY DEF TypeOK
<1> HIDE DEF S
<1>2. mail[n] \in S
  BY <1>1
<1>3. mail[n].id \in Calls /\ mail[n].answer \in Versions
  BY <1>2 DEF S
<1> QED
  BY <1>3 DEF TypeOK

\* A request in the mailbox of SqlService, and its call, have their types.
LEMMA RequestAt ==
  ASSUME TypeOK, NEW n \in 1..Len(sqlq)
  PROVE  /\ sqlq[n].id \in Calls /\ sqlq[n].req \in CallType \ {NoCall}
         /\ call[sqlq[n].id] \in CallType
<1> DEFINE S == [id : Calls, req : CallType \ {NoCall}]
<1>1. sqlq \in Seq(S)
  BY DEF TypeOK
<1> HIDE DEF S
<1>2. sqlq[n] \in S
  BY <1>1
<1>3. sqlq[n].id \in Calls /\ sqlq[n].req \in CallType \ {NoCall}
  BY <1>2 DEF S
<1> QED
  BY <1>3 DEF TypeOK

\* The next message of each of them.
LEMMA MailHead ==
  ASSUME TypeOK, mail # << >>
  PROVE  /\ 1 \in 1..Len(mail) /\ Head(mail) = mail[1]
         /\ Head(mail).id \in Calls /\ Head(mail).answer \in Versions
         /\ call[Head(mail).id] \in CallType
         /\ Tail(mail) \in Seq([id : Calls, answer : Versions])
         /\ \A n \in 1..Len(Tail(mail)) :
              n + 1 \in 1..Len(mail) /\ Tail(mail)[n] = mail[n + 1]
<1> DEFINE S == [id : Calls, answer : Versions]
<1>1. mail \in Seq(S)
  BY DEF TypeOK
<1> HIDE DEF S
<1>2. /\ 1 \in 1..Len(mail) /\ Head(mail) = mail[1] /\ Tail(mail) \in Seq(S)
      /\ \A n \in 1..Len(Tail(mail)) :
           n + 1 \in 1..Len(mail) /\ Tail(mail)[n] = mail[n + 1]
  BY <1>1, TailAt
<1>3. /\ Head(mail).id \in Calls /\ Head(mail).answer \in Versions
      /\ call[Head(mail).id] \in CallType
  BY <1>2, MailAt
<1> QED
  BY <1>2, <1>3 DEF S

\* The first request in the mailbox of SqlService, and the rest.
LEMMA RequestHead ==
  ASSUME TypeOK, sqlq # << >>
  PROVE  /\ 1 \in 1..Len(sqlq) /\ Head(sqlq) = sqlq[1]
         /\ Head(sqlq).id \in Calls /\ Head(sqlq).req \in CallType \ {NoCall}
         /\ call[Head(sqlq).id] \in CallType
         /\ Tail(sqlq) \in Seq([id : Calls, req : CallType \ {NoCall}])
         /\ \A n \in 1..Len(Tail(sqlq)) :
              n + 1 \in 1..Len(sqlq) /\ Tail(sqlq)[n] = sqlq[n + 1]
<1> DEFINE S == [id : Calls, req : CallType \ {NoCall}]
<1>1. sqlq \in Seq(S)
  BY DEF TypeOK
<1> HIDE DEF S
<1>2. /\ 1 \in 1..Len(sqlq) /\ Head(sqlq) = sqlq[1] /\ Tail(sqlq) \in Seq(S)
      /\ \A n \in 1..Len(Tail(sqlq)) :
           n + 1 \in 1..Len(sqlq) /\ Tail(sqlq)[n] = sqlq[n + 1]
  BY <1>1, TailAt
<1>3. /\ Head(sqlq).id \in Calls /\ Head(sqlq).req \in CallType \ {NoCall}
      /\ call[Head(sqlq).id] \in CallType
  BY <1>2, RequestAt
<1> QED
  BY <1>2, <1>3 DEF S

(***************************************************************************)
(* The initial state.                                                      *)
(***************************************************************************)

\* The inductive invariant holds initially.
LEMMA InitIInv == Init => IInv
<1> SUFFICES ASSUME Init PROVE IInv
  OBVIOUS
<1> USE DBAssumption DEF Init
<1>1. TypeOK
  <2>1. call \in [Calls -> CallType]
    BY DEF CallType
  <2>2. own \in [Clients -> Versions] /\ sql \in Versions /\ row \in Versions
    BY DEF Versions
  <2>3. known \in Versions /\ faults \in 0..MaxFaults
    BY DEF Versions
  <2>4. cached \in BOOLEAN /\ up \in BOOLEAN /\ armed \in Nat
    OBVIOUS
  <2>5. /\ sqlq \in Seq([id : Calls, req : CallType \ {NoCall}])
        /\ mail \in Seq([id : Calls, answer : Versions])
    OBVIOUS
  <2> QED
    BY <2>1, <2>2, <2>3, <2>4, <2>5 DEF TypeOK
<1>2. Cardinality(Updating(call)) = 0
  <2>1. Updating(call) = {}
    BY DEF Updating, NoCall
  <2> QED
    BY <2>1, FS_EmptySet
<1>3. OneWriteBack
  BY <1>2 DEF OneWriteBack, WriteBacks, Updating
<1>4. NeverAhead /\ RequestsMatch /\ UpdatesForward /\ AnswersTruthful /\ CachedKnown
  BY DEF NeverAhead, RequestsMatch, UpdatesForward, AnswersTruthful, CachedKnown, NoCall
<1> QED
  BY <1>1, <1>3, <1>4 DEF IInv

(***************************************************************************)
(* Type correctness.                                                       *)
(***************************************************************************)

\* A call to SqlService keeps the types.
LEMMA CallSqlTypes ==
  ASSUME TypeOK, NEW c \in CallType \ {NoCall}, CallSql(c)
  PROVE  /\ call' \in [Calls -> CallType]
         /\ sqlq' \in Seq([id : Calls, req : CallType \ {NoCall}])
<1>1. PICK i \in Calls : /\ call' = [call EXCEPT ![i] = c]
                         /\ sqlq' = Append(sqlq, [id |-> i, req |-> c])
  BY CallSqlEffect
<1>2. [id |-> i, req |-> c] \in [id : Calls, req : CallType \ {NoCall}]
  OBVIOUS
<1> QED
  BY <1>1, <1>2 DEF TypeOK

\* Every step preserves the types.
LEMMA TypeStep ==
  ASSUME TypeOK, [Next]_vars
  PROVE  TypeOK'
<1> USE DBAssumption DEF TypeOK
<1>1. ASSUME NEW c \in Clients, DBRowCreate(c)
      PROVE  TypeOK'
  <2>1. Insert \in CallType \ {NoCall}
    BY DEF CallType, Insert, NoCall
  <2> QED
    BY <1>1, <2>1, CallSqlTypes DEF DBRowCreate
<1>2. ASSUME NEW c \in Clients, QueryCached(c)
      PROVE  TypeOK'
  BY <1>2 DEF QueryCached
<1>3. ASSUME NEW c \in Clients, QueryRemote(c)
      PROVE  TypeOK'
  <2>1. Query(c) \in CallType \ {NoCall}
    BY DEF CallType, Query, NoCall
  <2> QED
    BY <1>3, <2>1, CallSqlTypes DEF QueryRemote
<1>4. ASSUME NEW c \in Clients, DBRowUpdate(c)
      PROVE  TypeOK'
  <2>1. own[c] + 1 \in Versions
    BY <1>4 DEF DBRowUpdate, Versions
  <2> QED
    BY <1>4, <2>1 DEF DBRowUpdate
<1>5. ASSUME sqlq # << >>
      PROVE  /\ Head(sqlq).id \in Calls /\ Head(sqlq).req \in CallType
             /\ Tail(sqlq) \in Seq([id : Calls, req : CallType \ {NoCall}])
  BY <1>5, RequestHead
<1>6. ASSUME NEW a \in Versions, sqlq # << >>, Answer(a)
      PROVE  mail' \in Seq([id : Calls, answer : Versions])
  <2>1. [id |-> Head(sqlq).id, answer |-> a] \in [id : Calls, answer : Versions]
    BY <1>5, <1>6
  <2> QED
    BY <1>6, <2>1, AppendAt DEF Answer
<1>7. 0 \in Versions /\ 1 \in Versions
  BY DEF Versions
<1>8. CASE SqlQuery
  BY <1>8, <1>5, <1>6 DEF SqlQuery, TakeRequest
<1>9. CASE SqlInsert
  BY <1>9, <1>5, <1>6, <1>7 DEF SqlInsert, TakeRequest
<1>10. CASE SqlUpdate
  <2>1. Head(sqlq).req.new \in Versions
    BY <1>10, <1>5, CallFields DEF SqlUpdate, TakeRequest
  <2> QED
    BY <1>10, <1>5, <1>6, <1>7, <2>1 DEF SqlUpdate, TakeRequest
<1>11. CASE SqlFails
  BY <1>11, <1>5 DEF SqlFails
<1>12. CASE DBRowTickSync
  <2>1. Update(known, row) \in CallType \ {NoCall}
    BY DEF CallType, Update, NoCall
  <2>2. CallSql(Update(known, row))
    BY <1>12 DEF DBRowTickSync
  <2>3. /\ call' \in [Calls -> CallType]
        /\ sqlq' \in Seq([id : Calls, req : CallType \ {NoCall}])
    BY <2>1, <2>2, CallSqlTypes
  <2>4. armed' \in Nat
    BY <1>12 DEF DBRowTickSync
  <2> QED
    BY <1>12, <2>3, <2>4 DEF DBRowTickSync
<1>13. NoCall \in CallType
  BY DEF CallType
<1>14. ASSUME mail # << >>
       PROVE  /\ Head(mail).id \in Calls /\ Head(mail).answer \in Versions
              /\ Tail(mail) \in Seq([id : Calls, answer : Versions])
              /\ call[Head(mail).id] \in CallType
  BY <1>14, MailHead
<1>15. ASSUME NEW op, TakeAnswer(op)
       PROVE  /\ mail # << >> /\ mail' \in Seq([id : Calls, answer : Versions])
              /\ call' \in [Calls -> CallType]
              /\ UNCHANGED <<sql, sqlq, up, faults>>
  BY <1>13, <1>14, <1>15 DEF TakeAnswer
<1>16. CASE LateAnswer
  BY <1>15, <1>16 DEF LateAnswer
<1>17. CASE CreateAnswered
  BY <1>15, <1>17 DEF CreateAnswered
<1>18. CASE QueryAnswered
  <2>1. TakeAnswer("query")
    BY <1>18 DEF QueryAnswered
  <2>2. call[Head(mail).id].client \in Clients
    BY <2>1, <1>14, CallFields DEF TakeAnswer
  <2>3. Head(mail).answer \in Versions
    BY <2>1, <1>14 DEF TakeAnswer
  <2>4. CASE UNCHANGED <<cached, row, known, armed, own>>
    BY <1>15, <2>1, <2>4
  <2>5. CASE /\ LocalCacheDBRow(Head(mail).answer)
             /\ own' = [own EXCEPT ![call[Head(mail).id].client] = Head(mail).answer]
    <3>1. cached' \in BOOLEAN /\ armed' \in Nat
      BY <2>5 DEF LocalCacheDBRow
    <3>2. row' \in Versions /\ known' \in Versions /\ own' \in [Clients -> Versions]
      BY <2>2, <2>3, <2>5 DEF LocalCacheDBRow
    <3> QED
      BY <1>15, <2>1, <3>1, <3>2
  <2> QED
    BY <1>18, <2>4, <2>5 DEF QueryAnswered
<1>19. CASE TickSyncAnswered
  <2>1. TakeAnswer("update")
    BY <1>19 DEF TickSyncAnswered
  <2>2. call[Head(mail).id].new \in Versions
    BY <2>1, <1>14, CallFields DEF TakeAnswer
  <2> QED
    BY <1>15, <1>19, <2>1, <2>2 DEF TickSyncAnswered
<1>20. ASSUME NEW i \in Calls, EarlyTimeout(i) \/ LastTimeout(i)
       PROVE  TypeOK'
  <2>1. /\ TimedOut(i) /\ UNCHANGED <<sql, sqlq, mail, cached, row, known, own>>
        /\ faults' \in 0..MaxFaults
    BY <1>20 DEF EarlyTimeout, LastTimeout
  <2>2. call' \in [Calls -> CallType]
    BY <1>13, <2>1 DEF TimedOut
  <2>3. armed' \in Nat
    <3>1. armed' = armed + 1 \/ armed' = armed
      BY <2>1, Zenon DEF TimedOut
    <3> QED
      BY <3>1
  <2>4. up' \in BOOLEAN
    BY <2>1 DEF TimedOut
  <2> QED
    BY <2>1, <2>2, <2>3, <2>4
<1>21. CASE UNCHANGED vars
  BY <1>21 DEF vars
<1> QED
  BY <1>1, <1>2, <1>3, <1>4, <1>8, <1>9, <1>10, <1>11, <1>12, <1>16, <1>17, <1>18,
     <1>19, <1>20, <1>21 DEF Next, SqlStep, Answered

(***************************************************************************)
(* Requests and answers on their way.                                      *)
(***************************************************************************)

MessagesInv == RequestsMatch /\ UpdatesForward /\ AnswersTruthful

\* DBService sends a request.
LEMMA RequestSent ==
  ASSUME TypeOK, MessagesInv, NEW c \in CallType \ {NoCall}, CallSql(c),
         UNCHANGED <<sql, mail>>,
         c.op = "update" => 0 < c.old /\ c.old <= sql /\ c.old < c.new
  PROVE  MessagesInv'
<1> USE DEF TypeOK, MessagesInv
<1>1. PICK i \in Calls :
        /\ call[i] = NoCall /\ i \notin Ids(sqlq) /\ i \notin Ids(mail)
        /\ call' = [call EXCEPT ![i] = c]
        /\ sqlq' = Append(sqlq, [id |-> i, req |-> c])
  BY CallSqlEffect
<1>2. RequestsMatch'
  <2> SUFFICES ASSUME NEW n \in 1..Len(sqlq')
               PROVE  call'[sqlq'[n].id] \in {NoCall, sqlq'[n].req}
    BY DEF RequestsMatch
  <2>1. [id |-> i, req |-> c] \in [id : Calls, req : CallType \ {NoCall}]
    OBVIOUS
  <2>2. CASE n \in 1..Len(sqlq) /\ sqlq'[n] = sqlq[n]
    <3>1. sqlq[n].id # i /\ sqlq[n].id \in Calls
      BY <1>1, <2>2, IdsAt, RequestAt
    <3> QED
      BY <1>1, <2>2, <3>1 DEF RequestsMatch
  <2>3. CASE sqlq'[n] = [id |-> i, req |-> c]
    BY <1>1, <2>3
  <2> QED
    BY <1>1, <2>1, <2>2, <2>3, AppendAt
<1>3. UpdatesForward'
  BY <1>1 DEF UpdatesForward
<1>4. AnswersTruthful'
  <2> SUFFICES ASSUME NEW n \in 1..Len(mail)
               PROVE  Truthful(call'[mail'[n].id], mail'[n].answer, sql')
    BY DEF AnswersTruthful
  <2>1. mail[n].id # i /\ mail[n].id \in Calls
    BY <1>1, IdsAt, MailAt
  <2> QED
    BY <1>1, <2>1 DEF AnswersTruthful, Truthful
<1> QED
  BY <1>2, <1>3, <1>4

\* A coroutine of DBService goes on, with the next answer or by a timeout.
LEMMA CallEnds ==
  ASSUME TypeOK, MessagesInv, NEW i \in Calls,
         call' = [call EXCEPT ![i] = NoCall],
         UNCHANGED <<sql, sqlq>>,
         mail' = mail \/ (mail # << >> /\ mail' = Tail(mail))
  PROVE  MessagesInv'
<1> USE DEF TypeOK, MessagesInv
<1>1. RequestsMatch'
  BY DEF RequestsMatch
<1>2. UpdatesForward'
  BY DEF UpdatesForward, NoCall
<1>3. AnswersTruthful'
  <2> SUFFICES ASSUME NEW n \in 1..Len(mail')
               PROVE  Truthful(call'[mail'[n].id], mail'[n].answer, sql')
    BY DEF AnswersTruthful
  <2>1. PICK m \in 1..Len(mail) : mail'[n] = mail[m]
    BY MailHead
  <2>2. mail[m].id \in Calls
    BY MailAt
  <2> QED
    BY <2>1, <2>2 DEF AnswersTruthful, Truthful, NoCall
<1> QED
  BY <1>1, <1>2, <1>3

\* SqlService takes a request.  The version in the database does not go back,
\* and the answer, if there is one, is true of the request.
LEMMA RequestServed ==
  ASSUME TypeOK, TypeOK', MessagesInv, sqlq # << >>, sqlq' = Tail(sqlq), UNCHANGED call,
         sql' >= sql,
         \/ mail' = mail
         \/ \E a \in Versions : Answer(a) /\ Truthful(call[Head(sqlq).id], a, sql')
  PROVE  MessagesInv'
<1> USE DEF TypeOK, MessagesInv
<1>1. RequestsMatch'
  BY RequestHead DEF RequestsMatch
<1>2. UpdatesForward'
  <2> SUFFICES ASSUME NEW i \in Calls, call[i].op = "update"
               PROVE  call[i].old <= sql'
    BY DEF UpdatesForward
  <2>1. call[i].old \in Versions /\ call[i].old <= sql
    BY CallFields DEF UpdatesForward
  <2>2. call[i].old \in Nat /\ sql \in Nat /\ sql' \in Nat
    BY <2>1, VersionsNat
  <2> HIDE DEF TypeOK, MessagesInv
  <2> QED
    BY <2>1, <2>2
<1>3. ASSUME NEW c \in CallType, NEW a \in Versions, Truthful(c, a, sql)
      PROVE  Truthful(c, a, sql')
  <2>1. sql \in Nat /\ sql' \in Nat /\ a \in Nat
    BY VersionsNat
  <2>2. c.op = "update" => c.old \in Nat /\ c.new \in Nat
    BY CallFields, VersionsNat
  <2> HIDE DEF TypeOK, MessagesInv
  <2> QED
    BY <1>3, <2>1, <2>2 DEF Truthful
<1>4. AnswersTruthful'
  <2> SUFFICES ASSUME NEW n \in 1..Len(mail')
               PROVE  Truthful(call'[mail'[n].id], mail'[n].answer, sql')
    BY DEF AnswersTruthful
  <2>1. CASE n \in 1..Len(mail) /\ mail'[n] = mail[n]
    <3>1. call[mail[n].id] \in CallType /\ mail[n].answer \in Versions
      BY <2>1, MailAt
    <3>2. Truthful(call[mail[n].id], mail[n].answer, sql)
      BY <2>1 DEF AnswersTruthful
    <3> QED
      BY <1>3, <2>1, <3>1, <3>2
  <2>2. CASE \E a \in Versions : /\ mail'[n] = [id |-> Head(sqlq).id, answer |-> a]
                                 /\ Truthful(call[Head(sqlq).id], a, sql')
    BY <2>2
  <2>3. \/ mail' = mail
        \/ \E a \in Versions :
             /\ mail' = Append(mail, [id |-> Head(sqlq).id, answer |-> a])
             /\ Truthful(call[Head(sqlq).id], a, sql')
    BY DEF Answer
  <2>4. Head(sqlq).id \in Calls
    BY RequestHead
  <2>5. CASE mail' = mail
    BY <2>1, <2>5
  <2>6. ASSUME NEW a \in Versions,
               mail' = Append(mail, [id |-> Head(sqlq).id, answer |-> a]),
               Truthful(call[Head(sqlq).id], a, sql')
        PROVE  Truthful(call'[mail'[n].id], mail'[n].answer, sql')
    <3> DEFINE S == [id : Calls, answer : Versions]
               x == [id |-> Head(sqlq).id, answer |-> a]
    <3>1. mail \in Seq(S) /\ x \in S
      BY <2>4
    <3> HIDE DEF S, x
    <3>2. n \in 1..Len(Append(mail, x))
      BY <2>6 DEF x
    <3>3. (n \in 1..Len(mail) /\ Append(mail, x)[n] = mail[n]) \/ Append(mail, x)[n] = x
      BY <3>1, <3>2, AppendAt
    <3> QED
      BY <2>1, <2>2, <2>6, <3>3 DEF x
  <2> QED
    BY <2>3, <2>5, <2>6
<1> QED
  BY <1>1, <1>2, <1>4
\* Every step keeps requests, answers and coroutines in line.
LEMMA MessagesStep ==
  ASSUME IInv, TypeOK', [Next]_vars
  PROVE  MessagesInv'
<1> USE DBAssumption DEF TypeOK
<1>1. TypeOK /\ MessagesInv
  BY DEF IInv, MessagesInv
<1>2. ASSUME UNCHANGED <<sql, sqlq, mail, call>>
      PROVE  MessagesInv'
  BY <1>1, <1>2 DEF MessagesInv, RequestsMatch, UpdatesForward, AnswersTruthful
<1>3. ASSUME NEW c \in Clients, DBRowCreate(c)
      PROVE  MessagesInv'
  <2>1. Insert \in CallType \ {NoCall} /\ Insert.op # "update"
    BY DEF CallType, Insert, NoCall
  <2> QED
    BY <1>1, <1>3, <2>1, RequestSent DEF DBRowCreate
<1>4. ASSUME NEW c \in Clients, QueryCached(c)
      PROVE  MessagesInv'
  BY <1>2, <1>4 DEF QueryCached
<1>5. ASSUME NEW c \in Clients, QueryRemote(c)
      PROVE  MessagesInv'
  <2>1. Query(c) \in CallType \ {NoCall} /\ Query(c).op # "update"
    BY DEF CallType, Query, NoCall
  <2> QED
    BY <1>1, <1>5, <2>1, RequestSent DEF QueryRemote
<1>6. ASSUME NEW c \in Clients, DBRowUpdate(c)
      PROVE  MessagesInv'
  BY <1>2, <1>6 DEF DBRowUpdate
<1>7. ASSUME sqlq # << >>
      PROVE  call[Head(sqlq).id] \in {NoCall, Head(sqlq).req}
  BY <1>1, <1>7, RequestHead DEF MessagesInv, RequestsMatch
<1>8. CASE SqlQuery
  <2>1. Truthful(call[Head(sqlq).id], sql, sql)
    BY <1>7, <1>8 DEF SqlQuery, TakeRequest, Truthful, NoCall, Versions
  <2>2. /\ sqlq # << >> /\ sqlq' = Tail(sqlq) /\ UNCHANGED call
        /\ Answer(sql) /\ sql' = sql
    BY <1>8 DEF SqlQuery, TakeRequest
  <2>3. sql' >= sql
    BY <2>2 DEF Versions
  <2> QED
    BY <1>1, <2>1, <2>2, <2>3, RequestServed
<1>9. CASE SqlInsert
  <2>1. sqlq # << >> /\ sqlq' = Tail(sqlq) /\ UNCHANGED call
    BY <1>9 DEF SqlInsert, TakeRequest
  <2>2. Truthful(call[Head(sqlq).id], 1, sql')
    BY <1>7, <1>9, <2>1 DEF SqlInsert, TakeRequest, Truthful, NoCall
  <2>3. sql' >= sql /\ 1 \in Versions
    BY <1>9 DEF SqlInsert, Versions
  <2>4. mail' = mail \/ Answer(1)
    BY <1>9 DEF SqlInsert
  <2> QED
    BY <1>1, <2>1, <2>2, <2>3, <2>4, RequestServed
<1>10. CASE SqlUpdate
  <2> DEFINE req == Head(sqlq).req
             c == call[Head(sqlq).id]
             matches == sql # 0 /\ sql = req.old /\ sql < req.new
  <2>1. /\ sqlq # << >> /\ sqlq' = Tail(sqlq) /\ UNCHANGED call /\ req.op = "update"
        /\ \/ matches /\ sql' = req.new /\ Answer(1)
           \/ ~matches /\ UNCHANGED sql /\ Answer(0)
    BY <1>10 DEF SqlUpdate, TakeRequest
  <2>2. req \in CallType /\ req.old \in Versions /\ req.new \in Versions
    BY <1>1, <2>1, RequestHead, CallFields
  <2>3. c \in {NoCall, req} /\ Head(sqlq).id \in Calls
    BY <1>1, <1>7, <2>1, RequestHead
  <2>4. 0 \in Versions /\ 1 \in Versions
    BY DEF Versions
  <2>5. CASE matches /\ sql' = req.new /\ Answer(1)
    <3>1. Truthful(c, 1, sql') /\ sql' >= sql
      <4>1. req.op = "update" /\ NoCall.op = "none"
        BY <2>1 DEF NoCall
      <4>2. req.new <= sql' /\ sql' >= sql
        BY <1>1, <2>2, <2>5, VersionsNat DEF TypeOK
      <4>3. c = NoCall \/ c = req
        BY <2>3
      <4> HIDE DEF c, req
      <4> QED
        BY <4>1, <4>2, <4>3 DEF Truthful
    <3> QED
      BY <1>1, <2>1, <2>4, <2>5, <3>1, RequestServed
  <2>6. CASE ~matches /\ UNCHANGED sql /\ Answer(0)
    <3>1. c.op = "update" => 0 < c.old /\ c.old <= sql /\ c.old < c.new
      BY <1>1, <2>3 DEF MessagesInv, UpdatesForward
    <3>2. c.op = "update" => c.old < sql
      <4>1. SUFFICES ASSUME c.op = "update" PROVE c.old < sql
        OBVIOUS
      <4>2. c = req
        BY <2>3, <4>1 DEF NoCall
      <4>3. sql = 0 \/ sql # c.old \/ ~(sql < c.new)
        BY <2>6, <4>2
      <4>4. c.old \in Nat /\ c.new \in Nat /\ sql \in Nat
        BY <1>1, <2>2, <4>2, VersionsNat
      <4>5. 0 < c.old /\ c.old <= sql /\ c.old < c.new
        BY <3>1, <4>1
      <4> HIDE DEF c
      <4> QED
        BY <4>3, <4>4, <4>5
    <3>3. c.op # "query" /\ sql' = sql /\ sql' >= sql
      BY <2>1, <2>3, <2>6 DEF NoCall, Versions
    <3>4. Truthful(c, 0, sql')
      BY <3>2, <3>3 DEF Truthful
    <3> QED
      BY <1>1, <2>1, <2>4, <2>6, <3>3, <3>4, RequestServed
  <2> QED
    BY <2>1, <2>5, <2>6
<1>11. CASE SqlFails
  <2>1. sql' >= sql
    BY <1>11 DEF SqlFails, Versions
  <2> QED
    BY <1>1, <1>11, <2>1, RequestServed DEF SqlFails
<1>12. CASE DBRowTickSync
  <2>1. Update(known, row) \in CallType \ {NoCall}
    <3>1. known \in Versions /\ row \in Versions
      BY <1>1
    <3> QED
      BY <3>1 DEF CallType, Update, NoCall
  <2>2. 0 < known /\ known <= sql
    BY <1>1, <1>12, ArmedCached DEF DBRowTickSync, IInv, NeverAhead, CachedKnown
  <2>3. known < row
    <3>1. row > known /\ row \in Versions /\ known \in Versions
      BY <1>12 DEF DBRowTickSync
    <3> QED
      BY <3>1 DEF Versions
  <2>4. CallSql(Update(known, row)) /\ UNCHANGED <<sql, mail>>
    BY <1>12 DEF DBRowTickSync
  <2> QED
    BY <1>1, <2>1, <2>2, <2>3, <2>4, RequestSent DEF Update
<1>13. ASSUME NEW op, TakeAnswer(op)
       PROVE  MessagesInv'
  BY <1>1, <1>13, MailHead, CallEnds DEF TakeAnswer
<1>14. CASE Answered
  BY <1>13, <1>14 DEF Answered, LateAnswer, CreateAnswered, QueryAnswered, TickSyncAnswered
<1>15. ASSUME NEW i \in Calls, EarlyTimeout(i) \/ LastTimeout(i)
       PROVE  MessagesInv'
  BY <1>1, <1>15, CallEnds DEF EarlyTimeout, LastTimeout, TimedOut
<1>16. CASE UNCHANGED vars
  BY <1>2, <1>16 DEF vars
<1> QED
  BY <1>3, <1>4, <1>5, <1>6, <1>8, <1>9, <1>10, <1>11, <1>12, <1>14, <1>15, <1>16
     DEF Next, SqlStep

(***************************************************************************)
(* The cached row and its write-back.                                      *)
(***************************************************************************)

\* What a step does to the write-backs.  They grow only when a row is cached
\* that was not, and shrink only when an answer says that the version did not
\* match.
WriteBackEffect ==
  \/ WriteBacks' = WriteBacks /\ cached' = cached
  \/ cached' /\ (IF cached THEN WriteBacks' = WriteBacks ELSE WriteBacks' = WriteBacks + 1)
  \/ /\ WriteBacks' = WriteBacks - 1 /\ cached' = cached
     /\ \E i \in Calls : /\ call[i].op = "update" /\ call'[i] = NoCall
                         /\ call[i].old < sql

\* Every step has such an effect.
LEMMA WriteBackStep ==
  ASSUME IInv, TypeOK', [Next]_vars
  PROVE  WriteBackEffect
<1> DEFINE N == Cardinality(Updating(call))
<1>1. /\ TypeOK /\ call \in [Calls -> CallType] /\ armed \in Nat /\ N \in Nat
      /\ WriteBacks = armed + N
  BY WriteBacksNat DEF IInv, TypeOK
<1>2. WriteBacks' = armed' + Cardinality(Updating(call'))
  BY DEF WriteBacks, Updating
<1>3. ASSUME UNCHANGED <<call, armed, cached>>
      PROVE  WriteBackEffect
  BY <1>1, <1>2, <1>3 DEF WriteBackEffect
<1>4. ASSUME NEW c, CallSql(c), c.op # "update", UNCHANGED <<armed, cached>>
      PROVE  WriteBackEffect
  <2>1. PICK i \in Calls : call[i] = NoCall /\ call' = [call EXCEPT ![i] = c]
    BY <1>4, CallSqlEffect
  <2>2. Cardinality(Updating(call')) = N
    <3>1. call[i].op # "update"
      BY <2>1 DEF NoCall
    <3> QED
      BY <1>1, <1>4, <2>1, <3>1, UpdatingExcept
  <2> QED
    BY <1>1, <1>2, <1>4, <2>2 DEF WriteBackEffect
<1>5. ASSUME NEW c \in Clients, DBRowCreate(c) \/ QueryRemote(c)
      PROVE  WriteBackEffect
  <2>1. Insert.op # "update" /\ Query(c).op # "update"
    BY DEF Insert, Query
  <2> QED
    BY <1>4, <1>5, <2>1 DEF DBRowCreate, QueryRemote
<1>6. ASSUME NEW c \in Clients, QueryCached(c) \/ DBRowUpdate(c)
      PROVE  WriteBackEffect
  BY <1>3, <1>6 DEF QueryCached, DBRowUpdate
<1>7. CASE SqlStep \/ SqlFails
  BY <1>3, <1>7 DEF SqlStep, SqlQuery, SqlInsert, SqlUpdate, TakeRequest, SqlFails
<1>8. CASE DBRowTickSync
  <2>1. PICK i \in Calls : /\ call[i] = NoCall
                           /\ call' = [call EXCEPT ![i] = Update(known, row)]
    BY <1>8, CallSqlEffect DEF DBRowTickSync
  <2>2. Cardinality(Updating(call')) = N + 1
    <3>1. call[i].op # "update" /\ Update(known, row).op = "update"
      BY <2>1 DEF NoCall, Update
    <3> QED
      BY <1>1, <2>1, <3>1, UpdatingExcept
  <2>3. armed' = armed - 1 /\ cached' = cached
    BY <1>8 DEF DBRowTickSync
  <2> QED
    BY <1>1, <1>2, <2>2, <2>3 DEF WriteBackEffect
<1>9. ASSUME NEW op, TakeAnswer(op)
      PROVE  /\ Head(mail).id \in Calls /\ call[Head(mail).id].op = op
             /\ call'[Head(mail).id] = NoCall
             /\ op # "update" => Cardinality(Updating(call')) = N
             /\ op = "update" => Cardinality(Updating(call')) = N - 1
  <2>1. /\ Head(mail).id \in Calls /\ call[Head(mail).id].op = op
        /\ call' = [call EXCEPT ![Head(mail).id] = NoCall]
    BY <1>1, <1>9, MailHead DEF TakeAnswer
  <2> QED
    BY <1>1, <2>1, NoCallIs, UpdatingExcept
<1>10. CASE LateAnswer \/ CreateAnswered
  <2>1. Cardinality(Updating(call')) = N /\ UNCHANGED <<cached, armed>>
    BY <1>9, <1>10 DEF LateAnswer, CreateAnswered
  <2> QED
    BY <1>1, <1>2, <2>1 DEF WriteBackEffect
<1>11. CASE QueryAnswered
  <2>1. Cardinality(Updating(call')) = N
    BY <1>9, <1>11 DEF QueryAnswered
  <2>2. CASE UNCHANGED <<cached, armed>>
    BY <1>1, <1>2, <2>1, <2>2 DEF WriteBackEffect
  <2>3. CASE LocalCacheDBRow(Head(mail).answer)
    <3>1. CASE cached
      BY <1>1, <1>2, <2>1, <2>3, <3>1 DEF WriteBackEffect, LocalCacheDBRow
    <3>2. CASE ~cached
      <4>1. cached' /\ armed' = armed + 1
        BY <2>3, <3>2 DEF LocalCacheDBRow
      <4>2. WriteBacks' = WriteBacks + 1
        BY <1>1, <1>2, <2>1, <4>1
      <4> QED
        BY <3>2, <4>1, <4>2 DEF WriteBackEffect
    <3> QED
      BY <3>1, <3>2
  <2> QED
    BY <1>11, <2>2, <2>3 DEF QueryAnswered
<1>12. CASE TickSyncAnswered
  <2> DEFINE i == Head(mail).id
  <2>1. /\ i \in Calls /\ call[i].op = "update" /\ call'[i] = NoCall
        /\ Cardinality(Updating(call')) = N - 1 /\ cached' = cached
    BY <1>9, <1>12 DEF TickSyncAnswered
  <2>2. CASE armed' = armed + 1
    BY <1>1, <1>2, <2>1, <2>2 DEF WriteBackEffect
  <2>3. CASE Head(mail).answer = 0 /\ UNCHANGED armed
    <3>1. mail # << >>
      BY <1>12 DEF TickSyncAnswered, TakeAnswer
    <3>2. Truthful(call[i], Head(mail).answer, sql)
      BY <1>1, <3>1, MailHead DEF IInv, AnswersTruthful
    <3>3. call[i].old < sql
      BY <2>1, <2>3, <3>2 DEF Truthful
    <3>4. WriteBacks' = WriteBacks - 1
      BY <1>1, <1>2, <2>1, <2>3
    <3> QED
      BY <2>1, <3>3, <3>4 DEF WriteBackEffect
  <2> QED
    BY <1>12, <2>2, <2>3 DEF TickSyncAnswered
<1>13. ASSUME NEW i \in Calls, EarlyTimeout(i) \/ LastTimeout(i)
       PROVE  WriteBackEffect
  <2>1. TimedOut(i) /\ cached' = cached
    BY <1>13 DEF EarlyTimeout, LastTimeout
  <2>2. call' = [call EXCEPT ![i] = NoCall]
    BY <2>1 DEF TimedOut
  <2>3. CASE call[i].op = "update"
    <3>1. armed' = armed + 1
      BY <2>1, <2>3 DEF TimedOut
    <3>2. Cardinality(Updating(call')) = N - 1
      BY <1>1, <2>2, <2>3, NoCallIs, UpdatingExcept
    <3> QED
      BY <1>1, <1>2, <2>1, <3>1, <3>2 DEF WriteBackEffect
  <2>4. CASE call[i].op # "update"
    <3>1. armed' = armed
      BY <2>1, <2>4 DEF TimedOut
    <3>2. Cardinality(Updating(call')) = N
      BY <1>1, <2>2, <2>4, NoCallIs, UpdatingExcept
    <3> QED
      BY <1>1, <1>2, <2>1, <3>1, <3>2 DEF WriteBackEffect
  <2> QED
    BY <2>3, <2>4
<1>14. CASE UNCHANGED vars
  BY <1>3, <1>14 DEF vars
<1> QED
  BY <1>5, <1>6, <1>7, <1>8, <1>10, <1>11, <1>12, <1>13, <1>14 DEF Next, Answered

\* The version in the database does not go back.
LEMMA SqlStepForward ==
  ASSUME TypeOK, [Next]_vars
  PROVE  sql' = sql \/ (sql' \in Versions /\ sql' > sql)
<1> USE DEF TypeOK
<1>1. CASE SqlInsert
  BY <1>1, DBAssumption DEF SqlInsert, Versions
<1>2. CASE SqlUpdate
  <2>1. sqlq # << >> /\ Head(sqlq).req.op = "update"
    BY <1>2 DEF SqlUpdate, TakeRequest
  <2>2. Head(sqlq).req.new \in Versions
    BY <2>1, RequestHead, CallFields
  <2> QED
    BY <1>2, <2>2, DBAssumption DEF SqlUpdate, Versions
<1>3. CASE UNCHANGED vars
  BY <1>3 DEF vars
<1>4. ASSUME NEW c \in Clients,
             DBRowCreate(c) \/ QueryCached(c) \/ QueryRemote(c) \/ DBRowUpdate(c)
      PROVE  sql' = sql
  BY <1>4 DEF DBRowCreate, QueryCached, QueryRemote, DBRowUpdate
<1>5. CASE SqlQuery \/ SqlFails \/ DBRowTickSync
  BY <1>5 DEF SqlQuery, SqlFails, DBRowTickSync
<1>6. CASE Answered
  BY <1>6 DEF Answered, LateAnswer, CreateAnswered, QueryAnswered, TickSyncAnswered, TakeAnswer
<1>7. ASSUME NEW i \in Calls, EarlyTimeout(i) \/ LastTimeout(i)
      PROVE  sql' = sql
  BY <1>7 DEF EarlyTimeout, LastTimeout
<1> QED
  BY <1>1, <1>2, <1>3, <1>4, <1>5, <1>6, <1>7 DEF Next, SqlStep

\* What DBService believes of the database stays true.
LEMMA KnownStep ==
  ASSUME IInv, TypeOK', [Next]_vars
  PROVE  NeverAhead' /\ CachedKnown'
<1>1. TypeOK /\ NeverAhead /\ CachedKnown /\ AnswersTruthful /\ UpdatesForward
  BY DEF IInv
<1>2. sql \in Versions /\ sql' \in Versions /\ sql' >= sql /\ known \in Versions
  BY <1>1, SqlStepForward, DBAssumption DEF TypeOK, Versions
<1>3. ASSUME UNCHANGED <<known, cached>>
      PROVE  NeverAhead' /\ CachedKnown'
  BY <1>1, <1>2, <1>3, DBAssumption DEF NeverAhead, CachedKnown, Versions
<1>4. ASSUME NEW c \in Clients,
             DBRowCreate(c) \/ QueryCached(c) \/ QueryRemote(c) \/ DBRowUpdate(c)
      PROVE  UNCHANGED <<known, cached>>
  BY <1>4 DEF DBRowCreate, QueryCached, QueryRemote, DBRowUpdate
<1>5. CASE SqlStep \/ SqlFails \/ DBRowTickSync
  BY <1>3, <1>5 DEF SqlStep, SqlQuery, SqlInsert, SqlUpdate, TakeRequest, SqlFails, DBRowTickSync
<1>6. CASE LateAnswer \/ CreateAnswered
  BY <1>3, <1>6 DEF LateAnswer, CreateAnswered
<1>7. ASSUME mail # << >>
      PROVE  /\ Truthful(call[Head(mail).id], Head(mail).answer, sql)
             /\ Head(mail).answer \in Versions /\ Head(mail).id \in Calls
  BY <1>1, <1>7, MailHead DEF AnswersTruthful
<1>8. CASE QueryAnswered
  <2>1. mail # << >> /\ call[Head(mail).id].op = "query"
    BY <1>8 DEF QueryAnswered, TakeAnswer
  <2>2. Head(mail).answer <= sql /\ Head(mail).answer \in Versions
    BY <1>7, <2>1 DEF Truthful
  <2>3. CASE UNCHANGED <<known, cached>>
    BY <1>3, <2>3
  <2>4. CASE Head(mail).answer # 0 /\ LocalCacheDBRow(Head(mail).answer)
    <3>1. known' = Head(mail).answer /\ 0 < known'
      BY <2>2, <2>4, DBAssumption DEF LocalCacheDBRow, Versions
    <3>2. known' <= sql'
      BY <1>2, <2>2, <3>1, DBAssumption DEF Versions
    <3> QED
      BY <3>1, <3>2 DEF NeverAhead, CachedKnown
  <2> QED
    BY <1>8, <2>3, <2>4 DEF QueryAnswered
<1>9. CASE TickSyncAnswered
  <2> DEFINE c == call[Head(mail).id]
  <2>1. mail # << >> /\ c.op = "update" /\ cached' = cached
    BY <1>9 DEF TickSyncAnswered, TakeAnswer
  <2>2. CASE UNCHANGED known
    BY <1>3, <2>1, <2>2
  <2>3. CASE Head(mail).answer = 1 /\ known' = c.new
    <3>1. c.new <= sql /\ c.old < c.new /\ 0 < c.old
      BY <1>1, <1>7, <2>1, <2>3 DEF Truthful, UpdatesForward
    <3>2. c.old \in Versions /\ c.new \in Versions
      BY <1>1, <2>1, MailHead, CallFields
    <3>3. known' <= sql' /\ 0 < known'
      BY <1>2, <2>3, <3>1, <3>2, DBAssumption DEF Versions
    <3> QED
      BY <3>3 DEF NeverAhead, CachedKnown
  <2> QED
    BY <1>9, <2>2, <2>3 DEF TickSyncAnswered
<1>10. ASSUME NEW i \in Calls, EarlyTimeout(i) \/ LastTimeout(i)
       PROVE  UNCHANGED <<known, cached>>
  BY <1>10 DEF EarlyTimeout, LastTimeout
<1>11. CASE UNCHANGED vars
  BY <1>3, <1>11 DEF vars
<1> QED
  BY <1>3, <1>4, <1>5, <1>6, <1>8, <1>9, <1>10, <1>11 DEF Next, Answered

(***************************************************************************)
(* The inductive invariant, and what follows from it.                      *)
(***************************************************************************)

\* IInv is preserved by every step.
LEMMA IInvStep ==
  ASSUME IInv, [Next]_vars
  PROVE  IInv'
<1>1. TypeOK'
  BY TypeStep DEF IInv
<1>2. NeverAhead' /\ CachedKnown' /\ MessagesInv'
  BY <1>1, KnownStep, MessagesStep
<1>3. OneWriteBack'
  <2>1. /\ WriteBacks \in Nat /\ WriteBacks <= 1 /\ (WriteBacks = 1 => cached)
        /\ WriteBackEffect
    BY <1>1, WriteBacksNat, WriteBackStep DEF IInv, OneWriteBack
  <2> QED
    BY <2>1 DEF OneWriteBack, WriteBackEffect
<1> QED
  BY <1>1, <1>2, <1>3 DEF IInv, MessagesInv

\* IInv is an invariant of the specification.
THEOREM Inductive == Spec => []IInv
<1> QED
  BY InitIInv, IInvStep, PTL DEF Spec

\* Type correctness: every variable keeps its type.
THEOREM TypeCorrect == Spec => []TypeOK
<1>1. IInv => TypeOK
  BY DEF IInv
<1> QED
  BY Inductive, <1>1, PTL

\* There is never more than one write-back of a row, armed or under way,
\* whatever loads, timeouts and late answers there are (DBRowTickSync).
THEOREM OneWriteBackHolds == Spec => []OneWriteBack
<1>1. IInv => OneWriteBack
  BY DEF IInv
<1> QED
  BY Inductive, <1>1, PTL

\* sql_db_version is never ahead of the database.
THEOREM NeverAheadHolds == Spec => []NeverAhead
<1>1. IInv => NeverAhead
  BY DEF IInv
<1> QED
  BY Inductive, <1>1, PTL

\* TaskAbort ends a write-back only when the database holds another version.
THEOREM GivesUpOnMismatchHolds == Spec => GivesUpOnMismatch
<1> DEFINE A == (WriteBacks' < WriteBacks /\ up')
                  => \E i \in Calls : /\ call[i].op = "update" /\ call'[i] = NoCall
                                      /\ call[i].old # sql
<1>1. ASSUME IInv, [Next]_vars
      PROVE  A
  <2>1. WriteBackEffect /\ WriteBacks \in Nat /\ TypeOK
    BY <1>1, TypeStep, WriteBackStep, WriteBacksNat DEF IInv
  <2>2. ASSUME NEW i \in Calls, call[i].op = "update", call[i].old < sql
        PROVE  call[i].old # sql
    <3>1. call[i].old \in Versions /\ sql \in Versions
      BY <2>1, <2>2, CallFields DEF TypeOK
    <3> QED
      BY <2>2, <3>1, DBAssumption DEF Versions
  <2> QED
    BY <2>1, <2>2 DEF WriteBackEffect
<1>2. IInv /\ [Next]_vars
        => [(WriteBacks' < WriteBacks /\ up')
              => \E i \in Calls : /\ call[i].op = "update" /\ call'[i] = NoCall
                                  /\ call[i].old # sql]_vars
  BY <1>1
<1> QED
  BY Inductive, <1>2, PTL DEF Spec, GivesUpOnMismatch
=============================================================================
