------------------------------- MODULE DBService -------------------------------
(***************************************************************************)
(* module/db: DBService keeps one copy of a row for the services of its    *)
(* node (load, query, update) and writes it back to SqlService from time   *)
(* to time; SqlService compares versions before it writes.  Rows do not    *)
(* depend on each other, so the module is about one row, and a row is      *)
(* reduced to its db_version, which every commit increases.                *)
(*                                                                         *)
(* Handlers of DBService are coroutines on top of ServiceCore: a handler   *)
(* that awaits is a call in progress, its answer comes through the mailbox *)
(* of the service, in order, and a timeout may come first.  A handler that *)
(* does not await is one step.                                             *)
(***************************************************************************)
EXTENDS Naturals, Sequences, FiniteSets

CONSTANTS Clients,     \* services that load the row, and may commit it
          Keys,        \* "primary", "secondary": the kinds of key in queries
          MaxCalls,    \* bound: calls to SqlService whose messages exist
          MaxVersion,  \* bound: db_version
          MaxFaults    \* bound: requests SQL fails, and premature timeouts

ASSUME DBAssumption ==
  /\ Keys \subseteq {"primary", "secondary"}
  /\ MaxCalls \in Nat /\ MaxVersion \in Nat \ {0} /\ MaxFaults \in Nat

Calls == 1..MaxCalls
Versions == 0..MaxVersion

VARIABLES
  sql,     \* __db_version__ of the row in the database, 0 when it is absent
  sqlq,    \* mailbox of SqlService: the requests in order
  mail,    \* mailbox of DBService: the answers of SqlService in order
  call,    \* call[i]: the coroutine of DBService that awaits session i
  cached,  \* the row is in tables_
  row,     \* DBRowCache::db_row.db_version()
  known,   \* DBRowCache::sql_db_version
  armed,   \* DBRowTickSync messages in the timer
  own,     \* own[c]: db_version of the row that client c holds, 0 for none
  up,      \* DBService is running
  faults   \* number of faults so far, for the bound

vars == <<sql, sqlq, mail, call, cached, row, known, armed, own, up, faults>>

NoCall == [op |-> "none"]
Query(c) == [op |-> "query", client |-> c]
Insert == [op |-> "insert"]
Update(old, new) == [op |-> "update", old |-> old, new |-> new]

Init ==
  /\ sql = 0
  /\ sqlq = << >> /\ mail = << >>
  /\ call = [i \in Calls |-> NoCall]
  /\ cached = FALSE /\ row = 0 /\ known = 0
  /\ armed = 0
  /\ own = [c \in Clients |-> 0]
  /\ up = TRUE
  /\ faults = 0

-----------------------------------------------------------------------------
(* Calls of SqlService.                                                    *)

Ids(q) == {q[n].id : n \in 1..Len(q)}

\* Session ids are never used twice: an id is free when no message has it.
Free == {i \in Calls : call[i] = NoCall /\ i \notin Ids(sqlq) \cup Ids(mail)}

\* co_await Call: the coroutine leaves a request with SqlService.
CallSql(c) ==
  LET i == CHOOSE j \in Free : TRUE IN
  /\ Free # {}
  /\ call' = [call EXCEPT ![i] = c]
  /\ sqlq' = Append(sqlq, [id |-> i, req |-> c])

-----------------------------------------------------------------------------
(* The handlers of SqlService; it has a thread of its own and handles one  *)
(* request after the other.                                                *)

\* SqlService takes the next request, if it is of type op.
TakeRequest(op) ==
  /\ sqlq # << >> /\ Head(sqlq).req.op = op
  /\ sqlq' = Tail(sqlq)
  /\ UNCHANGED <<call, cached, row, known, armed, own, up, faults>>

Answer(a) == mail' = Append(mail, [id |-> Head(sqlq).id, answer |-> a])

SqlQuery == TakeRequest("query") /\ Answer(sql) /\ UNCHANGED sql

\* The insertion of a row that exists throws, and nobody answers.
SqlInsert ==
  /\ TakeRequest("insert")
  /\ \/ sql = 0 /\ sql' = 1 /\ Answer(1)
     \/ sql # 0 /\ UNCHANGED <<sql, mail>>

\* UPDATE ... WHERE: the row is written if its version is the one that
\* DBService knows, and older than the new one; the answer is rows > 0.
SqlUpdate ==
  LET req == Head(sqlq).req
      matches == sql # 0 /\ sql = req.old /\ sql < req.new
  IN
  /\ TakeRequest("update")
  /\ \/ matches /\ sql' = req.new /\ Answer(1)
     \/ ~matches /\ UNCHANGED sql /\ Answer(0)

SqlStep == SqlQuery \/ SqlInsert \/ SqlUpdate

\* The database cannot serve the request: its handler throws.
SqlFails ==
  /\ sqlq # << >>
  /\ faults < MaxFaults
  /\ faults' = faults + 1
  /\ sqlq' = Tail(sqlq)
  /\ UNCHANGED <<sql, mail, call, cached, row, known, armed, own, up>>

-----------------------------------------------------------------------------
(* The handlers of DBService, up to their first await.                     *)

\* A client's handler awaits DBService: it makes one request at a time, and
\* (the bound) leaves a call for the write-back.
Asks(c) == /\ up
           /\ Cardinality(Free) > 1
           /\ \A i \in Calls : call[i] # Query(c)

DBRowCreate(c) ==
  /\ Asks(c)
  /\ CallSql(Insert)
  /\ UNCHANGED <<sql, mail, cached, row, known, armed, own, up, faults>>

\* Load and query: a primary key is looked up in the cache first.
QueryCached(c) ==
  /\ up
  /\ cached /\ "primary" \in Keys
  /\ own' = [own EXCEPT ![c] = row]
  /\ UNCHANGED <<sql, sqlq, mail, call, cached, row, known, armed, up, faults>>

QueryRemote(c) ==
  /\ Asks(c)
  /\ \E key \in Keys : key = "secondary" \/ ~cached
  /\ CallSql(Query(c))
  /\ UNCHANGED <<sql, mail, cached, row, known, armed, own, up, faults>>

\* Mutant of DBRowUpdate: the handler increments the version once more.
DBRowUpdateTwice(c) ==
  /\ up
  /\ own[c] # 0 /\ own[c] < MaxVersion
  /\ own' = [own EXCEPT ![c] = @ + 1]
  /\ row' = IF cached /\ own[c] + 1 > row THEN own[c] + 2 ELSE row
  /\ UNCHANGED <<sql, sqlq, mail, call, cached, known, armed, up, faults>>

\* DBRow::Commit, and the handler of DBRowUpdateReq: a version that is not
\* newer than the cached one is refused; the client has incremented its own.
DBRowUpdate(c) ==
  /\ up
  /\ own[c] # 0 /\ own[c] < MaxVersion
  /\ own' = [own EXCEPT ![c] = @ + 1]
  /\ row' = IF cached /\ own[c] + 1 > row THEN own[c] + 1 ELSE row
  /\ UNCHANGED <<sql, sqlq, mail, call, cached, known, armed, up, faults>>

\* Mutant of DBRowTickSync: the new version counts as stored when it is sent.
DBRowTickSyncEager ==
  /\ up
  /\ armed > 0
  /\ row > known
  /\ armed' = armed - 1
  /\ CallSql(Update(known, row))
  /\ known' = row
  /\ UNCHANGED <<sql, mail, cached, row, own, up, faults>>

\* The timer delivers DBRowTickSync: a newer row is sent to SqlService, with
\* the version that the database is believed to have.  Otherwise the handler
\* only arms the timer again.
DBRowTickSync ==
  /\ up
  /\ armed > 0
  /\ row > known
  /\ armed' = armed - 1
  /\ CallSql(Update(known, row))
  /\ UNCHANGED <<sql, mail, cached, row, known, own, up, faults>>

-----------------------------------------------------------------------------
(* What the handlers do after their await.                                 *)

\* Mutant of LocalCacheDBRow: the timer is armed for a cached row as well.
LocalCacheDBRowAgain(v) ==
  /\ cached' = TRUE /\ row' = v /\ known' = v
  /\ armed' = armed + 1

\* The row is cached; a cached one is overwritten, and keeps its timer.
LocalCacheDBRow(v) ==
  /\ cached' = TRUE /\ row' = v /\ known' = v
  /\ armed' = IF cached THEN armed ELSE armed + 1

\* TrySchedule of the coroutine that awaits the answer, if one still does.
TakeAnswer(op) ==
  /\ up
  /\ mail # << >> /\ call[Head(mail).id].op = op
  /\ mail' = Tail(mail)
  /\ call' = [call EXCEPT ![Head(mail).id] = NoCall]
  /\ UNCHANGED <<sql, sqlq, up, faults>>

\* The answer came after the timeout: no coroutine waits for it.
LateAnswer == TakeAnswer("none") /\ UNCHANGED <<cached, row, known, armed, own>>

CreateAnswered ==
  TakeAnswer("insert") /\ UNCHANGED <<cached, row, known, armed, own>>

QueryAnswered ==
  LET version == Head(mail).answer
      client  == call[Head(mail).id].client
  IN
  /\ TakeAnswer("query")
  /\ \/ version = 0 /\ UNCHANGED <<cached, row, known, armed, own>>
     \/ /\ version # 0
        /\ LocalCacheDBRow(version)
        /\ own' = [own EXCEPT ![client] = version]

\* The row was written, and the timer is armed again; or the versions did not
\* match: TaskAbort, and the timer is not armed.
TickSyncAnswered ==
  /\ TakeAnswer("update")
  /\ \/ /\ Head(mail).answer = 1
        /\ known' = call[Head(mail).id].new
        /\ armed' = armed + 1
     \/ Head(mail).answer = 0 /\ UNCHANGED <<known, armed>>
  /\ UNCHANGED <<cached, row, own>>

Answered == LateAnswer \/ CreateAnswered \/ QueryAnswered \/ TickSyncAnswered

\* The answer to i can still come.
Due(i) == i \in Ids(sqlq) \cup Ids(mail)

\* Mutant of TimedOut: the write-back does not arm the timer after a timeout.
TimedOutEnds(i) ==
  /\ up
  /\ call[i] # NoCall
  /\ call' = [call EXCEPT ![i] = NoCall]
  /\ UNCHANGED <<armed, up>>

\* Mutant of TimedOut: the write-back waits with kSessionNeverTimeout.
TimedOutNever(i) ==
  /\ up
  /\ call[i] # NoCall /\ call[i].op # "update"
  /\ call' = [call EXCEPT ![i] = NoCall]
  /\ up' = FALSE /\ UNCHANGED armed

\* A session times out.  The write-back (CallOrNull) arms the timer again; the
\* exception of any other handler (Call) makes ServiceCore stop the service.
TimedOut(i) ==
  /\ up
  /\ call[i] # NoCall
  /\ call' = [call EXCEPT ![i] = NoCall]
  /\ \/ /\ call[i].op = "update"
        /\ armed' = armed + 1 /\ UNCHANGED up
     \/ /\ call[i].op # "update"
        /\ up' = FALSE /\ UNCHANGED armed

\* A timeout although the answer is on its way, or because there is none.
EarlyTimeout(i) ==
  /\ Due(i)
  /\ faults < MaxFaults /\ faults' = faults + 1
  /\ TimedOut(i)
  /\ UNCHANGED <<sql, sqlq, mail, cached, row, known, own>>

LastTimeout(i) ==
  /\ ~Due(i)
  /\ TimedOut(i)
  /\ UNCHANGED <<sql, sqlq, mail, cached, row, known, own, faults>>

-----------------------------------------------------------------------------

Next ==
  \/ \E c \in Clients :
       DBRowCreate(c) \/ QueryCached(c) \/ QueryRemote(c) \/ DBRowUpdate(c)
  \/ SqlStep \/ SqlFails
  \/ DBRowTickSync \/ Answered
  \/ \E i \in Calls : EarlyTimeout(i) \/ LastTimeout(i)

Spec == Init /\ [][Next]_vars

(***************************************************************************)
(* Fairness: both services get their messages (EveryMessageTaken of        *)
(* ServiceScheduler), the timer fires, and a session that will not be      *)
(* answered times out (EveryTaskFires of WheelTimer).  Clients and faults  *)
(* owe nothing.                                                            *)
(***************************************************************************)
FairSpec ==
  /\ Spec
  /\ WF_vars(SqlStep) /\ WF_vars(DBRowTickSync) /\ WF_vars(Answered)
  /\ \A i \in Calls : WF_vars(LastTimeout(i))

-----------------------------------------------------------------------------
(* Properties.                                                             *)

CallType == {NoCall, Insert} \cup {Query(c) : c \in Clients}
            \cup {Update(v, w) : v, w \in Versions}

TypeOK ==
  /\ sql \in Versions
  /\ sqlq \in Seq([id : Calls, req : CallType \ {NoCall}])
  /\ mail \in Seq([id : Calls, answer : Versions])
  /\ call \in [Calls -> CallType]
  /\ cached \in BOOLEAN
  /\ row \in Versions /\ known \in Versions
  /\ armed \in Nat
  /\ own \in [Clients -> Versions]
  /\ up \in BOOLEAN
  /\ faults \in 0..MaxFaults

\* The write-backs that are armed or in progress.
WriteBacks == armed + Cardinality({i \in Calls : call[i].op = "update"})

\* However often a row is loaded, overwritten, timed out and written, there is
\* one write-back of it at most, so that two never compete for the version.
OneWriteBack == WriteBacks <= 1 /\ (WriteBacks = 1 => cached)

\* DBService never believes the database to be newer than it is: sql_db_version
\* is a version that was stored, also after timeouts and late answers.
NeverAhead == cached => known <= sql

\* The write-back of a row is given up only because the database holds another
\* version than the one that the write was to replace: TaskAbort is right when
\* it is called, and a timeout never ends the write-back.
GivesUpOnMismatch ==
  [][ (WriteBacks' < WriteBacks /\ up')
        => \E i \in Calls : /\ call[i].op = "update" /\ call'[i] = NoCall
                            /\ call[i].old # sql ]_vars

Dirty == cached /\ row > known

\* No row stays newer than the database with its write-back pending: it is
\* written, or the write-back is given up (GivesUpOnMismatch says when), or the
\* service was stopped.
WriteBackEnds == Dirty ~> (~Dirty \/ WriteBacks = 0 \/ ~up)

\* "Timeout: perhaps sql is only temporarily out of service, can be retried"
\* (the handler of DBRowTickSync): after a timeout the write-back goes on until
\* the row is written, or the service is stopped.
RetrySucceeds == Dirty ~> (~Dirty \/ ~up)
=============================================================================
