------------------------------ MODULE DBRowFields ------------------------------
(***************************************************************************)
(* The fields of one row of module/db on their way between a script, the   *)
(* DBRow it holds, the row cached by DBService and the row of the SQL      *)
(* table.  A DBRow has a dirty flag for every field; only dirty fields are *)
(* written back.  DBService.tla models the versions and the timing of the  *)
(* write-back, and this module which values it carries.                    *)
(*                                                                         *)
(* A service gets a row (Load), assigns fields in JavaScript, and commits  *)
(* it; every sync_tick DBRowTickSync writes it back.  All handlers run in  *)
(* turn; a request to SqlService and its answer are steps of their own.    *)
(***************************************************************************)
EXTENDS Naturals, Sequences, FiniteSets, SequencesExt

CONSTANTS Clients,     \* services that load and commit the row
          Tables,      \* which types the fields f and g may have
          MaxOps,      \* bound: loads, assignments and commits
          MaxFaults    \* bound: errors of SQL, timeouts, restarts

Fields == {"id", "f", "g"}
FieldOrder == <<"id", "f", "g">>
Key == "id"

Narrow == {"int32", "uint32", "float"}
Wide == {"int64", "uint64", "double"}
Numeric == Narrow \cup Wide
\* A message in a field: one of single fields, or one with a list in it.
Embedded == {"message", "listmessage"}
Text == {"string", "bytes"} \cup Embedded
Kinds == Numeric \cup Text \cup {"bool", "enum", "repeated"}

ASSUME RowAssumption ==
  /\ Tables \subseteq [Fields -> Kinds]
  /\ \A t \in Tables : t[Key] \in Kinds \ ({"repeated"} \cup Embedded)
  /\ MaxOps \in Nat /\ MaxFaults \in Nat

VARIABLES
  kind,     \* the descriptor of the table: the type of every field
  columns,  \* columns of the SQL table, {} if there is no table
  ready,    \* SqlTableInitReq succeeded since the start
  sql,      \* the row in the SQL table
  cache,    \* the row and sql_db_version in tables_ of DBService
  client,   \* client[c]: the DBRow of service c
  load,     \* load[c]: its DBRowLoadReq: none, query, answer with a row, lost
  sync,     \* DBRowTickSync: off, armed, await, stopped; version sent, answer
  updates,  \* SqlUpdateReqs that SqlService has not handled
  db_up,    \* no timeout has stopped DBService
  gens,     \* updates accepted so far, to tell rows apart (history)
  lost,     \* an accepted update was replaced by a row without it (history)
  ops,      \* loads, assignments and commits so far, for the bound
  faults    \* faults so far, for the bound

rowvars == <<kind, columns, ready, sql, cache, client, load, sync, updates, db_up,
             gens, lost, ops, faults>>

Blank == [f \in Fields |-> "default"]
\* gen says which update made the contents of a row (history).
NoRow == [ver |-> 0, val |-> Blank, dirty |-> {}, gen |-> 0]
NoCache == [row |-> NoRow, sqlver |-> 0]
NoLoad == [st |-> "none", form |-> "none", row |-> NoRow]
NoSync == [st |-> "off", ver |-> 0, answer |-> "none"]
Cached == cache # NoCache
Repeated == {f \in Fields : kind[f] = "repeated"}
Stored == Fields \ Repeated

-----------------------------------------------------------------------------
(* Values.  A value is "default", "x", or "wide": one that needs 64 bits.  *)
(* Of a "listmessage" it is the list: none, one element or "more".         *)

\* GetJSValueByProtoMessageField: the type of the JavaScript value.  "name" is
\* a string that is the name of a value of the enum.
JsType(k) ==
  CASE k \in Narrow \cup {"double"} -> "number"
    [] k = "int64" -> "int64"
    [] k = "uint64" -> "uint64"
    [] k = "bool" -> "boolean"
    [] k = "string" -> "string"
    [] k = "bytes" -> "undefined"
    [] k = "enum" -> "name"
    [] k \in Embedded -> "object"

\* Mutant of Accepts: a 64 bit field wants a number.
AcceptsNumber(k) ==
  CASE k \in Numeric -> {"number"}
    [] k = "bool" -> {"boolean"}
    [] k = "string" -> {"string", "name"}
    [] k = "bytes" -> {"number", "int64", "uint64", "boolean", "string", "name",
                       "object", "undefined"}
    [] k = "enum" -> {"name"}
    [] k \in Embedded -> {"object"}
    [] k = "repeated" -> {}

\* SetProtoMessageFieldFromJSValue: the JavaScript types a field can be set
\* from.  Any other aborts, and so does an array for a repeated field.
Accepts(k) ==
  CASE k \in Narrow \cup {"double"} -> {"number"}
    [] k = "int64" -> {"int64"}
    [] k = "uint64" -> {"uint64"}
    [] k = "bool" -> {"boolean"}
    [] k = "string" -> {"string", "name"}
    [] k = "bytes" -> {"number", "int64", "uint64", "boolean", "string", "name",
                       "object", "undefined"}
    [] k = "enum" -> {"name"}
    [] k \in Embedded -> {"object"}
    [] k = "repeated" -> {}

\* What the field holds then: bytes are left alone, 32 bit fields are cut, and
\* a message keeps the fields that the object does not have.  A list in it is not
\* cleared: its elements stay, and those of the object are added.
FromJs(k, old, v) ==
  CASE k = "bytes" \/ (k \in Embedded /\ v = "empty") -> old
    [] k = "listmessage" /\ v = "default" -> old
    [] k = "listmessage" /\ v \notin {"default", "empty"} ->
         IF old = "default" THEN v ELSE "more"
    [] k \in Narrow -> IF v = "wide" THEN "x" ELSE v
    [] OTHER -> v

\* What scripts assign; the rows in SQL hold "x".
JsValues(t) ==
  CASE t \in {"number", "int64", "uint64"} -> {"default", "wide"}
    [] t = "object" -> {"default", "empty", "x"}
    [] OTHER -> {"default"}

\* MapProtoTypeToSql.
SqlType(k) ==
  CASE k = "double" -> "DOUBLE"
    [] k = "float" -> "FLOAT"
    [] k \in {"int32", "enum"} -> "INTEGER"
    [] k = "uint32" -> "INT UNSIGNED"
    [] k = "int64" -> "BIGINT"
    [] k = "uint64" -> "BIGINT UNSIGNED"
    [] k = "bool" -> "BOOLEAN"
    [] OTHER -> "LONGTEXT"

\* The C++ type that BindValuesToStatement hands to the statement.
BindType(k) ==
  CASE k \in {"double", "float"} -> "double"
    [] k \in {"int32", "enum"} -> "int32"
    [] k = "bool" -> "int8"
    [] k \in Text -> "string"
    [] OTHER -> k

\* The C++ type that SqlQueryReq reads a column with.
ReadType(k) ==
  CASE k \in {"double", "float"} -> "double"
    [] k \in {"int32", "enum"} -> "int32"
    [] k = "bool" -> "int8"
    [] k \in Text -> "string"
    [] OTHER -> k

\* SOCI: the C++ type that stands for a column type.
DriverType(t) ==
  CASE t \in {"DOUBLE", "FLOAT"} -> "double"
    [] t = "INTEGER" -> "int32"
    [] t = "INT UNSIGNED" -> "uint32"
    [] t = "BIGINT" -> "int64"
    [] t = "BIGINT UNSIGNED" -> "uint64"
    [] t = "BOOLEAN" -> "int8"
    [] t = "LONGTEXT" -> "string"

\* What the database stores of a value that is bound.
ToColumn(k, v) == IF BindType(k) = DriverType(SqlType(k)) THEN v ELSE "default"

\* A row can be read if there is a column for every field, each has the type it
\* is read with, and NULL is only in columns of messages.
Readable ==
  /\ Fields \subseteq columns
  /\ \A f \in Stored :
       /\ ReadType(kind[f]) = DriverType(SqlType(kind[f]))
       /\ sql.val[f] = "null" => kind[f] \in Embedded

FromColumn(v) == IF v = "null" THEN "default" ELSE v

-----------------------------------------------------------------------------
(* The table.                                                              *)

Fault == faults < MaxFaults /\ faults' = faults + 1
Op == ops < MaxOps /\ ops' = ops + 1

\* Columns f, g of an older version of the program may be missing, or even the
\* key; a row of that version may be there.
RowInit ==
  /\ kind \in Tables
  /\ columns \in {{}, {"id"}, {"id", "f"}, {"f"}, Fields \ Repeated}
  /\ sql \in {NoRow} \cup
       (IF Key \in columns
          THEN {[ver |-> 1, val |-> [f \in Fields |-> IF f \in columns THEN "x" ELSE "null"],
                 dirty |-> {}, gen |-> 0]}
          ELSE {})
  /\ ready = FALSE
  /\ cache = NoCache
  /\ client = [c \in Clients |-> NoRow] /\ load = [c \in Clients |-> NoLoad]
  /\ sync = NoSync /\ updates = << >> /\ db_up = TRUE
  /\ gens = 0 /\ lost = FALSE /\ ops = 0 /\ faults = 0

\* SqlTableInitReq without a table: one statement, without repeated fields.
CreateTable ==
  /\ ~ready /\ columns = {}
  /\ columns' = Stored
  /\ ready' = TRUE
  /\ UNCHANGED <<kind, sql, cache, client, load, sync, updates, db_up, gens, lost, faults, ops>>

\* Mutant of MissingFields: repeated fields have no column here either.
MissingFieldsStored == Stored \ columns

MissingFields == Fields \ columns

\* With a table: a statement for every missing field, repeated ones too, up to
\* a primary key, which aborts, or to an error of the database.
AlterTable ==
  LET n == Len(FieldOrder)
      Added(i) == {FieldOrder[j] : j \in 1..i} \cap MissingFields
  IN
  /\ ~ready /\ columns # {}
  /\ \E i \in 0..n :
       /\ i < n => FieldOrder[i + 1] \in MissingFields
       /\ Key \notin Added(i)
       /\ columns' = columns \cup Added(i)
       /\ ready' = (i = n)
       /\ IF i = n \/ FieldOrder[i + 1] = Key THEN UNCHANGED faults ELSE Fault
  /\ UNCHANGED <<kind, sql, cache, client, load, sync, updates, db_up, gens, lost, ops>>

\* SqlInsertReq, from DBRowCreateReq: every field is marked dirty and bound.
Insert(vals) ==
  /\ ready /\ sql = NoRow
  /\ Repeated = {} /\ Fields \subseteq columns
  /\ sql' = [ver |-> 1, val |-> [f \in Fields |-> ToColumn(kind[f], vals[f])],
             dirty |-> {}, gen |-> 0]
  /\ UNCHANGED <<kind, columns, ready, cache, client, load, sync, updates, db_up, gens,
                 lost, faults, ops>>

\* The row exists, or a column is missing, or a field is repeated: it has a
\* place in the statement and no value.  SqlService does not answer, the Call of
\* DBService times out and throws, and ServiceCore stops DBService.
InsertFails ==
  /\ ready
  /\ sql # NoRow \/ Repeated # {} \/ ~(Fields \subseteq columns)
  /\ db_up' = FALSE
  /\ UNCHANGED <<kind, columns, ready, sql, cache, client, load, sync, updates,
                 gens, lost, faults, ops>>

-----------------------------------------------------------------------------
(* DBRowLoadReq, DBRowQueryReq.                                            *)

\* LocalQueryDBRow compares the key with ProtoFieldAny, the type included.  A
\* script passes the key as a string, and another field is never looked up.
KeyForms == {"primary", "script", "other"}
CacheHit(form) ==
  /\ Cached
  /\ form = "primary" \/ (form = "script" /\ kind[Key] = "string")

Load(c, form) ==
  /\ ready /\ load[c] = NoLoad /\ Op
  /\ \/ /\ CacheHit(form)
        /\ client' = [client EXCEPT ![c] = cache.row]
        /\ UNCHANGED load
     \/ /\ ~CacheHit(form)
        /\ load' = [load EXCEPT ![c] = [st |-> "query", form |-> form, row |-> NoRow]]
        /\ UNCHANGED client
  /\ UNCHANGED <<kind, columns, ready, sql, cache, sync, updates, db_up, gens, lost, faults>>

\* SqlQueryReq: there is no row, it cannot be read (an exception, and no
\* answer), or the answer is on its way.
SqlQuery(c) ==
  /\ load[c].st = "query"
  /\ load' = [load EXCEPT ![c] =
       IF sql = NoRow THEN NoLoad
       ELSE IF ~Readable THEN [NoLoad EXCEPT !.st = "lost"]
       ELSE [st |-> "answer", form |-> "none",
             row |-> [sql EXCEPT !.val =
               [f \in Fields |-> IF f \in Stored THEN FromColumn(sql.val[f]) ELSE "default"]]]]
  /\ UNCHANGED <<kind, columns, ready, sql, cache, client, sync, updates, db_up, gens,
                 lost, faults, ops>>

\* The Call of QueryDBRow times out and throws: DBService is stopped.
QueryTimesOut(c) ==
  /\ load[c].st # "none"
  /\ \/ load[c].st = "lost" /\ UNCHANGED faults
     \/ load[c].st # "lost" /\ Fault
  /\ db_up' = FALSE
  /\ UNCHANGED <<kind, columns, ready, sql, cache, client, load, sync, updates,
                 gens, lost, ops>>

\* LocalCacheDBRow: a row that is cached already is overwritten.
LocalCacheDBRow(c) ==
  LET row == load[c].row IN
  /\ load[c].st = "answer"
  /\ cache' = [row |-> row, sqlver |-> row.ver]
  /\ client' = [client EXCEPT ![c] = row]
  /\ load' = [load EXCEPT ![c] = NoLoad]
  /\ sync' = IF Cached THEN sync ELSE [sync EXCEPT !.st = "armed"]
  /\ lost' = (lost \/ (Cached /\ cache.row.gen # row.gen))
  /\ UNCHANGED <<kind, columns, ready, sql, updates, db_up, gens, faults, ops>>

-----------------------------------------------------------------------------
(* Assignments and commits.                                                *)

Marked(row, f) == [row EXCEPT !.dirty = @ \cup {f}]

\* DBRowObject::SetProperty: marked first, then converted, which may abort.  (A
\* script that assigns the key makes another row of it, which is left out.)
SetProperty(row, f, t, v) ==
  IF t \in Accepts(kind[f])
    THEN [Marked(row, f) EXCEPT !.val[f] = FromJs(kind[f], row.val[f], v)]
    ELSE Marked(row, f)

Assign(c, f, t, v) ==
  /\ client[c] # NoRow /\ f # Key /\ Op
  /\ client' = [client EXCEPT ![c] = SetProperty(client[c], f, t, v)]
  /\ UNCHANGED <<kind, columns, ready, sql, cache, load, sync, updates, db_up, gens,
                 lost, faults>>

\* DBRow::Commit and DBRowUpdateReq: the version of the service's row counts
\* up whether or not the update is accepted.  The cached row is replaced.
Commit(c) ==
  LET ver == client[c].ver + 1
      row == [client[c] EXCEPT !.ver = ver, !.gen = gens + 1]
  IN
  /\ client[c] # NoRow /\ Op
  /\ \/ /\ Cached /\ ver > cache.row.ver
        /\ gens' = gens + 1
        /\ client' = [client EXCEPT ![c] = row]
        /\ cache' = [cache EXCEPT !.row = row]
        /\ lost' = (lost \/ client[c].gen # cache.row.gen)
     \/ /\ ~(Cached /\ ver > cache.row.ver)
        /\ client' = [client EXCEPT ![c] = [client[c] EXCEPT !.ver = ver]]
        /\ UNCHANGED <<gens, cache, lost>>
  /\ UNCHANGED <<kind, columns, ready, sql, load, sync, updates, db_up, faults>>

-----------------------------------------------------------------------------
(* The write-back.                                                         *)

\* CopyDirtyTo(true): the dirty fields and the key, all marked dirty.
CopyDirtyTo(row) ==
  [row EXCEPT !.dirty = @ \cup {Key},
              !.val = [f \in Fields |-> IF f \in row.dirty \cup {Key} THEN @[f] ELSE "default"]]

\* CopyField copies every type of field but a repeated one.
Copyable(row) == row.dirty \cap Repeated = {}

\* DBRowTickSync: when CopyField aborts, the timer is not armed again.
TickSync ==
  /\ sync.st = "armed" /\ cache.row.ver > cache.sqlver
  /\ \/ /\ Copyable(cache.row)
        /\ updates' = Append(updates, [row |-> CopyDirtyTo(cache.row), old |-> cache.sqlver])
        /\ sync' = [st |-> "await", ver |-> cache.row.ver, answer |-> "none"]
     \/ /\ ~Copyable(cache.row)
        /\ sync' = [sync EXCEPT !.st = "stopped"]
        /\ UNCHANGED updates
  /\ UNCHANGED <<kind, columns, ready, sql, cache, client, load, db_up, gens, lost, faults, ops>>

\* Mutant of Written: fields that are not dirty are written too.
WrittenAll(row) ==
  [sql EXCEPT !.ver = row.ver, !.gen = row.gen,
              !.val = [f \in Fields |-> ToColumn(kind[f], row.val[f])]]

Written(row) ==
  [sql EXCEPT !.ver = row.ver, !.gen = row.gen,
              !.val = [f \in Fields |-> IF f \in row.dirty THEN ToColumn(kind[f], row.val[f])
                                                           ELSE sql.val[f]]]

\* SqlUpdateReq: the answer is for the latest request, if it is still awaited.
SqlUpdate ==
  LET u == Head(updates)
      match == sql.ver = u.old /\ sql.ver < u.row.ver
  IN
  /\ updates # << >>
  /\ updates' = Tail(updates)
  /\ sql' = IF match THEN Written(u.row) ELSE sql
  /\ sync' = IF sync.st = "await" /\ Len(updates) = 1
               THEN [sync EXCEPT !.answer = IF match THEN "success" ELSE "mismatch"]
               ELSE sync
  /\ UNCHANGED <<kind, columns, ready, cache, client, load, db_up, gens, lost, faults, ops>>

\* Mutant of SyncAnswered: what was written is not dirty any more.
SyncAnsweredClears ==
  /\ sync.st = "await" /\ sync.answer # "none"
  /\ \/ /\ sync.answer = "success"
        /\ cache' = [cache EXCEPT !.sqlver = sync.ver, !.row.dirty = {}]
        /\ sync' = [NoSync EXCEPT !.st = "armed"]
     \/ /\ sync.answer = "mismatch"
        /\ sync' = [NoSync EXCEPT !.st = "stopped"]
        /\ UNCHANGED cache
  /\ UNCHANGED <<kind, columns, ready, sql, client, load, updates, db_up, gens, lost, faults, ops>>

\* The dirty flags stay: what was changed once is written every time.
SyncAnswered ==
  /\ sync.st = "await" /\ sync.answer # "none"
  /\ \/ /\ sync.answer = "success"
        /\ cache' = [cache EXCEPT !.sqlver = sync.ver]
        /\ sync' = [NoSync EXCEPT !.st = "armed"]
     \/ /\ sync.answer = "mismatch"
        /\ sync' = [NoSync EXCEPT !.st = "stopped"]
        /\ UNCHANGED cache
  /\ UNCHANGED <<kind, columns, ready, sql, client, load, updates, db_up, gens, lost, faults, ops>>

\* CallOrNull returns null: the timer is armed, the request may still be applied.
SyncTimeout ==
  /\ sync.st = "await" /\ Fault
  /\ sync' = [NoSync EXCEPT !.st = "armed"]
  /\ UNCHANGED <<kind, columns, ready, sql, cache, client, load, updates, db_up, gens, lost, ops>>

\* The process ends and is started again: only the SQL table is left.
Restart ==
  /\ ready /\ Fault
  /\ ready' = FALSE /\ cache' = NoCache
  /\ client' = [c \in Clients |-> NoRow] /\ load' = [c \in Clients |-> NoLoad]
  /\ sync' = NoSync /\ updates' = << >> /\ db_up' = TRUE
  /\ UNCHANGED <<kind, columns, sql, gens, lost, ops>>

-----------------------------------------------------------------------------

\* An assignment of a script: any type, and the values of that type.
JsTypes == {"number", "int64", "uint64", "boolean", "string", "name", "object",
            "array", "undefined"}

\* What the services do while DBService is up.
Working ==
  \/ CreateTable \/ AlterTable \/ InsertFails
  \/ Insert([f \in Fields |-> "x"])
  \/ \E c \in Clients :
       \/ \E form \in KeyForms : Load(c, form)
       \/ SqlQuery(c) \/ QueryTimesOut(c) \/ LocalCacheDBRow(c) \/ Commit(c)
       \/ \E f \in Fields, t \in JsTypes : \E v \in JsValues(t) : Assign(c, f, t, v)
  \/ TickSync \/ SyncAnswered \/ SyncTimeout

\* A row is followed until an update of it is lost; without DBService,
\* SqlService finishes what it was sent.
RowNext == ~lost /\ ((db_up /\ Working) \/ SqlUpdate \/ Restart)

RowSpec == RowInit /\ [][RowNext]_rowvars

-----------------------------------------------------------------------------
(* Properties.                                                             *)

\* Dirty flags are enough: as long as no update was replaced by a row that
\* lacks it, a field of the cached row without a flag has the value it has in
\* SQL.  Services that copy rows and flags, assignments that fail, write-backs
\* in flight and updates in between do not change that.
CleanFieldsAgree ==
  Cached /\ ~lost =>
    \A f \in Stored \ cache.row.dirty : cache.row.val[f] = FromColumn(sql.val[f])

\* A version is a promise about the whole row: if the cached row has the
\* version of the row in SQL, every field was written and reads back the same.
SameVersionSameRow ==
  Cached /\ ~lost /\ cache.row.ver = sql.ver =>
    \A f \in Stored : cache.row.val[f] = FromColumn(sql.val[f])

\* What a script reads from a field it can assign to that field, and the field
\* keeps its value: no type is lost between the two conversions of js_util.h, and
\* no 64 bit value gets into a field that would cut it.  A message with a list in
\* it does not abort either, but its elements are added to the list once more.
ReadBack ==
  \A c \in Clients : client[c] # NoRow =>
    \A f \in Stored :
      /\ JsType(kind[f]) \in Accepts(kind[f])
      /\ kind[f] # "listmessage" =>
           FromJs(kind[f], client[c].val[f], client[c].val[f]) = client[c].val[f]

\* A row that has all its values, because it was inserted with the columns of
\* this program or because messages may be missing, can be loaded as soon as
\* SqlTableInitReq succeeded on an existing table, whatever failed before.
RowLoads ==
  ready /\ sql # NoRow /\ (\A f \in Stored : sql.val[f] # "null") => Readable
=============================================================================
