--------------------------- MODULE AdapterStores ---------------------------
(***************************************************************************)
(* The stores of pkg/adapters, sqlstore (database/sql) and mongostore,     *)
(* behind the handlers of pkg/server.  Creates and updates are the same    *)
(* single statements as in BackendTemplate, which this module extends; a   *)
(* delete is a bulk delete of one.  sqlstore deletes in a transaction but  *)
(* reads what it deletes with other connections of its pool; mongostore    *)
(* has no transaction.  A create may name its id, which may be taken, or   *)
(* have been of a record that is deleted.  Actions have no handler         *)
(* registered.                                                             *)
(***************************************************************************)
EXTENDS BackendTemplate

VARIABLES
  read,     \* read[r]: the ids whose records a bulk delete has read
  erased,   \* erased[r]: the ids it has deleted; in SQL, not yet committed
  hit       \* hit[r]: the rows that these deletes of SQL have hit

bulk == <<read, erased, hit>>
adapterVars == <<vars, bulk>>

InTransaction(r) == load.store = "sql" /\ step[r] \in {"get", "erase", "commit"}

\* Only transactions keep a connection of the pool for longer than a statement.
FreeConnection == Cardinality({r \in Requests : InTransaction(r)}) < load.pool

\* A row deleted by an open transaction is locked.
Locked(r, p) == \E q \in Requests \ {r} : InTransaction(q) /\ p \in hit[q]

Waits(r) ==
  /\ load.store = "sql"
  /\ \/ step[r] \in {"begin", "get", "select", "write", "insert", "reread", "audit", "refuse"} /\ ~FreeConnection
     \/ step[r] = "insert" /\ \E p \in At(Id(r)) : Locked(r, p)
     \/ step[r] = "write" /\ \E p \in At(target[r]) : Locked(r, p)
     \/ step[r] = "erase" /\ \E t \in read[r] \ erased[r] : \E p \in At(t) : Locked(r, p)

AdapterTypeOK ==
  /\ TypeOK
  /\ read \in [Requests -> SUBSET Records] /\ erased \in [Requests -> SUBSET Records]
  /\ hit \in [Requests -> SUBSET Places]

AdapterInit ==
  /\ Init
  /\ read = [r \in Requests |-> {}]
  /\ erased = [r \in Requests |-> {}]
  /\ hit = [r \in Requests |-> {}]

-----------------------------------------------------------------------------
\* The handlers: permission, body, and what they ask of the store.  A create
\* stores an id in its body as it is, and reads it again as a string: a number
\* may have another one.
ServerBegin(r) ==
  /\ MayBegin(r)
  /\ \E u \in sessions, t \in load.targets :
       \/ \E i \in Bodies(t) : Receive(r, "update", u, t, i) /\ Goto(r, "select")
       \/ \E i \in Bodies(t) : Receive(r, "update", u, t, i) /\ Goto(r, "refuse")
       \/ \E i \in {None, Number} : Receive(r, "create", u, t, i) /\ Goto(r, "insert")
       \/ Received(r, "delete", u, t, {t}, None) /\ Goto(r, "begin")
       \/ \E b \in (SUBSET load.targets) \ {{}} :
            Received(r, "bulk_delete", u, None, b, None) /\ Goto(r, "begin")
  /\ UNCHANGED bulk

\* handleAction and handleBulkAction dispatch to no handler and say so.
ServerAction(r) ==
  /\ MayBegin(r)
  /\ \E u \in sessions, t \in load.targets :
       Receive(r, "action", u, t, None) \/ Receive(r, "bulk", u, None, None)
  /\ Goto(r, "audit")
  /\ UNCHANGED bulk

-----------------------------------------------------------------------------
\* sqlstore.  Every statement of a create or an update takes a connection.
SqlCreate(r) ==
  /\ op[r] = "create" /\ ~Waits(r)
  /\ Insert(r) \/ Reread(r)
  /\ UNCHANGED bulk

SqlUpdate(r) ==
  /\ op[r] = "update" /\ ~Waits(r)
  /\ Select(r) \/ Update(r) \/ Reread(r)
  /\ UNCHANGED bulk

SqlRecordAudit(r) ==
  /\ ~Waits(r)
  /\ Audit(r) \/ Refuse(r)
  /\ UNCHANGED bulk

BeginTx(r) ==
  /\ step[r] = "begin" /\ FreeConnection
  /\ Goto(r, "get")
  /\ UNCHANGED <<rows, log, sessions, request, old, new, ghosts, bulk>>

\* The record of the next id: one that is missing ends the bulk delete.
Got(r) ==
  /\ step[r] = "get"
  /\ \E t \in batch[r] \ read[r] :
       \/ \E p \in Reach(r, t) :
            /\ old' = [old EXCEPT ![r] = @ \union {rows[p]}]
            /\ read' = [read EXCEPT ![r] = @ \union {t}]
            /\ Goto(r, "erase")
       \/ Reach(r, t) = {} /\ Send(r, 404) /\ UNCHANGED <<old, read>>
  /\ UNCHANGED <<rows, log, sessions, request, new, ghosts, erased, hit>>

\* Get does not ask the transaction, but the pool.
SqlGetOld(r) == ~Waits(r) /\ Got(r)

\* (wrong variant: deletes outside of the transaction)
SqlErase_AutoCommit(r) ==
  /\ step[r] = "erase" /\ ~Waits(r)
  /\ \E t \in read[r] \ erased[r] :
       /\ erased' = [erased EXCEPT ![r] = @ \union {t}]
       /\ Put(r, [p \in Reach(r, t) |-> None]) /\ ComesAfter(r, t)
  /\ Goto(r, IF erased'[r] = batch[r] THEN "commit" ELSE "get")
  /\ UNCHANGED <<sessions, request, old, new, audited, failed, read, hit>>

\* Nobody asks how many rows the delete has hit.
SqlErase(r) ==
  /\ step[r] = "erase" /\ ~Waits(r)
  /\ \E t \in read[r] \ erased[r] :
       /\ erased' = [erased EXCEPT ![r] = @ \union {t}]
       /\ hit' = [hit EXCEPT ![r] = @ \union Reach(r, t)]
       /\ ComesAfter(r, t)
  /\ Goto(r, IF erased'[r] = batch[r] THEN "commit" ELSE "get")
  /\ UNCHANGED <<rows, log, sessions, request, old, new, seen, wrote, audited, failed, read>>

Committed(r) == Put(r, [p \in hit[r] |-> None]) /\ UNCHANGED older

Commit(r) ==
  /\ step[r] = "commit"
  /\ Committed(r)
  /\ Goto(r, "audit")
  /\ UNCHANGED <<sessions, request, old, new, audited, failed, bulk>>

\* Whoever waits for a lock or a connection may wait until the request is out
\* of time, or the database finds a deadlock; a transaction is rolled back.
GiveUp(r) ==
  /\ Waits(r)
  /\ Send(r, IF step[r] = "audit" THEN 200 ELSE IF step[r] = "refuse" THEN 403 ELSE 500)
  /\ failed' = failed \union {r}
  /\ UNCHANGED <<rows, log, sessions, request, old, new, seen, wrote, older, audited, bulk>>

-----------------------------------------------------------------------------
\* mongostore.
MongoGetOld(r) == Got(r)

MongoCreate(r) ==
  /\ op[r] = "create"
  /\ Insert(r) \/ Reread(r)
  /\ UNCHANGED bulk

MongoUpdate(r) ==
  /\ op[r] = "update"
  /\ Select(r) \/ Update(r) \/ Reread(r)
  /\ UNCHANGED bulk

MongoRecordAudit(r) ==
  /\ Audit(r) \/ Refuse(r)
  /\ UNCHANGED bulk

\* DeleteOne takes one of the records that have the id.
MongoErase(r) ==
  /\ step[r] = "erase"
  /\ \E t \in read[r] \ erased[r] :
       /\ erased' = [erased EXCEPT ![r] = @ \union {t}]
       /\ \E S \in Hits(r, t) : Put(r, [p \in S |-> None])
       /\ ComesAfter(r, t)
  /\ Goto(r, IF erased'[r] = batch[r] THEN "audit" ELSE "get")
  /\ UNCHANGED <<sessions, request, old, new, audited, failed, read, hit>>

MongoDeleteMany(r) ==
  \/ /\ step[r] = "begin" /\ Goto(r, "get")
     /\ UNCHANGED <<rows, log, sessions, request, old, new, ghosts, bulk>>
  \/ MongoGetOld(r)
  \/ MongoErase(r)

\* A statement fails or its answer is lost.
DeleteFails(r) ==
  /\ Fails(r) /\ Send(r, 500)
  /\ \/ step[r] \in {"begin", "get", "erase", "commit"} /\ UNCHANGED <<rows, log, seen, wrote, older>>
     \/ step[r] = "commit" /\ Committed(r)
     \/ /\ step[r] = "erase" /\ load.store = "mongo"
        /\ \E t \in read[r] \ erased[r] :
             /\ \E S \in Hits(r, t) : Put(r, [p \in S |-> None])
             /\ ComesAfter(r, t)
  /\ UNCHANGED <<sessions, request, old, new, audited, bulk>>

\* A statement that waits has no effect before it fails.
StatementFails(r) == Fail(r) /\ (wrote' # wrote => ~Waits(r)) /\ UNCHANGED bulk

AdapterNext ==
  \/ load.store = "template" /\ Next /\ UNCHANGED bulk
  \/ /\ load.store = "sql" /\ load' = load
     /\ \E r \in Requests :
          \/ ServerBegin(r) \/ ServerAction(r) \/ SqlCreate(r) \/ SqlUpdate(r) \/ SqlRecordAudit(r)
          \/ BeginTx(r) \/ SqlGetOld(r) \/ SqlErase(r) \/ Commit(r) \/ GiveUp(r)
          \/ StatementFails(r) \/ DeleteFails(r)
  \/ /\ load.store = "mongo" /\ load' = load
     /\ \E r \in Requests :
          \/ ServerBegin(r) \/ ServerAction(r) \/ MongoCreate(r) \/ MongoUpdate(r) \/ MongoRecordAudit(r)
          \/ MongoDeleteMany(r) \/ StatementFails(r) \/ DeleteFails(r)

AdapterSpec == AdapterInit /\ [][AdapterNext]_adapterVars
=============================================================================
