----------------------------- MODULE AdminServer -----------------------------
(***************************************************************************)
(* The record handlers of pkg/server (handler_crud.go) on the PostgreSQL   *)
(* store behind them (store.go).  Every HTTP request runs in a goroutine   *)
(* of its own: one action is one SQL statement together with the Go code   *)
(* up to the next statement, so requests interleave exactly where the code *)
(* gives up control.                                                       *)
(*                                                                         *)
(* PostgreSQL is modelled from how the store uses it: a statement outside  *)
(* a transaction is atomic and durable at once; the transaction of         *)
(* DeleteMany runs at READ COMMITTED, hides its own deletes from itself    *)
(* and keeps a row lock on them until it ends; a statement that needs a    *)
(* locked row waits; one request of a cycle of waiters is aborted.         *)
(***************************************************************************)
CONSTANTS Requests,      \* every request ever sent; each is handled once
          Ids,           \* primary keys
          Tenants,       \* values of the tenant column
          Values,        \* what the writable fields of a record can hold
          NoValue,       \* an update with no writable field in its body
          Seed,          \* origin of the records that were there before
          TenantScoped,  \* the resource declares TenantScoped(...)
          Calls,         \* the calls the clients of this instance may make
          Failures       \* database errors, timeouts and crashes may happen

Ops == {"get", "create", "update", "delete", "bulk_delete"}
Actor == [tenant : Tenants, super : BOOLEAN]
Call == [op : Ops, actor : Actor, ids : SUBSET Ids,
         val : Values \union {NoValue}, allowed : BOOLEAN]
\* "by" is not a column: it tells apart records that reuse an id.
Row == [id : Ids, tenant : Tenants, val : Values, by : Requests \union {Seed}]
Event == [req : Requests, action : Ops \union {"permission_denied"},
          actor : Actor, old : SUBSET Row, new : SUBSET Row]
Labels == {"idle", "read", "insert", "change", "remove", "reread",
           "select", "erase", "commit", "audit", "done"}
Outcomes == {"none", "ok", "not_found", "failed", "forbidden", "invalid", "lost"}

\* Only a bulk delete names several records, and only an update may come
\* without a value: the body of a create always yields a row.
ASSUME CallsAssumption ==
  /\ Calls \subseteq Call
  /\ \A c \in Calls : c.op # "bulk_delete" => \E id \in Ids : c.ids = {id}
  /\ \A c \in Calls : c.op = "create" => c.val # NoValue
ASSUME ConstantsAssumption ==
  /\ NoValue \notin Values
  /\ Seed \notin Requests
  /\ TenantScoped \in BOOLEAN
  /\ Failures \in BOOLEAN

VARIABLES
  rows,      \* the committed records of the table
  pending,   \* pending[r]: records deleted by r's open transaction
  call,      \* call[r]: what the client of r asked for
  pc,        \* pc[r]: the statement r executes next
  todo,      \* todo[r]: ids DeleteMany has not deleted yet
  old, new,  \* old[r], new[r]: oldRecord(s) and newRecord of the handler
  outcome,   \* outcome[r]: the answer of the handler
  audit,     \* gomyadmin_audit_logs
  effect     \* ghost: the records r inserted, changed or removed

vars == <<rows, pending, call, pc, todo, old, new, outcome, audit, effect>>

-----------------------------------------------------------------------------
\* The where clause of Get, Update, Delete and DeleteMany: primary key, and
\* the tenant column unless the first role of the actor is super_admin.
Visible(r, x) == ~TenantScoped \/ call[r].actor.super \/ x.tenant = call[r].actor.tenant
\* (wrong variant: the tenant column is left out of the where clause)
Matching_AnyTenant(r, ids, table) == {x \in table : x.id \in ids}

Matching(r, ids, table) == {x \in table : x.id \in ids /\ Visible(r, x)}

Locked(r, x) == \E q \in Requests \ {r} : x \in pending[q]

NewRow(r, id) == [id |-> id, tenant |-> call[r].actor.tenant, val |-> call[r].val, by |-> r]
\* The id DeleteMany has selected and not deleted yet.
Current(r) == {x.id : x \in old[r]} \intersect todo[r]

GoTo(r, label) == pc' = [pc EXCEPT ![r] = label]
Answer(r, result) ==
  /\ pc' = [pc EXCEPT ![r] = "done"]
  /\ outcome' = [outcome EXCEPT ![r] = result]

TypeOK ==
  /\ rows \subseteq Row
  /\ pending \in [Requests -> SUBSET Row]
  /\ call \in [Requests -> Calls]
  /\ pc \in [Requests -> Labels]
  /\ todo \in [Requests -> SUBSET Ids]
  /\ old \in [Requests -> SUBSET Row]
  /\ new \in [Requests -> SUBSET Row]
  /\ outcome \in [Requests -> Outcomes]
  /\ audit \subseteq Event
  /\ effect \in [Requests -> SUBSET Row]

UniqueIds(table) == \A x, y \in table : x.id = y.id => x = y

Init ==
  /\ rows \in {t \in SUBSET [id : Ids, tenant : Tenants, val : Values, by : {Seed}] : UniqueIds(t)}
  /\ pending = [r \in Requests |-> {}]
  /\ call \in [Requests -> Calls]
  /\ pc = [r \in Requests |-> "idle"]
  /\ todo = [r \in Requests |-> call[r].ids]
  /\ old = [r \in Requests |-> {}]
  /\ new = [r \in Requests |-> {}]
  /\ outcome = [r \in Requests |-> "none"]
  /\ audit = {}
  /\ effect = [r \in Requests |-> {}]

-----------------------------------------------------------------------------
\* Entry of a handler: can() or deny(), the validation of the body, and the
\* jump to the first statement of the store operation.
FirstLabel(op) == CASE op = "create" -> "insert"
                    [] op = "bulk_delete" -> "select"
                    [] OTHER -> "read"

Begin(r) ==
  /\ pc[r] = "idle"
  /\ \/ /\ ~call[r].allowed
        /\ GoTo(r, "audit")
        /\ UNCHANGED outcome
     \/ /\ call[r].allowed /\ call[r].ids = {}
        /\ Answer(r, "invalid")
     \/ /\ call[r].allowed /\ call[r].ids # {}
        /\ GoTo(r, FirstLabel(call[r].op))
        /\ UNCHANGED outcome
  /\ UNCHANGED <<rows, pending, call, todo, old, new, audit, effect>>

\* Get: the only statement of handleGet, the first of Update and Delete.
\* An update that has nothing to assign answers with the record it read.
Read(r) ==
  LET found == Matching(r, call[r].ids, rows)
      op == call[r].op
  IN /\ pc[r] = "read"
     /\ old' = [old EXCEPT ![r] = found]
     /\ \/ found = {} /\ Answer(r, "not_found") /\ UNCHANGED new
        \/ found # {} /\ op = "get" /\ Answer(r, "ok") /\ UNCHANGED new
        \/ /\ found # {} /\ op = "delete"
           /\ GoTo(r, "remove")
           /\ UNCHANGED <<new, outcome>>
        \/ /\ found # {} /\ op = "update" /\ call[r].val # NoValue
           /\ GoTo(r, "change")
           /\ UNCHANGED <<new, outcome>>
        \/ /\ found # {} /\ op = "update" /\ call[r].val = NoValue
           /\ GoTo(r, "audit")
           /\ new' = [new EXCEPT ![r] = found]
           /\ UNCHANGED outcome
     /\ UNCHANGED <<rows, pending, call, todo, audit, effect>>

-----------------------------------------------------------------------------
\* What the mutating statements do to the table.
InsertRow(r) ==
  LET fresh == {NewRow(r, id) : id \in call[r].ids}
  IN /\ \A x \in rows : x.id \notin call[r].ids
     /\ rows' = rows \union fresh
     /\ effect' = [effect EXCEPT ![r] = fresh]

ChangeRow(r) ==
  LET hit == Matching(r, call[r].ids, rows)
  IN /\ \A x \in hit : ~Locked(r, x)
     /\ rows' = (rows \ hit) \union {[x EXCEPT !.val = call[r].val] : x \in hit}
     /\ effect' = [effect EXCEPT ![r] = hit]

\* (wrong variant: Delete trusts the Get before it and deletes by id alone)
RemoveRow_ById(r) ==
  LET hit == {x \in rows : x.id \in call[r].ids}
  IN /\ \A x \in hit : ~Locked(r, x)
     /\ rows' = rows \ hit
     /\ effect' = [effect EXCEPT ![r] = hit]

RemoveRow(r) ==
  LET hit == Matching(r, call[r].ids, rows)
  IN /\ \A x \in hit : ~Locked(r, x)
     /\ rows' = rows \ hit
     /\ effect' = [effect EXCEPT ![r] = hit]

CommitRows(r) ==
  /\ rows' = rows \ pending[r]
  /\ effect' = [effect EXCEPT ![r] = pending[r]]

\* Create: the insert, and the error it returns when the id is taken.
Insert(r) ==
  /\ pc[r] = "insert"
  /\ InsertRow(r)
  /\ GoTo(r, "reread")
  /\ UNCHANGED <<pending, call, todo, old, new, outcome, audit>>

InsertConflict(r) ==
  /\ pc[r] = "insert"
  /\ \E x \in rows : x.id \in call[r].ids /\ ~Locked(r, x)
  /\ Answer(r, "failed")
  /\ UNCHANGED <<rows, pending, call, todo, old, new, audit, effect>>

\* Update: the update statement.  The number of rows it hit is not looked at.
Change(r) ==
  /\ pc[r] = "change"
  /\ ChangeRow(r)
  /\ GoTo(r, "reread")
  /\ UNCHANGED <<pending, call, todo, old, new, outcome, audit>>

\* Delete: the delete statement, whose row count is not looked at either.
Remove(r) ==
  /\ pc[r] = "remove"
  /\ RemoveRow(r)
  /\ GoTo(r, "audit")
  /\ UNCHANGED <<pending, call, todo, old, new, outcome, audit>>

\* The Get that ends Create (as super_admin) and Update (as the actor).
RereadTable(r) == IF call[r].op = "create"
                    THEN {x \in rows : x.id \in call[r].ids}
                    ELSE Matching(r, call[r].ids, rows)

Reread(r) ==
  /\ pc[r] = "reread"
  /\ new' = [new EXCEPT ![r] = RereadTable(r)]
  /\ \/ RereadTable(r) # {} /\ GoTo(r, "audit") /\ UNCHANGED outcome
     \/ /\ RereadTable(r) = {}
        /\ Answer(r, IF call[r].op = "create" THEN "failed" ELSE "not_found")
  /\ UNCHANGED <<rows, pending, call, todo, old, audit, effect>>

-----------------------------------------------------------------------------
\* DeleteMany, inside its transaction: select one record, delete it, and so
\* on; a record that is not there rolls everything back.
\* (wrong variant: the error is shadowed, the deferred Rollback does not run)
Rollback_Skipped(r) == UNCHANGED pending

Rollback(r) == pending' = [pending EXCEPT ![r] = {}]

Select(r) ==
  /\ pc[r] = "select"
  /\ \E id \in todo[r] :
       LET found == Matching(r, {id}, rows \ pending[r])
       IN \/ /\ found # {}
             /\ old' = [old EXCEPT ![r] = @ \union found]
             /\ GoTo(r, "erase")
             /\ UNCHANGED <<pending, outcome>>
          \/ /\ found = {}
             /\ Rollback(r)
             /\ Answer(r, "not_found")
             /\ UNCHANGED old
  /\ UNCHANGED <<rows, call, todo, new, audit, effect>>

\* (wrong variant: DeleteMany deletes without a transaction)
Erase_AutoCommit(r) ==
  /\ pc[r] = "erase"
  /\ LET hit == Matching(r, Current(r), rows)
     IN /\ rows' = rows \ hit
        /\ effect' = [effect EXCEPT ![r] = @ \union hit]
  /\ todo' = [todo EXCEPT ![r] = @ \ Current(r)]
  /\ GoTo(r, IF todo[r] \subseteq Current(r) THEN "audit" ELSE "select")
  /\ UNCHANGED <<pending, call, old, new, outcome, audit>>

\* (wrong variant: the select of the record is taken for its deletion)
Erase_Skipped(r) ==
  /\ pc[r] = "erase"
  /\ todo' = [todo EXCEPT ![r] = @ \ Current(r)]
  /\ GoTo(r, IF todo[r] \subseteq Current(r) THEN "commit" ELSE "select")
  /\ UNCHANGED <<rows, pending, call, old, new, outcome, audit, effect>>

Erase(r) ==
  /\ pc[r] = "erase"
  /\ LET hit == Matching(r, Current(r), rows \ pending[r])
     IN /\ \A x \in hit : ~Locked(r, x)
        /\ pending' = [pending EXCEPT ![r] = @ \union hit]
  /\ todo' = [todo EXCEPT ![r] = @ \ Current(r)]
  /\ GoTo(r, IF todo[r] \subseteq Current(r) THEN "commit" ELSE "select")
  /\ UNCHANGED <<rows, call, old, new, outcome, audit, effect>>

Commit(r) ==
  /\ pc[r] = "commit"
  /\ CommitRows(r)
  /\ Rollback(r)      \* nothing is left to roll back: the locks go
  /\ GoTo(r, "audit")
  /\ UNCHANGED <<call, todo, old, new, outcome, audit>>

-----------------------------------------------------------------------------
\* emitAudit and the answer that follows it, from the handler or from deny.
EventOf(r) ==
  [req |-> r, action |-> IF call[r].allowed THEN call[r].op ELSE "permission_denied",
   actor |-> call[r].actor, old |-> old[r], new |-> new[r]]
FinalOutcome(r) == IF call[r].allowed THEN "ok" ELSE "forbidden"

Audit(r) ==
  /\ pc[r] = "audit"
  /\ audit' = audit \union {EventOf(r)}
  /\ Answer(r, FinalOutcome(r))
  /\ UNCHANGED <<rows, pending, call, todo, old, new, effect>>

\* RecordAudit drops the error of its insert: the answer does not change.
AuditFails(r) ==
  /\ Failures
  /\ pc[r] = "audit"
  /\ Answer(r, FinalOutcome(r))
  /\ UNCHANGED <<rows, pending, call, todo, old, new, audit, effect>>

\* A statement that returns an error: the database refused it, or the ten
\* seconds of requestTimeout ran out, or the client went away.
InStatement(r) == pc[r] \in Labels \ {"idle", "audit", "done"}

Fail(r) ==
  /\ Failures
  /\ InStatement(r)
  /\ Rollback(r)
  /\ Answer(r, "failed")
  /\ UNCHANGED <<rows, call, todo, old, new, audit, effect>>

\* The statement was executed and only its answer was lost.
FailAfterEffect(r) ==
  /\ Failures
  /\ \/ pc[r] = "insert" /\ InsertRow(r)
     \/ pc[r] = "change" /\ ChangeRow(r)
     \/ pc[r] = "remove" /\ RemoveRow(r)
     \/ pc[r] = "commit" /\ CommitRows(r)
  /\ Rollback(r)
  /\ Answer(r, "failed")
  /\ UNCHANGED <<call, todo, old, new, audit>>

\* PostgreSQL aborts one statement of a cycle of transactions that wait for
\* each other's row locks.
WaitsFor(r) ==
  {q \in Requests \ {r} : pc[r] = "erase" /\
     Matching(r, Current(r), rows) \intersect pending[q] # {}}

DeadlockAbort(r) ==
  /\ \E S \in SUBSET Requests :
       r \in S /\ \A q \in S : WaitsFor(q) \intersect S # {}
  /\ Rollback(r)
  /\ Answer(r, "failed")
  /\ UNCHANGED <<rows, call, todo, old, new, audit, effect>>

\* The process dies: open transactions vanish, nobody is answered.
Crash ==
  LET running == {r \in Requests : pc[r] \notin {"idle", "done"}}
  IN /\ Failures
     /\ running # {}
     /\ pending' = [r \in Requests |-> {}]
     /\ pc' = [r \in Requests |-> IF r \in running THEN "done" ELSE pc[r]]
     /\ outcome' = [r \in Requests |-> IF r \in running THEN "lost" ELSE outcome[r]]
     /\ UNCHANGED <<rows, call, todo, old, new, audit, effect>>

Statement(r) ==
  \/ Read(r)
  \/ Insert(r) \/ InsertConflict(r) \/ Change(r) \/ Remove(r) \/ Reread(r)
  \/ Select(r) \/ Erase(r) \/ Commit(r) \/ DeadlockAbort(r)
  \/ Audit(r)

Next ==
  \/ \E r \in Requests : Begin(r) \/ Statement(r)
  \/ \E r \in Requests : AuditFails(r) \/ Fail(r) \/ FailAfterEffect(r)
  \/ Crash

Spec == Init /\ [][Next]_vars
\* The Go scheduler runs every goroutine and PostgreSQL executes what it is
\* sent; whether a client ever sends a request is its own business.
FairSpec == Spec /\ \A r \in Requests : WF_vars(Statement(r))

-----------------------------------------------------------------------------
SameRecord(x, y) == x.id = y.id /\ x.by = y.by
MaySee(a, x) == ~TenantScoped \/ a.super \/ x.tenant = a.tenant

\* Every request changes the table at most once, in one indivisible step and
\* within the tenant of its actor: the statement-by-statement store implements
\* the abstract table (Create, Update, Delete, DeleteMany of store.go).
Table == INSTANCE TenantTable WITH actor <- [r \in Requests |-> call[r].actor]
ImplementsTable == Table!Spec

\* A record the log reports as deleted is not in the table, and a record
\* created later under its id is another one: Delete and DeleteMany log what
\* an earlier select returned, after a delete whose row count they ignore.
GoneOnceAudited ==
  \A e \in audit : e.action \in {"delete", "bulk_delete"} =>
    \A x \in e.old, y \in rows : ~SameRecord(x, y)

\* A refusal refuses everything: a request answered 403 or 400, and any but an
\* update answered 404, has left no trace in the table, in particular a bulk
\* delete that found some of its records and missed one.
RefusalHasNoEffect ==
  \A r \in Requests :
    \/ outcome[r] \in {"forbidden", "invalid"}
    \/ outcome[r] = "not_found" /\ call[r].op # "update"
    => effect[r] = {}

\* What the audit log stores under an actor is what that actor may see: the old
\* and new values of every event, but for one race: Create rereads without the
\* tenant clause (store.go:232), so a record that took the id after it was
\* deleted again gets into its event.
AuditWithinTenant ==
  \A e \in audit : \A x \in e.old \union e.new :
    MaySee(e.actor, x) \/ (e.action = "create" /\ x.by # e.req)

\* Row locks are held by open transactions only, on records that are still
\* there, and never by two requests: no path of DeleteMany leaves without
\* Commit or Rollback.
LocksInTransaction ==
  \A r \in Requests :
    /\ pending[r] # {} => pc[r] \in {"select", "erase", "commit"}
    /\ pending[r] \subseteq rows
    /\ \A q \in Requests \ {r} : pending[r] \intersect pending[q] = {}

\* Every request a handler has begun is answered, also when bulk deletes take
\* the same rows in opposite orders.
BegunIsAnswered == \A r \in Requests : pc[r] # "idle" ~> pc[r] = "done"

-----------------------------------------------------------------------------
\* Why the properties hold: the inductive invariant, in named parts.
InTransaction(r) == pc[r] \in {"select", "erase", "commit"}

\* Every label belongs to one operation, of an authorised request.
LabelsOfOperations ==
  \A r \in Requests :
    /\ pc[r] \notin {"idle", "audit", "done"} => call[r].allowed
    /\ pc[r] = "read" => call[r].op \in {"get", "update", "delete"}
    /\ pc[r] = "insert" => call[r].op = "create"
    /\ pc[r] = "change" => call[r].op = "update" /\ call[r].val # NoValue
    /\ pc[r] = "remove" => call[r].op = "delete"
    /\ pc[r] = "reread" => call[r].op \in {"create", "update"}
    /\ InTransaction(r) => call[r].op = "bulk_delete"
    /\ pc[r] = "commit" => todo[r] = {}

\* What a request has looked up are records it asked for and may see.
Lookups ==
  \A r \in Requests :
    /\ todo[r] \subseteq call[r].ids
    /\ pc[r] = "idle" => old[r] = {}
    /\ \A x \in old[r] \union pending[r] : x.id \in call[r].ids /\ Visible(r, x)
    /\ call[r].op # "create" => \A x \in new[r] : Visible(r, x)
    /\ ~call[r].allowed => old[r] = {} /\ new[r] = {} /\ effect[r] = {}

\* Nobody holds a record of a request that has not inserted it yet, and a
\* record keeps its tenant for life.
Inserted(x) == x.by \in Requests => pc[x.by] \notin {"idle", "insert"}
Origins ==
  /\ UniqueIds(rows)
  /\ \A x \in rows : Inserted(x)
  /\ \A r \in Requests : \A x \in old[r] :
       /\ Inserted(x)
       /\ \A y \in rows : SameRecord(x, y) => x.tenant = y.tenant

\* A record that was created has the tenant of the actor of that request.
TenantOfCreator ==
  \A r \in Requests : \A x \in rows \union new[r] :
    x.by \in Requests => x.tenant = call[x.by].actor.tenant

\* Inside the transaction, what was selected and is not locked is still to do.
SelectedIsLockedOrGone ==
  \A r \in Requests : InTransaction(r) =>
    \A x \in old[r], y \in rows \ pending[r] : SameRecord(x, y) => x.id \in todo[r]

\* From the audit step on, what a delete has read is gone.
Deletes(r) == call[r].allowed /\ call[r].op \in {"delete", "bulk_delete"}
ReadIsGone ==
  \A r \in Requests :
    Deletes(r) /\ (pc[r] = "audit" \/ EventOf(r) \in audit)
      => \A x \in old[r], y \in rows : ~SameRecord(x, y)

\* Events are written last, and effects happen once, before the answer.
Bookkeeping ==
  /\ \A e \in audit : pc[e.req] = "done" /\ e = EventOf(e.req)
  /\ \A r \in Requests :
       /\ pc[r] # "done" => outcome[r] = "none"
       /\ pc[r] \notin {"reread", "audit", "done"} => effect[r] = {}

IInv ==
  /\ TypeOK
  /\ LocksInTransaction
  /\ LabelsOfOperations
  /\ Lookups
  /\ Origins
  /\ TenantOfCreator
  /\ SelectedIsLockedOrGone
  /\ ReadIsGone
  /\ Bookkeeping
  /\ RefusalHasNoEffect

-----------------------------------------------------------------------------
\* docs/audit-log.md: events are emitted for create, update and delete.
ChangesAreAudited ==
  \A r \in Requests :
    pc[r] = "done" /\ effect[r] # {} => \E e \in audit : e.req = r
=============================================================================
