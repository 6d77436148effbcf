-------------------------- MODULE BackendTemplate --------------------------
(***************************************************************************)
(* The backend a new project starts from (templates/backend-go): the       *)
(* handlers of internal/app/server.go over the Store of store.go.  Unlike  *)
(* pkg/server it uses no transactions: one action is one SQL statement,    *)
(* committed by itself.  The users who log in are rows of the table users, *)
(* and audit_logs is a resource like the others.  All resources have       *)
(* tenant_id; a row is its tenant, its status, the row that its foreign    *)
(* key names, and the rest of it, "name".  A row has a place of its own:   *)
(* its id if it was there at the start, else the request that inserted it. *)
(* The template draws an id once; AdapterStores, which puts other stores   *)
(* in its place, takes ids from clients, and several rows may have one.    *)
(***************************************************************************)
EXTENDS Naturals, FiniteSets

CONSTANTS Requests, Records,  \* the ids that rows have or will be given
          Users,              \* the records of the table users
          Seeded,             \* the records that seedSQL has inserted
          SuperAdmins,        \* the users with the role super_admin
          TenantOf,           \* TenantOf[t]: the tenant of a seeded record
          ParentOf,           \* ParentOf[t]: what its foreign key names, or None
          TableOf,            \* TableOf[t]: the table that id t is of
          Statuses,           \* "active" and "blocked" stand for all of them
          Names, None,
          AnEvent,            \* what old and new are when an event is meant
          Number,             \* the body of a create whose id is a number
          Workloads           \* what the requests of a behaviour may be

Tables == {"users", "customers", "invoices", "tickets", "invoice_items", "payments", "files"}
Places == Seeded \union Requests

ASSUME ConstantsAssumption ==
  /\ SuperAdmins \subseteq Users /\ Users \subseteq Seeded /\ Seeded \subseteq Records
  /\ DOMAIN TenantOf = Seeded /\ ParentOf \in [Seeded -> Seeded \union {None}]
  /\ TableOf \in [Records -> Tables]
  /\ {"active", "blocked"} \subseteq Statuses /\ Names # {}
  /\ Records \intersect Requests = {}
  /\ \A w \in Workloads :
       /\ w.ops \subseteq {"login", "oauth_login", "create", "update", "action", "delete", "bulk", "bulk_delete"}
       /\ w.fields \subseteq {"status", "name", "parent"}   \* that updates name
       /\ w.targets \subseteq Records \union Requests     \* an event has the id of its request
       /\ w.store # "template" => w.targets \subseteq Records /\ "parent" \notin w.fields
       /\ w.users \subseteq Users
       /\ w.requests \in Nat /\ w.faults \in Nat            \* at most so many
       /\ w.store \in {"template", "sql", "mongo"} /\ w.pool \in Nat

VARIABLES
  load,      \* the workload
  rows,      \* rows[p]: the row at place p, or None
  log,       \* log[r]: the row of request r in audit_logs, or None
  sessions,  \* the users who are logged in
  op,        \* op[r]: what request r asks for
  actor,     \* actor[r]: the user it comes from
  target,    \* target[r]: the id in its URL, or of the record it creates, or who logs in
  batch,     \* batch[r]: the ids in its body, which only AdapterStores knows
  input,     \* input[r]: the fields in its body and their values
  old, new,  \* old[r], new[r]: the sets of records for its audit event
  step,      \* step[r]: what its handler does next
  answer,    \* answer[r]: its HTTP status; of a redirect, 200 or 401
  seen,      \* ghost: seen[r]: what rows its ids have had since r began
  wrote,     \* ghost: wrote[r]: the places that r has changed; AnEvent for an event
  older,     \* ghost: older[r]: the rows inserted before the statement of r that writes
  audited,   \* ghost: the requests whose event has been inserted
  failed     \* ghost: the requests with a statement that has failed

request == <<op, actor, target, batch, input>>
ghosts == <<seen, wrote, older, audited, failed>>
vars == <<load, rows, log, sessions, request, old, new, step, answer, ghosts>>

Ops == {"login", "oauth_login", "create", "update", "action", "delete", "bulk", "bulk_delete"}
Targets == Records \union Requests
Tenants == {TenantOf[t] : t \in Seeded}
Row == [tenant : Tenants, status : Statuses, name : Names, parent : Places \union {None}]
Changes == [{"status"} -> Statuses] \union [{"name"} -> Names] \union [{"parent"} -> Places]
Inputs == Changes \union {Number}
Images == SUBSET (Row \union {AnEvent})
Event == [tenant : Tenants \union {None}, on : Targets \union {None},
          action : Ops \union {"failed_login", "permission_denied"}, old : Images, new : Images]

ASSUME NoneAssumption ==
  /\ None \notin Targets \union Ops \union Inputs \union Row \union Event
  /\ Number \notin Changes /\ AnEvent \notin Row \union Places

TypeOK ==
  /\ load \in Workloads
  /\ rows \in [Places -> Row \union {None}]
  /\ log \in [Requests -> Event \union {None}]
  /\ sessions \subseteq Users
  /\ op \in [Requests -> Ops \union {None}]
  /\ actor \in [Requests -> Users \union {None}]
  /\ target \in [Requests -> Targets \union {None}]
  /\ input \in [Requests -> Inputs \union {None}]
  /\ batch \in [Requests -> SUBSET Records]
  /\ old \in [Requests -> Images] /\ new \in [Requests -> Images]
  /\ step \in [Requests -> {"new", "select", "insert", "write", "reread", "session", "audit",
                            "refuse", "begin", "get", "erase", "commit", "done"}]
  /\ answer \in [Requests -> {0, 200, 201, 401, 403, 404, 500}]
  /\ {audited, failed} \subseteq SUBSET Requests

Init ==
  /\ load \in Workloads
  /\ \E name \in Names :
       rows = [p \in Places |->
                 IF p \in Seeded
                 THEN [tenant |-> TenantOf[p], status |-> "active", name |-> name, parent |-> ParentOf[p]]
                 ELSE None]
  /\ log = [r \in Requests |-> None]
  /\ sessions \in {{}, load.users}
  /\ op = [r \in Requests |-> None]
  /\ actor = [r \in Requests |-> None]
  /\ target = [r \in Requests |-> None]
  /\ input = [r \in Requests |-> None]
  /\ batch = [r \in Requests |-> {}]
  /\ old = [r \in Requests |-> {}]
  /\ new = [r \in Requests |-> {}]
  /\ step = [r \in Requests |-> "new"]
  /\ answer = [r \in Requests |-> 0]
  /\ seen = [r \in Requests |-> {}]
  /\ wrote = [r \in Requests |-> {}]
  /\ older = [r \in Requests |-> Seeded]
  /\ audited = {}
  /\ failed = {}

-----------------------------------------------------------------------------
Goto(r, next) == step' = [step EXCEPT ![r] = next] /\ UNCHANGED answer
Send(r, status) ==
  /\ step' = [step EXCEPT ![r] = "done"]
  /\ answer' = [answer EXCEPT ![r] = status]

\* The handler of custom actions throws the errors of Update away.
Abort(r, status) == IF op[r] = "action" THEN Goto(r, "audit") ELSE Send(r, status)

Aims(q) == {target[q]} \union batch[q]

\* The id of the row at p.  One that was stored as a number equals no string.
Id(p) == IF p \in Seeded THEN p
         ELSE IF input[p] = Number THEN [number |-> target[p]] ELSE target[p]

At(t) == {p \in Places : rows[p] # None /\ Id(p) = t}

\* A place whose row has been inserted, or never will be.
Settled(p) == p \in Seeded \/ (op[p] = "create" /\ step[p] \notin {"new", "insert"})

\* A statement of r gives new contents to some places.
Put(r, contents) ==
  /\ rows' = [p \in Places |-> IF p \in DOMAIN contents THEN contents[p] ELSE rows[p]]
  /\ seen' = [q \in Requests |->
                seen[q] \union ({contents[p] : p \in {x \in DOMAIN contents : Id(x) \in Aims(q)}} \ {None})]
  /\ wrote' = [wrote EXCEPT ![r] = @ \union DOMAIN contents]
  /\ UNCHANGED log

\* It is about the rows with id t, of which it finds those there are by now.
ComesAfter(r, t) == older' = [older EXCEPT ![r] = @ \union {p \in Places : Settled(p) /\ Id(p) = t}]

\* (wrong variant: the tenant is not looked at)
Reaches_AnyTenant(r, x) == x # None

\* The where clause of Get, Update and Delete: the tenant, unless super_admin.
Reaches(r, x) == x # None /\ (actor[r] \in SuperAdmins \/ x.tenant = TenantOf[actor[r]])

Reach(r, t) == {p \in At(t) : Reaches(r, rows[p])}

\* What a Get of r may return.
Results(r, t) ==
  IF t \in Requests THEN IF Reaches(r, log[t]) THEN {AnEvent} ELSE {}
                    ELSE {rows[p] : p \in Reach(r, t)}

\* The sets of rows an update or a delete by id may hit: all it reaches, but
\* UpdateOne and DeleteOne of MongoDB take one.
Hits(r, t) ==
  IF load.store = "mongo" /\ Reach(r, t) # {} THEN {{p} : p \in Reach(r, t)} ELSE {Reach(r, t)}

\* The foreign keys, none of which looks at tenant_id.
Referred(table) ==
  CASE table \in {"invoices", "tickets"} -> "customers"
    [] table \in {"invoice_items", "payments"} -> "invoices"
    [] OTHER -> None

MayRefer(t, p) ==
  IF load.store = "template" /\ Referred(TableOf[t]) # None
  THEN p \in Places /\ rows[p] # None /\ TableOf[Id(p)] = Referred(TableOf[t])
  ELSE p = None

\* on delete cascade: no row refers to one that refers to one that refers.
Below(S) == {p \in Places : rows[p] # None /\ rows[p].parent \in S}
Cascade(S) == S \union Below(S) \union Below(Below(S))

MayBegin(r) ==
  step[r] = "new" /\ Cardinality({q \in Requests : step[q] # "new"}) < load.requests

Received(r, o, u, t, b, i) ==
  /\ o \in load.ops
  /\ op' = [op EXCEPT ![r] = o]
  /\ actor' = [actor EXCEPT ![r] = u]
  /\ target' = [target EXCEPT ![r] = t]
  /\ input' = [input EXCEPT ![r] = i]
  /\ batch' = [batch EXCEPT ![r] = b]
  /\ seen' = [seen EXCEPT ![r] =
                {rows[p] : p \in UNION {At(x) : x \in {t} \union b}}
                \union (IF t \in Requests /\ log[t] # None THEN {AnEvent} ELSE {})]
  /\ UNCHANGED <<rows, log, sessions, old, new, wrote, older, audited, failed>>

Receive(r, o, u, t, i) == Received(r, o, u, t, {}, i)

-----------------------------------------------------------------------------
BeginLogin(r) ==
  /\ MayBegin(r)
  /\ \E u \in load.users \intersect load.targets : Receive(r, "login", u, u, None) /\ Goto(r, "select")

\* oauthCallback once the provider has told who it is (see OAuthFlow).
BeginOAuth(r) ==
  /\ MayBegin(r)
  /\ \E u \in load.users \intersect load.targets : Receive(r, "oauth_login", u, u, None) /\ Goto(r, "select")

\* What a body may assign to fields of t.
Bodies(t) ==
  {i \in Changes : /\ DOMAIN i \subseteq load.fields
                   /\ "parent" \in DOMAIN i => t \in Records /\ Referred(TableOf[t]) # None}

\* A session may do everything, the scopes of an API key may not suffice.
Begin(r) ==
  /\ MayBegin(r)
  /\ \E u \in sessions, t \in load.targets :
       \/ \E i \in Bodies(t) :
            \/ Receive(r, "update", u, t, i) /\ Goto(r, "select")
            \/ Receive(r, "update", u, t, i) /\ Goto(r, "refuse")
            \/ \* block-user, mark-as-paid, refund-invoice and close-ticket
               Receive(r, "action", u, t, i) /\ "status" \in DOMAIN i /\ Goto(r, "select")
       \/ Receive(r, "delete", u, t, None) /\ Goto(r, "select")
       \/ \* reset-password does nothing
          Receive(r, "action", u, t, None) /\ Goto(r, "audit")
       \/ \* bulkAction, of any name, does nothing either; nor does importRecords
          Receive(r, "bulk", u, None, None) /\ Goto(r, "audit")
       \/ /\ Receive(r, "create", u, t, None) /\ Goto(r, "insert")
          /\ t \in Records \ Seeded /\ \A q \in Requests : target[q] # t

\* (wrong variant: the status is not looked at)
Authenticate_AnyStatus(r) ==
  /\ step[r] = "select" /\ op[r] = "login"
  /\ rows[target[r]] # None /\ Goto(r, "session")
  /\ UNCHANGED <<rows, log, sessions, request, old, new, ghosts>>

\* Authenticate: status and password in one statement.
Authenticate(r) ==
  /\ step[r] = "select" /\ op[r] = "login"
  /\ \/ /\ rows[target[r]] # None /\ rows[target[r]].status = "active"
        /\ Goto(r, "session")
     \/ Goto(r, "refuse")          \* no such active user, or a wrong password
  /\ UNCHANGED <<rows, log, sessions, request, old, new, ghosts>>

\* A refusal is a redirect, and not audited.
ActiveUserByEmail(r) ==
  /\ step[r] = "select" /\ op[r] = "oauth_login"
  /\ IF rows[target[r]] # None /\ rows[target[r]].status = "active" THEN Goto(r, "session")
                                                                 ELSE Send(r, 401)
  /\ UNCHANGED <<rows, log, sessions, request, old, new, ghosts>>

\* SessionManager.Start on the memory store.
StartSession(r) ==
  /\ step[r] = "session"
  /\ sessions' = sessions \union {target[r]}
  /\ Goto(r, "audit")
  /\ UNCHANGED <<rows, log, request, old, new, ghosts>>

\* The first Get of Update and Delete.  No field of an event can be assigned.
Select(r) ==
  /\ step[r] = "select" /\ op[r] \notin {"login", "oauth_login"}
  /\ \/ \E x \in Results(r, target[r]) :
          /\ old' = [old EXCEPT ![r] = {x}]
          /\ IF op[r] # "delete" /\ target[r] \in Requests
             THEN new' = [new EXCEPT ![r] = {x}] /\ Goto(r, "audit")
             ELSE UNCHANGED new /\ Goto(r, "write")
     \/ Results(r, target[r]) = {} /\ Abort(r, 404) /\ UNCHANGED <<old, new>>
  /\ UNCHANGED <<rows, log, sessions, request, ghosts>>

\* (wrong variant: the record read before is written back whole)
Updated_WholeRecord(r, p) ==
  LET row == CHOOSE x \in old[r] : TRUE IN
  [f \in DOMAIN row |-> IF f \in DOMAIN input[r] THEN input[r][f] ELSE row[f]]

Updated(r, p) ==
  [f \in DOMAIN rows[p] |-> IF f \in DOMAIN input[r] THEN input[r][f] ELSE rows[p][f]]

\* update ... set ... where id = ...
Amend(r) ==
  /\ step[r] = "write" /\ op[r] # "delete"
  /\ \E S \in Hits(r, target[r]) :
       /\ "parent" \in DOMAIN input[r] => S = {} \/ MayRefer(target[r], input[r].parent)
       /\ Put(r, [p \in S |-> Updated(r, p)])
  /\ ComesAfter(r, target[r])

\* delete from ... where id = ..., also of an event.
Wipe(r) ==
  /\ step[r] = "write" /\ op[r] = "delete"
  /\ IF target[r] \in Requests /\ Results(r, target[r]) # {}
     THEN /\ log' = [log EXCEPT ![target[r]] = None]
          /\ wrote' = [wrote EXCEPT ![r] = @ \union {AnEvent}]
          /\ UNCHANGED <<rows, seen>>
     ELSE \E S \in Hits(r, target[r]) : Put(r, [p \in Cascade(S) |-> None])
  /\ ComesAfter(r, target[r])

\* insert into ...: the primary key is unique, unless the store is MongoDB.
Add(r) ==
  /\ step[r] = "insert"
  /\ load.store # "mongo" => At(Id(r)) = {}
  /\ \E row \in Row :
       /\ row.tenant = TenantOf[actor[r]] /\ MayRefer(target[r], row.parent)
       /\ Put(r, [p \in {r} |-> row])
  /\ UNCHANGED older

\* A constraint of the schema rejects the values.
Rejected(r) ==
  /\ load.store # "mongo" /\ op[r] \in {"create", "update"} /\ step[r] \in {"insert", "write"}
  /\ Send(r, 500)
  /\ UNCHANGED <<rows, log, sessions, request, old, new, ghosts>>

\* (wrong variant: a row that is gone is inserted again)
Update_Upsert(r) ==
  /\ step[r] = "write" /\ op[r] # "delete"
  /\ LET row == CHOOSE x \in old[r] : TRUE IN
     Put(r, [p \in {x \in Places : Settled(x) /\ Id(x) = target[r]} |->
               IF rows[p] = None THEN row ELSE Updated(r, p)])
  /\ ComesAfter(r, target[r])
  /\ Goto(r, "reread")
  /\ UNCHANGED <<sessions, request, old, new, audited, failed>>

\* Nobody asks how many rows it has changed.
Update(r) ==
  \/ Amend(r) /\ Goto(r, "reread") /\ UNCHANGED <<sessions, request, old, new, audited, failed>>
  \/ step[r] = "write" /\ Rejected(r)

Delete(r) ==
  Wipe(r) /\ Goto(r, "audit") /\ UNCHANGED <<sessions, request, old, new, audited, failed>>

Insert(r) ==
  \/ Add(r) /\ Goto(r, "reread") /\ UNCHANGED <<sessions, request, old, new, audited, failed>>
  \/ step[r] = "insert" /\ Rejected(r)

\* (wrong variant: the new record is made up from the old one and the body)
Reread_Merged(r) ==
  /\ step[r] = "reread"
  /\ new' = [new EXCEPT ![r] =
               IF op[r] = "create" THEN {rows[r]}
               ELSE {[f \in DOMAIN x |-> IF f \in DOMAIN input[r] THEN input[r][f] ELSE x[f]] : x \in old[r]}]
  /\ Goto(r, "audit")
  /\ UNCHANGED <<rows, log, sessions, request, old, ghosts>>

\* The second Get of Update, and that of Create, which asks as super_admin and
\* whose caller knows no 404.
Reread(r) ==
  /\ step[r] = "reread"
  /\ LET found == IF op[r] = "create" THEN {rows[p] : p \in At(target[r])} ELSE Results(r, target[r])
     IN \/ \E x \in found : new' = [new EXCEPT ![r] = {x}] /\ Goto(r, "audit")
        \/ found = {} /\ Abort(r, IF op[r] = "create" THEN 500 ELSE 404) /\ UNCHANGED new
  /\ UNCHANGED <<rows, log, sessions, request, old, ghosts>>

Fails(r) == Cardinality(failed) < load.faults /\ failed' = failed \union {r}

\* Custom actions record neither the old nor the new row.
EventOf(r, action) ==
  [tenant |-> IF action = "failed_login" THEN None ELSE TenantOf[actor[r]],
   action |-> action, on |-> target[r],
   old |-> IF action \in {"update", "delete", "bulk_delete"} THEN old[r] ELSE {},
   new |-> IF action \in {"update", "create"} THEN new[r] ELSE {}]

\* auditEvent, whose error nobody looks at, and the answer.
Record(r, action, status) ==
  /\ \/ /\ log' = [log EXCEPT ![r] = EventOf(r, action)]
        /\ audited' = audited \union {r} /\ UNCHANGED failed
     \/ Fails(r) /\ UNCHANGED <<log, audited>>
  /\ seen' = [q \in Requests |->
                IF target[q] = r /\ r \in audited' THEN seen[q] \union {AnEvent} ELSE seen[q]]
  /\ Send(r, status)
  /\ UNCHANGED <<rows, sessions, request, old, new, wrote, older>>

Audit(r) ==
  step[r] = "audit" /\ Record(r, op[r], IF op[r] = "create" THEN 201 ELSE 200)

Refuse(r) ==
  /\ step[r] = "refuse"
  /\ IF op[r] = "login" THEN Record(r, "failed_login", 401)
                        ELSE Record(r, "permission_denied", 403)

\* A statement fails or its answer is lost; the request may be out of time.
Fail(r) ==
  /\ Fails(r)
  /\ \/ step[r] \in {"select", "write", "insert", "reread", "session"} /\ UNCHANGED <<rows, log, seen, wrote, older>>
     \/ Amend(r) \/ Wipe(r) \/ Add(r)
  /\ Abort(r, IF op[r] = "oauth_login" THEN 401 ELSE 500)
  /\ UNCHANGED <<sessions, request, old, new, audited>>

Next ==
  /\ load' = load
  /\ \E r \in Requests :
       \/ BeginLogin(r) \/ BeginOAuth(r) \/ Begin(r)
       \/ Authenticate(r) \/ ActiveUserByEmail(r) \/ StartSession(r)
       \/ Select(r) \/ Update(r) \/ Delete(r) \/ Insert(r) \/ Reread(r)
       \/ Audit(r) \/ Refuse(r) \/ Fail(r)

Spec == Init /\ [][Next]_vars

-----------------------------------------------------------------------------
\* A login succeeds only for a user who was active at some moment of it,
\* whatever blocks or deletes the user meanwhile (Authenticate, ActiveUserByEmail).
LoginWasActive ==
  \A r \in Requests : op[r] \in {"login", "oauth_login"} /\ answer[r] = 200 =>
    \E row \in seen[r] \ {AnEvent} : row.status = "active"

\* What the event of an update or a delete shows as old and new was really in
\* the table while the request ran: neither is made up from the body.
EventsWereReal ==
  \A r \in Requests : log[r] # None => log[r].old \union log[r].new \subseteq seen[r]

\* Updates of different fields of one row do not undo each other: in every row
\* that a confirmed update has hit, its fields hold unless another update of
\* that row has named them.  It may have hit none only if a create has taken
\* the id since.
UpdatesAreIndependent ==
  \A r \in Requests : op[r] = "update" /\ answer[r] = 200 /\ target[r] \in Records =>
    /\ wrote[r] = {} =>
         \E q \in Requests \ older[r] : op[q] = "create" /\ Settled(q) /\ Id(q) = target[r]
    /\ \A p \in wrote[r], f \in DOMAIN input[r] :
         \/ rows[p] = None
         \/ rows[p][f] = input[r][f]
         \/ \E q \in Requests \ {r} :
              p \in wrote[q] /\ op[q] \in {"update", "action"} /\ f \in DOMAIN input[q]

\* A confirmed delete is final, also for updates under way, and takes all that
\* was asked for and that it may reach: rows with such an id have been inserted
\* later, or in MongoDB, which lets several have it, another one was taken.
DeletedStaysDeleted ==
  \A r \in Requests : op[r] \in {"delete", "bulk_delete"} /\ answer[r] = 200 =>
    \A t \in Aims(r) \intersect Records : \A p \in Reach(r, t) :
      \/ p \notin older[r]
      \/ load.store = "mongo" /\ \E q \in wrote[r] \ {p} : Id(q) = t

\* A request that has changed a row leaves an event, unless one of its own
\* statements has failed, or its rows are gone before they are read again (then
\* it is told 404 or 500), or it is a bulk delete in MongoDB that has met a
\* missing record, or a create with a number for its id, which is not found by
\* its string, and the answer is 500.
ChangesAreAudited ==
  \A r \in Requests \ failed : wrote[r] # {} /\ step[r] = "done" =>
    \/ r \in audited
    \/ op[r] # "bulk_delete" /\ answer[r] \in {404, 500} /\ \A p \in wrote[r] : rows[p] = None
    \/ op[r] = "bulk_delete" /\ answer[r] = 404 /\ load.store = "mongo"
    \/ op[r] = "create" /\ answer[r] = 500 /\ input[r] = Number

\* What a request owns, and the row that another one refers to.
Owns(r, c) ==
  Id(c) \in Aims(r) /\ (actor[r] \in SuperAdmins \/ rows[c].tenant = TenantOf[actor[r]])
Over(c) == {x \in Places : rows[x] # None /\ rows[c].parent = x}

\* A row changes in a step of a request that aims at it, of its tenant or of a
\* super_admin, and keeps its tenant.  The one exception is the cascade of the
\* template's schema: with a row that its tenant or a super_admin deletes go the
\* rows that refer to it, and those that refer to them, of whatever tenant.
TenantsAreApart ==
  [][\A p \in Places : rows'[p] # rows[p] =>
       \E r \in Requests :
         /\ p \in wrote'[r] /\ step'[r] # step[r]
         /\ \/ rows[p] = None /\ p = r /\ rows'[p].tenant = TenantOf[actor[r]]
            \/ rows[p] # None /\ rows'[p] # None /\ Owns(r, p) /\ rows'[p].tenant = rows[p].tenant
            \/ rows[p] # None /\ rows'[p] = None /\ Owns(r, p)
            \/ /\ rows[p] # None /\ rows'[p] = None /\ op[r] = "delete" /\ load.store = "template"
               /\ \E c \in Over(p) : Owns(r, c) \/ \E d \in Over(c) : Owns(r, d)]_vars
=============================================================================
