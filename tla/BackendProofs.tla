---------------------------- MODULE BackendProofs ----------------------------
(***************************************************************************)
(* For any number of requests, records, users and tenants: what the        *)
(* backend template, sqlstore and mongostore keep without transactions     *)
(* that span a request.  All facts are about AdapterSpec, of which the     *)
(* template is the case load.store = "template".                           *)
(***************************************************************************)
EXTENDS AdapterStores, TLAPS

Logins == {"login", "oauth_login"}
Deletes == {"delete", "bulk_delete"}
Edits == {"update", "action"}

Types ==
  /\ AdapterTypeOK /\ seen \in [Requests -> Images]
  /\ wrote \in [Requests -> SUBSET (Places \union {AnEvent})]
  /\ older \in [Requests -> SUBSET Places]

\* Only what has been inserted is there, or was there before anybody wrote.
Rows ==
  /\ \A p \in Places : rows[p] # None => Settled(p)
  /\ \A r \in Requests : Seeded \subseteq older[r] /\ \A p \in older[r] : Settled(p)

\* Which operation is in which step, and what it is about.
Shape(r) ==
  /\ step[r] = "new" => /\ target[r] = None /\ batch[r] = {} /\ op[r] = None /\ input[r] = None
                         /\ wrote[r] = {} /\ hit[r] = {}
  /\ step[r] # "new" => op[r] \in Ops /\ actor[r] \in Users
  /\ step[r] # "done" => answer[r] = 0
  /\ op[r] \in Logins => target[r] \in Users
  /\ op[r] = "create" => target[r] \in Records
  /\ op[r] = "update" => target[r] \in Targets /\ input[r] \in Changes
  /\ op[r] = "delete" => target[r] \in Targets /\ batch[r] \subseteq {target[r]}
  /\ op[r] = "bulk_delete" => target[r] = None
  /\ op[r] \notin Deletes => batch[r] = {}
  /\ step[r] = "select" => op[r] \in Logins \union Edits \union {"delete"} /\ target[r] \in Targets
  /\ step[r] = "select" /\ op[r] = "action" => input[r] \in Changes
  /\ step[r] = "write" => op[r] \in Edits \union {"delete"} /\ target[r] \in Targets
  /\ step[r] = "write" /\ op[r] # "delete" => target[r] \in Records /\ input[r] \in Changes
  /\ step[r] \in {"select", "write"} => batch[r] = {} /\ (op[r] = "delete" => load.store = "template")
  /\ step[r] = "insert" => op[r] = "create"
  /\ step[r] = "reread" => op[r] \in Edits \union {"create"} /\ target[r] \in Records
  /\ step[r] = "session" => op[r] \in Logins

\* How far a delete of several records is.
Bulk(r) ==
  /\ step[r] \in {"begin", "get", "erase", "commit"} =>
       op[r] \in Deletes /\ (op[r] = "delete" => batch[r] = {target[r]})
  /\ erased[r] \subseteq read[r] /\ read[r] \subseteq batch[r]
  /\ step[r] = "begin" => erased[r] = {} /\ batch[r] # {}
  /\ step[r] = "get" => erased[r] # batch[r]
  /\ step[r] = "commit" => erased[r] = batch[r] /\ load.store = "sql"

\* What r has reached is its tenant's for as long as it exists.
Mine(r, p) ==
  /\ Settled(p) /\ Id(p) \in Aims(r)
  /\ rows[p] # None => actor[r] \in SuperAdmins \/ rows[p].tenant = TenantOf[actor[r]]
Gone(p) == p \in Places /\ Settled(p) /\ rows[p] = None

Held(r) ==
  /\ op[r] \in Edits => \A p \in wrote[r] : p \in Places /\ Mine(r, p)
  /\ op[r] = "create" => wrote[r] \subseteq {r}
  /\ \A p \in hit[r] : Mine(r, p)

\* A request has seen what its records were and are.
Watches(r) ==
  /\ \A p \in Places : rows[p] # None /\ Id(p) \in Aims(r) => rows[p] \in seen[r]
  /\ \A q \in Requests : target[r] = q /\ log[q] # None => AnEvent \in seen[r]

Watching(r) ==
  /\ step[r] # "new" => Watches(r)
  /\ step[r] = "new" => old[r] = {} /\ new[r] = {} /\ log[r] = None
  /\ old[r] \union new[r] \subseteq seen[r]
  /\ log[r] # None => log[r].old \union log[r].new \subseteq seen[r]

WasActive(r) ==
  op[r] \in Logins /\ (step[r] \in {"session", "audit"} \/ answer[r] = 200) =>
    \E row \in seen[r] \ {AnEvent} : row.status = "active"

\* Of the rows with id t that r can reach, none is older than its delete, or
\* another one was taken.
Cleared(r, t) ==
  \A p \in Reach(r, t) :
    \/ p \notin older[r]
    \/ load.store = "mongo" /\ \E q \in Places : q # p /\ q \in wrote[r] /\ Id(q) = t

Deleted(r) ==
  /\ op[r] \in Deletes /\ (step[r] = "audit" \/ answer[r] = 200) =>
       \A t \in Aims(r) \intersect Records : Cleared(r, t)
  /\ load.store = "mongo" => \A t \in erased[r] : Cleared(r, t)
  /\ load.store = "sql" => \A t \in erased[r] : \A p \in Reach(r, t) : p \in older[r] => p \in hit[r]

\* A field that r has assigned holds, or somebody else has named it.
Holds(r, p, f) ==
  \/ rows[p] = None
  \/ rows[p][f] = input[r][f]
  \/ \E q \in Requests \ {r} : p \in wrote[q] /\ op[q] \in Edits /\ f \in DOMAIN input[q]

Edited(r) ==
  op[r] = "update" /\ target[r] \in Records /\ (step[r] \in {"reread", "audit"} \/ answer[r] = 200) =>
    /\ wrote[r] = {} => \A p \in Reach(r, target[r]) : p \notin older[r]
    /\ wrote[r] = {} /\ step[r] # "reread" =>
         \E q \in Requests \ older[r] : op[q] = "create" /\ Settled(q) /\ Id(q) = target[r]
    /\ \A p \in wrote[r], f \in DOMAIN input[r] : Holds(r, p, f)

\* What a change leads to.
Trail(r) ==
  wrote[r] # {} =>
    \/ step[r] \in {"reread", "audit"}
    \/ load.store = "mongo" /\ step[r] \in {"get", "erase"} /\ erased[r] # {}
    \/ step[r] = "done" /\ r \in failed \union audited
    \/ step[r] = "done" /\ op[r] # "bulk_delete" /\ answer[r] \in {404, 500} /\ \A p \in wrote[r] : Gone(p)
    \/ step[r] = "done" /\ op[r] = "bulk_delete" /\ answer[r] = 404 /\ load.store = "mongo"
    \/ step[r] = "done" /\ op[r] = "create" /\ answer[r] = 500 /\ input[r] = Number

RequestOK(r) ==
  /\ Shape(r) /\ Bulk(r) /\ Held(r) /\ Watching(r)
  /\ WasActive(r) /\ Deleted(r) /\ Edited(r) /\ Trail(r)

IInv == Types /\ Rows /\ \A r \in Requests : RequestOK(r)

-----------------------------------------------------------------------------
\* A request arrives: the operation, what it is about, and its first step.
Arrival(o, u, t, b, i, s) ==
  /\ u \in Users
  /\ \/ o \in Logins /\ t = u /\ b = {} /\ s = "select"
     \/ o = "update" /\ t \in Targets /\ b = {} /\ i \in Changes /\ s \in {"select", "refuse"}
     \/ o = "delete" /\ t \in Targets /\ b = {} /\ s = "select" /\ load.store = "template"
     \/ o = "delete" /\ t \in Records /\ b = {t} /\ s = "begin"
     \/ o = "action" /\ t \in Targets /\ b = {} /\ i \in Changes /\ s = "select"
     \/ o = "action" /\ t \in Targets /\ b = {} /\ s = "audit"
     \/ o = "bulk" /\ t = None /\ b = {} /\ s = "audit"
     \/ o = "bulk_delete" /\ t = None /\ b \subseteq Records /\ b # {} /\ s = "begin"
     \/ o = "create" /\ t \in Records /\ b = {} /\ s = "insert"

Arrive(r) ==
  /\ step[r] = "new"
  /\ \E o \in Ops, u \in Users, t \in Targets \union {None}, b \in SUBSET Records,
        i \in Inputs \union {None}, s \in {"select", "refuse", "begin", "audit", "insert"} :
       Arrival(o, u, t, b, i, s) /\ Received(r, o, u, t, b, i) /\ Goto(r, s)
  /\ UNCHANGED bulk

\* The statements of creates, updates and logins, and the audit event.
Statement(r) ==
  /\ \/ Authenticate(r) \/ ActiveUserByEmail(r) \/ StartSession(r)
     \/ Select(r) \/ Update(r) \/ Delete(r) \/ Insert(r) \/ Reread(r)
     \/ Audit(r) \/ Refuse(r) \/ Fail(r)
  /\ UNCHANGED bulk

BeginDelete(r) ==
  /\ step[r] = "begin" /\ Goto(r, "get")
  /\ UNCHANGED <<rows, log, sessions, request, old, new, ghosts, bulk>>

\* The steps of deletes by the adapters.
DeleteStep(r) ==
  \/ BeginDelete(r) \/ Got(r) \/ DeleteFails(r) \/ GiveUp(r)
  \/ load.store = "sql" /\ SqlErase(r)
  \/ Commit(r)
  \/ load.store = "mongo" /\ MongoErase(r)

Act(r) == Arrive(r) \/ Statement(r) \/ DeleteStep(r)

USE ConstantsAssumption, NoneAssumption

-----------------------------------------------------------------------------
\* Every step is one of these, of one request.

LEMMA ArrivesAs ==
  ASSUME NEW r \in Requests, step[r] = "new", UNCHANGED bulk,
         NEW o \in Ops, NEW u, NEW t, NEW b \in SUBSET Records, NEW i \in Inputs \union {None},
         NEW s \in {"select", "refuse", "begin", "audit", "insert"},
         Arrival(o, u, t, b, i, s), Received(r, o, u, t, b, i), Goto(r, s)
  PROVE  Arrive(r)
<1>1. u \in Users /\ t \in Targets \union {None}
  BY DEF Arrival, Targets
<1> QED
  BY <1>1 DEF Arrive

LEMMA LoginArrives ==
  ASSUME Types, NEW r \in Requests, BeginLogin(r) \/ BeginOAuth(r), UNCHANGED bulk
  PROVE  Arrive(r)
<1>1. PICK o \in Logins, u \in load.users \intersect load.targets : Receive(r, o, u, u, None) /\ Goto(r, "select")
  BY DEF BeginLogin, BeginOAuth, Logins
<1>2. u \in Users /\ step[r] = "new" /\ o \in Ops
  BY <1>1 DEF Types, AdapterTypeOK, TypeOK, BeginLogin, BeginOAuth, MayBegin, Logins, Ops
<1>3. Arrival(o, u, u, {}, None, "select")
  BY <1>1, <1>2 DEF Arrival
<1>4. {} \in SUBSET Records
  OBVIOUS
<1> QED
  BY <1>1, <1>2, <1>3, <1>4, ArrivesAs DEF Receive

\* What bodies may assign.
LEMMA BodiesAreChanges ==
  ASSUME NEW t, NEW i \in Bodies(t)
  PROVE  i \in Changes /\ i \in Inputs \union {None}
BY DEF Bodies, Inputs

LEMMA HandlerArrives ==
  ASSUME Types, load.store = "template", NEW r \in Requests, Begin(r), UNCHANGED bulk
  PROVE  Arrive(r)
<1>1. PICK u \in sessions, t \in load.targets :
       \/ \E i \in Bodies(t), o \in {"update", "action"} : Receive(r, o, u, t, i) /\ Goto(r, "select")
       \/ \E i \in Bodies(t) : Receive(r, "update", u, t, i) /\ Goto(r, "refuse")
       \/ Receive(r, "delete", u, t, None) /\ Goto(r, "select")
       \/ Receive(r, "action", u, t, None) /\ Goto(r, "audit")
       \/ Receive(r, "bulk", u, None, None) /\ Goto(r, "audit")
       \/ Receive(r, "create", u, t, None) /\ Goto(r, "insert") /\ t \in Records
  BY DEF Begin
<1>2. u \in Users /\ t \in Targets /\ step[r] = "new"
  BY DEF Types, AdapterTypeOK, TypeOK, Targets, Begin, MayBegin
<1>3. {} \in SUBSET Records /\ {"update", "delete", "action", "bulk", "create"} \subseteq Ops
  BY DEF Ops
<1>4. ASSUME NEW i \in Bodies(t), NEW o \in {"update", "action"}, Receive(r, o, u, t, i) /\ Goto(r, "select")
      PROVE  Arrive(r)
  <2>1. Arrival(o, u, t, {}, i, "select") /\ i \in Inputs \union {None} /\ o \in Ops
    BY <1>2, <1>3, <1>4, BodiesAreChanges DEF Arrival
  <2> QED
    BY <1>2, <1>3, <1>4, <2>1, ArrivesAs DEF Receive
<1>5. ASSUME NEW i \in Bodies(t), Receive(r, "update", u, t, i) /\ Goto(r, "refuse")
      PROVE  Arrive(r)
  <2>1. Arrival("update", u, t, {}, i, "refuse") /\ i \in Inputs \union {None}
    BY <1>2, <1>3, <1>5, BodiesAreChanges DEF Arrival
  <2> QED
    BY <1>2, <1>3, <1>5, <2>1, ArrivesAs DEF Receive
<1>6. CASE Receive(r, "delete", u, t, None) /\ Goto(r, "select")
  <2>1. Arrival("delete", u, t, {}, None, "select")
    BY <1>2, <1>6 DEF Arrival
  <2> QED
    BY <1>2, <1>3, <1>6, <2>1, ArrivesAs DEF Receive
<1>7. CASE Receive(r, "action", u, t, None) /\ Goto(r, "audit")
  <2>1. Arrival("action", u, t, {}, None, "audit")
    BY <1>2, <1>7 DEF Arrival
  <2> QED
    BY <1>2, <1>3, <1>7, <2>1, ArrivesAs DEF Receive
<1>8. CASE Receive(r, "bulk", u, None, None) /\ Goto(r, "audit")
  <2>1. Arrival("bulk", u, None, {}, None, "audit")
    BY <1>2, <1>8 DEF Arrival
  <2> QED
    BY <1>2, <1>3, <1>8, <2>1, ArrivesAs DEF Receive
<1>9. CASE Receive(r, "create", u, t, None) /\ Goto(r, "insert") /\ t \in Records
  <2>1. Arrival("create", u, t, {}, None, "insert")
    BY <1>2, <1>9 DEF Arrival
  <2> QED
    BY <1>2, <1>3, <1>9, <2>1, ArrivesAs DEF Receive
<1> QED
  BY <1>1, <1>4, <1>5, <1>6, <1>7, <1>8, <1>9

LEMMA ServerArrives ==
  ASSUME Types, NEW r \in Requests, ServerBegin(r) \/ ServerAction(r), load.store # "template"
  PROVE  Arrive(r)
<1>1. step[r] = "new" /\ UNCHANGED bulk
  BY DEF ServerBegin, ServerAction, MayBegin
<1>2. load.targets \subseteq Records /\ load.targets \subseteq Targets /\ sessions \subseteq Users
  BY DEF Types, AdapterTypeOK, TypeOK, Targets
<1>3. {} \in SUBSET Records /\ {"update", "delete", "action", "bulk", "create", "bulk_delete"} \subseteq Ops
  BY DEF Ops
<1>4. CASE ServerBegin(r)
  <2>1. PICK u \in sessions, t \in load.targets :
         \/ \E i \in Bodies(t), s \in {"select", "refuse"} : Receive(r, "update", u, t, i) /\ Goto(r, s)
         \/ \E i \in {None, Number} : Receive(r, "create", u, t, i) /\ Goto(r, "insert")
         \/ Received(r, "delete", u, t, {t}, None) /\ Goto(r, "begin")
         \/ \E b \in (SUBSET load.targets) \ {{}} :
              Received(r, "bulk_delete", u, None, b, None) /\ Goto(r, "begin")
    BY <1>4 DEF ServerBegin
  <2>2. ASSUME NEW i \in Bodies(t), NEW s \in {"select", "refuse"}, Receive(r, "update", u, t, i) /\ Goto(r, s)
        PROVE  Arrive(r)
    <3>1. Arrival("update", u, t, {}, i, s) /\ i \in Inputs \union {None}
      BY <1>2, <2>2, BodiesAreChanges DEF Arrival
    <3> QED
      BY <1>1, <1>3, <2>2, <3>1, ArrivesAs DEF Receive
  <2>3. ASSUME NEW i \in {None, Number}, Receive(r, "create", u, t, i) /\ Goto(r, "insert")
        PROVE  Arrive(r)
    <3>1. Arrival("create", u, t, {}, i, "insert") /\ i \in Inputs \union {None}
      BY <1>2, <2>3 DEF Arrival, Inputs
    <3> QED
      BY <1>1, <1>3, <2>3, <3>1, ArrivesAs DEF Receive
  <2>4. CASE Received(r, "delete", u, t, {t}, None) /\ Goto(r, "begin")
    <3>1. Arrival("delete", u, t, {t}, None, "begin") /\ {t} \in SUBSET Records
      BY <1>2, <2>4 DEF Arrival
    <3> QED
      BY <1>1, <1>3, <2>4, <3>1, ArrivesAs
  <2>5. ASSUME NEW b \in (SUBSET load.targets) \ {{}}, Received(r, "bulk_delete", u, None, b, None) /\ Goto(r, "begin")
        PROVE  Arrive(r)
    <3>1. Arrival("bulk_delete", u, None, b, None, "begin") /\ b \in SUBSET Records
      BY <1>2, <2>5 DEF Arrival
    <3> QED
      BY <1>1, <1>3, <2>5, <3>1, ArrivesAs
  <2> QED
    BY <2>1, <2>2, <2>3, <2>4, <2>5
<1>5. CASE ServerAction(r)
  <2>1. PICK u \in sessions, t \in load.targets :
          Receive(r, "action", u, t, None) \/ Receive(r, "bulk", u, None, None)
    BY <1>5 DEF ServerAction
  <2>2. Goto(r, "audit")
    BY <1>5 DEF ServerAction
  <2>3. Arrival("action", u, t, {}, None, "audit") /\ Arrival("bulk", u, None, {}, None, "audit")
    BY <1>2 DEF Arrival
  <2> QED
    BY <1>1, <1>3, <2>1, <2>2, <2>3, ArrivesAs DEF Receive
<1> QED
  BY <1>4, <1>5

LEMMA StepsAreActs ==
  ASSUME Types, AdapterNext
  PROVE  load' = load /\ \E r \in Requests : Act(r)
<1>1. CASE load.store = "template" /\ Next /\ UNCHANGED bulk
  <2>1. PICK r \in Requests : BeginLogin(r) \/ BeginOAuth(r) \/ Begin(r) \/ Statement(r)
    BY <1>1 DEF Next, Statement
  <2> QED
    BY <1>1, <2>1, LoginArrives, HandlerArrives DEF Next, Act
<1>2. CASE /\ load.store = "sql" /\ load' = load
           /\ \E r \in Requests :
                \/ ServerBegin(r) \/ ServerAction(r) \/ SqlCreate(r) \/ SqlUpdate(r) \/ SqlRecordAudit(r)
                \/ BeginTx(r) \/ SqlGetOld(r) \/ SqlErase(r) \/ Commit(r) \/ GiveUp(r)
                \/ StatementFails(r) \/ DeleteFails(r)
  <2>1. PICK r \in Requests : 
                \/ ServerBegin(r) \/ ServerAction(r) \/ SqlCreate(r) \/ SqlUpdate(r) \/ SqlRecordAudit(r)
                \/ BeginTx(r) \/ SqlGetOld(r) \/ SqlErase(r) \/ Commit(r) \/ GiveUp(r)
                \/ StatementFails(r) \/ DeleteFails(r)
    BY <1>2
  <2>2. ServerBegin(r) \/ ServerAction(r) => Arrive(r)
    BY <1>2, ServerArrives
  <2>3. SqlCreate(r) \/ SqlUpdate(r) \/ SqlRecordAudit(r) \/ StatementFails(r) => Statement(r)
    BY DEF SqlCreate, SqlUpdate, SqlRecordAudit, StatementFails, Statement
  <2>4. BeginTx(r) \/ SqlGetOld(r) \/ SqlErase(r) \/ Commit(r) \/ GiveUp(r) \/ DeleteFails(r) => DeleteStep(r)
    BY <1>2 DEF BeginTx, SqlGetOld, BeginDelete, DeleteStep
  <2> QED
    BY <1>2, <2>1, <2>2, <2>3, <2>4 DEF Act
<1>3. CASE /\ load.store = "mongo" /\ load' = load
           /\ \E r \in Requests :
                \/ ServerBegin(r) \/ ServerAction(r) \/ MongoCreate(r) \/ MongoUpdate(r) \/ MongoRecordAudit(r)
                \/ MongoDeleteMany(r) \/ StatementFails(r) \/ DeleteFails(r)
  <2>1. PICK r \in Requests :
                \/ ServerBegin(r) \/ ServerAction(r) \/ MongoCreate(r) \/ MongoUpdate(r) \/ MongoRecordAudit(r)
                \/ MongoDeleteMany(r) \/ StatementFails(r) \/ DeleteFails(r)
    BY <1>3
  <2>2. ServerBegin(r) \/ ServerAction(r) => Arrive(r)
    BY <1>3, ServerArrives
  <2>3. MongoCreate(r) \/ MongoUpdate(r) \/ MongoRecordAudit(r) \/ StatementFails(r) => Statement(r)
    BY DEF MongoCreate, MongoUpdate, MongoRecordAudit, StatementFails, Statement
  <2>4. MongoDeleteMany(r) \/ DeleteFails(r) => DeleteStep(r)
    BY <1>3 DEF MongoDeleteMany, MongoGetOld, BeginDelete, DeleteStep
  <2> QED
    BY <1>3, <2>1, <2>2, <2>3, <2>4 DEF Act
<1> QED
  BY <1>1, <1>2, <1>3 DEF AdapterNext

-----------------------------------------------------------------------------
\* At the start no request has come, and the rows are those of seedSQL.
LEMMA InitHolds == AdapterInit => IInv
<1> SUFFICES ASSUME AdapterInit PROVE IInv
  OBVIOUS
<1> USE DEF AdapterInit, Init
<1>1. PICK name \in Names :
        rows = [p \in Places |->
                  IF p \in Seeded
                  THEN [tenant |-> TenantOf[p], status |-> "active", name |-> name, parent |-> ParentOf[p]]
                  ELSE None]
  OBVIOUS
<1>2. rows \in [Places -> Row \union {None}]
  BY <1>1 DEF Row, Tenants, Places
<1>3. Types
  BY <1>2 DEF Types, AdapterTypeOK, TypeOK, Images, Places
<1>4. Rows
  BY <1>1 DEF Rows, Settled
<1>5. ASSUME NEW r \in Requests PROVE RequestOK(r)
  <2>1. /\ step[r] = "new" /\ answer[r] = 0 /\ op[r] = None /\ target[r] = None /\ batch[r] = {}
        /\ old[r] = {} /\ new[r] = {} /\ log[r] = None /\ read[r] = {} /\ erased[r] = {} /\ hit[r] = {}
        /\ wrote[r] = {} /\ input[r] = None
    OBVIOUS
  <2>2. None \notin Ops
    OBVIOUS
  <2>3. Shape(r) /\ WasActive(r) /\ Deleted(r) /\ Edited(r)
    BY <2>1, <2>2 DEF Shape, WasActive, Deleted, Edited, Logins, Deletes, Edits, Ops
  <2>4. Bulk(r) /\ Held(r) /\ Watching(r) /\ Trail(r)
    BY <2>1, <2>2 DEF Bulk, Held, Watching, Trail, Edits, Ops
  <2> QED
    BY <2>3, <2>4 DEF RequestOK
<1> QED
  BY <1>3, <1>4, <1>5 DEF IInv

-----------------------------------------------------------------------------
\* What a row becomes by an update, and what a statement puts into the table.

LEMMA UpdatedRow ==
  ASSUME NEW r \in Requests, NEW p, rows[p] \in Row, input[r] \in Changes
  PROVE  /\ Updated(r, p) \in Row
         /\ Updated(r, p).tenant = rows[p].tenant
         /\ DOMAIN input[r] \subseteq {"status", "name", "parent"}
         /\ \A f \in {"status", "name", "parent"} :
              Updated(r, p)[f] = IF f \in DOMAIN input[r] THEN input[r][f] ELSE rows[p][f]
<1>1. DOMAIN rows[p] = {"tenant", "status", "name", "parent"}
  BY DEF Row
<1>2. CASE input[r] \in [{"status"} -> Statuses]
  BY <1>1, <1>2 DEF Updated, Row
<1>3. CASE input[r] \in [{"name"} -> Names]
  BY <1>1, <1>3 DEF Updated, Row
<1>4. CASE input[r] \in [{"parent"} -> Places]
  BY <1>1, <1>4 DEF Updated, Row
<1> QED
  BY <1>2, <1>3, <1>4 DEF Changes

\* What a statement puts into the table is of its type, and seen by those whom
\* it concerns.
LEMMA PutDoes ==
  ASSUME Types, NEW r \in Requests, NEW T \in SUBSET Places, NEW c \in [T -> Row \union {None}], Put(r, c)
  PROVE  /\ rows' \in [Places -> Row \union {None}]
         /\ seen' \in [Requests -> Images]
         /\ \A q \in Requests : seen[q] \subseteq seen'[q]
         /\ \A q \in Requests : \A p \in T : Id(p) \in Aims(q) /\ c[p] # None => c[p] \in seen'[q]
         /\ wrote' = [wrote EXCEPT ![r] = wrote[r] \union T]
         /\ log' = log
<1>1. DOMAIN c = T
  OBVIOUS
<1>2. rows' \in [Places -> Row \union {None}]
  BY <1>1 DEF Put, Types, AdapterTypeOK, TypeOK
<1> DEFINE Shown(q) == {c[p] : p \in {x \in T : Id(x) \in Aims(q)}} \ {None}
<1>3. seen' = [q \in Requests |-> seen[q] \union Shown(q)]
  BY <1>1 DEF Put
<1>4. \A q \in Requests : Shown(q) \subseteq Row
  OBVIOUS
<1>5. seen' \in [Requests -> Images]
  <2>1. \A q \in Requests : seen[q] \subseteq Row \union {AnEvent}
    BY DEF Types, Images
  <2> HIDE DEF Shown
  <2> QED
    BY <1>3, <1>4, <2>1 DEF Images
<1>6. \A q \in Requests : \A p \in T : Id(p) \in Aims(q) /\ c[p] # None => c[p] \in Shown(q)
  OBVIOUS
<1> HIDE DEF Shown
<1>7. wrote' = [wrote EXCEPT ![r] = wrote[r] \union T] /\ log' = log
  BY <1>1 DEF Put
<1> QED
  BY <1>2, <1>3, <1>5, <1>6, <1>7

\* A row that is in reach belongs to the tenant; an update or a delete hits all
\* of them, or one.
LEMMA ReachIsMine ==
  ASSUME IInv, NEW r \in Requests, NEW t \in Aims(r), NEW p \in Reach(r, t)
  PROVE  p \in Places /\ rows[p] # None /\ rows[p] \in Row /\ Id(p) = t /\ Mine(r, p)
BY DEF IInv, Rows, Types, AdapterTypeOK, TypeOK, Reach, At, Reaches, Mine

LEMMA HitsAreReached ==
  ASSUME NEW r, NEW t, NEW S \in Hits(r, t)
  PROVE  /\ S \subseteq Reach(r, t) /\ S \subseteq Places
         /\ S = {} => Reach(r, t) = {}
         /\ \/ S = Reach(r, t)
            \/ load.store = "mongo" /\ \E p \in Reach(r, t) : S = {p}
BY DEF Hits, Reach, At

-----------------------------------------------------------------------------
\* What a step of r leaves alone: everything of the other requests.
Apart(r) ==
  /\ step'[r] # step[r]
  /\ audited \subseteq audited' /\ failed \subseteq failed'
  /\ \A q \in Requests \ {r} :
       /\ step'[q] = step[q] /\ answer'[q] = answer[q] /\ op'[q] = op[q] /\ actor'[q] = actor[q]
       /\ target'[q] = target[q] /\ batch'[q] = batch[q] /\ input'[q] = input[q]
       /\ old'[q] = old[q] /\ new'[q] = new[q] /\ read'[q] = read[q] /\ erased'[q] = erased[q]
       /\ hit'[q] = hit[q] /\ wrote'[q] = wrote[q] /\ older'[q] = older[q]

LEMMA OthersStay ==
  ASSUME Types, NEW r \in Requests, Act(r)
  PROVE  Apart(r)
<1> USE DEF Types, AdapterTypeOK, TypeOK, Apart, Goto, Send, Abort, request, ghosts, bulk, Put, ComesAfter, Fails
<1>1. CASE Arrive(r)
  BY <1>1 DEF Arrive, Received
<1>2. CASE Statement(r)
  <2>1. UNCHANGED <<bulk, request>>
    BY <1>2 DEF Statement, Authenticate, ActiveUserByEmail, StartSession, Select, Update, Delete, Insert,
                Reread, Audit, Refuse, Record, Fail, Rejected
  <2>2. CASE Authenticate(r) \/ ActiveUserByEmail(r) \/ StartSession(r) \/ Select(r) \/ Reread(r)
    BY <2>1, <2>2 DEF Authenticate, ActiveUserByEmail, StartSession, Select, Reread
  <2>3. CASE Update(r) \/ Delete(r) \/ Insert(r)
    BY <2>1, <2>3 DEF Update, Delete, Insert, Amend, Wipe, Add, Rejected
  <2>4. CASE Audit(r) \/ Refuse(r)
    BY <2>1, <2>4 DEF Audit, Refuse, Record
  <2>5. CASE Fail(r)
    <3>1. step[r] \in {"select", "write", "insert", "reread", "session"}
      BY <2>5 DEF Fail, Amend, Wipe, Add
    <3> QED
      BY <2>1, <2>5, <3>1 DEF Fail, Amend, Wipe, Add
  <2> QED
    BY <1>2, <2>2, <2>3, <2>4, <2>5 DEF Statement
<1>3. CASE DeleteStep(r)
  <2>1. CASE BeginDelete(r) \/ Got(r)
    BY <2>1 DEF BeginDelete, Got
  <2>2. CASE DeleteFails(r)
    BY <2>2 DEF DeleteFails, Committed
  <2>3. CASE GiveUp(r)
    BY <2>3 DEF GiveUp, Waits
  <2>4. CASE SqlErase(r)
    BY <2>4 DEF SqlErase
  <2>5. CASE Commit(r)
    BY <2>5 DEF Commit, Committed
  <2>6. CASE MongoErase(r)
    BY <2>6 DEF MongoErase
  <2> QED
    BY <1>3, <2>1, <2>2, <2>3, <2>4, <2>5, <2>6 DEF DeleteStep
<1> QED
  BY <1>1, <1>2, <1>3 DEF Act

-----------------------------------------------------------------------------
\* What a step of r does to the table.

Amends(r) ==
  /\ step[r] = "write" /\ op[r] # "delete"
  /\ \E S \in Hits(r, target[r]) : Put(r, [p \in S |-> Updated(r, p)])

Cascades(r) ==
  /\ step[r] = "write" /\ op[r] = "delete"
  /\ \E S \in Hits(r, target[r]) : Put(r, [p \in Cascade(S) |-> None])

Wipes(r) ==
  /\ step[r] = "erase" /\ load.store = "mongo"
  /\ \E t \in read[r] \ erased[r] : \E S \in Hits(r, t) : Put(r, [p \in S |-> None])

Inserts(r) ==
  /\ step[r] = "insert"
  /\ \E row \in Row : row.tenant = TenantOf[actor[r]] /\ Put(r, [p \in {r} |-> row])

Commits(r) == step[r] = "commit" /\ Put(r, [p \in hit[r] |-> None])

\* An event is deleted.
Forgets(r) ==
  /\ step[r] = "write" /\ op[r] = "delete" /\ target[r] \in Requests
  /\ log' = [log EXCEPT ![target[r]] = None]
  /\ wrote' = [wrote EXCEPT ![r] = @ \union {AnEvent}]
  /\ UNCHANGED <<rows, seen>>

\* The audit event of r is inserted, or the insert fails.
Logs(r) ==
  /\ step[r] \in {"audit", "refuse"}
  /\ \/ /\ r \in audited'
        /\ \E action \in Ops \union {"failed_login", "permission_denied"} :
             log' = [log EXCEPT ![r] = EventOf(r, action)]
     \/ UNCHANGED log
  /\ seen' = [q \in Requests |->
                IF target[q] = r /\ r \in audited' THEN seen[q] \union {AnEvent} ELSE seen[q]]
  /\ UNCHANGED <<rows, wrote>>

Effect(r) ==
  \/ UNCHANGED <<rows, log, seen, wrote>>
  \/ Arrive(r)
  \/ Amends(r) \/ Cascades(r) \/ Wipes(r) \/ Inserts(r) \/ Commits(r)
  \/ Forgets(r)
  \/ Logs(r)

LEMMA StepsHaveEffects ==
  ASSUME IInv, NEW r \in Requests, Act(r)
  PROVE  Effect(r)
<1> USE DEF Effect
<1>1. Shape(r) /\ Bulk(r) /\ Types
  BY DEF IInv, RequestOK
<1>2. CASE Arrive(r)
  BY <1>2
<1>3. CASE Statement(r)
  <2>1. CASE Authenticate(r) \/ ActiveUserByEmail(r) \/ StartSession(r) \/ Select(r) \/ Reread(r) \/ Rejected(r)
    BY <2>1 DEF Authenticate, ActiveUserByEmail, StartSession, Select, Reread, Rejected, ghosts
  <2>2. CASE Amend(r)
    BY <2>2 DEF Amend, Amends
  <2>3. CASE Wipe(r)
    BY <2>3 DEF Wipe, Forgets, Cascades
  <2>4. CASE Add(r)
    BY <2>4 DEF Add, Inserts
  <2>5. CASE Audit(r)
    <3>1. op[r] \in Ops
      BY <1>1, <2>5 DEF Audit, Shape
    <3> QED
      BY <2>5, <3>1 DEF Audit, Record, Logs
  <2>6. CASE Refuse(r)
    <3>1. PICK action \in {"failed_login", "permission_denied"}, status \in {401, 403} : Record(r, action, status)
      BY <2>6 DEF Refuse
    <3> QED
      BY <2>6, <3>1 DEF Refuse, Record, Logs
  <2>7. Update(r) \/ Delete(r) \/ Insert(r) => Amend(r) \/ Wipe(r) \/ Add(r) \/ Rejected(r)
    BY DEF Update, Delete, Insert
  <2>8. Fail(r) => UNCHANGED <<rows, log, seen, wrote>> \/ Amend(r) \/ Wipe(r) \/ Add(r)
    BY DEF Fail
  <2> QED
    BY <1>3, <2>1, <2>2, <2>3, <2>4, <2>5, <2>6, <2>7, <2>8 DEF Statement
<1>4. CASE DeleteStep(r)
  <2>1. CASE BeginDelete(r) \/ Got(r)
    BY <2>1 DEF BeginDelete, Got, ghosts
  <2>2. CASE DeleteFails(r)
    BY <2>2 DEF DeleteFails, Wipes, Commits, Committed
  <2>3. CASE GiveUp(r)
    BY <2>3 DEF GiveUp
  <2>4. CASE SqlErase(r)
    BY <2>4 DEF SqlErase
  <2>5. CASE Commit(r)
    BY <2>5 DEF Commit, Commits, Committed
  <2>6. CASE load.store = "mongo" /\ MongoErase(r)
    BY <2>6 DEF MongoErase, Wipes
  <2> QED
    BY <1>4, <2>1, <2>2, <2>3, <2>4, <2>5, <2>6 DEF DeleteStep
<1> QED
  BY <1>2, <1>3, <1>4 DEF Act

\* What a statement puts are rows, and it knows of what is older than it.
LEMMA Contents ==
  ASSUME IInv, NEW r \in Requests,
         Amends(r) \/ Cascades(r) \/ Wipes(r) \/ Inserts(r) \/ Commits(r)
  PROVE  \E T \in SUBSET Places : \E c \in [T -> Row \union {None}] : Put(r, c)
<1>1. Types /\ Shape(r) /\ Bulk(r)
  BY DEF IInv, RequestOK
<1>2. \A T \in SUBSET Places : [p \in T |-> None] \in [T -> Row \union {None}]
  OBVIOUS
<1>3. CASE Amends(r)
  <2>1. PICK S \in Hits(r, target[r]) : Put(r, [p \in S |-> Updated(r, p)])
    BY <1>3 DEF Amends
  <2>2. S \in SUBSET Places /\ \A p \in S : rows[p] \in Row
    BY HitsAreReached, ReachIsMine DEF Aims
  <2>3. input[r] \in Changes
    BY <1>1, <1>3 DEF Amends, Shape
  <2>4. [p \in S |-> Updated(r, p)] \in [S -> Row \union {None}]
    BY <2>2, <2>3, UpdatedRow
  <2> QED
    BY <2>1, <2>2, <2>4
<1>4. CASE Cascades(r)
  <2>1. PICK S \in Hits(r, target[r]) : Put(r, [p \in Cascade(S) |-> None])
    BY <1>4 DEF Cascades
  <2>2. Cascade(S) \in SUBSET Places
    BY HitsAreReached DEF Cascade, Below
  <2> QED
    BY <1>2, <2>1, <2>2
<1>5. CASE Wipes(r)
  BY <1>2, <1>5, HitsAreReached DEF Wipes
<1>6. CASE Inserts(r)
  <2>1. PICK row \in Row : Put(r, [p \in {r} |-> row])
    BY <1>6 DEF Inserts
  <2>2. {r} \in SUBSET Places /\ [p \in {r} |-> row] \in [{r} -> Row \union {None}]
    BY DEF Places
  <2> QED
    BY <2>1, <2>2
<1>7. CASE Commits(r)
  <2>1. hit[r] \in SUBSET Places
    BY <1>1 DEF Types, AdapterTypeOK
  <2> QED
    BY <1>2, <1>7, <2>1 DEF Commits
<1> QED
  BY <1>3, <1>4, <1>5, <1>6, <1>7

\* The statement that writes comes after the rows there are.
LEMMA OlderSteps ==
  ASSUME IInv, NEW r \in Requests, Act(r)
  PROVE  /\ older[r] \subseteq older'[r] /\ older'[r] \subseteq Places /\ DOMAIN older' = Requests
         /\ \A p \in older'[r] :
              \/ p \in older[r]
              \/ /\ Settled(p)
                 /\ \/ step[r] = "write" /\ Id(p) = target[r]
                    \/ step[r] = "erase" /\ \E t \in read[r] \ erased[r] :
                         Id(p) = t /\ (erased'[r] = erased[r] \union {t} \/ erased'[r] = erased[r])
<1>2. older[r] \subseteq Places /\ DOMAIN older = Requests
  BY DEF IInv, Types
<1>3. CASE UNCHANGED older
  BY <1>2, <1>3
<1>4. ASSUME NEW t, ComesAfter(r, t),
             \/ step[r] = "write" /\ t = target[r]
             \/ step[r] = "erase" /\ t \in read[r] \ erased[r]
                /\ (erased'[r] = erased[r] \union {t} \/ erased'[r] = erased[r])
      PROVE  /\ older[r] \subseteq older'[r] /\ older'[r] \subseteq Places /\ DOMAIN older' = Requests
             /\ \A p \in older'[r] :
                  \/ p \in older[r]
                  \/ /\ Settled(p)
                     /\ \/ step[r] = "write" /\ Id(p) = target[r]
                        \/ step[r] = "erase" /\ \E u \in read[r] \ erased[r] :
                             Id(p) = u /\ (erased'[r] = erased[r] \union {u} \/ erased'[r] = erased[r])
  <2>1. older'[r] = older[r] \union {p \in Places : Settled(p) /\ Id(p) = t} /\ DOMAIN older' = Requests
    BY <1>2, <1>4 DEF ComesAfter, IInv, Types
  <2> QED
    BY <1>2, <1>4, <2>1
<1>5. CASE Arrive(r)
  BY <1>3, <1>5 DEF Arrive, Received
<1>6. CASE Statement(r)
  <2>1. CASE Authenticate(r) \/ ActiveUserByEmail(r) \/ StartSession(r) \/ Select(r) \/ Reread(r) \/ Rejected(r)
             \/ Audit(r) \/ Refuse(r)
    BY <1>3, <2>1 DEF Authenticate, ActiveUserByEmail, StartSession, Select, Reread, Rejected, Audit, Refuse, Record,
                      ghosts
  <2>2. CASE Amend(r) \/ Wipe(r) \/ Add(r)
    <3>1. UNCHANGED older \/ (ComesAfter(r, target[r]) /\ step[r] = "write")
      BY <2>2 DEF Amend, Wipe, Add
    <3> QED
      BY <1>3, <1>4, <3>1
  <2>3. Update(r) \/ Delete(r) \/ Insert(r) => Amend(r) \/ Wipe(r) \/ Add(r) \/ Rejected(r)
    BY DEF Update, Delete, Insert
  <2>4. Fail(r) => UNCHANGED older \/ Amend(r) \/ Wipe(r) \/ Add(r)
    BY DEF Fail
  <2> QED
    BY <1>3, <1>6, <2>1, <2>2, <2>3, <2>4 DEF Statement
<1>7. CASE DeleteStep(r)
  <2>1. CASE BeginDelete(r) \/ Got(r) \/ GiveUp(r) \/ Commit(r)
    BY <1>3, <2>1 DEF BeginDelete, Got, GiveUp, Commit, Committed, ghosts
  <2>2. CASE SqlErase(r) \/ MongoErase(r)
    <3>1. step[r] = "erase" /\ DOMAIN erased = Requests
      BY <2>2 DEF SqlErase, MongoErase, IInv, Types, AdapterTypeOK
    <3>2. PICK t \in read[r] \ erased[r] : ComesAfter(r, t) /\ erased' = [erased EXCEPT ![r] = @ \union {t}]
      BY <2>2 DEF SqlErase, MongoErase
    <3> QED
      BY <1>4, <3>1, <3>2
  <2>3. CASE DeleteFails(r)
    <3>1. UNCHANGED older \/ (step[r] = "erase" /\ \E t \in read[r] \ erased[r] : ComesAfter(r, t))
      BY <2>3 DEF DeleteFails, Committed
    <3>2. erased' = erased
      BY <2>3 DEF DeleteFails, bulk
    <3> QED
      BY <1>3, <1>4, <3>1, <3>2
  <2> QED
    BY <1>7, <2>1, <2>2, <2>3 DEF DeleteStep
<1> QED
  BY <1>5, <1>6, <1>7 DEF Act

-----------------------------------------------------------------------------
\* A row stays; or it is amended or deleted by a request that aims at it and
\* may; or it goes with one that it refers to; or it is new.
RowStep(r, p) ==
  \/ rows'[p] = rows[p]
  \/ /\ p \in wrote'[r] /\ rows[p] # None /\ Mine(r, p) /\ step[r] # "new"
     /\ \/ rows'[p] = None
        \/ /\ op[r] \in Edits /\ input[r] \in Changes
           /\ rows'[p] \in Row /\ rows'[p].tenant = rows[p].tenant
           /\ \A f \in {"status", "name", "parent"} :
                rows'[p][f] = IF f \in DOMAIN input[r] THEN input[r][f] ELSE rows[p][f]
  \/ /\ p \in wrote'[r] /\ rows[p] # None /\ rows'[p] = None /\ op[r] = "delete" /\ load.store = "template"
     /\ \E c \in Over(p) : (rows[c] # None /\ Mine(r, c)) \/ \E d \in Over(c) : rows[d] # None /\ Mine(r, d)
  \/ /\ p = r /\ p \in wrote'[r] /\ step[r] = "insert" /\ rows[p] = None
     /\ rows'[p] \in Row /\ rows'[p].tenant = TenantOf[actor[r]]

LEMMA RowSteps ==
  ASSUME IInv, NEW r \in Requests, Act(r), NEW p \in Places
  PROVE  RowStep(r, p)
<1> USE DEF RowStep
<1>1. Types /\ Shape(r) /\ Bulk(r) /\ Held(r) /\ rows \in [Places -> Row \union {None}] /\ DOMAIN wrote = Requests
  BY DEF IInv, RequestOK, Types, AdapterTypeOK, TypeOK
<1>2. Effect(r)
  BY StepsHaveEffects
<1>3. CASE UNCHANGED <<rows, log, seen, wrote>> \/ Arrive(r) \/ Logs(r) \/ Forgets(r)
  BY <1>3 DEF Arrive, Received, Logs, Forgets
<1>4. CASE Amends(r)
  <2>1. target[r] \in Aims(r) /\ input[r] \in Changes /\ op[r] \in Edits /\ step[r] # "new"
    BY <1>1, <1>4 DEF Amends, Shape, Aims
  <2>2. PICK S \in Hits(r, target[r]) : Put(r, [x \in S |-> Updated(r, x)])
    BY <1>4 DEF Amends
  <2>3. S \in SUBSET Places /\ \A x \in S : rows[x] \in Row /\ rows[x] # None /\ Mine(r, x)
    BY <2>1, HitsAreReached, ReachIsMine
  <2>4. [x \in S |-> Updated(r, x)] \in [S -> Row \union {None}]
    BY <2>1, <2>3, UpdatedRow
  <2>5. /\ rows'[p] = IF p \in S THEN Updated(r, p) ELSE rows[p]
        /\ wrote'[r] = wrote[r] \union S
    <3>1. \E c \in [S -> Row \union {None}] : Put(r, c) /\ \A x \in S : c[x] = Updated(r, x)
      BY <2>2, <2>4
    <3>2. PICK c \in [S -> Row \union {None}] : Put(r, c) /\ \A x \in S : c[x] = Updated(r, x)
      BY <3>1
    <3>3. rows' = [x \in Places |-> IF x \in S THEN c[x] ELSE rows[x]]
      BY <3>2 DEF Put
    <3>4. wrote' = [wrote EXCEPT ![r] = wrote[r] \union S]
      BY <1>1, <2>3, <3>2, PutDoes
    <3> QED
      BY <1>1, <3>2, <3>3, <3>4
  <2>6. CASE p \in S
    <3>1. /\ Updated(r, p) \in Row /\ Updated(r, p).tenant = rows[p].tenant
          /\ \A f \in {"status", "name", "parent"} :
               Updated(r, p)[f] = IF f \in DOMAIN input[r] THEN input[r][f] ELSE rows[p][f]
      BY <2>1, <2>3, <2>6, UpdatedRow
    <3> QED
      BY <2>1, <2>3, <2>5, <2>6, <3>1
  <2> QED
    BY <2>5, <2>6
<1>5. ASSUME NEW T \in SUBSET Places, Put(r, [x \in T |-> None])
      PROVE  /\ rows'[p] = IF p \in T THEN None ELSE rows[p]
             /\ wrote'[r] = wrote[r] \union T
  <2>1. \E c \in [T -> Row \union {None}] : Put(r, c) /\ \A x \in T : c[x] = None
    BY <1>5
  <2>2. PICK c \in [T -> Row \union {None}] : Put(r, c) /\ \A x \in T : c[x] = None
    BY <2>1
  <2>3. rows' = [x \in Places |-> IF x \in T THEN c[x] ELSE rows[x]]
    BY <2>2 DEF Put
  <2>4. wrote' = [wrote EXCEPT ![r] = wrote[r] \union T]
    BY <1>1, <2>2, PutDoes
  <2> QED
    BY <1>1, <2>2, <2>3, <2>4
<1>6. CASE Cascades(r)
  <2>1. PICK S \in Hits(r, target[r]) : Put(r, [x \in Cascade(S) |-> None])
    BY <1>6 DEF Cascades
  <2>2. Cascade(S) \in SUBSET Places /\ S \in SUBSET Places
    BY HitsAreReached DEF Cascade, Below
  <2>3. \A x \in S : rows[x] # None /\ Mine(r, x)
    BY HitsAreReached, ReachIsMine DEF Aims
  <2>4. /\ rows'[p] = IF p \in Cascade(S) THEN None ELSE rows[p]
        /\ wrote'[r] = wrote[r] \union Cascade(S)
    BY <1>5, <2>1, <2>2
  <2>5. op[r] = "delete" /\ load.store = "template" /\ step[r] # "new"
    BY <1>1, <1>6 DEF Cascades, Shape
  <2>6. CASE p \in S
    BY <2>3, <2>4, <2>5, <2>6 DEF Cascade
  <2>7. CASE p \in Below(S)
    <3>1. rows[p].parent \in S /\ rows[p] # None
      BY <2>7 DEF Below
    <3>2. rows[p].parent \in Over(p)
      BY <2>2, <2>3, <3>1 DEF Over
    <3> QED
      BY <2>3, <2>4, <2>5, <2>7, <3>1, <3>2 DEF Cascade
  <2>8. CASE p \in Below(Below(S))
    <3>1. PICK c \in Below(S) : rows[p].parent = c /\ rows[p] # None
      BY <2>8 DEF Below
    <3>2. c \in Places /\ rows[c] # None /\ rows[c].parent \in S
      BY DEF Below
    <3>3. c \in Over(p) /\ rows[c].parent \in Over(c)
      BY <2>2, <2>3, <3>1, <3>2 DEF Over
    <3> QED
      BY <2>3, <2>4, <2>5, <2>8, <3>1, <3>2, <3>3 DEF Cascade
  <2>9. CASE p \notin Cascade(S)
    BY <2>4, <2>9
  <2> QED
    BY <2>6, <2>7, <2>8, <2>9 DEF Cascade
<1>7. CASE Wipes(r)
  <2>1. PICK t \in read[r] \ erased[r] : \E S \in Hits(r, t) : Put(r, [x \in S |-> None])
    BY <1>7 DEF Wipes
  <2>4. PICK S \in Hits(r, t) : Put(r, [x \in S |-> None])
    BY <2>1
  <2>2. t \in Aims(r) /\ step[r] # "new"
    BY <1>1, <1>7, <2>1 DEF Bulk, Aims, Wipes
  <2>3. S \in SUBSET Places /\ \A x \in S : rows[x] # None /\ Mine(r, x)
    BY <2>2, HitsAreReached, ReachIsMine
  <2> QED
    BY <1>5, <2>2, <2>3, <2>4
<1>8. CASE Inserts(r)
  <2>1. PICK row \in Row : row.tenant = TenantOf[actor[r]] /\ Put(r, [x \in {r} |-> row])
    BY <1>8 DEF Inserts
  <2>8. [x \in {r} |-> row] \in [{r} -> Row \union {None}] /\ [x \in {r} |-> row][r] = row
    OBVIOUS
  <2>2. \E c \in [{r} -> Row \union {None}] : Put(r, c) /\ c[r] = row
    BY <2>1, <2>8
  <2>5. PICK c \in [{r} -> Row \union {None}] : Put(r, c) /\ c[r] = row
    BY <2>2
  <2>6. {r} \in SUBSET Places
    BY DEF Places
  <2>7. rows' = [x \in Places |-> IF x \in {r} THEN c[x] ELSE rows[x]]
    BY <2>5 DEF Put
  <2>9. wrote' = [wrote EXCEPT ![r] = wrote[r] \union {r}]
    BY <1>1, <2>5, <2>6, PutDoes
  <2>3. /\ rows'[p] = IF p = r THEN row ELSE rows[p]
        /\ wrote'[r] = wrote[r] \union {r}
    BY <1>1, <2>5, <2>7, <2>9
  <2>4. rows[r] = None
    <3>1. r \in Places /\ r \notin Seeded
      BY DEF Places
    <3> QED
      BY <1>8, <3>1 DEF Inserts, IInv, Rows, Settled
  <2> QED
    BY <1>8, <2>1, <2>3, <2>4 DEF Inserts
<1>9. CASE Commits(r)
  <2>1. hit[r] \in SUBSET Places /\ \A x \in hit[r] : Mine(r, x)
    BY <1>1 DEF Held, Types, AdapterTypeOK
  <2>2. step[r] # "new" /\ Put(r, [x \in hit[r] |-> None])
    BY <1>9 DEF Commits
  <2>3. /\ rows'[p] = IF p \in hit[r] THEN None ELSE rows[p]
        /\ wrote'[r] = wrote[r] \union hit[r]
    BY <1>5, <2>1, <2>2
  <2> QED
    BY <2>1, <2>2, <2>3
<1> QED
  BY <1>2, <1>3, <1>4, <1>6, <1>7, <1>8, <1>9 DEF Effect

-----------------------------------------------------------------------------
\* The state keeps its type.

\* The event of r shows tenants, records and images of its own.
LEMMA EventIsTyped ==
  ASSUME IInv, NEW r \in Requests, step[r] # "new",
         NEW action \in Ops \union {"failed_login", "permission_denied"}
  PROVE  EventOf(r, action) \in Event /\ EventOf(r, action) # None
<1>1. actor[r] \in Users /\ TenantOf[actor[r]] \in Tenants
  BY DEF IInv, RequestOK, Shape, Tenants
<1>2. target[r] \in Targets \union {None} /\ old[r] \in Images /\ new[r] \in Images /\ {} \in Images
  BY DEF IInv, Types, AdapterTypeOK, TypeOK, Images
<1>3. (IF action = "failed_login" THEN None ELSE TenantOf[actor[r]]) \in Tenants \union {None}
  BY <1>1
<1>4. (IF action \in {"update", "delete", "bulk_delete"} THEN old[r] ELSE {}) \in Images
  BY <1>2
<1>5. (IF action \in {"update", "create"} THEN new[r] ELSE {}) \in Images
  BY <1>2
<1>6. EventOf(r, action) \in Event
  BY <1>2, <1>3, <1>4, <1>5 DEF EventOf, Event
<1> QED
  BY <1>6

LEMMA TableTypes ==
  ASSUME IInv, NEW r \in Requests, Act(r)
  PROVE  /\ rows' \in [Places -> Row \union {None}]
         /\ log' \in [Requests -> Event \union {None}]
         /\ seen' \in [Requests -> Images]
         /\ wrote' \in [Requests -> SUBSET (Places \union {AnEvent})]
<1>1. Types /\ Shape(r)
  BY DEF IInv, RequestOK
<1>2. Effect(r)
  BY StepsHaveEffects
<1>5. CASE Amends(r) \/ Cascades(r) \/ Wipes(r) \/ Inserts(r) \/ Commits(r)
  <2>1. PICK T \in SUBSET Places : \E c \in [T -> Row \union {None}] : Put(r, c)
    BY <1>5, Contents
  <2>3. PICK c \in [T -> Row \union {None}] : Put(r, c)
    BY <2>1
  <2>2. /\ rows' \in [Places -> Row \union {None}] /\ seen' \in [Requests -> Images]
        /\ wrote' = [wrote EXCEPT ![r] = wrote[r] \union T] /\ log' = log
    BY <1>1, <2>3, PutDoes
  <2> QED
    BY <1>1, <2>2 DEF Types, AdapterTypeOK, TypeOK
<1> USE DEF Types, AdapterTypeOK, TypeOK
<1>3. CASE UNCHANGED <<rows, log, seen, wrote>>
  BY <1>1, <1>3
<1>4. CASE Arrive(r)
  <2>1. PICK o, u, t, b, i : Received(r, o, u, t, b, i)
    BY <1>4 DEF Arrive
  <2> DEFINE now == {rows[p] : p \in UNION {At(x) : x \in {t} \union b}}
                    \union (IF t \in Requests /\ log[t] # None THEN {AnEvent} ELSE {})
  <2>2. seen' = [seen EXCEPT ![r] = now] /\ UNCHANGED <<rows, log, wrote>>
    BY <2>1 DEF Received
  <2>3. now \in Images
    BY <1>1 DEF Images, At
  <2> HIDE DEF now
  <2> QED
    BY <1>1, <2>2, <2>3
<1>6. CASE Forgets(r)
  BY <1>1, <1>6 DEF Forgets
<1>7. CASE Logs(r)
  <2>1. seen' \in [Requests -> Images]
    BY <1>1, <1>7 DEF Logs, Images
  <2>2. log' \in [Requests -> Event \union {None}]
    BY <1>1, <1>7, EventIsTyped DEF Logs
  <2> QED
    BY <1>1, <1>7, <2>1, <2>2 DEF Logs
<1> QED
  BY <1>2, <1>3, <1>4, <1>5, <1>6, <1>7 DEF Effect


\* What a query returns is a row of the table, or an event.
LEMMA ResultsAreImages ==
  ASSUME Types
  PROVE  /\ \A r, t : Results(r, t) \subseteq Row \union {AnEvent}
         /\ \A t : \A p \in At(t) : rows[p] \in Row
BY DEF Types, AdapterTypeOK, TypeOK, Results, Reach, At

LEMMA ImagesStay ==
  ASSUME NEW f \in [Requests -> Images], NEW r \in Requests, NEW S \in Images
  PROVE  [f EXCEPT ![r] = S] \in [Requests -> Images]
OBVIOUS

Steps == {"new", "select", "insert", "write", "reread", "session", "audit",
          "refuse", "begin", "get", "erase", "commit", "done"}
Answers == {0, 200, 201, 401, 403, 404, 500}

LEMMA ControlStays ==
  ASSUME Types, NEW r \in Requests, NEW s \in Steps, NEW a \in Answers, Goto(r, s) \/ Send(r, a) \/ Abort(r, a)
  PROVE  step' \in [Requests -> Steps] /\ answer' \in [Requests -> Answers]
BY DEF Types, AdapterTypeOK, TypeOK, Goto, Send, Abort, Steps, Answers

\* Every step goes on to another statement or answers.
LEMMA ControlSteps ==
  ASSUME Types, NEW r \in Requests, Act(r)
  PROVE  step' \in [Requests -> Steps] /\ answer' \in [Requests -> Answers]
<1>1. \A a \in Answers : Send(r, a) \/ Abort(r, a) => step' \in [Requests -> Steps] /\ answer' \in [Requests -> Answers]
  BY ControlStays DEF Steps
<1>2. \A s \in Steps : Goto(r, s) => step' \in [Requests -> Steps] /\ answer' \in [Requests -> Answers]
  BY ControlStays DEF Answers
<1>3. {0, 200, 201, 401, 403, 404, 500} \subseteq Answers
  BY DEF Answers
<1>4. {"select", "insert", "write", "reread", "session", "audit", "refuse", "begin", "get", "erase", "commit"} \subseteq Steps
  BY DEF Steps
<1>5. CASE Arrive(r)
  BY <1>2, <1>4, <1>5 DEF Arrive
<1>6. CASE Statement(r)
  <2>1. CASE Authenticate(r) \/ ActiveUserByEmail(r) \/ StartSession(r) \/ Select(r) \/ Reread(r) \/ Rejected(r)
    BY <1>1, <1>2, <1>3, <1>4, <2>1 DEF Authenticate, ActiveUserByEmail, StartSession, Select, Reread, Rejected
  <2>2. CASE Update(r) \/ Delete(r) \/ Insert(r)
    BY <1>2, <1>4, <2>1, <2>2 DEF Update, Delete, Insert
  <2>3. CASE Audit(r) \/ Refuse(r)
    <3>1. \E status \in {200, 201, 401, 403} : Send(r, status)
      BY <2>3 DEF Audit, Refuse, Record
    <3> QED
      BY <1>1, <1>3, <3>1
  <2>4. CASE Fail(r)
    BY <1>1, <1>3, <2>4 DEF Fail
  <2> QED
    BY <1>6, <2>1, <2>2, <2>3, <2>4 DEF Statement
<1>7. CASE DeleteStep(r)
  <2>1. CASE BeginDelete(r) \/ Got(r) \/ Commit(r)
    BY <1>1, <1>2, <1>3, <1>4, <2>1 DEF BeginDelete, Got, Commit
  <2>2. CASE DeleteFails(r) \/ GiveUp(r)
    BY <1>1, <1>3, <2>2 DEF DeleteFails, GiveUp
  <2>3. CASE SqlErase(r) \/ MongoErase(r)
    BY <1>2, <1>4, <2>3 DEF SqlErase, MongoErase
  <2> QED
    BY <1>7, <2>1, <2>2, <2>3 DEF DeleteStep
<1> QED
  BY <1>5, <1>6, <1>7 DEF Act

LEMMA TypesStep ==
  ASSUME IInv, load' = load, NEW r \in Requests, Act(r)
  PROVE  Types'
<1>1. Types /\ Shape(r) /\ Bulk(r)
  BY DEF IInv, RequestOK
<1>2. /\ rows' \in [Places -> Row \union {None}] /\ log' \in [Requests -> Event \union {None}]
      /\ seen' \in [Requests -> Images] /\ wrote' \in [Requests -> SUBSET (Places \union {AnEvent})]
  BY TableTypes
<1>3. older' \in [Requests -> SUBSET Places]
  <2>1. DOMAIN older' = Requests /\ older'[r] \subseteq Places /\ older \in [Requests -> SUBSET Places]
    BY <1>1, OlderSteps DEF Types
  <2>2. \A q \in Requests \ {r} : older'[q] = older[q]
    BY <1>1, OthersStay DEF Apart
  <2>3. older' = [q \in Requests |-> older'[q]]
    <3>1. CASE UNCHANGED older
      BY <2>1, <3>1
    <3>2. CASE \E t : ComesAfter(r, t)
      BY <2>1, <3>2 DEF ComesAfter
    <3>3. UNCHANGED older \/ \E t : ComesAfter(r, t)
      BY DEF Act, Arrive, Received, Statement, Authenticate, ActiveUserByEmail, StartSession, Select, Update, Delete,
             Insert, Amend, Wipe, Add, Rejected, Reread, Audit, Refuse, Record, Fail, DeleteStep, BeginDelete, Got,
             DeleteFails, GiveUp, SqlErase, Commit, Committed, MongoErase, ghosts
    <3> QED
      BY <3>1, <3>2, <3>3
  <2> QED
    BY <2>1, <2>2, <2>3
<1> SUFFICES /\ sessions' \subseteq Users
             /\ op' \in [Requests -> Ops \union {None}]
             /\ actor' \in [Requests -> Users \union {None}]
             /\ target' \in [Requests -> Targets \union {None}]
             /\ input' \in [Requests -> Inputs \union {None}]
             /\ batch' \in [Requests -> SUBSET Records]
             /\ old' \in [Requests -> Images] /\ new' \in [Requests -> Images]
             /\ audited' \subseteq Requests /\ failed' \subseteq Requests
             /\ read' \in [Requests -> SUBSET Records] /\ erased' \in [Requests -> SUBSET Records]
             /\ hit' \in [Requests -> SUBSET Places]
  BY <1>1, <1>2, <1>3, ControlSteps DEF Types, AdapterTypeOK, TypeOK, Steps, Answers
<1> USE DEF Types, AdapterTypeOK, TypeOK, Fails, request, ghosts, bulk
<1>4. CASE Arrive(r)
  BY <1>1, <1>4 DEF Arrive, Received
<1>5. CASE Statement(r)
  <2>1. CASE Authenticate(r) \/ ActiveUserByEmail(r) \/ Rejected(r)
    BY <1>1, <1>5, <2>1 DEF Statement, Authenticate, ActiveUserByEmail, Rejected
  <2>2. CASE StartSession(r)
    <3>1. target[r] \in Users
      BY <1>1, <2>2 DEF StartSession, Shape
    <3> QED
      BY <1>1, <1>5, <2>2, <3>1 DEF Statement, StartSession
  <2>3. CASE Select(r)
    <3>1. \A x \in Results(r, target[r]) : {x} \in Images
      BY <1>1, ResultsAreImages DEF Images
    <3>2. \/ UNCHANGED <<old, new>>
          \/ \E x \in Results(r, target[r]) :
               old' = [old EXCEPT ![r] = {x}] /\ new' \in {new, [new EXCEPT ![r] = {x}]}
      BY <2>3 DEF Select
    <3>3. old' \in [Requests -> Images] /\ new' \in [Requests -> Images]
      <4>1. old \in [Requests -> Images] /\ new \in [Requests -> Images]
        BY <1>1
      <4>2. ASSUME NEW x \in Results(r, target[r])
            PROVE  [old EXCEPT ![r] = {x}] \in [Requests -> Images] /\ [new EXCEPT ![r] = {x}] \in [Requests -> Images]
        BY <3>1, <4>1, ImagesStay
      <4> QED
        BY <3>2, <4>1, <4>2
    <3> QED
      BY <1>1, <1>5, <2>3, <3>3 DEF Statement, Select
  <2>4. CASE Update(r) \/ Delete(r) \/ Insert(r)
    BY <1>1, <1>5, <2>1, <2>4 DEF Statement, Update, Delete, Insert
  <2>5. CASE Reread(r)
    <3>1. /\ \A x \in Results(r, target[r]) : {x} \in Images
          /\ \A p \in At(target[r]) : {rows[p]} \in Images
      BY <1>1, ResultsAreImages DEF Images
    <3>2. /\ \/ new' = new
             \/ \E x \in Results(r, target[r]) : new' = [new EXCEPT ![r] = {x}]
             \/ \E p \in At(target[r]) : new' = [new EXCEPT ![r] = {rows[p]}]
          /\ old' = old
      BY <2>5 DEF Reread
    <3>3. new' \in [Requests -> Images]
      <4>1. new \in [Requests -> Images]
        BY <1>1
      <4>2. ASSUME NEW S \in Images PROVE [new EXCEPT ![r] = S] \in [Requests -> Images]
        BY <4>1, ImagesStay
      <4> QED
        BY <3>1, <3>2, <4>1, <4>2
    <3> QED
      BY <1>1, <1>5, <2>5, <3>2, <3>3 DEF Statement, Reread
  <2>6. CASE Audit(r) \/ Refuse(r)
    BY <1>1, <1>5, <2>6 DEF Statement, Audit, Refuse, Record
  <2>7. CASE Fail(r)
    BY <1>1, <1>5, <2>7 DEF Statement, Fail
  <2> QED
    BY <1>5, <2>1, <2>2, <2>3, <2>4, <2>5, <2>6, <2>7 DEF Statement
<1>6. CASE DeleteStep(r)
  <2>1. CASE BeginDelete(r)
    BY <1>1, <2>1 DEF BeginDelete
  <2>2. CASE Got(r)
    <3>1. \A t : \A p \in Reach(r, t) : old[r] \union {rows[p]} \in Images
      BY <1>1, ResultsAreImages DEF Images, Reach
    <3>2. old \in [Requests -> Images] /\ read \in [Requests -> SUBSET Records] /\ batch[r] \subseteq Records
      BY <1>1
    <3>3. /\ old' \in [Requests -> Images] /\ read' \in [Requests -> SUBSET Records]
      <4>1. \/ UNCHANGED <<old, read>>
            \/ \E t \in batch[r] : \E p \in Reach(r, t) :
                 /\ old' = [old EXCEPT ![r] = old[r] \union {rows[p]}]
                 /\ read' = [read EXCEPT ![r] = read[r] \union {t}]
        BY <2>2 DEF Got
      <4> QED
        BY <3>1, <3>2, <4>1
    <3> QED
      BY <1>1, <2>2, <3>3 DEF Got
  <2>3. CASE DeleteFails(r)
    BY <1>1, <2>3 DEF DeleteFails
  <2>4. CASE GiveUp(r)
    BY <1>1, <2>4 DEF GiveUp
  <2>5. CASE SqlErase(r)
    <3>1. \A t : Reach(r, t) \subseteq Places
      BY DEF Reach, At
    <3> QED
      BY <1>1, <2>5, <3>1 DEF SqlErase
  <2>6. CASE Commit(r)
    BY <1>1, <2>6 DEF Commit
  <2>7. CASE MongoErase(r)
    BY <1>1, <2>7 DEF MongoErase
  <2> QED
    BY <1>6, <2>1, <2>2, <2>3, <2>4, <2>5, <2>6, <2>7 DEF DeleteStep
<1> QED
  BY <1>4, <1>5, <1>6 DEF Act

-----------------------------------------------------------------------------
\* What holds of a request, and of a place, for good.

\* What a request asks for does not change.
LEMMA RequestStays ==
  ASSUME NEW r \in Requests, Act(r), step[r] # "new"
  PROVE  UNCHANGED request
<1>1. CASE Statement(r)
  BY <1>1 DEF Statement, Authenticate, ActiveUserByEmail, StartSession, Select, Update, Delete, Insert, Rejected,
              Reread, Audit, Refuse, Record, Fail
<1>2. CASE DeleteStep(r)
  BY <1>2 DEF DeleteStep, BeginDelete, Got, DeleteFails, GiveUp, SqlErase, Commit, MongoErase
<1> QED
  BY <1>1, <1>2 DEF Act, Arrive

\* A request does not arrive twice, and is about to insert when it arrives.
LEMMA StepsGoOn ==
  ASSUME IInv, NEW r \in Requests, Act(r)
  PROVE  step'[r] # "new" /\ (step'[r] = "insert" => Arrive(r))
<1>1. step \in [Requests -> Steps]
  BY DEF IInv, Types, AdapterTypeOK, TypeOK, Steps
<1>2. \A a : Send(r, a) \/ Abort(r, a) => step'[r] \in {"done", "audit"}
  BY <1>1 DEF Send, Abort, Goto
<1>3. \A s : Goto(r, s) => step'[r] = s
  BY <1>1 DEF Goto
<1>4. CASE Arrive(r)
  BY <1>3, <1>4 DEF Arrive
<1>5. CASE Statement(r)
  <2>1. CASE Authenticate(r) \/ ActiveUserByEmail(r) \/ StartSession(r) \/ Select(r) \/ Reread(r) \/ Rejected(r)
    BY <1>2, <1>3, <2>1 DEF Authenticate, ActiveUserByEmail, StartSession, Select, Reread, Rejected
  <2>2. CASE Update(r) \/ Delete(r) \/ Insert(r)
    BY <1>3, <2>1, <2>2 DEF Update, Delete, Insert
  <2>3. CASE Audit(r) \/ Refuse(r)
    BY <1>2, <2>3 DEF Audit, Refuse, Record
  <2>4. CASE Fail(r)
    BY <1>2, <2>4 DEF Fail
  <2> QED
    BY <1>5, <2>1, <2>2, <2>3, <2>4 DEF Statement
<1>6. CASE DeleteStep(r)
  <2>1. CASE BeginDelete(r) \/ Got(r) \/ Commit(r)
    BY <1>2, <1>3, <2>1 DEF BeginDelete, Got, Commit
  <2>2. CASE DeleteFails(r) \/ GiveUp(r)
    BY <1>2, <2>2 DEF DeleteFails, GiveUp
  <2>3. CASE SqlErase(r) \/ MongoErase(r)
    BY <1>3, <2>3 DEF SqlErase, MongoErase
  <2> QED
    BY <1>6, <2>1, <2>2, <2>3 DEF DeleteStep
<1> QED
  BY <1>4, <1>5, <1>6 DEF Act

LEMMA RequestsStay ==
  ASSUME IInv, NEW r \in Requests, Act(r), NEW q \in Requests, step[q] # "new"
  PROVE  /\ step'[q] # "new" /\ op'[q] = op[q] /\ actor'[q] = actor[q] /\ target'[q] = target[q]
         /\ batch'[q] = batch[q] /\ input'[q] = input[q] /\ Aims(q)' = Aims(q)
         /\ step'[q] = "insert" => step[q] = "insert" /\ q # r
<1>1. CASE q # r
  BY <1>1, OthersStay DEF Apart, IInv, Aims
<1>2. CASE q = r
  BY <1>2, RequestStays, StepsGoOn DEF request, Aims, Arrive
<1> QED
  BY <1>1, <1>2

\* A settled place keeps its id, its tenant while its row is there, and gets no
\* other row.
LEMMA PlaceStays ==
  ASSUME IInv, NEW r \in Requests, Act(r), NEW p \in Places, Settled(p)
  PROVE  /\ Settled(p)' /\ Id(p)' = Id(p)
         /\ rows'[p] # None => rows[p] # None /\ rows'[p].tenant = rows[p].tenant
<1>1. p \in Seeded \/ (p \in Requests /\ op[p] = "create" /\ step[p] \notin {"new", "insert"})
  BY DEF Settled, Places
<1>2. Settled(p)' /\ Id(p)' = Id(p)
  BY <1>1, RequestsStay DEF Settled, Id
<1>3. RowStep(r, p)
  BY RowSteps
<1>4. ~(step[r] = "insert" /\ p = r)
  BY <1>1
<1> QED
  BY <1>2, <1>3, <1>4 DEF RowStep

\* The id of a record, once a place has it.
LEMMA IdStays ==
  ASSUME IInv, NEW r \in Requests, Act(r), NEW p \in Places, Id(p) \in Records
  PROVE  Id(p)' = Id(p)
<1>1. p \notin Seeded => p \in Requests /\ step[p] # "new"
  BY DEF Id, Places, IInv, RequestOK, Shape, Targets, Inputs
<1> QED
  BY <1>1, RequestsStay DEF Id

LEMMA ReachStays ==
  ASSUME IInv, NEW r \in Requests, Act(r), NEW q \in Requests, step[q] # "new",
         NEW t, NEW p \in Reach(q, t)', Settled(p)
  PROVE  p \in Reach(q, t)
<1>1. p \in Places /\ rows'[p] # None /\ Id(p)' = t
      /\ (actor'[q] \in SuperAdmins \/ rows'[p].tenant = TenantOf[actor'[q]])
  BY DEF Reach, At, Reaches
<1>2. rows[p] # None /\ rows'[p].tenant = rows[p].tenant /\ Id(p) = t /\ actor'[q] = actor[q]
  BY <1>1, PlaceStays, RequestsStay
<1> QED
  BY <1>1, <1>2 DEF Reach, At, Reaches

LEMMA MineStays ==
  ASSUME IInv, NEW r \in Requests, Act(r), NEW q \in Requests, step[q] # "new", NEW p \in Places, Mine(q, p)
  PROVE  Mine(q, p)'
<1>1. Settled(p) /\ Id(p) \in Aims(q)
  BY DEF Mine
<1>2. Settled(p)' /\ Id(p)' \in Aims(q)' /\ actor'[q] = actor[q]
  BY <1>1, PlaceStays, RequestsStay
<1>3. rows'[p] # None => rows[p] # None /\ rows'[p].tenant = rows[p].tenant
  BY <1>1, PlaceStays
<1> QED
  BY <1>2, <1>3 DEF Mine

LEMMA GoneStays ==
  ASSUME IInv, NEW r \in Requests, Act(r), NEW p, Gone(p)
  PROVE  Gone(p)'
BY PlaceStays DEF Gone

LEMMA RowsStep ==
  ASSUME IInv, NEW r \in Requests, Act(r)
  PROVE  Rows'
<1>1. ASSUME NEW p \in Places, rows'[p] # None PROVE Settled(p)'
  <2>1. RowStep(r, p)
    BY RowSteps
  <2>2. CASE rows[p] # None
    BY <2>2, PlaceStays DEF IInv, Rows
  <2>3. CASE rows[p] = None
    <3>1. p = r /\ step[r] = "insert"
      BY <1>1, <2>1, <2>3 DEF RowStep
    <3>2. op[r] = "create"
      BY <3>1 DEF IInv, RequestOK, Shape
    <3> QED
      BY <3>1, <3>2, RequestsStay DEF Settled
  <2> QED
    BY <2>2, <2>3
<1>2. ASSUME NEW q \in Requests PROVE Seeded \subseteq older'[q] /\ \A p \in older'[q] : Settled(p)'
  <2>1. Seeded \subseteq older[q] /\ older[q] \subseteq Places /\ \A p \in older[q] : Settled(p)
    BY DEF IInv, Rows, Types
  <2>2. older[q] \subseteq older'[q] /\ older'[q] \subseteq Places /\ \A p \in older'[q] : Settled(p)
    <3>1. CASE q # r
      BY <2>1, <3>1, OthersStay DEF Apart, IInv
    <3>2. CASE q = r
      BY <2>1, <3>2, OlderSteps
    <3> QED
      BY <3>1, <3>2
  <2> QED
    BY <2>1, <2>2, PlaceStays
<1> QED
  BY <1>1, <1>2 DEF Rows

-----------------------------------------------------------------------------
\* What a request has seen: it goes on watching what it is about.

LEMMA LogSteps ==
  ASSUME IInv, NEW r \in Requests, Act(r), NEW q \in Requests
  PROVE  \/ log'[q] = log[q] \/ log'[q] = None
         \/ /\ q = r /\ step[r] # "new" /\ r \in audited'
            /\ \E action \in Ops \union {"failed_login", "permission_denied"} : log'[r] = EventOf(r, action)
<1>1. Types /\ Shape(r) /\ log \in [Requests -> Event \union {None}]
  BY DEF IInv, RequestOK, Types, AdapterTypeOK, TypeOK
<1>2. Effect(r)
  BY StepsHaveEffects
<1>3. CASE Arrive(r)
  BY <1>3 DEF Arrive, Received
<1>4. CASE Amends(r) \/ Cascades(r) \/ Wipes(r) \/ Inserts(r) \/ Commits(r)
  BY <1>4 DEF Amends, Cascades, Wipes, Inserts, Commits, Put
<1>5. CASE Forgets(r) \/ Logs(r)
  BY <1>1, <1>5 DEF Forgets, Logs
<1> QED
  BY <1>2, <1>3, <1>4, <1>5 DEF Effect

\* The table: a row is seen by those it concerns before anybody else changes it.
LEMMA RowsAreSeen ==
  ASSUME IInv, NEW r \in Requests, Act(r), NEW q \in Requests, q # r \/ step[r] # "new"
  PROVE  /\ seen[q] \subseteq seen'[q]
         /\ step[q] # "new" =>
              \A p \in Places : rows'[p] # None /\ Id(p)' \in Aims(q)' => rows'[p] \in seen'[q]
<1>1. Types /\ Rows /\ rows \in [Places -> Row \union {None}] /\ seen \in [Requests -> Images]
  BY DEF IInv, Types, AdapterTypeOK, TypeOK
<1>2. step[q] # "new" => \A p \in Places : rows[p] # None /\ Id(p) \in Aims(q) => rows[p] \in seen[q]
  BY DEF IInv, RequestOK, Watching, Watches
<1>3. step[q] # "new" => Aims(q)' = Aims(q)
  BY RequestsStay
<1>4. ASSUME NEW p \in Places, rows[p] # None PROVE Id(p)' = Id(p)
  BY <1>1, <1>4, PlaceStays DEF Rows
<1>5. CASE rows' = rows /\ seen[q] \subseteq seen'[q]
  BY <1>2, <1>3, <1>4, <1>5
<1>6. CASE UNCHANGED <<rows, log, seen, wrote>> \/ Arrive(r) \/ Forgets(r) \/ Logs(r)
  BY <1>1, <1>5, <1>6 DEF Arrive, Received, Forgets, Logs
<1>7. CASE Amends(r) \/ Cascades(r) \/ Wipes(r) \/ Inserts(r) \/ Commits(r)
  <2>1. PICK T \in SUBSET Places : \E c \in [T -> Row \union {None}] : Put(r, c)
    BY <1>7, Contents
  <2>2. PICK c \in [T -> Row \union {None}] : Put(r, c)
    BY <2>1
  <2>3. /\ seen[q] \subseteq seen'[q]
        /\ \A p \in T : Id(p) \in Aims(q) /\ c[p] # None => c[p] \in seen'[q]
    BY <1>1, <2>2, PutDoes
  <2>4. rows' = [p \in Places |-> IF p \in T THEN c[p] ELSE rows[p]]
    BY <2>2 DEF Put
  <2>5. UNCHANGED request
    BY <1>7, RequestStays DEF Amends, Cascades, Wipes, Inserts, Commits
  <2>6. \A p \in Places : Id(p)' = Id(p)
    BY <2>5 DEF Id, request
  <2>7. ASSUME step[q] # "new", NEW p \in Places, rows'[p] # None, Id(p)' \in Aims(q)'
        PROVE  rows'[p] \in seen'[q]
    <3>1. Id(p) \in Aims(q)
      BY <1>3, <2>6, <2>7
    <3>2. CASE p \in T
      <4>1. rows'[p] = c[p]
        BY <2>4, <3>2
      <4> QED
        BY <2>3, <2>7, <3>1, <3>2, <4>1
    <3>3. CASE p \notin T
      <4>1. rows'[p] = rows[p]
        BY <2>4, <3>3
      <4> QED
        BY <1>2, <2>3, <2>7, <3>1, <4>1
    <3> QED
      BY <3>2, <3>3
  <2> QED
    BY <2>3, <2>7
<1> QED
  BY <1>6, <1>7, StepsHaveEffects DEF Effect

LEMMA SeenStep ==
  ASSUME IInv, NEW r \in Requests, Act(r), NEW q \in Requests, q # r \/ step[r] # "new"
  PROVE  /\ seen[q] \subseteq seen'[q]
         /\ step[q] # "new" => Watches(q)'
<1>1. Types /\ log \in [Requests -> Event \union {None}] /\ seen \in [Requests -> Images]
  BY DEF IInv, Types, AdapterTypeOK, TypeOK
<1>2. seen[q] \subseteq seen'[q]
  BY RowsAreSeen
<1>3. ASSUME step[q] # "new", NEW x \in Requests, target'[q] = x, log'[x] # None PROVE AnEvent \in seen'[q]
  <2>1. target[q] = x
    BY <1>3, RequestsStay
  <2>2. log[x] # None => AnEvent \in seen[q]
    BY <1>3, <2>1 DEF IInv, RequestOK, Watching, Watches
  <2>3. CASE log'[x] = log[x]
    BY <1>2, <1>3, <2>2, <2>3
  <2>4. CASE log'[x] # log[x]
    <3>1. x = r /\ r \in audited' /\ step[r] # "new"
      BY <1>3, <2>4, LogSteps
    <3>2. Logs(r)
      <4>1. Effect(r) /\ ~Arrive(r)
        BY <3>1, StepsHaveEffects DEF Arrive
      <4>2. ~Amends(r) /\ ~Cascades(r) /\ ~Wipes(r) /\ ~Inserts(r) /\ ~Commits(r)
        BY <2>4 DEF Amends, Cascades, Wipes, Inserts, Commits, Put
      <4>3. ~Forgets(r)
        BY <1>1, <1>3, <2>4 DEF Forgets
      <4> QED
        BY <2>4, <4>1, <4>2, <4>3 DEF Effect
    <3> QED
      BY <2>1, <3>1, <3>2 DEF Logs
  <2> QED
    BY <2>3, <2>4
<1> QED
  BY <1>2, <1>3, RowsAreSeen DEF Watches

-----------------------------------------------------------------------------
\* A step of r keeps what holds of the other requests.

LEMMA OthersKeepShape ==
  ASSUME IInv, load' = load, NEW r \in Requests, Act(r), NEW q \in Requests \ {r}
  PROVE  Shape(q)' /\ Bulk(q)' /\ WasActive(q)'
<1>1. Apart(r) /\ Shape(q) /\ Bulk(q) /\ WasActive(q)
  BY OthersStay DEF IInv, RequestOK
<1>2. seen[q] \subseteq seen'[q]
  BY SeenStep
<1>3. Shape(q)'
  BY <1>1 DEF Apart, Shape
<1>4. Bulk(q)'
  BY <1>1 DEF Apart, Bulk
<1> QED
  BY <1>1, <1>2, <1>3, <1>4 DEF Apart, WasActive

LEMMA WroteGrows ==
  ASSUME IInv, NEW r \in Requests, Act(r), NEW q \in Requests
  PROVE  wrote[q] \subseteq wrote'[q]
<1>1. DOMAIN wrote = Requests
  BY DEF IInv, Types
<1>2. CASE Amends(r) \/ Cascades(r) \/ Wipes(r) \/ Inserts(r) \/ Commits(r)
  <2>1. \E S : wrote' = [wrote EXCEPT ![r] = @ \union S]
    BY <1>2 DEF Amends, Cascades, Wipes, Inserts, Commits, Put
  <2> QED
    BY <1>1, <2>1
<1>3. CASE UNCHANGED <<rows, log, seen, wrote>> \/ Arrive(r) \/ Forgets(r) \/ Logs(r)
  BY <1>1, <1>3 DEF Arrive, Received, Forgets, Logs
<1> QED
  BY <1>2, <1>3, StepsHaveEffects DEF Effect

\* What q has cleared stays so, as no older place gets a row again.
LEMMA ClearedStays ==
  ASSUME IInv, load' = load, NEW r \in Requests, Act(r), NEW q \in Requests, step[q] # "new", NEW t \in Records,
         \A p \in older'[q] : p \in older[q] \/ (Settled(p) /\ Id(p) # t)
  PROVE  /\ Cleared(q, t) => Cleared(q, t)'
         /\ (\A p \in Reach(q, t) : p \in older[q] => p \in hit[q]) =>
              (\A p \in Reach(q, t)' : p \in older'[q] => p \in hit[q])
<1>1. ASSUME NEW p \in Reach(q, t)', p \in older'[q] PROVE p \in Reach(q, t) /\ p \in older[q]
  <2>1. Settled(p)
    BY <1>1 DEF IInv, Rows
  <2>2. p \in Reach(q, t)
    BY <1>1, <2>1, ReachStays
  <2> QED
    BY <1>1, <2>2 DEF Reach, At
<1>2. ASSUME Cleared(q, t), NEW p \in Reach(q, t)'
      PROVE  \/ p \notin older'[q]
             \/ load'.store = "mongo" /\ \E x \in Places : x # p /\ x \in wrote'[q] /\ Id(x)' = t
  <2>1. CASE p \notin older'[q]
    BY <2>1
  <2>2. CASE p \in older'[q]
    <3>1. load.store = "mongo" /\ \E x \in Places : x # p /\ x \in wrote[q] /\ Id(x) = t
      BY <1>1, <1>2, <2>2 DEF Cleared
    <3>2. PICK x \in Places : x # p /\ x \in wrote[q] /\ Id(x) = t
      BY <3>1
    <3>3. x \in wrote'[q] /\ Id(x)' = t
      BY <3>2, WroteGrows, IdStays
    <3> QED
      BY <3>1, <3>2, <3>3
  <2> QED
    BY <2>1, <2>2
<1>3. Cleared(q, t) => Cleared(q, t)'
  BY <1>2 DEF Cleared
<1> QED
  BY <1>1, <1>3

LEMMA OthersKeepRecords ==
  ASSUME IInv, load' = load, NEW r \in Requests, Act(r), NEW q \in Requests \ {r}
  PROVE  Held(q)' /\ Watching(q)' /\ Deleted(q)' /\ Trail(q)'
<1>1. Apart(r) /\ Types /\ Shape(q) /\ Bulk(q) /\ Held(q) /\ Watching(q) /\ Deleted(q) /\ Trail(q)
  BY OthersStay DEF IInv, RequestOK
<1>2. Held(q)'
  <2>1. ASSUME NEW p \in Places, Mine(q, p), step[q] # "new" PROVE Mine(q, p)'
    BY <2>1, MineStays
  <2>2. hit[q] \subseteq Places /\ (hit[q] # {} => step[q] # "new") /\ (op[q] \in Edits => step[q] # "new")
    BY <1>1 DEF Types, AdapterTypeOK, Shape, Edits, Ops
  <2> QED
    BY <1>1, <2>1, <2>2 DEF Apart, Held
<1>3. Watching(q)'
  <2>1. seen[q] \subseteq seen'[q] /\ (step[q] # "new" => Watches(q)')
    BY SeenStep
  <2>2. log'[q] = log[q] \/ log'[q] = None
    BY LogSteps
  <2> QED
    BY <1>1, <2>1, <2>2 DEF Apart, Watching
<1>4. Deleted(q)'
  <2>1. /\ op'[q] = op[q] /\ step'[q] = step[q] /\ answer'[q] = answer[q] /\ Aims(q)' = Aims(q)
        /\ erased'[q] = erased[q] /\ older'[q] = older[q] /\ hit'[q] = hit[q]
    BY <1>1 DEF Apart, Aims
  <2>2. /\ op[q] \in Deletes => step[q] # "new"
        /\ erased[q] # {} => step[q] # "new"
        /\ erased[q] \subseteq Records
    BY <1>1 DEF Shape, Bulk, Deletes, Ops, Types, AdapterTypeOK
  <2>3. ASSUME NEW t \in Records, step[q] # "new"
        PROVE  /\ Cleared(q, t) => Cleared(q, t)'
               /\ (\A p \in Reach(q, t) : p \in older[q] => p \in hit[q]) =>
                    (\A p \in Reach(q, t)' : p \in older'[q] => p \in hit[q])
    BY <2>1, <2>3, ClearedStays
  <2>4. op[q] \in Deletes /\ (step[q] = "audit" \/ answer[q] = 200) => \A t \in Aims(q) \intersect Records : Cleared(q, t)'
    BY <1>1, <2>2, <2>3 DEF Deleted
  <2>5. load.store = "mongo" => \A t \in erased[q] : Cleared(q, t)'
    BY <1>1, <2>2, <2>3 DEF Deleted
  <2>6. load.store = "sql" => \A t \in erased[q] : \A p \in Reach(q, t)' : p \in older'[q] => p \in hit[q]
    BY <1>1, <2>2, <2>3 DEF Deleted
  <2> QED
    BY <2>1, <2>4, <2>5, <2>6 DEF Deleted
<1>5. Trail(q)'
  <2>1. \A p : Gone(p) => Gone(p)'
    BY GoneStays
  <2> QED
    BY <1>1, <2>1 DEF Apart, Trail
<1> QED
  BY <1>2, <1>3, <1>4, <1>5

LEMMA FieldsOfChanges ==
  ASSUME NEW i \in Changes
  PROVE  DOMAIN i \subseteq {"status", "name", "parent"}
BY DEF Changes

\* A field that q has assigned changes only by a request that names it too.
LEMMA HoldsStays ==
  ASSUME IInv, load' = load, NEW r \in Requests, Act(r), NEW q \in Requests \ {r}, step[q] # "new",
         input[q] \in Changes, NEW p \in Places, Settled(p), NEW f \in DOMAIN input[q], Holds(q, p, f)
  PROVE  Holds(q, p, f)'
<1>1. input'[q] = input[q]
  BY RequestsStay
<1>2. CASE rows[p] = None
  BY <1>2, PlaceStays DEF Holds
<1>3. CASE \E x \in Requests \ {q} : p \in wrote[x] /\ op[x] \in Edits /\ f \in DOMAIN input[x]
  <2>1. PICK x \in Requests \ {q} : p \in wrote[x] /\ op[x] \in Edits /\ f \in DOMAIN input[x]
    BY <1>3
  <2>2. step[x] # "new"
    BY <2>1 DEF IInv, RequestOK, Shape
  <2>3. p \in wrote'[x] /\ op'[x] \in Edits /\ f \in DOMAIN input'[x]
    BY <2>1, <2>2, RequestsStay, WroteGrows
  <2> QED
    BY <2>3 DEF Holds
<1>4. CASE rows[p] # None /\ rows[p][f] = input[q][f]
  <2>1. RowStep(r, p)
    BY RowSteps
  <2>2. CASE rows'[p] = rows[p] \/ rows'[p] = None
    BY <1>1, <1>4, <2>2 DEF Holds
  <2>3. CASE /\ p \in wrote'[r] /\ step[r] # "new" /\ op[r] \in Edits
             /\ \A g \in {"status", "name", "parent"} :
                  rows'[p][g] = IF g \in DOMAIN input[r] THEN input[r][g] ELSE rows[p][g]
    <3>1. f \in {"status", "name", "parent"}
      BY FieldsOfChanges
    <3>2. op'[r] = op[r] /\ input'[r] = input[r]
      BY <2>3, RequestsStay
    <3>3. CASE f \in DOMAIN input[r]
      BY <2>3, <3>2, <3>3 DEF Holds
    <3>4. CASE f \notin DOMAIN input[r]
      <4>1. rows'[p][f] = rows[p][f]
        BY <2>3, <3>1, <3>4
      <4> QED
        BY <1>1, <1>4, <4>1 DEF Holds
    <3> QED
      BY <3>3, <3>4
  <2> QED
    BY <1>4, <2>1, <2>2, <2>3 DEF RowStep
<1> QED
  BY <1>2, <1>3, <1>4 DEF Holds

LEMMA OthersKeepEdits ==
  ASSUME IInv, load' = load, NEW r \in Requests, Act(r), NEW q \in Requests \ {r}
  PROVE  Edited(q)'
<1>1. Apart(r) /\ Types /\ Shape(q) /\ Held(q) /\ Edited(q)
  BY OthersStay DEF IInv, RequestOK
<1>2. /\ op'[q] = op[q] /\ step'[q] = step[q] /\ answer'[q] = answer[q] /\ target'[q] = target[q]
      /\ wrote'[q] = wrote[q] /\ older'[q] = older[q] /\ input'[q] = input[q]
  BY <1>1 DEF Apart
<1>3. SUFFICES ASSUME op[q] = "update", target[q] \in Records, step[q] \in {"reread", "audit"} \/ answer[q] = 200
               PROVE  Edited(q)'
  BY <1>2 DEF Edited
<1>4. step[q] # "new"
  BY <1>1, <1>3 DEF Shape, Ops
<1>8. PICK t \in Records : t = target[q]
  BY <1>3
<1>5. ASSUME wrote[q] = {}, NEW p \in Reach(q, t)' PROVE p \notin older[q]
  <2>1. p \notin Reach(q, t) \/ p \notin older[q]
    BY <1>1, <1>3, <1>5, <1>8 DEF Edited
  <2>2. p \in older[q] => Settled(p)
    BY DEF IInv, Rows
  <2> QED
    BY <1>4, <1>5, <2>1, <2>2, ReachStays
<1>6. ASSUME wrote[q] = {}, step[q] # "reread"
      PROVE  \E x \in Requests \ older[q] : op'[x] = "create" /\ Settled(x)' /\ Id(x)' = target[q]
  <2>1. PICK x \in Requests \ older[q] : op[x] = "create" /\ Settled(x) /\ Id(x) = target[q]
    BY <1>1, <1>3, <1>6 DEF Edited
  <2>2. x \in Places /\ step[x] # "new"
    BY <2>1 DEF Places, IInv, RequestOK, Shape, Ops
  <2> QED
    BY <2>1, <2>2, PlaceStays, RequestsStay
<1>7. ASSUME NEW p \in wrote[q], NEW f \in DOMAIN input[q] PROVE Holds(q, p, f)'
  <2>1. p \in Places /\ Settled(p) /\ Holds(q, p, f) /\ input[q] \in Changes
    BY <1>1, <1>3 DEF Held, Mine, Edits, Edited, Shape
  <2> QED
    BY <1>4, <2>1, HoldsStays
<1>9. wrote'[q] = {} => \A p \in Reach(q, target[q])' : p \notin older'[q]
  BY <1>2, <1>5, <1>8 DEF Reach, At, Reaches
<1> QED
  BY <1>2, <1>6, <1>7, <1>9 DEF Edited

-----------------------------------------------------------------------------
\* What a step of r makes of what holds of r itself.

LEMMA ArrivalKeepsShape ==
  ASSUME IInv, load' = load, NEW r \in Requests, Arrive(r)
  PROVE  /\ step[r] = "new" /\ op[r] = None
         /\ wrote[r] = {} /\ hit[r] = {} /\ answer[r] = 0 /\ erased[r] = {} /\ log[r] = None
         /\ Shape(r)' /\ Bulk(r)'
         /\ UNCHANGED <<rows, log, old, new, wrote, older, read, erased, hit, answer>>
<1>1. Types /\ Shape(r) /\ Bulk(r) /\ step[r] = "new" /\ log[r] = None
  BY DEF IInv, RequestOK, Arrive, Watching
<1>2. PICK o \in Ops, u \in Users, t \in Targets \union {None}, b \in SUBSET Records,
           i \in Inputs \union {None}, s \in {"select", "refuse", "begin", "audit", "insert"} :
        Arrival(o, u, t, b, i, s) /\ Received(r, o, u, t, b, i) /\ Goto(r, s)
  BY DEF Arrive
<1>3. /\ op'[r] = o /\ actor'[r] = u /\ target'[r] = t /\ batch'[r] = b /\ input'[r] = i /\ step'[r] = s
      /\ UNCHANGED <<rows, log, old, new, wrote, older, answer>>
  BY <1>1, <1>2 DEF Received, Goto, Types, AdapterTypeOK, TypeOK
<1>4. UNCHANGED <<read, erased, hit>>
  BY DEF Arrive, bulk
<1>5. /\ op[r] = None /\ answer[r] = 0 /\ read[r] = {} /\ erased[r] = {} /\ wrote[r] = {} /\ hit[r] = {}
  BY <1>1 DEF Shape, Bulk
<1>6. Shape(r)'
  BY <1>2, <1>3, <1>5 DEF Shape, Arrival, Logins, Deletes, Edits, Targets
<1>7. Bulk(r)'
  BY <1>2, <1>3, <1>4, <1>5 DEF Bulk, Arrival, Logins, Deletes
<1> QED
  BY <1>1, <1>3, <1>4, <1>5, <1>6, <1>7

LEMMA StatementKeepsShape ==
  ASSUME IInv, load' = load, NEW r \in Requests, Statement(r)
  PROVE  Shape(r)' /\ Bulk(r)'
<1>1. Types /\ Shape(r) /\ Bulk(r) /\ UNCHANGED <<read, erased, hit, request>>
  BY DEF IInv, RequestOK, Statement, Authenticate, ActiveUserByEmail, StartSession, Select, Update, Delete,
         Insert, Rejected, Reread, Audit, Refuse, Record, Fail, bulk
<1>2. step'[r] # "new" /\ step \in [Requests -> Steps] /\ answer \in [Requests -> Answers]
  <2>1. Act(r)
    BY DEF Act
  <2> QED
    BY <2>1, StepsGoOn DEF IInv, Types, AdapterTypeOK, TypeOK, Steps, Answers
<1> USE DEF Goto, Send, Abort, Shape, Bulk, request, Logins, Deletes, Edits
<1>3. CASE Authenticate(r) \/ ActiveUserByEmail(r)
  BY <1>1, <1>2, <1>3 DEF Authenticate, ActiveUserByEmail
<1>4. CASE StartSession(r)
  BY <1>1, <1>2, <1>4 DEF StartSession
<1>5. CASE Select(r)
  BY <1>1, <1>2, <1>5 DEF Select, Targets
<1>6. CASE Rejected(r)
  BY <1>1, <1>2, <1>6 DEF Rejected
<1>7. CASE Update(r)
  BY <1>1, <1>2, <1>6, <1>7 DEF Update, Amend
<1>8. CASE Delete(r)
  BY <1>1, <1>2, <1>8 DEF Delete, Wipe
<1>9. CASE Insert(r)
  BY <1>1, <1>2, <1>6, <1>9 DEF Insert, Add
<1>10. CASE Reread(r)
  BY <1>1, <1>2, <1>10 DEF Reread
<1>11. CASE Audit(r) \/ Refuse(r)
  BY <1>1, <1>2, <1>11 DEF Audit, Refuse, Record
<1>12. CASE Fail(r)
  <2>1. step[r] \in {"select", "write", "insert", "reread", "session"}
    BY <1>12 DEF Fail, Amend, Wipe, Add
  <2> QED
    BY <1>1, <1>2, <1>12, <2>1 DEF Fail
<1> QED
  BY <1>3, <1>4, <1>5, <1>7, <1>8, <1>9, <1>10, <1>11, <1>12 DEF Statement

LEMMA DeleteStepKeepsShape ==
  ASSUME IInv, load' = load, NEW r \in Requests, DeleteStep(r)
  PROVE  Shape(r)' /\ Bulk(r)'
<1>1. Types /\ Shape(r) /\ Bulk(r) /\ UNCHANGED request
  BY DEF IInv, RequestOK, DeleteStep, BeginDelete, Got, DeleteFails, GiveUp, SqlErase, Commit, MongoErase
<1>2. /\ step'[r] # "new" /\ step \in [Requests -> Steps] /\ answer \in [Requests -> Answers]
      /\ read \in [Requests -> SUBSET Records] /\ erased \in [Requests -> SUBSET Records]
  <2>1. Act(r)
    BY DEF Act
  <2> QED
    BY <2>1, StepsGoOn DEF IInv, Types, AdapterTypeOK, TypeOK, Steps, Answers
<1> USE DEF Goto, Send, Shape, Bulk, request, bulk, Logins, Deletes, Edits
<1>3. CASE BeginDelete(r)
  BY <1>1, <1>2, <1>3 DEF BeginDelete
<1>4. CASE Got(r)
  BY <1>1, <1>2, <1>4 DEF Got
<1>5. CASE DeleteFails(r)
  BY <1>1, <1>2, <1>5 DEF DeleteFails
<1>6. CASE GiveUp(r)
  BY <1>1, <1>2, <1>6 DEF GiveUp, Waits
<1>7. CASE load.store = "sql" /\ SqlErase(r)
  BY <1>1, <1>2, <1>7 DEF SqlErase
<1>8. CASE Commit(r)
  BY <1>1, <1>2, <1>8 DEF Commit
<1>9. CASE MongoErase(r)
  BY <1>1, <1>2, <1>9 DEF MongoErase
<1> QED
  BY <1>3, <1>4, <1>5, <1>6, <1>7, <1>8, <1>9 DEF DeleteStep

\* A request that has arrived goes on by a statement.
LEMMA OnlyNewArrive ==
  ASSUME NEW r \in Requests, Act(r), ~Arrive(r)
  PROVE  step[r] # "new" /\ (Statement(r) \/ DeleteStep(r)) /\ UNCHANGED request
<1>1. Statement(r) => step[r] # "new"
  BY DEF Statement, Authenticate, ActiveUserByEmail, StartSession, Select, Update, Delete, Insert, Amend, Wipe, Add,
         Rejected, Reread, Audit, Refuse, Fail
<1>2. DeleteStep(r) => step[r] # "new"
  BY DEF DeleteStep, BeginDelete, Got, DeleteFails, GiveUp, SqlErase, Commit, MongoErase, Waits
<1> QED
  BY <1>1, <1>2, RequestStays DEF Act

LEMMA OwnWrites ==
  ASSUME IInv, NEW r \in Requests, Act(r), NEW p \in wrote'[r], p \notin wrote[r]
  PROVE  \/ step[r] = "write" /\ op[r] \in Edits /\ p \in Reach(r, target[r])
         \/ op[r] \in Deletes
         \/ op[r] = "create" /\ p = r
<1>1. Shape(r) /\ Bulk(r) /\ DOMAIN wrote = Requests
  BY DEF IInv, RequestOK, Types
<1>2. CASE Amends(r)
  <2>1. PICK S \in Hits(r, target[r]) : Put(r, [x \in S |-> Updated(r, x)])
    BY <1>2 DEF Amends
  <2>2. wrote'[r] = wrote[r] \union S
    BY <1>1, <2>1 DEF Put
  <2> QED
    BY <1>1, <1>2, <2>2, HitsAreReached DEF Amends, Shape
<1>3. CASE Inserts(r)
  <2>1. wrote'[r] = wrote[r] \union {r}
    BY <1>1, <1>3 DEF Inserts, Put
  <2> QED
    BY <1>1, <1>3, <2>1 DEF Inserts, Shape
<1>4. CASE Cascades(r) \/ Wipes(r) \/ Commits(r) \/ Forgets(r)
  BY <1>1, <1>4 DEF Cascades, Wipes, Commits, Forgets, Bulk, Deletes
<1>5. CASE UNCHANGED <<rows, log, seen, wrote>> \/ Arrive(r) \/ Logs(r)
  BY <1>1, <1>5 DEF Arrive, Received, Logs
<1> QED
  BY <1>2, <1>3, <1>4, <1>5, StepsHaveEffects DEF Effect

LEMMA OwnHits ==
  ASSUME IInv, NEW r \in Requests, Act(r), ~Arrive(r)
  PROVE  \/ hit'[r] = hit[r]
         \/ \E t \in read[r] \ erased[r] :
              SqlErase(r) /\ hit'[r] = hit[r] \union Reach(r, t) /\ erased'[r] = erased[r] \union {t} /\ ComesAfter(r, t)
<1>1. DOMAIN hit = Requests /\ DOMAIN erased = Requests
  BY DEF IInv, Types, AdapterTypeOK
<1>2. CASE Statement(r)
  BY <1>2 DEF Statement, bulk
<1>3. CASE DeleteStep(r)
  <2>1. CASE SqlErase(r)
    <3>1. PICK t \in read[r] \ erased[r] :
            /\ erased' = [erased EXCEPT ![r] = @ \union {t}]
            /\ hit' = [hit EXCEPT ![r] = @ \union Reach(r, t)]
            /\ ComesAfter(r, t)
      BY <2>1 DEF SqlErase
    <3> QED
      BY <1>1, <2>1, <3>1
  <2>2. CASE ~SqlErase(r)
    BY <1>3, <2>2 DEF DeleteStep, BeginDelete, Got, DeleteFails, GiveUp, Commit, MongoErase, bulk
  <2> QED
    BY <2>1, <2>2
<1> QED
  BY <1>2, <1>3, OnlyNewArrive

LEMMA OwnHeld ==
  ASSUME IInv, load' = load, NEW r \in Requests, Act(r)
  PROVE  Held(r)'
<1>1. Shape(r) /\ Bulk(r) /\ Held(r) /\ hit[r] \subseteq Places
  BY DEF IInv, RequestOK, Types, AdapterTypeOK
<1>2. CASE Arrive(r)
  <2>1. wrote'[r] = {} /\ hit'[r] = {}
    BY <1>2, ArrivalKeepsShape
  <2> QED
    BY <2>1 DEF Held
<1>3. CASE ~Arrive(r)
  <2>1. step[r] # "new" /\ op'[r] = op[r]
    BY <1>3, OnlyNewArrive, RequestsStay
  <2>2. ASSUME NEW t \in Aims(r), NEW p \in Reach(r, t) PROVE p \in Places /\ Mine(r, p)'
    BY <2>1, ReachIsMine, MineStays
  <2>3. ASSUME NEW p \in Places, Mine(r, p) PROVE Mine(r, p)'
    BY <2>1, <2>3, MineStays
  <2>4. ASSUME op[r] \in Edits, NEW p \in wrote'[r] PROVE p \in Places /\ Mine(r, p)'
    <3>1. op[r] \notin Deletes /\ op[r] # "create" /\ target[r] \in Aims(r)
      BY <2>4 DEF Edits, Deletes, Aims
    <3> QED
      BY <1>1, <2>2, <2>3, <2>4, <3>1, OwnWrites DEF Held
  <2>5. ASSUME op[r] = "create", NEW p \in wrote'[r] PROVE p = r
    BY <1>1, <2>5, OwnWrites DEF Held, Edits, Deletes
  <2>6. ASSUME NEW p \in hit'[r] PROVE Mine(r, p)'
    <3>1. CASE p \in hit[r]
      BY <1>1, <2>3, <3>1 DEF Held
    <3>2. CASE p \notin hit[r]
      <4>1. PICK t \in read[r] : p \in Reach(r, t)
        BY <1>3, <2>6, <3>2, OwnHits
      <4>2. t \in Aims(r)
        BY <1>1 DEF Bulk, Aims
      <4> QED
        BY <2>2, <4>1, <4>2
    <3> QED
      BY <3>1, <3>2
  <2> QED
    BY <2>1, <2>4, <2>5, <2>6 DEF Held
<1> QED
  BY <1>2, <1>3

\* What r reads of the records it aims at, it has seen.
LEMMA ReadsAreSeen ==
  ASSUME IInv, NEW r \in Requests, step[r] # "new"
  PROVE  /\ Results(r, target[r]) \subseteq seen[r]
         /\ \A t \in Aims(r) : \A p \in At(t) : rows[p] \in seen[r]
<1>1. Watches(r)
  BY DEF IInv, RequestOK, Watching
<1>2. \A t \in Aims(r) : \A p \in At(t) : rows[p] \in seen[r]
  BY <1>1 DEF Watches, At
<1>3. target[r] \in Aims(r)
  BY DEF Aims
<1>4. Results(r, target[r]) \subseteq seen[r]
  <2>1. CASE target[r] \in Requests
    BY <1>1, <2>1 DEF Results, Reaches, Watches
  <2>2. CASE target[r] \notin Requests
    BY <1>2, <1>3, <2>2 DEF Results, Reach
  <2> QED
    BY <2>1, <2>2
<1> QED
  BY <1>2, <1>4

LEMMA OwnWatching ==
  ASSUME IInv, load' = load, NEW r \in Requests, Act(r)
  PROVE  Watching(r)'
<1>1. Types /\ Shape(r) /\ Bulk(r) /\ Watching(r)
  BY DEF IInv, RequestOK
<1>2. /\ old \in [Requests -> Images] /\ new \in [Requests -> Images] /\ DOMAIN seen = Requests
      /\ DOMAIN target = Requests /\ DOMAIN batch = Requests
  BY <1>1 DEF Types, AdapterTypeOK, TypeOK
<1>3. CASE Arrive(r)
  <2>1. PICK o \in Ops, u \in Users, t \in Targets \union {None}, b \in SUBSET Records, i \in Inputs \union {None} :
          Received(r, o, u, t, b, i)
    BY <1>3 DEF Arrive
  <2>2. /\ target'[r] = t /\ batch'[r] = b /\ UNCHANGED <<rows, log, old, new>>
        /\ seen'[r] = {rows[p] : p \in UNION {At(x) : x \in {t} \union b}}
                      \union (IF t \in Requests /\ log[t] # None THEN {AnEvent} ELSE {})
    BY <1>2, <2>1 DEF Received
  <2>3. old[r] = {} /\ new[r] = {} /\ log[r] = None /\ step'[r] # "new"
    BY <1>1, <1>3, StepsGoOn DEF Arrive, Watching
  <2>4. ASSUME NEW p \in Places, rows'[p] # None, Id(p)' \in Aims(r)' PROVE rows'[p] \in seen'[r]
    <3>1. Settled(p) /\ rows[p] # None
      BY <2>2, <2>4 DEF IInv, Rows
    <3>2. Id(p) \in {t} \union b
      BY <2>2, <2>4, <3>1, PlaceStays DEF Aims
    <3>3. p \in At(Id(p))
      BY <3>1 DEF At
    <3> QED
      BY <2>2, <3>2, <3>3
  <2>5. ASSUME NEW q \in Requests, target'[r] = q, log'[q] # None PROVE AnEvent \in seen'[r]
    BY <2>2, <2>5
  <2> QED
    BY <2>2, <2>3, <2>4, <2>5 DEF Watching, Watches
<1>4. CASE ~Arrive(r)
  <2>1. step[r] # "new" /\ (Statement(r) \/ DeleteStep(r))
    BY <1>4, OnlyNewArrive
  <2>2. seen[r] \subseteq seen'[r] /\ Watches(r)' /\ step'[r] # "new"
    BY <2>1, SeenStep, StepsGoOn
  <2>3. old'[r] \union new'[r] \subseteq seen[r]
    <3>1. CASE Select(r) \/ Reread(r)
      <4>1. target[r] \in Aims(r)
        BY DEF Aims
      <4>2. /\ old'[r] = old[r] \/ \E x \in Results(r, target[r]) : old'[r] = {x}
            /\ \/ new'[r] = new[r]
               \/ \E x \in Results(r, target[r]) : new'[r] = {x}
               \/ \E p \in At(target[r]) : new'[r] = {rows[p]}
        BY <1>2, <3>1 DEF Select, Reread
      <4> QED
        BY <1>1, <2>1, <4>1, <4>2, ReadsAreSeen DEF Watching
    <3>2. CASE Got(r)
      <4>1. /\ new'[r] = new[r]
            /\ old'[r] = old[r] \/ \E t \in batch[r] : \E p \in Reach(r, t) : old'[r] = old[r] \union {rows[p]}
        BY <1>2, <3>2 DEF Got
      <4>2. \A t \in batch[r] : t \in Aims(r) /\ Reach(r, t) \subseteq At(t)
        BY DEF Aims, Reach
      <4> QED
        BY <1>1, <2>1, <4>1, <4>2, ReadsAreSeen DEF Watching
    <3>3. CASE ~(Select(r) \/ Reread(r) \/ Got(r))
      <4>1. UNCHANGED <<old, new>>
        BY <2>1, <3>3 DEF Statement, Authenticate, ActiveUserByEmail, StartSession, Update, Delete, Insert, Rejected,
                          Audit, Refuse, Record, Fail, DeleteStep, BeginDelete, DeleteFails, GiveUp, SqlErase,
                          Commit, MongoErase
      <4> QED
        BY <1>1, <4>1 DEF Watching
    <3> QED
      BY <3>1, <3>2, <3>3
  <2>4. log'[r] # None => log'[r].old \union log'[r].new \subseteq seen[r]
    <3>1. \A action : EventOf(r, action).old \union EventOf(r, action).new \subseteq seen[r]
      BY <1>1 DEF EventOf, Watching
    <3> QED
      BY <1>1, <3>1, LogSteps DEF Watching
  <2> QED
    BY <2>2, <2>3, <2>4 DEF Watching
<1> QED
  BY <1>3, <1>4

LEMMA OwnWasActive ==
  ASSUME IInv, load' = load, NEW r \in Requests, Act(r)
  PROVE  WasActive(r)'
<1>1. Types /\ Shape(r) /\ Bulk(r) /\ Watching(r) /\ WasActive(r) /\ step \in [Requests -> Steps] /\ DOMAIN answer = Requests
  BY DEF IInv, RequestOK, Types, AdapterTypeOK, TypeOK, Steps
<1> USE DEF Goto, Send, Abort, Logins
<1>2. CASE Arrive(r)
  <2>1. op'[r] \in Logins => step'[r] \notin {"session", "audit"}
    <3>1. PICK o \in Ops, u \in Users, t \in Targets \union {None}, b \in SUBSET Records,
               i \in Inputs \union {None}, s \in {"select", "refuse", "begin", "audit", "insert"} :
            Arrival(o, u, t, b, i, s) /\ Received(r, o, u, t, b, i) /\ Goto(r, s)
      BY <1>2 DEF Arrive
    <3>2. DOMAIN op = Requests
      BY <1>1 DEF Types, AdapterTypeOK, TypeOK
    <3>3. op'[r] = o /\ step'[r] = s
      BY <1>1, <3>1, <3>2 DEF Received
    <3>4. o \in Logins => s = "select"
      BY <3>1 DEF Arrival
    <3> QED
      BY <3>3, <3>4
  <2>2. answer'[r] = 0
    BY <1>2, ArrivalKeepsShape
  <2> QED
    BY <2>1, <2>2 DEF WasActive
<1>3. CASE ~Arrive(r)
  <2>1. op'[r] = op[r] /\ seen[r] \subseteq seen'[r] /\ (Statement(r) \/ DeleteStep(r)) /\ step[r] # "new"
    BY <1>3, OnlyNewArrive, RequestsStay, SeenStep
  <2>2. SUFFICES ASSUME op[r] \in Logins, step'[r] \in {"session", "audit"} \/ answer'[r] = 200
                 PROVE  \E row \in seen[r] \ {AnEvent} : row.status = "active"
    BY <2>1 DEF WasActive
  <2>3. CASE step[r] \in {"session", "audit"} \/ answer[r] = 200
    BY <1>1, <2>2, <2>3 DEF WasActive
  <2>4. CASE step[r] \notin {"session", "audit"} /\ answer[r] # 200
    <3>1. ~DeleteStep(r)
      BY <1>1, <2>2, <2>4 DEF DeleteStep, BeginDelete, Got, DeleteFails, GiveUp, SqlErase, Commit, MongoErase,
                              Shape, Bulk, Deletes, Waits
    <3>2. Authenticate(r) \/ ActiveUserByEmail(r)
      <4>1. ~Select(r) /\ ~Update(r) /\ ~Delete(r) /\ ~Insert(r) /\ ~Reread(r) /\ ~StartSession(r)
        BY <1>1, <2>2, <2>4 DEF StartSession, Select, Update, Amend, Delete, Wipe, Insert, Add, Rejected, Reread,
                                Shape, Edits
      <4>2. ~Audit(r) /\ ~Refuse(r) /\ ~Fail(r)
        BY <1>1, <2>2, <2>4 DEF Audit, Refuse, Record, Fail
      <4> QED
        BY <2>1, <3>1, <4>1, <4>2 DEF Statement
    <3>3. target[r] \in Seeded /\ rows[target[r]] # None /\ rows[target[r]].status = "active"
      BY <1>1, <2>2, <2>4, <3>2 DEF Authenticate, ActiveUserByEmail, Shape
    <3>4. target[r] \in Places /\ Id(target[r]) \in Aims(r) /\ rows[target[r]] \in Row
      BY <1>1, <3>3 DEF Places, Id, Aims, Types, AdapterTypeOK, TypeOK
    <3>5. rows[target[r]] \in seen[r] /\ rows[target[r]] # AnEvent
      BY <1>1, <2>1, <3>3, <3>4 DEF Watching, Watches
    <3> QED
      BY <3>3, <3>5
  <2> QED
    BY <2>3, <2>4
<1> QED
  BY <1>2, <1>3

\* A statement that deletes what r reaches by t clears t.
LEMMA ErasedIsCleared ==
  ASSUME IInv, load' = load, NEW r \in Requests, Act(r), step[r] # "new", NEW t \in Records, NEW S \in Hits(r, t),
         S \subseteq wrote'[r], \A p \in S : rows'[p] = None
  PROVE  Cleared(r, t)'
<1> SUFFICES ASSUME NEW p \in Reach(r, t)', p \in older'[r]
             PROVE  load.store = "mongo" /\ \E x \in Places : x # p /\ x \in wrote'[r] /\ Id(x)' = t
  BY DEF Cleared
<1>1. Settled(p)
  BY OlderSteps DEF IInv, Rows
<1>2. p \in Reach(r, t) /\ rows'[p] # None
  BY <1>1, ReachStays DEF Reach, At
<1>3. PICK x \in Reach(r, t) : load.store = "mongo" /\ S = {x}
  BY <1>2, HitsAreReached
<1>4. x \in Places /\ Id(x) = t /\ x # p
  BY <1>2, <1>3 DEF Reach, At
<1>5. Id(x)' = t
  BY <1>4, IdStays
<1> QED
  BY <1>3, <1>4, <1>5

\* What statements of r are older than.
LEMMA OlderOfErased ==
  ASSUME IInv, NEW r \in Requests, Act(r), NEW t, t \in erased[r] \/ step[r] \notin {"write", "erase"}
  PROVE  \A p \in older'[r] : p \in older[r] \/ (Settled(p) /\ Id(p) # t)
<1>1. step[r] = "write" => erased[r] = {}
  BY DEF IInv, RequestOK, Shape, Bulk
<1> QED
  BY <1>1, OlderSteps

LEMMA OwnErased ==
  ASSUME IInv, NEW r \in Requests, Act(r), ~Arrive(r)
  PROVE  \/ erased'[r] = erased[r]
         \/ load.store = "sql" /\ SqlErase(r)
         \/ load.store = "mongo" /\ MongoErase(r)
<1>1. Statement(r) \/ DeleteStep(r)
  BY OnlyNewArrive
<1> QED
  BY <1>1 DEF Statement, DeleteStep, BeginDelete, Got, DeleteFails, GiveUp, Commit, bulk

LEMMA MongoErases ==
  ASSUME IInv, NEW r \in Requests, MongoErase(r)
  PROVE  \E u \in read[r] \ erased[r] :
           /\ erased'[r] = erased[r] \union {u}
           /\ \E S \in Hits(r, u) : S \subseteq wrote'[r] /\ \A p \in S : rows'[p] = None
<1>1. DOMAIN erased = Requests /\ DOMAIN wrote = Requests
  BY DEF IInv, Types, AdapterTypeOK
<1>2. PICK u \in read[r] \ erased[r] : /\ erased' = [erased EXCEPT ![r] = @ \union {u}]
                                       /\ \E S \in Hits(r, u) : Put(r, [p \in S |-> None])
  BY DEF MongoErase
<1>3. PICK S \in Hits(r, u) : Put(r, [p \in S |-> None])
  BY <1>2
<1>4. S \subseteq Places
  BY HitsAreReached
<1>5. wrote'[r] = wrote[r] \union S /\ \A p \in S : rows'[p] = None
  BY <1>1, <1>3, <1>4 DEF Put
<1> QED
  BY <1>1, <1>2, <1>5

\* An answer to a delete comes after its last statement.
LEMMA DeletesEnd ==
  ASSUME IInv, NEW r \in Requests, Act(r), ~Arrive(r), op[r] \in Deletes,
         step'[r] = "audit" \/ answer'[r] = 200, step[r] # "audit", answer[r] # 200
  PROVE  Delete(r) \/ Commit(r) \/ (load.store = "mongo" /\ MongoErase(r) /\ erased'[r] = batch[r])
<1>1. Shape(r) /\ Bulk(r) /\ step \in [Requests -> Steps] /\ answer \in [Requests -> Answers]
      /\ (Statement(r) \/ DeleteStep(r))
  BY OnlyNewArrive DEF IInv, RequestOK, Types, AdapterTypeOK, TypeOK, Steps, Answers
<1> USE DEF Goto, Send, Abort, Deletes, Logins, Edits
<1>2. Statement(r) => Delete(r)
  <2>1. ~Authenticate(r) /\ ~ActiveUserByEmail(r) /\ ~StartSession(r)
    BY <1>1 DEF Authenticate, ActiveUserByEmail, StartSession, Shape
  <2>2. ~Select(r)
    BY <1>1 DEF Select, Shape
  <2>3. ~Rejected(r) /\ ~Update(r) /\ ~Insert(r) /\ ~Reread(r)
    BY <1>1 DEF Update, Amend, Insert, Add, Rejected, Reread, Shape
  <2>4. ~Audit(r) /\ ~Refuse(r)
    BY <1>1 DEF Audit, Refuse, Record
  <2>5. ~Fail(r)
    BY <1>1 DEF Fail
  <2> QED
    BY <2>1, <2>2, <2>3, <2>4, <2>5 DEF Statement
<1>3. ~BeginDelete(r) /\ ~Got(r) /\ ~DeleteFails(r) /\ ~SqlErase(r)
  BY <1>1 DEF BeginDelete, Got, DeleteFails, SqlErase
<1>4. ~GiveUp(r)
  BY <1>1 DEF GiveUp, Waits
<1>5. MongoErase(r) => erased'[r] = batch[r]
  BY <1>1 DEF MongoErase
<1> QED
  BY <1>1, <1>2, <1>3, <1>4, <1>5 DEF DeleteStep

LEMMA OwnDeleted ==
  ASSUME IInv, load' = load, NEW r \in Requests, Act(r)
  PROVE  Deleted(r)'
<1>1. Types /\ Shape(r) /\ Bulk(r) /\ Deleted(r) /\ erased[r] \subseteq Records /\ read[r] \subseteq Records
  BY DEF IInv, RequestOK, Types, AdapterTypeOK
<1>2. CASE Arrive(r)
  <2>1. answer'[r] = 0 /\ erased'[r] = {}
    BY <1>2, ArrivalKeepsShape
  <2>2. op'[r] \in Deletes => step'[r] # "audit"
    <3>1. PICK o \in Ops, u \in Users, t \in Targets \union {None}, b \in SUBSET Records,
               i \in Inputs \union {None}, s \in {"select", "refuse", "begin", "audit", "insert"} :
            Arrival(o, u, t, b, i, s) /\ Received(r, o, u, t, b, i) /\ Goto(r, s)
      BY <1>2 DEF Arrive
    <3>2. DOMAIN op = Requests /\ DOMAIN step = Requests
      BY <1>1 DEF Types, AdapterTypeOK, TypeOK
    <3>3. op'[r] = o /\ step'[r] = s
      BY <3>1, <3>2 DEF Received, Goto
    <3>4. o \in Deletes => s # "audit"
      BY <3>1 DEF Arrival, Deletes, Logins
    <3> QED
      BY <3>3, <3>4
  <2> QED
    BY <2>1, <2>2 DEF Deleted
<1>3. CASE ~Arrive(r)
  <2>1. step[r] # "new" /\ op'[r] = op[r] /\ Aims(r)' = Aims(r)
    BY <1>3, OnlyNewArrive, RequestsStay
  \* what was erased before stays cleared
  <2>2. ASSUME NEW t \in erased[r] \union Records, t \in erased[r] \/ step[r] \notin {"write", "erase"}
        PROVE  /\ Cleared(r, t) => Cleared(r, t)'
               /\ (\A p \in Reach(r, t) : p \in older[r] => p \in hit[r]) =>
                    (\A p \in Reach(r, t)' : p \in older'[r] => p \in hit[r])
    BY <1>1, <2>1, <2>2, OlderOfErased, ClearedStays
  <2>3. ASSUME load.store = "mongo", NEW t \in erased'[r] PROVE Cleared(r, t)'
    <3>1. CASE t \in erased[r]
      BY <1>1, <2>2, <2>3, <3>1 DEF Deleted
    <3>2. CASE t \notin erased[r]
      <4>1. MongoErase(r)
        BY <1>3, <2>3, <3>2, OwnErased
      <4>2. \E S \in Hits(r, t) : S \subseteq wrote'[r] /\ \A p \in S : rows'[p] = None
        BY <2>3, <3>2, <4>1, MongoErases
      <4>3. t \in Records
        BY <1>1, <2>3, <3>2, <4>1, MongoErases
      <4> QED
        BY <2>1, <4>2, <4>3, ErasedIsCleared
    <3> QED
      BY <3>1, <3>2
  <2>4. ASSUME load.store = "sql", NEW t \in erased'[r], NEW p \in Reach(r, t)', p \in older'[r] PROVE p \in hit'[r]
    <3>1. CASE t \in erased[r]
      <4>1. p \in hit[r]
        BY <1>1, <2>2, <2>4, <3>1 DEF Deleted
      <4> QED
        BY <1>3, <4>1, OwnHits
    <3>2. CASE t \notin erased[r]
      <4>1. SqlErase(r)
        BY <1>3, <2>4, <3>2, OwnErased
      <4>2. PICK u \in read[r] \ erased[r] : erased' = [erased EXCEPT ![r] = @ \union {u}]
                                              /\ hit' = [hit EXCEPT ![r] = @ \union Reach(r, u)]
        BY <4>1 DEF SqlErase
      <4>3. t = u /\ Reach(r, t) \subseteq hit'[r]
        BY <1>1, <2>4, <3>2, <4>2 DEF Types, AdapterTypeOK
      <4>4. Settled(p)
        BY <2>4, OlderSteps DEF IInv, Rows
      <4>5. p \in Reach(r, t)
        BY <2>1, <2>4, <4>4, ReachStays
      <4> QED
        BY <4>3, <4>5
    <3> QED
      BY <3>1, <3>2
  <2>5. ASSUME op[r] \in Deletes, step'[r] = "audit" \/ answer'[r] = 200, NEW t \in Aims(r) \intersect Records
        PROVE  Cleared(r, t)'
    <3>1. CASE step[r] = "audit" \/ answer[r] = 200
      <4>1. step[r] \notin {"write", "erase"} /\ Cleared(r, t)
        BY <1>1, <2>5, <3>1 DEF Shape, Deleted
      <4> QED
        BY <2>2, <4>1
    <3>2. CASE Delete(r)
      <4>1. step[r] = "write" /\ op[r] = "delete" /\ Wipe(r)
        BY <3>2 DEF Delete, Wipe
      <4>2. t = target[r]
        BY <1>1, <2>5, <4>1 DEF Shape, Aims
      <4>3. PICK S \in Hits(r, t) : Put(r, [p \in Cascade(S) |-> None])
        BY <2>5, <4>1, <4>2 DEF Wipe
      <4>4. S \subseteq Places /\ DOMAIN wrote = Requests
        BY <1>1, HitsAreReached DEF Types
      <4>5. S \subseteq wrote'[r] /\ \A p \in S : rows'[p] = None
        BY <4>3, <4>4 DEF Put, Cascade
      <4> QED
        BY <2>1, <4>5, ErasedIsCleared
    <3>3. ASSUME step[r] \in {"erase", "commit"} PROVE t \in batch[r]
      BY <1>1, <2>5, <3>3 DEF Bulk, Shape, Aims, Deletes, Targets
    <3>4. CASE Commit(r)
      <4>1. /\ step[r] = "commit" /\ Put(r, [p \in hit[r] |-> None])
            /\ load.store = "sql" /\ erased[r] = batch[r] /\ erased'[r] = erased[r] /\ hit'[r] = hit[r]
        BY <1>1, <3>4 DEF Commit, Committed, Bulk, bulk
      <4>2. \A p \in Reach(r, t)' : p \in older'[r] => p \in hit[r]
        BY <2>4, <3>3, <4>1
      <4>3. hit[r] \subseteq Places
        BY <1>1 DEF Types, AdapterTypeOK
      <4>4. \A p \in hit[r] : rows'[p] = None
        BY <4>1, <4>3 DEF Put
      <4>5. \A p \in Reach(r, t)' : rows'[p] # None
        BY DEF Reach, At
      <4> QED
        BY <4>2, <4>4, <4>5 DEF Cleared
    <3>5. CASE load.store = "mongo" /\ MongoErase(r) /\ erased'[r] = batch[r]
      <4>1. step[r] = "erase"
        BY <3>5 DEF MongoErase
      <4> QED
        BY <2>3, <3>3, <3>5, <4>1
    <3> QED
      BY <1>3, <2>5, <3>1, <3>2, <3>4, <3>5, DeletesEnd
  <2> QED
    BY <2>1, <2>3, <2>4, <2>5 DEF Deleted
<1> QED
  BY <1>2, <1>3

\* The end of an update comes after its write.
LEMMA UpdatesEnd ==
  ASSUME IInv, NEW r \in Requests, Act(r), ~Arrive(r), op[r] = "update", target[r] \in Records,
         step'[r] \in {"reread", "audit"} \/ answer'[r] = 200
  PROVE  \/ Amend(r) /\ step'[r] = "reread"
         \/ step[r] = "reread" /\ step'[r] = "audit" /\ Results(r, target[r]) # {}
         \/ step[r] = "audit"
<1>1. /\ Shape(r) /\ Bulk(r) /\ step \in [Requests -> Steps] /\ answer \in [Requests -> Answers]
      /\ (Statement(r) \/ DeleteStep(r))
      /\ target[r] \notin Requests
  BY OnlyNewArrive DEF IInv, RequestOK, Types, AdapterTypeOK, TypeOK, Steps, Answers
<1> USE DEF Goto, Send, Abort, Deletes, Logins, Edits
<1>2. Statement(r) => \/ Amend(r) /\ step'[r] = "reread"
                      \/ step[r] = "reread" /\ step'[r] = "audit" /\ Results(r, target[r]) # {}
                      \/ step[r] = "audit"
  <2>1. ~Authenticate(r) /\ ~ActiveUserByEmail(r) /\ ~StartSession(r)
    BY <1>1 DEF Authenticate, ActiveUserByEmail, StartSession, Shape
  <2>2. ~Select(r)
    BY <1>1 DEF Select, Shape
  <2>3. ~Rejected(r) /\ ~Insert(r) /\ ~Delete(r) /\ ~Refuse(r)
    BY <1>1 DEF Insert, Add, Rejected, Delete, Wipe, Shape, Refuse, Record
  <2>4. Update(r) => Amend(r) /\ step'[r] = "reread"
    BY <1>1, <2>3 DEF Update
  <2>5. Reread(r) => step[r] = "reread" /\ step'[r] = "audit" /\ Results(r, target[r]) # {}
    BY <1>1 DEF Reread, Shape
  <2>6. ~Fail(r)
    BY <1>1 DEF Fail, Amend, Wipe, Add, Shape
  <2> QED
    BY <2>1, <2>2, <2>3, <2>4, <2>5, <2>6 DEF Statement, Audit
<1>3. ~BeginDelete(r) /\ ~Got(r) /\ ~DeleteFails(r) /\ ~SqlErase(r) /\ ~MongoErase(r) /\ ~Commit(r)
  BY <1>1 DEF BeginDelete, Got, DeleteFails, SqlErase, MongoErase, Commit, Bulk
<1>4. GiveUp(r) => step[r] = "audit"
  BY <1>1 DEF GiveUp, Waits, Shape
<1> QED
  BY <1>1, <1>2, <1>3, <1>4 DEF DeleteStep

\* A step of r that changes no row keeps what holds of its own fields.
LEMMA OwnHolds ==
  ASSUME IInv, NEW r \in Requests, Act(r), step[r] # "new", NEW p \in Places, rows'[p] = rows[p],
         NEW f, Holds(r, p, f)
  PROVE  Holds(r, p, f)'
<1>1. input'[r] = input[r]
  BY RequestsStay
<1>2. ASSUME NEW x \in Requests \ {r}, p \in wrote[x] /\ op[x] \in Edits /\ f \in DOMAIN input[x]
      PROVE  p \in wrote'[x] /\ op'[x] \in Edits /\ f \in DOMAIN input'[x]
  BY <1>2, OthersStay DEF Apart, IInv
<1> QED
  BY <1>1, <1>2 DEF Holds

LEMMA OwnEdited ==
  ASSUME IInv, load' = load, NEW r \in Requests, Act(r)
  PROVE  Edited(r)'
<1>1. Types /\ Shape(r) /\ Bulk(r) /\ Held(r) /\ Edited(r) /\ Trail(r)
  BY DEF IInv, RequestOK
<1>2. CASE Arrive(r)
  <2>1. answer'[r] = 0
    BY <1>2, ArrivalKeepsShape
  <2>2. op'[r] = "update" => step'[r] \notin {"reread", "audit"}
    <3>1. PICK o \in Ops, u \in Users, t \in Targets \union {None}, b \in SUBSET Records,
               i \in Inputs \union {None}, s \in {"select", "refuse", "begin", "audit", "insert"} :
            Arrival(o, u, t, b, i, s) /\ Received(r, o, u, t, b, i) /\ Goto(r, s)
      BY <1>2 DEF Arrive
    <3>2. DOMAIN op = Requests /\ DOMAIN step = Requests
      BY <1>1 DEF Types, AdapterTypeOK, TypeOK
    <3>3. op'[r] = o /\ step'[r] = s
      BY <3>1, <3>2 DEF Received, Goto
    <3>4. o = "update" => s \in {"select", "refuse"}
      BY <3>1 DEF Arrival, Logins
    <3> QED
      BY <3>3, <3>4
  <2> QED
    BY <2>1, <2>2 DEF Edited
<1>3. CASE ~Arrive(r)
  <2>1. step[r] # "new" /\ op'[r] = op[r] /\ target'[r] = target[r] /\ input'[r] = input[r]
    BY <1>3, OnlyNewArrive, RequestsStay
  <2>2. SUFFICES ASSUME op[r] = "update", target[r] \in Records,
                        step'[r] \in {"reread", "audit"} \/ answer'[r] = 200
                 PROVE  Edited(r)'
    BY <2>1 DEF Edited
  <2>3. PICK t \in Records : t = target[r]
    BY <2>2
  <2>4. /\ \A p \in older'[r] : Settled(p)
        /\ \A p \in Reach(r, t)' : Settled(p) => p \in Reach(r, t)
    <3>1. \A p \in older'[r] : Settled(p)
      BY OlderSteps DEF IInv, Rows
    <3>2. ASSUME NEW p \in Reach(r, t)', Settled(p) PROVE p \in Reach(r, t)
      BY <2>1, <3>2, ReachStays
    <3> QED
      BY <3>1, <3>2
  <2>5. SUFFICES /\ wrote'[r] = {} => \A p \in Reach(r, t)' : p \notin older'[r]
                 /\ wrote'[r] = {} /\ step'[r] # "reread" =>
                      \E x \in Requests \ older'[r] : op'[x] = "create" /\ Settled(x)' /\ Id(x)' = t
                 /\ \A p \in wrote'[r], f \in DOMAIN input[r] : Holds(r, p, f)'
    <3>1. wrote'[r] = {} => \A p \in Reach(r, target[r])' : p \notin older'[r]
      BY <2>1, <2>3, <2>5 DEF Reach, At, Reaches
    <3> QED
      BY <2>1, <2>3, <2>5, <3>1 DEF Edited
  <2>6. CASE Amend(r) /\ step'[r] = "reread"
    <3>1. PICK S \in Hits(r, t) : Put(r, [p \in S |-> Updated(r, p)])
      BY <2>3, <2>6 DEF Amend
    <3>2. step[r] = "write" /\ input[r] \in Changes /\ t \in Aims(r)
      BY <1>1, <2>2, <2>3, <2>6 DEF Amend, Shape, Aims
    <3>3. wrote[r] = {}
      BY <1>1, <3>2 DEF Trail
    <3>4. S \subseteq Places /\ S \subseteq Reach(r, t) /\ (S = {} => Reach(r, t) = {}) /\ \A p \in S : rows[p] \in Row
      BY <3>2, HitsAreReached, ReachIsMine
    <3>5. wrote'[r] = S /\ \A p \in S : rows'[p] = Updated(r, p)
      BY <1>1, <3>1, <3>3, <3>4 DEF Put, Types
    <3>6. wrote'[r] = {} => \A p \in Reach(r, t)' : p \notin older'[r]
      BY <2>4, <3>4, <3>5
    <3>7. ASSUME NEW p \in S, NEW f \in DOMAIN input[r] PROVE Holds(r, p, f)'
      <4>1. Updated(r, p)[f] = input[r][f]
        BY <3>2, <3>4, UpdatedRow
      <4> QED
        BY <2>1, <3>5, <4>1 DEF Holds
    <3> QED
      BY <2>6, <3>5, <3>6, <3>7
  <2>7. CASE step[r] \in {"reread", "audit"}
    <3>1. rows' = rows /\ wrote' = wrote
      BY <1>1, <1>3, <2>2, <2>7, StepsHaveEffects
      DEF Effect, Amends, Cascades, Wipes, Inserts, Commits, Forgets, Logs
    <3>2. older'[r] = older[r]
      <4>1. older[r] \subseteq older'[r]
        BY OlderSteps
      <4>2. \A p \in older'[r] : p \in older[r]
        BY <2>7, OlderSteps
      <4> QED
        BY <4>1, <4>2
    <3>3. wrote[r] = {} => \A p \in Reach(r, t) : p \notin older[r]
      BY <1>1, <2>2, <2>3, <2>7 DEF Edited
    <3>4. wrote'[r] = {} => \A p \in Reach(r, t)' : p \notin older'[r]
      BY <2>4, <3>1, <3>2, <3>3
    <3>5. ASSUME wrote[r] = {}, step'[r] # "reread"
          PROVE  \E x \in Requests \ older[r] : op[x] = "create" /\ Settled(x) /\ Id(x) = t
      <4>1. CASE step[r] = "audit"
        BY <1>1, <2>2, <2>3, <3>5, <4>1 DEF Edited
      <4>2. CASE step[r] = "reread" /\ Results(r, target[r]) # {}
        <5>1. PICK p \in Reach(r, t) : TRUE
          BY <2>2, <2>3, <4>2 DEF Results
        <5>2. p \in Places /\ Id(p) = t /\ Settled(p) /\ p \notin older[r]
          BY <3>3, <3>5, <5>1 DEF Reach, At, IInv, Rows
        <5>3. p \notin Seeded
          BY <5>2 DEF IInv, Rows
        <5> QED
          BY <5>2, <5>3 DEF Settled, Places
      <4> QED
        BY <1>3, <2>2, <2>7, <3>5, <4>1, <4>2, UpdatesEnd DEF Amend
    <3>6. ASSUME wrote[r] = {}, step'[r] # "reread"
          PROVE  \E x \in Requests \ older'[r] : op'[x] = "create" /\ Settled(x)' /\ Id(x)' = t
      <4>1. PICK x \in Requests \ older[r] : op[x] = "create" /\ Settled(x) /\ Id(x) = t
        BY <3>5, <3>6
      <4>2. x \in Places /\ step[x] # "new"
        BY <4>1 DEF Places, IInv, RequestOK, Shape, Ops
      <4> QED
        BY <3>2, <4>1, <4>2, PlaceStays, RequestsStay
    <3>7. ASSUME NEW p \in wrote[r], NEW f \in DOMAIN input[r] PROVE Holds(r, p, f)'
      <4>1. p \in Places /\ Holds(r, p, f)
        BY <1>1, <2>2, <2>7 DEF Held, Edits, Edited
      <4> QED
        BY <2>1, <3>1, <4>1, OwnHolds
    <3> QED
      BY <3>1, <3>4, <3>6, <3>7
  <2> QED
    BY <1>3, <2>2, <2>6, <2>7, UpdatesEnd
<1> QED
  BY <1>2, <1>3

\* What a second query that finds nothing tells: the rows are gone.
LEMMA NothingFound ==
  ASSUME IInv, NEW r \in Requests, step[r] = "reread",
         IF op[r] = "create" THEN At(target[r]) = {} ELSE Results(r, target[r]) = {}
  PROVE  (op[r] = "create" /\ input[r] = Number) \/ \A p \in wrote[r] : Gone(p)
<1>1. Shape(r) /\ Held(r)
  BY DEF IInv, RequestOK
<1>2. CASE op[r] = "create"
  <2>1. wrote[r] \subseteq {r} /\ r \in Places /\ Settled(r) /\ r \notin Seeded
    BY <1>1, <1>2 DEF Held, Places, Settled
  <2>2. input[r] # Number => Id(r) = target[r]
    BY <2>1 DEF Id
  <2>3. input[r] # Number => rows[r] = None
    BY <1>2, <2>1, <2>2 DEF At
  <2> QED
    BY <1>2, <2>1, <2>3 DEF Gone
<1>3. CASE op[r] # "create"
  <2>1. op[r] \in Edits /\ target[r] \in Records /\ batch[r] = {}
    BY <1>1, <1>3 DEF Shape, Edits, Deletes
  <2>2. Reach(r, target[r]) = {}
    BY <1>3, <2>1 DEF Results
  <2>3. ASSUME NEW p \in wrote[r] PROVE Gone(p)
    <3>1. p \in Places /\ Mine(r, p)
      BY <1>1, <2>1 DEF Held
    <3>2. Id(p) = target[r] /\ Settled(p)
      BY <2>1, <3>1 DEF Mine, Aims
    <3>3. rows[p] = None
      BY <2>2, <3>1, <3>2 DEF Mine, Reach, At, Reaches
    <3> QED
      BY <3>1, <3>2, <3>3 DEF Gone
  <2> QED
    BY <2>3
<1> QED
  BY <1>2, <1>3

LEMMA OwnTrail ==
  ASSUME IInv, load' = load, NEW r \in Requests, Act(r)
  PROVE  Trail(r)'
<1>1. /\ Shape(r) /\ Bulk(r) /\ Trail(r) /\ step \in [Requests -> Steps] /\ answer \in [Requests -> Answers]
      /\ DOMAIN erased = Requests
  BY DEF IInv, RequestOK, Types, AdapterTypeOK, TypeOK, Steps, Answers
<1>2. CASE Arrive(r)
  <2>1. wrote'[r] = {}
    BY <1>2, ArrivalKeepsShape
  <2> QED
    BY <2>1 DEF Trail
<1>3. CASE ~Arrive(r)
  <2>1. /\ step[r] # "new" /\ (Statement(r) \/ DeleteStep(r)) /\ op'[r] = op[r] /\ input'[r] = input[r]
        /\ batch'[r] = batch[r] /\ target'[r] = target[r]
    BY <1>3, OnlyNewArrive, RequestsStay
  <2>2. \A p : Gone(p) => Gone(p)'
    BY GoneStays
  <2> USE DEF Trail, Goto, Send, Abort, Fails
  <2>3. CASE Authenticate(r) \/ ActiveUserByEmail(r) \/ StartSession(r) \/ Select(r) \/ Rejected(r) \/ BeginDelete(r)
    BY <1>1, <2>3 DEF Authenticate, ActiveUserByEmail, StartSession, Select, Rejected, BeginDelete, ghosts
  <2>4. CASE Update(r) \/ Delete(r) \/ Insert(r) \/ Commit(r)
    BY <1>1, <2>3, <2>4 DEF Update, Delete, Insert, Commit
  <2>5. CASE Reread(r)
    <3>1. wrote' = wrote /\ step[r] = "reread"
      BY <2>5 DEF Reread, ghosts
    <3>2. CASE Goto(r, "audit")
      BY <1>1, <3>2
    <3>3. CASE ~Goto(r, "audit")
      <4>1. /\ IF op[r] = "create" THEN At(target[r]) = {} ELSE Results(r, target[r]) = {}
            /\ Abort(r, IF op[r] = "create" THEN 500 ELSE 404)
        BY <2>5, <3>3 DEF Reread
      <4>2. /\ step'[r] = "done" /\ answer'[r] = (IF op[r] = "create" THEN 500 ELSE 404)
            /\ op[r] # "bulk_delete"
        BY <1>1, <3>1, <3>3, <4>1 DEF Shape, Edits
      <4>3. (op[r] = "create" /\ input[r] = Number) \/ \A p \in wrote[r] : Gone(p)'
        BY <2>2, <3>1, <4>1, NothingFound
      <4> QED
        BY <2>1, <3>1, <4>2, <4>3
    <3> QED
      BY <3>2, <3>3
  <2>6. CASE Audit(r) \/ Refuse(r)
    BY <1>1, <2>6 DEF Audit, Refuse, Record
  <2>7. CASE Fail(r)
    BY <1>1, <2>7 DEF Fail
  <2>8. CASE DeleteFails(r) \/ GiveUp(r)
    BY <1>1, <2>8 DEF DeleteFails, GiveUp
  <2>9. CASE Got(r)
    <3>1. wrote' = wrote /\ erased' = erased /\ step[r] = "get"
      BY <2>9 DEF Got, ghosts
    <3>2. CASE Goto(r, "erase")
      BY <1>1, <3>1, <3>2
    <3>3. CASE Send(r, 404)
      <4>1. wrote[r] # {} => load.store = "mongo" /\ erased[r] # {}
        BY <1>1, <3>1
      <4>2. ASSUME wrote[r] # {} PROVE op[r] = "bulk_delete"
        <5>1. op[r] \in {"delete", "bulk_delete"} /\ (op[r] = "delete" => batch[r] = {target[r]})
          BY <1>1, <3>1 DEF Bulk, Deletes
        <5>2. erased[r] \subseteq batch[r] /\ erased[r] # batch[r] /\ erased[r] # {}
          BY <1>1, <3>1, <4>1, <4>2 DEF Bulk
        <5>3. ASSUME op[r] = "delete" PROVE FALSE
          <6>1. batch[r] = {target[r]}
            BY <5>1, <5>3
          <6>2. erased[r] = {target[r]}
            BY <5>2, <6>1
          <6> QED
            BY <5>2, <6>1, <6>2
        <5> QED
          BY <5>1, <5>3
      <4> QED
        BY <1>1, <2>1, <3>1, <3>3, <4>1, <4>2
    <3> QED
      BY <2>9, <3>2, <3>3 DEF Got
  <2>10. CASE load.store = "sql" /\ SqlErase(r)
    BY <1>1, <2>10 DEF SqlErase
  <2>11. CASE load.store = "mongo" /\ MongoErase(r)
    <3>1. erased'[r] # {}
      BY <1>1, <2>11 DEF MongoErase
    <3> QED
      BY <1>1, <2>11, <3>1 DEF MongoErase
  <2> QED
    BY <2>1, <2>3, <2>4, <2>5, <2>6, <2>7, <2>8, <2>9, <2>10, <2>11 DEF Statement, DeleteStep
<1> QED
  BY <1>2, <1>3

-----------------------------------------------------------------------------
LEMMA StutterHolds ==
  ASSUME IInv, UNCHANGED adapterVars
  PROVE  IInv'
<1>1. UNCHANGED <<load, rows, log, sessions, op, actor, target, batch, input, old, new, step, answer,
                  seen, wrote, older, audited, failed, read, erased, hit>>
  BY DEF adapterVars, vars, request, ghosts, bulk
<1>2. Types'
  BY <1>1 DEF IInv, Types, AdapterTypeOK, TypeOK
<1>3. Rows'
  BY <1>1 DEF IInv, Rows, Settled
<1>4. ASSUME NEW r \in Requests PROVE RequestOK(r)'
  <2>1. RequestOK(r)
    BY DEF IInv
  <2>2. Shape(r)' /\ Bulk(r)'
    BY <1>1, <2>1 DEF RequestOK, Shape, Bulk
  <2>3. Held(r)'
    BY <1>1, <2>1 DEF RequestOK, Held, Mine, Settled, Id, Aims
  <2>4. Watching(r)' /\ WasActive(r)'
    BY <1>1, <2>1 DEF RequestOK, Watching, Watches, WasActive, Id, Aims
  <2>5. Deleted(r)'
    BY <1>1, <2>1 DEF RequestOK, Deleted, Cleared, Reach, At, Reaches, Id, Aims
  <2>6. Edited(r)'
    BY <1>1, <2>1 DEF RequestOK, Edited, Holds, Reach, At, Reaches, Settled, Id
  <2>7. Trail(r)'
    BY <1>1, <2>1 DEF RequestOK, Trail, Gone, Settled
  <2> QED
    BY <2>2, <2>3, <2>4, <2>5, <2>6, <2>7 DEF RequestOK
<1> QED
  BY <1>2, <1>3, <1>4 DEF IInv

LEMMA StepHolds == IInv /\ [AdapterNext]_adapterVars => IInv'
<1>1. ASSUME IInv, AdapterNext PROVE IInv'
  <2>1. PICK r \in Requests : Act(r)
    BY <1>1, StepsAreActs DEF IInv
  <2>2. load' = load
    BY <1>1, StepsAreActs DEF IInv
  <2>3. Types' /\ Rows'
    BY <1>1, <2>1, <2>2, TypesStep, RowsStep
  <2>4. Shape(r)' /\ Bulk(r)'
    BY <1>1, <2>1, <2>2, ArrivalKeepsShape, StatementKeepsShape, DeleteStepKeepsShape DEF Act
  <2>5. RequestOK(r)'
    BY <1>1, <2>1, <2>2, <2>4, OwnHeld, OwnWatching, OwnWasActive, OwnDeleted, OwnEdited, OwnTrail DEF RequestOK
  <2>6. ASSUME NEW q \in Requests \ {r} PROVE RequestOK(q)'
    BY <1>1, <2>1, <2>2, <2>6, OthersKeepShape, OthersKeepRecords, OthersKeepEdits DEF RequestOK
  <2> QED
    BY <2>3, <2>5, <2>6 DEF IInv
<1> QED
  BY <1>1, StutterHolds

\* The inductive invariant holds in all reachable states.
THEOREM BackendInvariance == AdapterSpec => []IInv
<1>1. AdapterInit => IInv
  BY InitHolds
<1>2. IInv /\ [AdapterNext]_adapterVars => IInv'
  BY StepHolds
<1> QED
  BY <1>1, <1>2, PTL DEF AdapterSpec

\* The variables keep their types in every behaviour of the template and of the
\* two adapters.
THEOREM BackendTypes == AdapterSpec => []AdapterTypeOK
<1>1. IInv => AdapterTypeOK
  BY DEF IInv, Types
<1> QED
  BY <1>1, BackendInvariance, PTL

\* A login succeeds only for a user who was active at some moment of it
\* (Authenticate, ActiveUserByEmail).
THEOREM LoginsOfActiveUsers == AdapterSpec => []LoginWasActive
<1>1. IInv => LoginWasActive
  BY DEF IInv, RequestOK, WasActive, Logins, LoginWasActive
<1> QED
  BY <1>1, BackendInvariance, PTL

\* What an event shows as old and new was in the table while its request ran
\* (the Gets of Update and Delete, and auditEvent).
THEOREM EventsAreTrue == AdapterSpec => []EventsWereReal
<1>1. IInv => EventsWereReal
  BY DEF IInv, RequestOK, Watching, EventsWereReal
<1> QED
  BY <1>1, BackendInvariance, PTL

\* Confirmed updates of different fields of one row do not undo each other
\* (Update assigns the fields of its body only); one that has hit no row was
\* answered from a row that has been inserted after it.
THEOREM UpdatesKeepApart == AdapterSpec => []UpdatesAreIndependent
<1>1. ASSUME IInv, NEW r \in Requests, op[r] = "update", answer[r] = 200, target[r] \in Records
      PROVE  /\ wrote[r] = {} =>
                  \E q \in Requests \ older[r] : op[q] = "create" /\ Settled(q) /\ Id(q) = target[r]
             /\ \A p \in wrote[r], f \in DOMAIN input[r] : Holds(r, p, f)
  <2>1. Shape(r) /\ Edited(r)
    BY <1>1 DEF IInv, RequestOK
  <2>2. step[r] # "reread"
    BY <1>1, <2>1 DEF Shape
  <2> QED
    BY <1>1, <2>1, <2>2 DEF Edited
<1>2. IInv => UpdatesAreIndependent
  BY <1>1 DEF UpdatesAreIndependent, Holds, Edits
<1> QED
  BY <1>2, BackendInvariance, PTL

\* What a confirmed delete was asked to take is gone for good, whatever updates
\* are under way: a row that the delete reaches later was inserted after its
\* statement, or in MongoDB shares its id with one that was taken (Delete,
\* BulkDelete, deleteMany, and Create with the id of a client).
THEOREM DeletesAreFinal == AdapterSpec => []DeletedStaysDeleted
<1>1. ASSUME IInv, NEW r \in Requests, op[r] \in Deletes, answer[r] = 200, NEW t \in Aims(r) \intersect Records,
             NEW p \in Reach(r, t)
      PROVE  \/ p \notin older[r]
             \/ load.store = "mongo" /\ \E q \in wrote[r] \ {p} : Id(q) = t
  <2>1. Cleared(r, t)
    BY <1>1 DEF IInv, RequestOK, Deleted
  <2> QED
    BY <2>1 DEF Cleared
<1>2. IInv => DeletedStaysDeleted
  BY <1>1 DEF DeletedStaysDeleted, Deletes
<1> QED
  BY <1>2, BackendInvariance, PTL

\* A request that has changed a row leaves an event, but for the named
\* exceptions (auditEvent, the early returns before it, and the second Get of
\* mongostore's Create, which looks for a string).
THEOREM ChangesLeaveEvents == AdapterSpec => []ChangesAreAudited
<1>1. ASSUME IInv, NEW r \in Requests \ failed, wrote[r] # {}, step[r] = "done"
      PROVE  \/ r \in audited
             \/ op[r] # "bulk_delete" /\ answer[r] \in {404, 500} /\ \A p \in wrote[r] : rows[p] = None
             \/ op[r] = "bulk_delete" /\ answer[r] = 404 /\ load.store = "mongo"
             \/ op[r] = "create" /\ answer[r] = 500 /\ input[r] = Number
  <2>1. Trail(r)
    BY <1>1 DEF IInv, RequestOK
  <2> QED
    BY <1>1, <2>1 DEF Trail, Gone
<1>2. IInv => ChangesAreAudited
  BY <1>1 DEF ChangesAreAudited
<1> QED
  BY <1>2, BackendInvariance, PTL

\* A row is changed by requests of its tenant or of a super_admin that aim at
\* it, and keeps its tenant; only the cascade of a delete of the template takes
\* other rows, of whatever tenant, and those refer to the deleted one (the
\* where clauses of Update and Delete, and schema.go).
THEOREM TenantsStayApart == AdapterSpec => TenantsAreApart
<1> DEFINE Kept(p) == rows'[p] # rows[p] =>
       \E r \in Requests :
         /\ p \in wrote'[r] /\ step'[r] # step[r]
         /\ \/ rows[p] = None /\ p = r /\ rows'[p].tenant = TenantOf[actor[r]]
            \/ rows[p] # None /\ rows'[p] # None /\ Owns(r, p) /\ rows'[p].tenant = rows[p].tenant
            \/ rows[p] # None /\ rows'[p] = None /\ Owns(r, p)
            \/ /\ rows[p] # None /\ rows'[p] = None /\ op[r] = "delete" /\ load.store = "template"
               /\ \E c \in Over(p) : Owns(r, c) \/ \E d \in Over(c) : Owns(r, d)
<1>1. ASSUME IInv, [AdapterNext]_adapterVars PROVE [\A p \in Places : Kept(p)]_vars
  <2>1. CASE UNCHANGED adapterVars
    BY <2>1 DEF adapterVars
  <2>2. CASE AdapterNext
    <3>1. PICK r \in Requests : Act(r)
      BY <1>1, <2>2, StepsAreActs DEF IInv
    <3>2. \A c : rows[c] # None /\ Mine(r, c) => Owns(r, c)
      BY DEF Mine, Owns
    <3>3. ASSUME NEW p \in Places, rows'[p] # rows[p] PROVE Kept(p)
      <4>1. RowStep(r, p) /\ step'[r] # step[r]
        BY <1>1, <3>1, RowSteps, OthersStay DEF IInv, Apart
      <4>2. None \notin Row
        BY NoneAssumption
      <4> QED
        BY <3>2, <3>3, <4>1, <4>2 DEF RowStep
    <3> QED
      BY <3>3
  <2> QED
    BY <1>1, <2>1, <2>2
<1>2. AdapterSpec => [][\A p \in Places : Kept(p)]_vars
  BY <1>1, BackendInvariance, PTL DEF AdapterSpec
<1> QED
  BY <1>2 DEF TenantsAreApart
=============================================================================
