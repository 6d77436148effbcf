---------------------------- MODULE APIKeysProofs ----------------------------
(***************************************************************************)
(* For any number of requests, keys, prefixes, actors and tenants, and any *)
(* life time of a key: what has ended admits nobody, last_used_at tells of *)
(* an authentication, and a key stays what it was created as.              *)
(***************************************************************************)
EXTENDS APIKeys, TLAPS

Types ==
  /\ TypeOK
  /\ began \in [Requests -> Nat] /\ past \in [Requests -> SUBSET Keys] /\ revoked \subseteq Keys
  /\ judged \in [Requests -> Nat \union {None}]

Revoked(k) == rows[k] # None /\ rows[k].revokedAt # None

\* What Authenticate holds in its hands: a row that was read after the request
\* began.  It may be behind the table, in its revocation and last use only.
Authenticating(r) ==
  /\ who[r] = None /\ target[r] \in Keys /\ rows[target[r]] # None
  /\ loaded[r] \in Row /\ loaded[r].expires = rows[target[r]].expires
  /\ target[r] \in past[r] => loaded[r].revokedAt # None

\* It has been judged valid, by the clock reading judged[r].
Judged(r) ==
  /\ target[r] \notin past[r]
  /\ judged[r] \in Nat /\ began[r] <= judged[r]
  /\ rows[target[r]].expires # None => judged[r] <= rows[target[r]].expires

RequestOK(r) ==
  /\ began[r] <= clock /\ now[r] <= clock
  /\ past[r] \subseteq revoked
  /\ step[r] # "done" => answer[r] = 0
  /\ step[r] = "new" => who[r] = None /\ target[r] = None
  /\ step[r] \in {"check", "compare", "touch"} => Authenticating(r)
  /\ step[r] = "compare" => Judged(r) /\ judged[r] <= clock
  /\ step[r] = "touch" => Judged(r) /\ judged[r] <= now[r]
  /\ step[r] \in {"insert", "revoke", "audit_create", "audit_revoke", "confirm"} =>
       who[r] \in Who /\ target[r] \in Keys
  /\ step[r] = "insert" => rows[target[r]] = None
  /\ step[r] \in {"audit_revoke", "confirm"} => Revoked(target[r])
  /\ Admitted(r) => /\ target[r] \in Keys /\ rows[target[r]] # None
                    /\ target[r] \notin past[r]
                    /\ rows[target[r]].expires # None => began[r] <= rows[target[r]].expires

\* An id is drawn once: two inserts are never about the same key.
IdsAreFresh ==
  \A q, r \in Requests : step[q] = "insert" /\ step[r] = "insert" /\ target[q] = target[r] => q = r

IInv ==
  /\ Types
  /\ \A r \in Requests : RequestOK(r)
  /\ IdsAreFresh
  /\ \A k \in revoked : Revoked(k)
  /\ LastUsedIsTrue

RequestStep(r) ==
  \/ LoadByPrefix(r) \/ Check(r) \/ Compare(r) \/ Touch(r)
  \/ BeginCreate(r) \/ Insert(r)
  \/ BeginRevoke(r) \/ Revoke(r) \/ Audit(r) \/ Confirm(r) \/ Fail(r)

USE ConstantsAssumption, NullAssumption

-----------------------------------------------------------------------------
\* Before the first request there are keys, but nothing has been done to them.
LEMMA InitHolds == Init => IInv
<1> SUFFICES ASSUME Init PROVE IInv
  OBVIOUS
<1>1. rows \in [Keys -> Row \union {None}]
  BY DEF Init, Earlier
<1>2. Types
  BY <1>1 DEF Init, Types, TypeOK, Times
<1>3. \A r \in Requests : RequestOK(r)
  <2> SUFFICES ASSUME NEW r \in Requests PROVE RequestOK(r)
    OBVIOUS
  <2>1. /\ clock = 0 /\ began[r] = 0 /\ now[r] = 0 /\ past[r] = {} /\ step[r] = "new"
        /\ who[r] = None /\ target[r] = None /\ answer[r] = 0
    BY DEF Init
  <2> QED
    BY <2>1 DEF RequestOK, Admitted
<1>4. LastUsedIsTrue
  BY DEF Init, Earlier, LastUsedIsTrue
<1> QED
  BY <1>2, <1>3, <1>4 DEF Init, IInv, IdsAreFresh

-----------------------------------------------------------------------------
\* What a step leaves alone.

\* A request changes nothing of the others.
LEMMA RequestFrame ==
  ASSUME Types, NEW r \in Requests, RequestStep(r)
  PROVE  /\ UNCHANGED clock /\ revoked \subseteq revoked'
         /\ \A q \in Requests \ {r} :
              /\ step'[q] = step[q] /\ who'[q] = who[q] /\ target'[q] = target[q]
              /\ loaded'[q] = loaded[q] /\ now'[q] = now[q] /\ answer'[q] = answer[q]
              /\ began'[q] = began[q] /\ judged'[q] = judged[q] /\ past'[q] = past[q]
<1> USE DEF Types, TypeOK, Goto, Send, Start
<1>1. CASE LoadByPrefix(r)
  BY <1>1 DEF LoadByPrefix
<1>2. CASE Check(r)
  BY <1>2 DEF Check
<1>3. CASE Touch(r)
  BY <1>3 DEF Touch
<1>4. CASE BeginCreate(r)
  BY <1>4 DEF BeginCreate
<1>5. CASE Insert(r)
  BY <1>5 DEF Insert
<1>6. CASE BeginRevoke(r)
  BY <1>6 DEF BeginRevoke
<1>7. CASE Revoke(r)
  BY <1>7 DEF Revoke
<1>8. CASE Audit(r)
  BY <1>8 DEF Audit
<1>9. CASE Confirm(r)
  BY <1>9 DEF Confirm
<1>10. CASE Fail(r)
  BY <1>10 DEF Fail
<1>11. CASE Compare(r)
  BY <1>11 DEF Compare
<1> QED
  BY <1>1, <1>2, <1>3, <1>4, <1>5, <1>6, <1>7, <1>8, <1>9, <1>10, <1>11 DEF RequestStep

\* The statements that write to the table.
Used(r) == step[r] = "touch" /\ rows' = [rows EXCEPT ![target[r]].lastUsed = now[r]]
Inserted(r) == step[r] = "insert" /\ \E prefix \in Prefixes : StoreKey(r, prefix)
Ended(r) ==
  /\ step[r] = "revoke" /\ rows[target[r]] # None
  /\ rows' = [rows EXCEPT ![target[r]].revokedAt = clock]

\* There are three of them, whether they are acknowledged or not.
LEMMA WritesOfTable ==
  ASSUME NEW r \in Requests, RequestStep(r)
  PROVE  rows' = rows \/ Used(r) \/ Inserted(r) \/ Ended(r)
  BY DEF RequestStep, LoadByPrefix, Check, Compare, Touch, BeginCreate, Insert, BeginRevoke, Revoke, Audit,
         Confirm, Fail, Used, Inserted, Ended

\* A key stays what it was created as, and a revoked one stays revoked.
Kept(k) ==
  /\ rows'[k] \in Row
  /\ rows'[k].prefix = rows[k].prefix
  /\ rows'[k].actor = rows[k].actor /\ rows'[k].tenant = rows[k].tenant
  /\ rows'[k].expires = rows[k].expires
  /\ rows[k].revokedAt # None => rows'[k].revokedAt # None

LEMMA WritesKeep ==
  ASSUME IInv, NEW r \in Requests, RequestStep(r), NEW k \in Keys, rows[k] # None
  PROVE  Kept(k)
<1>1. Types /\ RequestOK(r) /\ rows[k] \in Row
  BY DEF IInv, Types, TypeOK
<1>2. CASE rows' = rows
  BY <1>1, <1>2 DEF Kept
<1>3. CASE Used(r)
  <2>1. now[r] \in Times
    BY <1>1 DEF Types, TypeOK
  <2>2. CASE k = target[r]
    <3>1. rows'[k] = [rows[k] EXCEPT !.lastUsed = now[r]]
      BY <1>1, <1>3, <2>2 DEF Used, Types, TypeOK
    <3> QED
      BY <1>1, <2>1, <3>1 DEF Kept, Row
  <2>3. CASE k # target[r]
    BY <1>1, <1>3, <2>3 DEF Used, Types, TypeOK, Kept
  <2> QED
    BY <2>2, <2>3
<1>4. CASE Inserted(r)
  <2>1. target[r] # k
    BY <1>1, <1>4 DEF Inserted, RequestOK
  <2> QED
    BY <1>1, <1>4, <2>1 DEF Inserted, StoreKey, Types, TypeOK, Kept
<1>5. CASE Ended(r)
  <2>1. clock \in Times /\ clock # None
    BY <1>1 DEF Types, TypeOK, Times
  <2>2. CASE k = target[r]
    <3>1. rows'[k] = [rows[k] EXCEPT !.revokedAt = clock]
      BY <1>1, <1>5, <2>2 DEF Ended, Types, TypeOK
    <3> QED
      BY <1>1, <2>1, <3>1 DEF Kept, Row
  <2>3. CASE k # target[r]
    BY <1>1, <1>5, <2>3 DEF Ended, Types, TypeOK, Kept
  <2> QED
    BY <2>2, <2>3
<1> QED
  BY <1>2, <1>3, <1>4, <1>5, WritesOfTable

LEMMA KeysAreKept ==
  ASSUME IInv, [Next]_vars, NEW k \in Keys, rows[k] # None
  PROVE  Kept(k)
<1>1. CASE \E r \in Requests : RequestStep(r)
  BY <1>1, WritesKeep
<1>2. CASE rows' = rows
  BY <1>2 DEF IInv, Types, TypeOK, Kept
<1> QED
  BY <1>1, <1>2 DEF Next, RequestStep, Tick, vars

-----------------------------------------------------------------------------
\* A new row is a row.
LEMMA NewRowType ==
  ASSUME IInv, NEW r \in Requests, step[r] = "insert", NEW prefix \in Prefixes,
         NEW expires \in {None, now[r] + TTL}
  PROVE  NewRow(r, prefix, expires) \in Row
<1>1. RequestOK(r) /\ clock \in Nat /\ clock <= MaxClock /\ now[r] \in Nat
  BY DEF IInv, Types, TypeOK, Times
<1>2. now[r] <= clock /\ who[r] \in Who
  BY <1>1 DEF RequestOK
<1>3. now[r] + TTL \in Times
  BY <1>1, <1>2 DEF Times
<1> QED
  BY <1>2, <1>3 DEF NewRow, Row, Who

\* The types are kept.
LEMMA StepTypes ==
  ASSUME IInv, [Next]_vars PROVE Types'
<1>1. Types
  BY DEF IInv
<1>2. clock' \in 0 .. MaxClock
  <2>1. ASSUME NEW r \in Requests, RequestStep(r) PROVE clock' = clock
    BY <1>1, <2>1, RequestFrame
  <2>2. CASE Tick
    BY <1>1, <2>2 DEF Tick, Types, TypeOK
  <2> QED
    BY <1>1, <2>1, <2>2 DEF Types, TypeOK, Next, RequestStep, vars
<1>3. rows' \in [Keys -> Row \union {None}]
  <2>1. ASSUME NEW r \in Requests, RequestStep(r) PROVE rows' \in [Keys -> Row \union {None}]
    <3>1. \A k \in Keys : rows[k] # None => rows'[k] \in Row
      BY <2>1, WritesKeep DEF Kept
    <3>2. rows' = rows \/ Used(r) \/ Inserted(r) \/ Ended(r)
      BY <2>1, WritesOfTable
    <3>3. ASSUME NEW k \in Keys, rows[k] = None PROVE rows'[k] \in Row \union {None}
      <4>1. CASE Inserted(r)
        <5>1. PICK prefix \in Prefixes, expires \in {None, now[r] + TTL} :
                rows' = [rows EXCEPT ![target[r]] = NewRow(r, prefix, expires)]
          BY <4>1 DEF Inserted, StoreKey
        <5> QED
          BY <1>1, <3>3, <4>1, <5>1, NewRowType DEF Inserted, Types, TypeOK
      <4>2. CASE Used(r) \/ Ended(r)
        <5>1. k # target[r]
          BY <3>3, <4>2 DEF Used, Ended, IInv, RequestOK, Authenticating
        <5> QED
          BY <1>1, <3>3, <4>2, <5>1 DEF Used, Ended, Types, TypeOK
      <4> QED
        BY <3>2, <3>3, <4>1, <4>2
    <3>4. rows' = [k \in Keys |-> rows'[k]]
      BY <1>1, <3>2 DEF Used, Inserted, StoreKey, Ended, Types, TypeOK
    <3> QED
      BY <3>1, <3>3, <3>4
  <2> QED
    BY <1>1, <2>1 DEF Next, RequestStep, Tick, vars, Types, TypeOK
<1>4. ASSUME NEW r \in Requests, RequestStep(r)
      PROVE  /\ step' \in [Requests -> {"new", "check", "compare", "touch", "insert", "revoke", "audit_create",
                                        "audit_revoke", "confirm", "done"}]
             /\ who' \in [Requests -> Who \union {None}]
             /\ target' \in [Requests -> Keys \union {None}]
             /\ loaded' \in [Requests -> Row \union {None}]
             /\ now' \in [Requests -> Times]
             /\ answer' \in [Requests -> {0, 200, 201, 400, 401, 404, 500}]
             /\ trail' \subseteq {"create_api_key", "revoke_api_key"} \X Keys
             /\ began' \in [Requests -> Nat] /\ past' \in [Requests -> SUBSET Keys]
             /\ revoked' \subseteq Keys /\ judged' \in [Requests -> Nat \union {None}]
  <2> USE <1>1 DEF Types, TypeOK, Times, Goto, Send, Start
  <2>1. RequestOK(r)
    BY DEF IInv
  <2>2. CASE LoadByPrefix(r)
    BY <2>2 DEF LoadByPrefix
  <2>3. CASE Check(r)
    BY <2>3 DEF Check
  <2>4. CASE Touch(r)
    BY <2>4 DEF Touch
  <2>5. CASE BeginCreate(r)
    BY <2>5 DEF BeginCreate
  <2>6. CASE Insert(r)
    BY <2>6 DEF Insert
  <2>7. CASE BeginRevoke(r)
    BY <2>7 DEF BeginRevoke
  <2>8. CASE Revoke(r)
    BY <2>8 DEF Revoke
  <2>9. CASE Audit(r)
    BY <2>1, <2>9 DEF Audit, RequestOK
  <2>10. CASE Confirm(r)
    BY <2>1, <2>10 DEF Confirm, RequestOK
  <2>11. CASE Fail(r)
    BY <2>11 DEF Fail
  <2>12. CASE Compare(r)
    BY <2>12 DEF Compare
  <2> QED
    BY <1>4, <2>2, <2>3, <2>4, <2>5, <2>6, <2>7, <2>8, <2>9, <2>10, <2>11, <2>12 DEF RequestStep
<1>5. CASE \E r \in Requests : RequestStep(r)
  BY <1>2, <1>3, <1>4, <1>5 DEF Types, TypeOK
<1>6. CASE Tick \/ UNCHANGED vars
  BY <1>1, <1>2, <1>6 DEF Tick, vars, Types, TypeOK
<1> QED
  BY <1>5, <1>6 DEF Next, RequestStep

-----------------------------------------------------------------------------
\* A place that is empty is filled by the insert of its own request.
LEMMA EmptyStays ==
  ASSUME IInv, NEW r \in Requests, RequestStep(r), NEW k \in Keys, rows[k] = None,
         step[r] = "insert" => target[r] # k
  PROVE  rows'[k] = None
<1>1. RequestOK(r) /\ rows \in [Keys -> Row \union {None}]
  BY DEF IInv, Types, TypeOK
<1>2. CASE Used(r) \/ Ended(r)
  <2>1. k # target[r]
    BY <1>1, <1>2 DEF Used, Ended, RequestOK, Authenticating
  <2> QED
    BY <1>1, <1>2, <2>1 DEF Used, Ended
<1>3. CASE Inserted(r)
  BY <1>1, <1>3 DEF Inserted, StoreKey
<1> QED
  BY <1>2, <1>3, WritesOfTable

\* What a request has found remains true while others act.
LEMMA OthersStay ==
  ASSUME IInv, NEW r \in Requests, RequestStep(r), NEW q \in Requests \ {r}
  PROVE  RequestOK(q)'
<1>1. Types /\ RequestOK(q) /\ RequestOK(r)
  BY DEF IInv
<1>2. /\ clock' = clock /\ revoked \subseteq revoked'
      /\ step'[q] = step[q] /\ who'[q] = who[q] /\ target'[q] = target[q]
      /\ loaded'[q] = loaded[q] /\ now'[q] = now[q] /\ answer'[q] = answer[q]
      /\ began'[q] = began[q] /\ judged'[q] = judged[q] /\ past'[q] = past[q]
  BY <1>1, RequestFrame
<1>3. target[q] \in Keys /\ rows[target[q]] # None =>
        /\ rows'[target[q]] # None /\ rows'[target[q]].expires = rows[target[q]].expires
        /\ Revoked(target[q]) => rows'[target[q]].revokedAt # None
  <2> SUFFICES ASSUME target[q] \in Keys, rows[target[q]] # None
               PROVE  /\ rows'[target[q]] # None /\ rows'[target[q]].expires = rows[target[q]].expires
                      /\ Revoked(target[q]) => rows'[target[q]].revokedAt # None
    OBVIOUS
  <2>1. Kept(target[q])
    BY WritesKeep
  <2> QED
    BY <2>1 DEF Kept, Revoked
<1>4. step[q] = "insert" => rows'[target[q]] = None
  <2>1. step[q] = "insert" => target[q] \in Keys /\ rows[target[q]] = None
    BY <1>1 DEF RequestOK
  <2>2. step[q] = "insert" /\ step[r] = "insert" => target[r] # target[q]
    BY DEF IInv, IdsAreFresh
  <2> QED
    BY <2>1, <2>2, EmptyStays
<1>5. Authenticating(q) => Authenticating(q)'
  BY <1>2, <1>3 DEF Authenticating
<1>6. Authenticating(q) /\ Judged(q) => Judged(q)'
  BY <1>2, <1>3 DEF Authenticating, Judged
<1>7. Revoked(target[q]) /\ target[q] \in Keys => Revoked(target[q])'
  BY <1>2, <1>3 DEF Revoked
<1>8. /\ began'[q] <= clock' /\ now'[q] <= clock'
      /\ past'[q] \subseteq revoked'
      /\ step'[q] # "done" => answer'[q] = 0
      /\ step'[q] = "new" => who'[q] = None /\ target'[q] = None
  BY <1>1, <1>2 DEF RequestOK
<1>9. /\ step'[q] \in {"check", "compare", "touch"} => Authenticating(q)'
      /\ step'[q] = "compare" => Judged(q)' /\ judged'[q] <= clock'
      /\ step'[q] = "touch" => Judged(q)' /\ judged'[q] <= now'[q]
  BY <1>1, <1>2, <1>5, <1>6 DEF RequestOK
<1>10. /\ step'[q] \in {"insert", "revoke", "audit_create", "audit_revoke", "confirm"} =>
            who'[q] \in Who /\ target'[q] \in Keys
       /\ step'[q] = "insert" => rows'[target'[q]] = None
       /\ step'[q] \in {"audit_revoke", "confirm"} => Revoked(target[q])'
  BY <1>1, <1>2, <1>4, <1>7 DEF RequestOK
<1>11. Admitted(q)' => /\ target'[q] \in Keys /\ rows'[target'[q]] # None
                       /\ target'[q] \notin past'[q]
                       /\ rows'[target'[q]].expires # None => began'[q] <= rows'[target'[q]].expires
  BY <1>1, <1>2, <1>3 DEF RequestOK, Admitted
<1> QED
  BY <1>2, <1>8, <1>9, <1>10, <1>11 DEF RequestOK, Revoked

-----------------------------------------------------------------------------
\* Authenticate: the row is read after the request has begun.
LEMMA LoadKeeps ==
  ASSUME IInv, NEW r \in Requests, LoadByPrefix(r) PROVE RequestOK(r)'
<1>1. Types /\ RequestOK(r)
  BY DEF IInv
<1>2. PICK k \in Keys :
        /\ Start(r, "check", k)
        /\ \/ /\ rows[k] # None
              /\ loaded' = [loaded EXCEPT ![r] = rows[k]]
              /\ Goto(r, "check") /\ UNCHANGED answer
           \/ /\ rows[k] = None \/ Failures
              /\ Send(r, 401) /\ UNCHANGED loaded
           \/ /\ Failures
              /\ Send(r, 500) /\ UNCHANGED loaded
  BY DEF LoadByPrefix
<1>3. /\ target'[r] = k /\ began'[r] = clock /\ past'[r] = revoked
      /\ UNCHANGED <<clock, rows, who, now, revoked>>
      /\ who[r] = None /\ now[r] <= clock /\ clock \in Nat /\ answer[r] = 0
  BY <1>1, <1>2 DEF Start, LoadByPrefix, RequestOK, Types, TypeOK
<1>4. CASE step'[r] = "check"
  <2>1. answer'[r] = 0 /\ loaded'[r] = rows[k] /\ rows[k] \in Row
    BY <1>1, <1>2, <1>3, <1>4 DEF Goto, Send, Types, TypeOK
  <2>2. k \in revoked => rows[k].revokedAt # None
    BY DEF IInv, Revoked
  <2>3. Authenticating(r)'
    BY <1>3, <2>1, <2>2 DEF Authenticating
  <2> QED
    BY <1>3, <1>4, <2>1, <2>3 DEF RequestOK, Admitted
<1>5. CASE step'[r] # "check"
  <2>1. step'[r] = "done" /\ answer'[r] \in {401, 500}
    BY <1>1, <1>2, <1>5 DEF Goto, Send, Types, TypeOK
  <2> QED
    BY <1>3, <2>1 DEF RequestOK, Admitted
<1> QED
  BY <1>4, <1>5

\* The clock is read after the row, so a key that had been revoked or had
\* expired when the request began is not passed on.
LEMMA CheckKeeps ==
  ASSUME IInv, NEW r \in Requests, Check(r) PROVE RequestOK(r)'
<1>1. Types /\ RequestOK(r) /\ Authenticating(r) /\ clock \in Nat
  BY DEF IInv, RequestOK, Check, Types, TypeOK
<1>2. UNCHANGED <<clock, rows, who, target, loaded, now, began, revoked, past>> /\ answer[r] = 0
  BY <1>1 DEF Check, RequestOK
<1>3. CASE step'[r] = "compare"
  <2>1. Valid(loaded[r], clock) /\ judged'[r] = clock /\ answer' = answer
    BY <1>1, <1>3 DEF Check, Goto, Send, Types, TypeOK
  <2>2. Judged(r)' /\ judged'[r] <= clock'
    BY <1>1, <1>2, <2>1 DEF Judged, Valid, Authenticating, RequestOK
  <2>3. Authenticating(r)'
    BY <1>1, <1>2 DEF Authenticating
  <2> QED
    BY <1>1, <1>2, <1>3, <2>1, <2>2, <2>3 DEF RequestOK, Admitted
<1>4. CASE step'[r] # "compare"
  <2>1. step'[r] = "done" /\ answer'[r] = 401
    BY <1>1, <1>4 DEF Check, Goto, Send, Types, TypeOK
  <2> QED
    BY <1>1, <1>2, <2>1 DEF RequestOK, Admitted
<1> QED
  BY <1>3, <1>4

\* The stamp is a later reading of the clock than the judgement.
LEMMA CompareKeeps ==
  ASSUME IInv, NEW r \in Requests, Compare(r) PROVE RequestOK(r)'
<1>1. Types /\ RequestOK(r) /\ Authenticating(r) /\ Judged(r) /\ judged[r] <= clock /\ clock \in Nat
  BY DEF IInv, RequestOK, Compare, Types, TypeOK
<1>2. UNCHANGED <<clock, rows, who, target, loaded, began, judged, revoked, past>> /\ answer[r] = 0
  BY <1>1 DEF Compare, RequestOK
<1>3. Authenticating(r)' /\ Judged(r)'
  BY <1>1, <1>2 DEF Authenticating, Judged
<1>4. CASE step'[r] = "touch"
  <2>1. now'[r] = clock /\ answer' = answer
    BY <1>1, <1>4 DEF Compare, Goto, Send, Types, TypeOK
  <2> QED
    BY <1>1, <1>2, <1>3, <1>4, <2>1 DEF RequestOK, Admitted
<1>5. CASE step'[r] # "touch"
  <2>1. step'[r] = "done" /\ answer'[r] = 401 /\ now' = now
    BY <1>1, <1>5 DEF Compare, Goto, Send, Types, TypeOK
  <2> QED
    BY <1>1, <1>2, <2>1 DEF RequestOK, Admitted
<1> QED
  BY <1>4, <1>5

\* The update of last_used_at comes after the judgement, and is all that
\* separates it from the answer.
LEMMA TouchKeeps ==
  ASSUME IInv, NEW r \in Requests, Touch(r) \/ (Fail(r) /\ step[r] = "touch") PROVE RequestOK(r)'
<1>1. Types /\ RequestOK(r)
  BY DEF IInv
<1>2. /\ step[r] = "touch" /\ step'[r] = "done" /\ answer'[r] \in {200, 500}
      /\ UNCHANGED <<clock, who, target, now, began, judged, revoked, past>>
  BY <1>1 DEF Touch, Fail, Send, Goto, Types, TypeOK
<1>3. Authenticating(r) /\ Judged(r)
  BY <1>1, <1>2 DEF RequestOK
<1>4. rows'[target[r]] # None /\ rows'[target[r]].expires = rows[target[r]].expires
  BY <1>3, WritesKeep DEF RequestStep, Authenticating, Kept
<1>5. began[r] \in Nat /\ rows[target[r]].expires # None => rows[target[r]].expires \in Nat
  <2>1. rows[target[r]] \in Row
    BY <1>1, <1>3 DEF Authenticating, Types, TypeOK
  <2> QED
    BY <1>1, <2>1 DEF Types, TypeOK, Times, Row
<1>6. rows[target[r]].expires # None => began[r] <= rows[target[r]].expires
  BY <1>1, <1>3, <1>5 DEF Judged, Types
<1> QED
  BY <1>1, <1>2, <1>3, <1>4, <1>6 DEF RequestOK, Admitted, Authenticating, Judged

\* The handlers that manage keys never pass for an authentication.
LEMMA ManagingKeeps ==
  ASSUME IInv, NEW r \in Requests,
         \/ BeginCreate(r) \/ Insert(r) \/ BeginRevoke(r) \/ Revoke(r) \/ Audit(r) \/ Confirm(r)
         \/ Fail(r) /\ step[r] # "touch"
  PROVE  RequestOK(r)'
<1>1. Types /\ RequestOK(r) /\ clock \in Nat
  BY DEF IInv, Types, TypeOK
<1> USE DEF Types, TypeOK
<1>2. CASE BeginCreate(r)
  <2>1. PICK k \in Keys, w \in Who :
          rows[k] = None /\ Start(r, "insert", k) /\ who' = [who EXCEPT ![r] = w]
    BY <1>2 DEF BeginCreate
  <2>2. /\ target'[r] = k /\ who'[r] = w /\ w # None /\ began'[r] = clock /\ past'[r] = revoked
        /\ now'[r] = clock /\ step'[r] = "insert" /\ UNCHANGED <<clock, rows, answer, revoked>>
        /\ answer[r] = 0
    BY <1>1, <1>2, <2>1 DEF BeginCreate, Start, Goto, RequestOK
  <2> QED
    BY <1>1, <2>1, <2>2 DEF RequestOK, Admitted
<1>3. CASE BeginRevoke(r)
  <2>1. PICK k \in Keys, w \in Who : Start(r, "revoke", k) /\ who' = [who EXCEPT ![r] = w]
    BY <1>3 DEF BeginRevoke
  <2>2. /\ target'[r] = k /\ who'[r] = w /\ w # None /\ began'[r] = clock /\ past'[r] = revoked
        /\ now' = now /\ step'[r] = "revoke" /\ UNCHANGED <<clock, rows, answer, revoked>>
        /\ answer[r] = 0
    BY <1>1, <1>3, <2>1 DEF BeginRevoke, Start, Goto, RequestOK
  <2> QED
    BY <1>1, <2>1, <2>2 DEF RequestOK, Admitted
<1>4. CASE ~BeginCreate(r) /\ ~BeginRevoke(r)
  <2>1. /\ step[r] \in {"insert", "revoke", "audit_create", "audit_revoke", "confirm"}
        /\ UNCHANGED <<clock, who, target, now, began, past>> /\ revoked \subseteq revoked'
    BY <1>4 DEF Insert, Revoke, Audit, Confirm, Fail
  <2>2. who[r] \in Who /\ who[r] # None /\ target[r] \in Keys /\ answer[r] = 0
    BY <1>1, <2>1 DEF RequestOK
  <2>3. /\ step'[r] \in {"audit_create", "audit_revoke", "confirm", "done"}
        /\ step'[r] # "done" => answer'[r] = 0
    BY <1>1, <1>4, <2>2 DEF Insert, Revoke, Audit, Confirm, Fail, Goto, Send
  <2>4. step'[r] \in {"audit_revoke", "confirm"} => Revoked(target[r])'
    <3>1. CASE Revoke(r) /\ step'[r] = "audit_revoke"
      <4>1. rows[target[r]] # None /\ rows' = [rows EXCEPT ![target[r]].revokedAt = clock]
        BY <1>1, <3>1 DEF Revoke, Goto, Send
      <4>2. rows'[target[r]] = [rows[target[r]] EXCEPT !.revokedAt = clock] /\ rows[target[r]] \in Row
        BY <1>1, <2>2, <4>1
      <4>3. rows'[target[r]] # None
        BY <2>2, <3>1, <4>1, WritesKeep DEF RequestStep, Kept
      <4>4. rows'[target[r]].revokedAt = clock /\ clock # None
        BY <1>1, <4>2 DEF Row
      <4> QED
        BY <2>1, <4>3, <4>4 DEF Revoked
    <3>2. CASE Audit(r) /\ step'[r] = "confirm"
      <4>1. step[r] = "audit_revoke" /\ UNCHANGED <<rows, target>>
        BY <1>1, <3>2 DEF Audit, Goto
      <4> QED
        BY <1>1, <4>1 DEF RequestOK, Revoked
    <3>3. step'[r] \in {"audit_revoke", "confirm"} =>
            \/ Revoke(r) /\ step'[r] = "audit_revoke"
            \/ Audit(r) /\ step'[r] = "confirm"
      <4>1. Insert(r) \/ Confirm(r) \/ Fail(r) => step'[r] \in {"audit_create", "done"}
        BY <1>1 DEF Insert, Confirm, Fail, Goto, Send
      <4>2. Revoke(r) => step'[r] \in {"audit_revoke", "done"}
        BY <1>1 DEF Revoke, Goto, Send
      <4>3. Audit(r) => step'[r] \in {"confirm", "done"}
        BY <1>1 DEF Audit, Goto
      <4> QED
        BY <1>4, <4>1, <4>2, <4>3
    <3> QED
      BY <3>1, <3>2, <3>3
  <2> QED
    BY <1>1, <2>1, <2>2, <2>3, <2>4 DEF RequestOK, Admitted, Revoked
<1> QED
  BY <1>2, <1>3, <1>4

\* Every request, whoever takes the step.
LEMMA StepRequests ==
  ASSUME IInv, [Next]_vars, NEW q \in Requests PROVE RequestOK(q)'
<1>1. ASSUME NEW r \in Requests, RequestStep(r) PROVE RequestOK(q)'
  <2>1. CASE q = r
    BY <1>1, <2>1, LoadKeeps, CheckKeeps, CompareKeeps, TouchKeeps, ManagingKeeps DEF RequestStep
  <2>2. CASE q # r
    BY <1>1, <2>2, OthersStay
  <2> QED
    BY <2>1, <2>2
<1>2. CASE Tick
  <2>1. RequestOK(q) /\ clock \in Nat /\ began[q] \in Nat /\ now[q] \in Nat
    BY DEF IInv, Types, TypeOK, Times
  <2>2. /\ began[q] <= clock' /\ now[q] <= clock'
        /\ step[q] = "compare" => judged[q] <= clock'
    BY <1>2, <2>1 DEF Tick, RequestOK, Judged
  <2> QED
    BY <1>2, <2>1, <2>2 DEF Tick, RequestOK, Authenticating, Judged, Admitted, Revoked
<1>3. CASE UNCHANGED vars
  BY <1>3 DEF vars, IInv, RequestOK, Authenticating, Judged, Admitted, Revoked
<1> QED
  BY <1>1, <1>2, <1>3 DEF Next, RequestStep

\* Ids are drawn that no request has drawn before.
LEMMA StepFresh ==
  ASSUME IInv, [Next]_vars PROVE IdsAreFresh'
<1>1. Types /\ IdsAreFresh
  BY DEF IInv
<1>2. ASSUME NEW r \in Requests, RequestStep(r) PROVE IdsAreFresh'
  <2>1. \A q \in Requests \ {r} : step'[q] = step[q] /\ target'[q] = target[q]
    BY <1>1, <1>2, RequestFrame
  <2>2. CASE step'[r] = "insert"
    <3>1. BeginCreate(r)
      BY <1>1, <1>2, <2>2 DEF RequestStep, LoadByPrefix, Check, Compare, Touch, Insert, BeginRevoke, Revoke,
                              Audit, Confirm, Fail, Goto, Send, Types, TypeOK
    <3>2. \A q \in Requests \ {r} : target[q] # target'[r]
      BY <1>1, <3>1 DEF BeginCreate, Start, Types, TypeOK
    <3> QED
      BY <1>1, <2>1, <3>2 DEF IdsAreFresh
  <2>3. CASE step'[r] # "insert"
    BY <1>1, <2>1, <2>3 DEF IdsAreFresh
  <2> QED
    BY <2>2, <2>3
<1> QED
  BY <1>1, <1>2 DEF Next, RequestStep, Tick, vars, IdsAreFresh

\* A revocation is confirmed after it is in the table, and stays there.
LEMMA StepRevoked ==
  ASSUME IInv, [Next]_vars, NEW k \in revoked' PROVE Revoked(k)'
<1>1. revoked \subseteq Keys /\ \A j \in revoked : Revoked(j)
  BY DEF IInv, Types
<1>2. CASE k \in revoked
  BY <1>1, <1>2, KeysAreKept DEF Kept, Revoked
<1>3. CASE k \notin revoked
  <2>1. PICK r \in Requests : Confirm(r) /\ k = target[r]
    BY <1>3 DEF Next, LoadByPrefix, Check, Compare, Touch, BeginCreate, Insert, BeginRevoke, Revoke, Audit,
                Confirm, Fail, Tick, vars
  <2> QED
    BY <2>1 DEF Confirm, IInv, RequestOK, Revoked
<1> QED
  BY <1>2, <1>3

\* A request that has been answered has come to its end.
LEMMA Settled ==
  ASSUME IInv, [Next]_vars, NEW q \in Requests, step[q] = "done"
  PROVE  /\ who'[q] = who[q] /\ target'[q] = target[q] /\ now'[q] = now[q] /\ answer'[q] = answer[q]
         /\ began'[q] = began[q] /\ judged'[q] = judged[q] /\ past'[q] = past[q]
<1>1. Types
  BY DEF IInv
<1>2. ASSUME NEW r \in Requests, RequestStep(r)
      PROVE  /\ who'[q] = who[q] /\ target'[q] = target[q] /\ now'[q] = now[q] /\ answer'[q] = answer[q]
             /\ began'[q] = began[q] /\ judged'[q] = judged[q] /\ past'[q] = past[q]
  <2>1. step[r] # "done"
    BY <1>2 DEF RequestStep, LoadByPrefix, Check, Compare, Touch, BeginCreate, Insert, BeginRevoke,
                Revoke, Audit, Confirm, Fail, Start
  <2>2. q # r
    BY <2>1
  <2> QED
    BY <1>1, <1>2, <2>2, RequestFrame
<1> QED
  BY <1>2 DEF Next, RequestStep, Tick, vars

\* The clock does not go back.
LEMMA ClockRuns ==
  ASSUME IInv, [Next]_vars PROVE clock \in Nat /\ clock' \in Nat /\ clock <= clock'
<1>1. Types /\ clock \in Nat
  BY DEF IInv, Types, TypeOK
<1>2. ASSUME NEW q \in Requests, RequestStep(q) PROVE clock' = clock
  BY <1>1, <1>2, RequestFrame
<1> QED
  BY <1>1, <1>2 DEF Next, RequestStep, Tick, vars

\* The authentication whose time is k's last_used_at.
IsLastUse(r, k) ==
  /\ PassedWith(r, k) /\ k \notin past[r]
  /\ began[r] <= judged[r] /\ judged[r] <= now[r] /\ now[r] <= clock
  /\ rows[k].expires # None => judged[r] <= rows[k].expires
  /\ rows[k].lastUsed = now[r]

\* The update that writes it is the last thing the request does, acknowledged or not.
LEMMA UseIsOfOneThatPassed ==
  ASSUME IInv, NEW r \in Requests, RequestStep(r), Used(r), NEW k \in Keys, k = target[r]
  PROVE  IsLastUse(r, k)'
<1>1. Types /\ RequestOK(r) /\ Authenticating(r) /\ Judged(r) /\ judged[r] <= now[r]
  BY DEF IInv, RequestOK, Used
<1>2. rows[k] \in Row /\ rows[k] # None
  BY <1>1 DEF Authenticating, Types, TypeOK
<1>3. rows'[k] = [rows[k] EXCEPT !.lastUsed = now[r]]
  BY <1>1 DEF Used, Types, TypeOK
<1>4. rows'[k].lastUsed = now[r] /\ rows'[k].expires = rows[k].expires
  BY <1>2, <1>3 DEF Row
<1>5. answer'[r] \in {200, 500} /\ UNCHANGED <<clock, who, target, now, began, judged, past>>
  BY <1>1 DEF Used, RequestStep, LoadByPrefix, Check, Compare, Touch, BeginCreate, Insert, BeginRevoke,
              Revoke, Audit, Confirm, Fail, Start, Send, Types, TypeOK
<1>6. who[r] = None /\ judged[r] # None /\ now[r] <= clock
  BY <1>1 DEF Authenticating, Judged, RequestOK
<1> QED
  BY <1>1, <1>4, <1>5, <1>6 DEF IsLastUse, PassedWith, Judged

\* last_used_at is written by one that has been judged.
LEMMA StepLastUsed ==
  ASSUME IInv, [Next]_vars PROVE LastUsedIsTrue'
<1>1. Types /\ LastUsedIsTrue
  BY DEF IInv
<1> SUFFICES ASSUME NEW k \in Keys, rows'[k] # None, rows'[k].lastUsed # None
             PROVE  \E r \in Requests : IsLastUse(r, k)'
  BY DEF LastUsedIsTrue, IsLastUse
<1>2. CASE rows[k] # None /\ rows'[k].lastUsed = rows[k].lastUsed
  <2>1. PICK r \in Requests : IsLastUse(r, k)
    BY <1>1, <1>2 DEF LastUsedIsTrue, IsLastUse
  <2>2. step[r] = "done"
    BY <2>1 DEF IInv, RequestOK, IsLastUse, PassedWith
  <2>3. /\ who'[r] = who[r] /\ target'[r] = target[r] /\ now'[r] = now[r] /\ answer'[r] = answer[r]
        /\ began'[r] = began[r] /\ judged'[r] = judged[r] /\ past'[r] = past[r]
    BY <2>2, Settled
  <2>4. rows'[k].expires = rows[k].expires
    BY <1>2, KeysAreKept DEF Kept
  <2>5. now[r] <= clock'
    BY <1>1, <2>1, ClockRuns DEF IsLastUse, Types, TypeOK, Times
  <2>6. IsLastUse(r, k)'
    BY <1>2, <2>1, <2>3, <2>4, <2>5 DEF IsLastUse, PassedWith
  <2> QED
    BY <2>6
<1>3. CASE ~(rows[k] # None /\ rows'[k].lastUsed = rows[k].lastUsed)
  <2>1. PICK r \in Requests : RequestStep(r)
    BY <1>3 DEF Next, RequestStep, Tick, vars
  <2>2. ~Inserted(r) /\ ~Ended(r) /\ rows' # rows
    <3>1. rows' # rows
      BY <1>3
    <3>2. ASSUME Inserted(r) PROVE FALSE
      <4>1. PICK prefix \in Prefixes, expires \in {None, now[r] + TTL} :
              rows' = [rows EXCEPT ![target[r]] = NewRow(r, prefix, expires)]
        BY <3>2 DEF Inserted, StoreKey
      <4>2. k = target[r] => rows'[k] = NewRow(r, prefix, expires)
        BY <1>1, <4>1 DEF Types, TypeOK
      <4>3. k # target[r]
        BY <4>2 DEF NewRow
      <4> QED
        BY <1>1, <1>3, <4>1, <4>3 DEF Types, TypeOK
    <3>3. ASSUME Ended(r) PROVE FALSE
      <4>1. k = target[r] => rows'[k] = [rows[k] EXCEPT !.revokedAt = clock] /\ rows[k] \in Row
        BY <1>1, <3>3 DEF Ended, Types, TypeOK
      <4>2. k = target[r] => rows'[k].lastUsed = rows[k].lastUsed
        BY <4>1 DEF Row
      <4>3. k # target[r]
        BY <1>3, <3>3, <4>2 DEF Ended
      <4> QED
        BY <1>1, <1>3, <3>3, <4>3 DEF Ended, Types, TypeOK
    <3> QED
      BY <3>1, <3>2, <3>3
  <2>3. Used(r)
    BY <2>1, <2>2, WritesOfTable
  <2>4. k = target[r]
    BY <1>1, <1>3, <2>3 DEF Used, Types, TypeOK
  <2> QED
    BY <2>1, <2>3, <2>4, UseIsOfOneThatPassed
<1> QED
  BY <1>2, <1>3

-----------------------------------------------------------------------------
\* The inductive invariant holds in every reachable state (apikey.go,
\* handler_api_keys.go).
THEOREM Invariance == Spec => []IInv
<1>1. IInv /\ [Next]_vars => IInv'
  BY StepTypes, StepRequests, StepFresh, StepRevoked, StepLastUsed DEF IInv
<1> QED
  BY InitHolds, <1>1, PTL DEF Spec

\* The types of the table and of the requests.
THEOREM TypeCorrect == Spec => []TypeOK
<1>1. IInv => TypeOK
  BY DEF IInv, Types
<1> QED
  BY Invariance, <1>1, PTL

\* No request that begins after a key was revoked, or has expired, is let in,
\* however its statements interleave with those of others (PGAPIKeys.Authenticate).
THEOREM EndsAreFinal == Spec => []EndIsFinal
<1>1. IInv => EndIsFinal
  BY DEF IInv, RequestOK, EndIsFinal
<1> QED
  BY Invariance, <1>1, PTL

\* last_used_at is the stamp of an authentication that passed with that key, taken
\* after a judgement that was in time, though the update that writes it looks at
\* nothing but the id (PGAPIKeys.Authenticate, apikey.go:155-162).
THEOREM LastUseIsAUse == Spec => []LastUsedIsTrue
<1>1. IInv => LastUsedIsTrue
  BY DEF IInv
<1> QED
  BY Invariance, <1>1, PTL

\* No statement, acknowledged or not, removes a key, changes whose it is or how
\* long it lives, or takes a revocation back.
THEOREM KeysStayWhatTheyAre ==
  Spec => [][\A k \in Keys : rows[k] # None => Kept(k)]_vars
<1>1. IInv /\ [Next]_vars => [\A k \in Keys : rows[k] # None => Kept(k)]_vars
  BY KeysAreKept
<1> QED
  BY Invariance, <1>1, PTL DEF Spec
=============================================================================
