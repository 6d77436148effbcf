------------------------------ MODULE APIKeys ------------------------------
(***************************************************************************)
(* API keys: PGAPIKeys (pkg/auth/apikey.go) under actorMiddleware and the  *)
(* handlers of handler_api_keys.go.  One action is one SQL statement or    *)
(* the Go code between two; a request is one goroutine.  A secret is right *)
(* or wrong, its hash is not modelled.                                     *)
(***************************************************************************)
EXTENDS Naturals

CONSTANTS Requests, Keys,  \* key ids: "key_" and random bytes, never repeated
          Prefixes,        \* random too, but short: the column is UNIQUE
          Actors, Tenants, \* Tenants without the empty one
          SuperAdmins,     \* the actors that have the role super_admin
          None,            \* NULL, and the empty tenant
          TTL,             \* expires_in of the keys that have one
          Failures,        \* statements may fail
          MaxClock

ASSUME ConstantsAssumption ==
  /\ SuperAdmins \subseteq Actors
  /\ TTL \in Nat \ {0} /\ MaxClock \in Nat
  /\ Failures \in BOOLEAN
  /\ None \notin Nat /\ None \notin Tenants /\ None \notin Keys

VARIABLES
  clock,
  rows,     \* rows[k]: the row of key k, or None
  step,     \* step[r]: what request r does next
  who,      \* who[r]: actor and tenant of a request that manages keys
  target,   \* target[r]: the key it is about
  loaded,   \* loaded[r]: the row loadByPrefix has returned
  now,      \* now[r]: the clock reading that becomes last_used_at
  answer,   \* answer[r]: HTTP status sent, or passed on with the key's actor
  trail,    \* the audit log, as a set of <<action, key>>
  began,    \* ghost: the clock when r began
  judged,   \* ghost: the clock by which Authenticate judged r's key valid, or None
  revoked,  \* ghost: the keys whose revocation has been confirmed
  past      \* ghost: past[r]: revoked, when r began

vars == <<clock, rows, step, who, target, loaded, now, answer, trail, began, judged, revoked, past>>

Times == 0 .. MaxClock + TTL
Row == [prefix : Prefixes, actor : Actors, tenant : Tenants \union {None},
        expires : Times \union {None}, lastUsed : Times \union {None},
        revokedAt : Times \union {None}]
Who == [actor : Actors, tenant : Tenants \union {None}]

\* NULL is no row and no actor.
ASSUME NullAssumption == None \notin Row /\ None \notin Who

TypeOK ==
  /\ clock \in 0 .. MaxClock
  /\ rows \in [Keys -> Row \union {None}]
  /\ step \in [Requests -> {"new", "check", "compare", "touch", "insert", "revoke", "audit_create",
                            "audit_revoke", "confirm", "done"}]
  /\ who \in [Requests -> Who \union {None}]
  /\ target \in [Requests -> Keys \union {None}]
  /\ loaded \in [Requests -> Row \union {None}]
  /\ now \in [Requests -> Times]
  /\ answer \in [Requests -> {0, 200, 201, 400, 401, 404, 500}]
  /\ trail \subseteq {"create_api_key", "revoke_api_key"} \X Keys

\* Keys that ordinary actors created earlier, whose prefixes differ.
Earlier == { row \in Row : row.actor \notin SuperAdmins /\ row.expires = TTL
                          /\ row.lastUsed = None /\ row.revokedAt = None }

Init ==
  /\ clock = 0
  /\ rows \in [Keys -> Earlier \union {None}]
  /\ \A j, k \in Keys : j # k /\ rows[j] # None /\ rows[k] # None => rows[j].prefix # rows[k].prefix
  /\ step = [r \in Requests |-> "new"]
  /\ who = [r \in Requests |-> None]
  /\ target = [r \in Requests |-> None]
  /\ loaded = [r \in Requests |-> None]
  /\ now = [r \in Requests |-> 0]
  /\ answer = [r \in Requests |-> 0]
  /\ trail = {}
  /\ began = [r \in Requests |-> 0]
  /\ judged = [r \in Requests |-> None]
  /\ revoked = {}
  /\ past = [r \in Requests |-> {}]

-----------------------------------------------------------------------------
Goto(r, next) == step' = [step EXCEPT ![r] = next]
Send(r, status) == Goto(r, "done") /\ answer' = [answer EXCEPT ![r] = status]

Start(r, next, k) ==
  /\ step[r] = "new"
  /\ target' = [target EXCEPT ![r] = k]
  /\ began' = [began EXCEPT ![r] = clock]
  /\ past' = [past EXCEPT ![r] = revoked]

\* loadByPrefix: one row at most, the prefix is unique.  A raw key that does
\* not parse or has an unknown prefix never gets further.
LoadByPrefix(r) ==
  /\ \E k \in Keys :
       /\ Start(r, "check", k)
       /\ \/ /\ rows[k] # None
             /\ loaded' = [loaded EXCEPT ![r] = rows[k]]
             /\ Goto(r, "check") /\ UNCHANGED answer
          \/ /\ rows[k] = None \/ Failures     \* a failing query reads as no row
             /\ Send(r, 401) /\ UNCHANGED loaded
          \/ /\ Failures
             /\ Send(r, 500) /\ UNCHANGED loaded
  /\ UNCHANGED <<clock, rows, who, now, trail, judged, revoked>>

\* (wrong variant: the revocation is not looked at)
Valid_EvenRevoked(row, time) == row.expires # None => time <= row.expires

Valid(row, time) ==
  row.revokedAt = None /\ (row.expires # None => time <= row.expires)

\* Authenticate after loadByPrefix: the row in hand is judged by the clock.
Check(r) ==
  /\ step[r] = "check"
  /\ \/ /\ Valid(loaded[r], clock)
        /\ judged' = [judged EXCEPT ![r] = clock]
        /\ Goto(r, "compare") /\ UNCHANGED answer
     \/ /\ ~Valid(loaded[r], clock)
        /\ Send(r, 401) /\ UNCHANGED judged
  /\ UNCHANGED <<clock, rows, who, target, loaded, now, trail, began, revoked, past>>

\* The hash of the secret is compared, then the clock is read a second time:
\* the key may have come to its end by now.
Compare(r) ==
  /\ step[r] = "compare"
  /\ \/ /\ now' = [now EXCEPT ![r] = clock]
        /\ Goto(r, "touch") /\ UNCHANGED answer
     \/ Send(r, 401) /\ UNCHANGED now     \* a wrong secret
  /\ UNCHANGED <<clock, rows, who, target, loaded, trail, began, judged, revoked, past>>

\* (wrong variant: last_used_at is the time of the statement)
Touch_AtDatabase(r) ==
  /\ step[r] = "touch"
  /\ rows' = [rows EXCEPT ![target[r]].lastUsed = clock]
  /\ Send(r, 200)
  /\ UNCHANGED <<clock, who, target, loaded, now, trail, began, judged, revoked, past>>

\* update ... set last_used_at: by id, whatever has happened to the key since.
Touch(r) ==
  /\ step[r] = "touch"
  /\ rows' = [rows EXCEPT ![target[r]].lastUsed = now[r]]
  /\ Send(r, 200)
  /\ UNCHANGED <<clock, who, target, loaded, now, trail, began, judged, revoked, past>>

\* handleCreateAPIKey: id, prefix, secret and expiry, then the insert.
BeginCreate(r) ==
  /\ \E k \in Keys, w \in Who :
       /\ rows[k] = None /\ \A q \in Requests : target[q] # k
       /\ Start(r, "insert", k)
       /\ who' = [who EXCEPT ![r] = w]
  /\ now' = [now EXCEPT ![r] = clock]
  /\ Goto(r, "insert")
  /\ UNCHANGED <<clock, rows, loaded, answer, trail, judged, revoked>>

NewRow(r, prefix, expires) ==
  [prefix |-> prefix, actor |-> who[r].actor, tenant |-> who[r].tenant,
   expires |-> expires, lastUsed |-> None, revokedAt |-> None]

Taken(prefix) == \E k \in Keys : rows[k] # None /\ rows[k].prefix = prefix

StoreKey(r, prefix) ==
  /\ ~Taken(prefix)
  /\ \E expires \in {None, now[r] + TTL} :
       rows' = [rows EXCEPT ![target[r]] = NewRow(r, prefix, expires)]

\* A collision of prefixes is the error of the insert, and answered as one.
Insert(r) ==
  /\ step[r] = "insert"
  /\ \E prefix \in Prefixes :
       \/ StoreKey(r, prefix) /\ Goto(r, "audit_create") /\ UNCHANGED answer
       \/ Taken(prefix) /\ Send(r, 400) /\ UNCHANGED rows
  /\ UNCHANGED <<clock, who, target, loaded, now, trail, began, judged, revoked, past>>

\* handleRevokeAPIKey, for any id.
BeginRevoke(r) ==
  /\ \E k \in Keys, w \in Who :
       /\ Start(r, "revoke", k)
       /\ who' = [who EXCEPT ![r] = w]
  /\ Goto(r, "revoke")
  /\ UNCHANGED <<clock, rows, loaded, now, answer, trail, judged, revoked>>

\* The where clause of Revoke.
Owns(w, row) ==
  /\ row.actor = w.actor
  /\ w.tenant # None /\ w.actor \notin SuperAdmins => row.tenant = w.tenant

Revoke(r) ==
  /\ step[r] = "revoke"
  /\ LET k == target[r] IN
     \/ /\ rows[k] # None /\ Owns(who[r], rows[k])
        /\ rows' = [rows EXCEPT ![k].revokedAt = clock]
        /\ Goto(r, "audit_revoke") /\ UNCHANGED answer
     \/ /\ ~(rows[k] # None /\ Owns(who[r], rows[k]))
        /\ Send(r, 404) /\ UNCHANGED rows
  /\ UNCHANGED <<clock, who, target, loaded, now, trail, began, judged, revoked, past>>

\* emitAudit, whose failure nobody is told of.
Audit(r) ==
  /\ \/ step[r] = "audit_create" /\ trail' = trail \union {<<"create_api_key", target[r]>>}
     \/ step[r] = "audit_revoke" /\ trail' = trail \union {<<"revoke_api_key", target[r]>>}
     \/ Failures /\ step[r] \in {"audit_create", "audit_revoke"} /\ UNCHANGED trail
  /\ Goto(r, IF step[r] = "audit_revoke" THEN "confirm" ELSE "done")
  /\ answer' = IF step[r] = "audit_create" THEN [answer EXCEPT ![r] = 201] ELSE answer
  /\ UNCHANGED <<clock, rows, who, target, loaded, now, began, judged, revoked, past>>

Confirm(r) ==
  /\ step[r] = "confirm"
  /\ revoked' = revoked \union {target[r]}
  /\ Send(r, 200)
  /\ UNCHANGED <<clock, rows, who, target, loaded, now, trail, began, judged, past>>

\* A statement fails, before or after it has taken effect.
Fail(r) ==
  /\ Failures
  /\ \/ /\ step[r] = "touch"
        /\ UNCHANGED rows \/ rows' = [rows EXCEPT ![target[r]].lastUsed = now[r]]
        /\ Send(r, 500)
     \/ /\ step[r] = "insert"
        /\ UNCHANGED rows \/ \E prefix \in Prefixes : StoreKey(r, prefix)
        /\ Send(r, 400)
     \/ /\ step[r] = "revoke"
        /\ \/ UNCHANGED rows
           \/ /\ rows[target[r]] # None /\ Owns(who[r], rows[target[r]])
              /\ rows' = [rows EXCEPT ![target[r]].revokedAt = clock]
        /\ Send(r, 500)
  /\ UNCHANGED <<clock, who, target, loaded, now, trail, began, judged, revoked, past>>

Tick ==
  /\ clock < MaxClock
  /\ clock' = clock + 1
  /\ UNCHANGED <<rows, step, who, target, loaded, now, answer, trail, began, judged, revoked, past>>

Next ==
  \/ \E r \in Requests :
       \/ LoadByPrefix(r) \/ Check(r) \/ Compare(r) \/ Touch(r)
       \/ BeginCreate(r) \/ Insert(r)
       \/ BeginRevoke(r) \/ Revoke(r) \/ Audit(r) \/ Confirm(r) \/ Fail(r)
  \/ Tick

Spec == Init /\ [][Next]_vars

-----------------------------------------------------------------------------
Admitted(r) == who[r] = None /\ answer[r] = 200

\* A key that has ended admits nobody any more: no request that begins after
\* its revocation has been confirmed or after it has expired is let in, whatever
\* authentications are under way (apikey.go:155 judges, by the clock of that
\* moment, a row that was read earlier; the update after it is by id alone).
EndIsFinal ==
  \A r \in Requests : Admitted(r) =>
    /\ target[r] \notin past[r]
    /\ rows[target[r]].expires # None => began[r] <= rows[target[r]].expires

\* Request r has passed both tests of Authenticate with key k and has got as far
\* as the update, which may have lost its answer.
PassedWith(r, k) ==
  who[r] = None /\ target[r] = k /\ judged[r] # None /\ answer[r] \in {200, 500}

\* last_used_at is the time of an authentication that passed with this very key:
\* its stamp was taken after the key had been judged, by a request that began
\* when no revocation of it had been confirmed, and the judgement itself was in
\* time, though the stamp may not be: apikey.go:161 reads the clock again, and
\* the update writes to whatever has become of the row (docs/auth.md: "each key tracks").
LastUsedIsTrue ==
  \A k \in Keys : rows[k] # None /\ rows[k].lastUsed # None =>
    \E r \in Requests :
      /\ PassedWith(r, k) /\ k \notin past[r]
      /\ began[r] <= judged[r] /\ judged[r] <= now[r] /\ now[r] <= clock
      /\ rows[k].expires # None => judged[r] <= rows[k].expires
      /\ rows[k].lastUsed = now[r]
=============================================================================
