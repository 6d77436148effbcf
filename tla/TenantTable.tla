----------------------------- MODULE TenantTable -----------------------------
(***************************************************************************)
(* What the record API promises, without statements, locks or rereads: a   *)
(* table of tenant-owned records on which every request takes effect at    *)
(* most once, in one indivisible step, and only on records its actor may   *)
(* see.  AdminServer is shown to implement this specification.             *)
(***************************************************************************)
CONSTANTS Requests,      \* requests ever sent to the server
          Row,           \* the records a table can hold
          TenantScoped   \* the resource has a tenant column

VARIABLES rows,     \* the committed records
          effect,   \* effect[r]: the records r inserted, changed or removed
          actor     \* actor[r]: who sent r (never changes)

vars == <<rows, effect, actor>>

MayTouch(r, x) == ~TenantScoped \/ actor[r].super \/ x.tenant = actor[r].tenant

Init == /\ rows \subseteq Row
        /\ effect = [r \in Requests |-> {}]

TakesEffect(r, S) ==
  /\ effect[r] = {}
  /\ S # {}
  /\ effect' = [effect EXCEPT ![r] = S]
  /\ UNCHANGED actor

\* A record is created under an unused id and for the tenant of the actor.
Insert(r, x) ==
  /\ \A y \in rows : y.id # x.id
  /\ x.by = r
  /\ x.tenant = actor[r].tenant
  /\ rows' = rows \union {x}
  /\ TakesEffect(r, {x})

\* The values of one record change; its id, tenant and origin do not.
Modify(r, x, y) ==
  /\ MayTouch(r, x)
  /\ y.id = x.id /\ y.tenant = x.tenant /\ y.by = x.by
  /\ rows' = (rows \ {x}) \union {y}
  /\ TakesEffect(r, {x})

\* One record, or all the records of a bulk delete at once, disappear.
Remove(r, S) ==
  /\ \A x \in S : MayTouch(r, x)
  /\ rows' = rows \ S
  /\ TakesEffect(r, S)

Next ==
  \E r \in Requests :
    \/ \E x \in Row : Insert(r, x)
    \/ \E x \in rows, y \in Row : Modify(r, x, y)
    \/ \E S \in SUBSET rows : Remove(r, S)

Spec == Init /\ [][Next]_vars
=============================================================================
