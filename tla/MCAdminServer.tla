---------------------------- MODULE MCAdminServer ----------------------------
(* The clients of the AdminServer runs: two tenants, a super admin and the   *)
(* calls that compete for the same ids.                                      *)
EXTENDS AdminServer, Naturals, Sequences, TLC

CONSTANTS A, B, i, j, v, r1, r2, r3

Alice == [tenant |-> A, super |-> FALSE]
Bob == [tenant |-> B, super |-> FALSE]
Root == [tenant |-> A, super |-> TRUE]

Ask(op, who, ids, val) == [op |-> op, actor |-> who, ids |-> ids, val |-> val, allowed |-> TRUE]

\* Every operation on one id, by both tenants and by the super admin.
OneIdCalls ==
  << Ask("create", Alice, {i}, v), Ask("create", Bob, {i}, v),
     Ask("update", Alice, {i}, v), Ask("update", Alice, {i}, NoValue),
     Ask("delete", Alice, {i}, NoValue), Ask("delete", Root, {i}, NoValue),
     Ask("bulk_delete", Alice, {i}, NoValue), Ask("bulk_delete", Alice, {}, NoValue),
     Ask("get", Alice, {i}, NoValue),
     [Ask("delete", Bob, {i}, NoValue) EXCEPT !.allowed = FALSE] >>

\* Bulk deletes that take the same two records, and what disturbs them.
BulkCalls ==
  << Ask("bulk_delete", Alice, {i, j}, NoValue), Ask("bulk_delete", Root, {i, j}, NoValue),
     Ask("create", Bob, {j}, v), Ask("update", Alice, {i}, v),
     Ask("delete", Alice, {j}, NoValue) >>

\* The calls of the disagreement with the documentation.
UpdateDeleteCalls == {Ask("update", Alice, {i}, v), Ask("delete", Alice, {i}, NoValue)}

\* Either all requests fight over one id, or two bulk deletes and a third
\* request over two.  Requests are interchangeable, and liveness rules TLC's
\* symmetry out: who makes which call follows the order of the calls instead.
AllCalls == {OneIdCalls[n] : n \in DOMAIN OneIdCalls} \union {BulkCalls[n] : n \in DOMAIN BulkCalls}
Sent(a, b, c) == call = (r1 :> a) @@ (r2 :> b) @@ (r3 :> c)

MattersInit ==
  /\ Init
  /\ \/ /\ \E a, b, c \in DOMAIN OneIdCalls :
             a <= b /\ b <= c /\ Sent(OneIdCalls[a], OneIdCalls[b], OneIdCalls[c])
        /\ \A x \in rows : x.id = i
     \/ \E a, b \in 1 .. 2, c \in 3 .. Len(BulkCalls) :
          a <= b /\ Sent(BulkCalls[a], BulkCalls[b], BulkCalls[c])
MattersSpec == MattersInit /\ [][Next]_vars /\ \A r \in Requests : WF_vars(Statement(r))
=============================================================================
