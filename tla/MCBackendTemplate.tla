------------------------- MODULE MCBackendTemplate -------------------------
(* A super_admin and an ordinary user of each of two tenants, a customer of   *)
(* the second, and an invoice and an item of it that are to be created.       *)
EXTENDS AdapterStores, TLC

CONSTANTS root, ann, bob, other, fresh, line

TwoTenants == root :> "t1" @@ ann :> "t1" @@ bob :> "t2" @@ other :> "t2"
NoParents == [t \in Seeded |-> None]
ItsTable == [t \in Records |-> CASE t = other -> "customers" [] t = fresh -> "invoices"
                                 [] t = line -> "invoice_items" [] OTHER -> "users"]

Load(store, pool, ops, fields, targets, users, requests, faults) ==
  [store |-> store, pool |-> pool, ops |-> ops, fields |-> fields, targets |-> targets,
   users |-> users, requests |-> requests, faults |-> faults]

\* The template: three edits of the same row; any two requests of a user and
\* the super_admin on rows of both tenants, new rows and events; three logins
\* and what blocks or deletes the user; rows of one tenant that refer to a row
\* of another, which goes.  The adapters: any two requests, then three that
\* delete and three of which some create an id again.  With a pool of one
\* nothing can be deleted.
Matters ==
  { Load("template", 0, {"update", "delete", "action"}, {"status", "name"}, {ann}, {ann}, 3, 0),
    Load("template", 0, Ops, {"status", "name", "parent"}, {ann, other, fresh} \union Requests, {root, ann}, 2, 1),
    Load("template", 0, {"login", "oauth_login", "action", "delete"}, {"status"}, {ann}, {ann}, 3, 1),
    Load("template", 0, {"create", "delete"}, {}, {other, fresh, line}, {ann, bob}, 3, 0),
    Load("sql", 1, Ops, {"status", "name"}, {ann, other}, {root, ann}, 2, 0),
    Load("sql", 2, Ops, {"status", "name"}, {ann, other, fresh}, {root, ann}, 2, 1),
    Load("sql", 3, {"update", "delete", "bulk_delete"}, {"status"}, {ann, other}, {root}, 3, 0),
    Load("sql", 3, {"create", "update", "delete"}, {"status"}, {other}, {root}, 3, 0),
    Load("mongo", 0, Ops, {"status", "name"}, {ann, other, fresh}, {root, ann}, 2, 1),
    Load("mongo", 0, {"update", "delete", "bulk_delete"}, {"status"}, {ann, other}, {root}, 3, 0),
    Load("mongo", 0, {"create", "update", "delete"}, {"status"}, {other}, {root}, 3, 0) }
Symmetry == Permutations(Requests)
=============================================================================
