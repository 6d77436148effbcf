------------------------------ MODULE MCAPIKeys ------------------------------
(* Two keys whose prefixes collide, one actor and a super_admin.             *)
EXTENDS APIKeys, TLC

Symmetry == Permutations(Requests) \union Permutations(Keys) \union Permutations(Tenants)
=============================================================================
