----------------------------- MODULE MCSessions -----------------------------
(* Four requests, two sessions.                                              *)
EXTENDS Sessions, TLC

Symmetry == Permutations(Callers) \union Permutations(Sessions)
=============================================================================
