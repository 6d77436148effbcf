----------------------------- MODULE MCUploads -----------------------------
(* Two uploads and two downloads, of two tenants or of none.                 *)
EXTENDS Uploads, TLC

Symmetry == Permutations(Uploads) \union Permutations(Downloads) \union Permutations(Tenants)
=============================================================================
