---------------------------- MODULE MCOAuthFlow ----------------------------
(* Two tabs, three callbacks, an age of one tick.                             *)
EXTENDS OAuthFlow, TLC

Symmetry == Permutations(Flows) \union Permutations(Callbacks)
=============================================================================
