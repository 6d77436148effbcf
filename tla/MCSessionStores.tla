--------------------------- MODULE MCSessionStores ---------------------------
(* Three store operations on two sessions, in each of the stores, of a server  *)
(* that may be started again; and every way to call New that is not one of    *)
(* those, without operations.                                                 *)
EXTENDS Server, TLC

Times == 0 .. MaxClock + TTL

Full == {[program |-> "library", store |-> TRUE, url |-> FALSE, pool |-> FALSE, keys |-> FALSE, sessions |-> kept] :
            kept \in {"none", "cache", "redis"}}
        \union {[program |-> "library", store |-> FALSE, url |-> TRUE, pool |-> FALSE, keys |-> FALSE, sessions |-> "none"]}

\* Where operations are tried, the database is new.
MattersInit == ServerInit /\ (cfg \in Full => tables = {})
MattersNext == ServerNext /\ (cfg \notin Full => job' = job)
MattersSpec == MattersInit /\ [][MattersNext]_serverVars
Symmetry == Permutations(Callers) \union Permutations(Sessions)
=============================================================================
