----------------------------- MODULE MCGenerator -----------------------------
(* A project of three files, one of them at the top, and a schema in which   *)
(* two tables are one resource.                                              *)
EXTENDS Generator, TLC

CONSTANTS readme, server, resources, spec, user

OpenAPI_json == [dir |-> "root", name |-> spec]

One == <<[stem |-> user, plural |-> FALSE]>>
Many == <<[stem |-> user, plural |-> TRUE]>>
Command(cmd, force, names) == [cmd |-> cmd, force |-> force, names |-> names]
SomeCalls ==
  {Command(cmd, FALSE, <<>>) : cmd \in {"init", "demo", "openapi"}}
  \union {Command("resource", force, <<One>>) : force \in BOOLEAN}
  \union {Command("schema", force, <<Many, One>>) : force \in BOOLEAN}

Symmetry == Permutations(Commands)
=============================================================================
