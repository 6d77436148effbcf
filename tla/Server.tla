------------------------------- MODULE Server -------------------------------
(***************************************************************************)
(* The life of an AdminServer (pkg/server/server.go), and of the server of *)
(* the backend template: New chooses the stores and brings their tables    *)
(* into being, statement by statement, the handler serves, Close gives     *)
(* back the pool; the process may die at any moment and is started again   *)
(* on the same database.  Of what the handler serves, the sessions are     *)
(* here, in the store that New has chosen.                                 *)
(***************************************************************************)
EXTENDS SessionStores

CONSTANTS Configs   \* what New may be called with

\* What New puts into a database: tables, and the template its first rows.
Parts == {"internal", "seed", "sessions", "keys"}

\* Of a Config: whether Store, DatabaseURL, Pool and APIKeys are given, and
\* which SessionStore.  The template has a URL, or none, and nothing else.
Config ==
  [program : {"library"}, store : BOOLEAN, url : BOOLEAN, pool : BOOLEAN, keys : BOOLEAN,
   sessions : {"none", "memory", "cache", "redis"}]
  \union [program : {"template"}, store : {FALSE}, url : BOOLEAN, pool : {FALSE},
          keys : {FALSE}, sessions : {"memory"}]

ASSUME ConfigsAssumption == Configs \subseteq Config

VARIABLES
  cfg,
  phase,   \* how far New is, or what has become of the server
  pool,    \* the pool of connections that New works with
  tables   \* the parts whose tables are in the database

wiring == <<cfg, phase, pool, tables>>
serverVars == <<vars, wiring>>

Own == ~cfg.pool
Postgres == ~cfg.store

\* Built on a pool: where sessions and API keys go when none are given.
KindOf(c) ==
  CASE c.sessions # "none" -> c.sessions
    [] c.sessions = "none" /\ ~c.store -> "postgres"
    [] OTHER -> "memory"

LibraryNeeds ==
  IF Postgres THEN {"internal"} \union {p \in {"sessions"} : cfg.sessions = "none"}
                               \union {p \in {"keys"} : ~cfg.keys}
  ELSE {}
TemplateNeeds == {"internal", "seed", "keys"}
Needed == IF cfg.program = "template" THEN TemplateNeeds ELSE LibraryNeeds

Given == IF cfg.pool THEN "open" ELSE "none"

ServerTypeOK ==
  /\ TypeOK
  /\ cfg \in Configs
  /\ phase \in Parts \union {"new", "connect", "up", "failed", "closed", "dead"}
  /\ pool \in {"none", "open", "closed"}
  /\ tables \subseteq Parts

ServerInit ==
  /\ cfg \in Configs
  /\ Init /\ kind = KindOf(cfg)
  /\ phase = "new" /\ pool = Given
  /\ tables \in {{}, Parts}

-----------------------------------------------------------------------------
Goto(next) == phase' = next /\ UNCHANGED cfg

Valid == (cfg.store \/ cfg.url \/ cfg.pool) /\ ~(cfg.url /\ cfg.pool)

Refuse ==
  /\ phase = "new" /\ ~Valid
  /\ Goto("failed") /\ UNCHANGED <<pool, tables>>

New ==
  /\ phase = "new" /\ Valid
  /\ Goto(IF cfg.store THEN "up" ELSE IF cfg.pool THEN "internal" ELSE "connect")
  /\ UNCHANGED <<pool, tables>>

\* pgxpool.New, which fails on a URL it cannot parse.
Connect ==
  /\ phase = "connect"
  /\ \/ pool' = "open" /\ Goto("internal")
     \/ UNCHANGED pool /\ Goto("failed")
  /\ UNCHANGED tables

\* What New does after part p: the next part that has tables, or it returns.
AfterPart(p) ==
  IF p = "internal" /\ "seed" \in Needed THEN "seed"
  ELSE IF p = "internal" /\ "sessions" \in Needed THEN "sessions"
  ELSE IF p # "keys" /\ "keys" \in Needed THEN "keys"
  ELSE "up"

\* create table if not exists, of store.migrate and the two Migrate.
Migrate ==
  /\ phase \in Parts \ {"seed"}
  /\ tables' = tables \union {phase}
  /\ Goto(AfterPart(phase)) /\ UNCHANGED pool

\* seed: if there is no user, the first rows, in one transaction.
Seed ==
  /\ phase = "seed"
  /\ \/ "seed" \in tables /\ UNCHANGED tables
     \/ "seed" \notin tables /\ tables' = tables \union {"seed"}
  /\ Goto(AfterPart("seed")) /\ UNCHANGED pool

\* (wrong variant: the pool is left to whoever is told of the error)
MigrateFails_PoolLeft ==
  /\ phase \in Parts
  /\ tables' \in {tables, tables \union {phase}}
  /\ Goto("failed") /\ UNCHANGED pool

\* It fails, or its answer is lost: New gives back the pool if it is its own.
MigrateFails ==
  /\ phase \in Parts
  /\ tables' \in {tables, tables \union {phase}}
  /\ pool' = IF Own THEN "closed" ELSE pool
  /\ Goto("failed")

Boot == Refuse \/ New \/ Connect \/ Migrate \/ Seed \/ MigrateFails

\* Deferred by the application, as the last thing it does.
Close ==
  /\ phase = "up"
  /\ pool' = IF Own /\ pool # "none" THEN "closed" ELSE pool
  /\ Goto("closed") /\ UNCHANGED tables
  /\ ProcessEnds

Die ==
  /\ phase \notin {"failed", "closed", "dead"}
  /\ pool' = "none"
  /\ Goto("dead") /\ UNCHANGED tables
  /\ ProcessEnds

Restart ==
  /\ phase \in {"failed", "closed", "dead"}
  /\ pool' = Given
  /\ Goto("new") /\ UNCHANGED tables
  /\ UNCHANGED <<cacheVars, calls, stored>>

\* The routes of the handler exist when New has returned.
Serve ==
  /\ phase = "up"
  /\ (\E c \in Callers : Operation(c)) \/ Cleanup
  /\ UNCHANGED wiring

ServerNext ==
  /\ \/ Boot /\ UNCHANGED <<cacheVars, calls, stored>>
     \/ Serve \/ Close \/ Die \/ Restart
     \/ TimePasses /\ UNCHANGED wiring
  /\ kind' = kind
  /\ WatchSessions

ServerSpec == ServerInit /\ [][ServerNext]_serverVars

-----------------------------------------------------------------------------
\* New is all or nothing: a server that is up has its pool and the tables of
\* every store New has chosen for it, the template also its first rows; one
\* that failed or was closed holds no connection of its own; and a pool that
\* was given stays the caller's ("The caller remains responsible for closing
\* it", server.go:48).
NewIsAllOrNothing ==
  /\ phase = "up" => Needed \subseteq tables /\ (Postgres => pool = "open")
  /\ phase \in {"failed", "closed"} /\ Own => pool # "open"
  /\ phase # "dead" /\ cfg.pool => pool = "open"
=============================================================================
