------------------------------- MODULE Migrate -------------------------------
(***************************************************************************)
(* The migration runner (pkg/migrate/migrate.go).  Several processes may   *)
(* call Up on one database, with different builds of the program; a Runner *)
(* is one such call, a retry or a restart is another.  One action is one   *)
(* SQL statement or one round of the loop in Up.                           *)
(*                                                                         *)
(* The database is modelled from how the code uses it: a transaction shows *)
(* its writes to others when it commits, and an insert waits for an        *)
(* uncommitted row with the same primary key.  Where schema changes cannot *)
(* be rolled back (MySQL) they commit at once and end the transaction.     *)
(***************************************************************************)
EXTENDS Naturals, FiniteSets, Sequences

CONSTANTS Runners,        \* every call of Up there ever is
          Sums,           \* checksums of the SQL texts
          Builds,         \* the migration directories the builds carry
          Failures        \* statements may fail, processes may die

\* Versions are strings that Go compares; only their order matters.
Migration == [version : Nat, sum : Sums]
File == [version : Nat, sum : Sums, isDir : BOOLEAN, isSQL : BOOLEAN]

ASSUME ConstantsAssumption ==
  /\ \A files \in Builds : files \subseteq File /\ IsFiniteSet(files)
  /\ Failures \in BOOLEAN

\* FromFS: the .sql files sorted by version.  sort.Slice is not stable, so
\* files with the same version come in any order.
MigrationsOf(files) ==
  {[version |-> f.version, sum |-> f.sum] : f \in {g \in files : ~g.isDir /\ g.isSQL}}
FromFS(files) ==
  LET all == MigrationsOf(files)
      n == Cardinality(all)
  IN {s \in [1 .. n -> all] :
        \A i, j \in 1 .. n : i < j => s[i] # s[j] /\ s[i].version <= s[j].version}
Plans == UNION {FromFS(files) : files \in Builds}

VARIABLES
  transactional,  \* the database can roll a schema change back
  history,   \* the committed rows of gomyadmin_schema_migrations
  schema,    \* ghost: the migrations whose SQL has taken effect, in order
  plan,      \* plan[r]: the argument of Up
  pc,        \* pc[r]: the statement r executes next
  applied,   \* applied[r]: the rows r read at its start
  next,      \* next[r]: index of the migration r looks at
  writing,   \* writing[r]: uncommitted row of r's transaction
  outcome    \* outcome[r]: what Up returned

vars == <<transactional, history, schema, plan, pc, applied, next, writing, outcome>>

TypeOK ==
  /\ transactional \in BOOLEAN
  /\ history \subseteq Migration
  /\ schema \in Seq(Migration)
  /\ plan \in [Runners -> Plans]
  /\ pc \in [Runners -> {"idle", "ensure", "load", "loop", "exec", "insert", "commit", "done"}]
  /\ applied \in [Runners -> SUBSET Migration]
  /\ next \in [Runners -> Nat \ {0}]
  /\ writing \in [Runners -> SUBSET Migration]
  /\ outcome \in [Runners -> {"none", "ok", "mismatch", "failed"}]

Init ==
  /\ transactional \in BOOLEAN
  /\ history = {}
  /\ schema = << >>
  /\ plan \in [Runners -> Plans]
  /\ pc = [r \in Runners |-> "idle"]
  /\ applied = [r \in Runners |-> {}]
  /\ next = [r \in Runners |-> 1]
  /\ writing = [r \in Runners |-> {}]
  /\ outcome = [r \in Runners |-> "none"]

-----------------------------------------------------------------------------
Current(r) == plan[r][next[r]]
Versions(migrations) == {m.version : m \in migrations}
GoTo(r, label) == pc' = [pc EXCEPT ![r] = label]
Return(r, result) ==
  /\ GoTo(r, "done")
  /\ outcome' = [outcome EXCEPT ![r] = result]

Start(r) ==
  /\ pc[r] = "idle"
  /\ GoTo(r, "ensure")
  /\ UNCHANGED <<history, schema, plan, applied, next, writing, outcome>>

\* ensureTable: create table if not exists.
EnsureTable(r) ==
  /\ pc[r] = "ensure"
  /\ GoTo(r, "load")
  /\ UNCHANGED <<history, schema, plan, applied, next, writing, outcome>>

\* applied: the history is read once, at the start of Up.
LoadApplied(r) ==
  /\ pc[r] = "load"
  /\ applied' = [applied EXCEPT ![r] = history]
  /\ GoTo(r, "loop")
  /\ UNCHANGED <<history, schema, plan, next, writing, outcome>>

\* One round of the loop in Up, up to the BeginTx of apply.
Finish(r) ==
  /\ next[r] > Len(plan[r])
  /\ Return(r, "ok")
  /\ UNCHANGED next
\* (wrong variant: a recorded version is skipped whatever its checksum)
Skip_IgnoresSum(r) ==
  /\ next[r] <= Len(plan[r])
  /\ Current(r).version \in Versions(applied[r])
  /\ next' = [next EXCEPT ![r] = @ + 1]
  /\ UNCHANGED <<pc, outcome>>
Skip(r) ==
  /\ next[r] <= Len(plan[r])
  /\ Current(r) \in applied[r]
  /\ next' = [next EXCEPT ![r] = @ + 1]
  /\ UNCHANGED <<pc, outcome>>
Mismatch(r) ==
  /\ next[r] <= Len(plan[r])
  /\ Current(r) \notin applied[r]
  /\ Current(r).version \in Versions(applied[r])
  /\ Return(r, "mismatch")
  /\ UNCHANGED next
BeginTx(r) ==
  /\ next[r] <= Len(plan[r])
  /\ Current(r).version \notin Versions(applied[r])
  /\ GoTo(r, "exec")
  /\ UNCHANGED <<next, outcome>>

Check(r) ==
  /\ pc[r] = "loop"
  /\ Finish(r) \/ Skip(r) \/ Mismatch(r) \/ BeginTx(r)
  /\ UNCHANGED <<history, schema, plan, applied, writing>>

-----------------------------------------------------------------------------
\* (wrong variant: the deferred function does not see the error)
Rollback_Skipped(r) == UNCHANGED writing

Rollback(r) == writing' = [writing EXCEPT ![r] = {}]

\* apply: the SQL of the migration.
Execute(r) ==
  /\ pc[r] = "exec"
  /\ schema' = IF transactional THEN schema ELSE Append(schema, Current(r))
  /\ GoTo(r, "insert")
  /\ UNCHANGED <<history, plan, applied, next, writing, outcome>>

RowIsFree(r) ==
  \A q \in Runners \ {r} : Current(r).version \notin Versions(writing[q])

\* (wrong variant: insert ... on conflict do nothing)
Record_IgnoresConflict(r) ==
  /\ pc[r] = "insert"
  /\ RowIsFree(r)
  /\ writing' = [writing EXCEPT ![r] = {Current(r)}]
  /\ GoTo(r, "commit")
  /\ UNCHANGED <<history, schema, plan, applied, next, outcome>>

\* apply: the row of the migration; without transaction it is there at once.
Record(r) ==
  /\ pc[r] = "insert"
  /\ RowIsFree(r)
  /\ Current(r).version \notin Versions(history)
  /\ \/ /\ transactional
        /\ writing' = [writing EXCEPT ![r] = {Current(r)}]
        /\ UNCHANGED history
     \/ /\ ~transactional
        /\ history' = history \union {Current(r)}
        /\ UNCHANGED writing
  /\ GoTo(r, "commit")
  /\ UNCHANGED <<schema, plan, applied, next, outcome>>

\* The primary key: another runner was faster, or the build carries a version
\* twice.
RecordConflict(r) ==
  /\ pc[r] = "insert"
  /\ Current(r).version \in Versions(history)
  /\ Rollback(r)
  /\ Return(r, "failed")
  /\ UNCHANGED <<history, schema, plan, applied, next>>

CommitTx(r) ==
  /\ history' = history \union writing[r]
  /\ schema' = IF transactional THEN Append(schema, Current(r)) ELSE schema
  /\ writing' = [writing EXCEPT ![r] = {}]

Commit(r) ==
  /\ pc[r] = "commit"
  /\ CommitTx(r)
  /\ next' = [next EXCEPT ![r] = @ + 1]
  /\ GoTo(r, "loop")
  /\ UNCHANGED <<plan, applied, outcome>>

\* (wrong variant: Up goes on with the next migration after an error)
Fail_Continues(r) ==
  /\ Failures
  /\ pc[r] \in {"exec", "insert", "commit"}
  /\ Rollback(r)
  /\ next' = [next EXCEPT ![r] = @ + 1]
  /\ GoTo(r, "loop")
  /\ UNCHANGED <<history, schema, plan, applied, outcome>>

\* (wrong variant: a failed migration is recorded all the same)
Fail_Recorded(r) ==
  /\ Failures
  /\ pc[r] = "exec"
  /\ history' = history \union {Current(r)}
  /\ Return(r, "failed")
  /\ UNCHANGED <<schema, plan, applied, next, writing>>

\* A statement fails, the context ends, or the process dies: the transaction
\* is rolled back, by the deferred Rollback or by the database.
Fail(r) ==
  /\ Failures
  /\ pc[r] \in {"ensure", "load", "exec", "insert", "commit"}
  /\ Rollback(r)
  /\ Return(r, "failed")
  /\ UNCHANGED <<history, schema, plan, applied, next>>

\* The commit is done but its answer does not arrive.
FailAfterCommit(r) ==
  /\ Failures
  /\ pc[r] = "commit"
  /\ CommitTx(r)
  /\ Return(r, "failed")
  /\ UNCHANGED <<plan, applied, next>>

Statement(r) ==
  \/ EnsureTable(r) \/ LoadApplied(r) \/ Check(r)
  \/ Execute(r) \/ Record(r) \/ RecordConflict(r) \/ Commit(r)

Next ==
  /\ \E r \in Runners : Start(r) \/ Statement(r) \/ Fail(r) \/ FailAfterCommit(r)
  /\ UNCHANGED transactional

Spec == Init /\ [][Next]_vars
\* Processes are scheduled and the database executes what it is sent.
Fairness == \A r \in Runners : WF_vars(Statement(r) /\ UNCHANGED transactional)
FairSpec == Spec /\ Fairness

-----------------------------------------------------------------------------
InEffect == {schema[i] : i \in 1 .. Len(schema)}

\* No version ever takes effect twice, however many runners race and crash,
\* where schema changes can be rolled back.
AtMostOnce ==
  transactional =>
    \A i, j \in 1 .. Len(schema) : schema[i].version = schema[j].version => i = j

\* The history tells what has been done: a row is there only if its SQL has
\* taken effect, and whenever it has (apply does both in one transaction).
\* Where schema changes commit by themselves, the second half is lost.
HistoryIsTrue ==
  /\ history \subseteq InEffect
  /\ transactional => InEffect \subseteq history

\* Up returns nil only when every migration of its build is recorded with its
\* own checksum, and it has passed over none: an edited migration stops it.
OkMeansUpToDate ==
  \A r \in Runners :
    /\ \A i \in 1 .. Len(plan[r]) : i < next[r] => plan[r][i] \in history
    /\ outcome[r] = "ok" => next[r] > Len(plan[r])

\* Every call of Up returns, also when runners wait for each other's rows.
UpReturns == \A r \in Runners : pc[r] # "idle" ~> pc[r] = "done"

\* Old, new and diverging builds, racing and crashing, apply nothing out of
\* the order of their directories.
History == INSTANCE MigrationHistory WITH log <- schema
ImplementsHistory == History!Spec

-----------------------------------------------------------------------------
\* Why it holds: r works on a version nobody has recorded, behind a stretch of
\* its plan that is recorded, and the primary key keeps the others out.
Positions ==
  \A r \in Runners :
    /\ pc[r] \in {"exec", "insert", "commit"} => next[r] <= Len(plan[r])
    /\ pc[r] \in {"idle", "ensure", "load"} => next[r] = 1
    /\ applied[r] \subseteq history
Reserved ==
  \A r \in Runners :
    /\ pc[r] # "commit" \/ ~transactional => writing[r] = {}
    /\ pc[r] = "commit" /\ transactional =>
         /\ writing[r] = {Current(r)}
         /\ Current(r).version \notin Versions(history)
         /\ \A q \in Runners \ {r} : pc[q] = "commit" => Current(q).version # Current(r).version
\* Without transactions a row is written after the SQL and before the commit.
Executed ==
  ~transactional =>
    \A r \in Runners : /\ pc[r] = "insert" => Current(r) \in InEffect
                       /\ pc[r] = "commit" => Current(r) \in history

IInv ==
  /\ TypeOK
  /\ AtMostOnce
  /\ HistoryIsTrue
  /\ OkMeansUpToDate
  /\ Positions
  /\ Reserved
  /\ Executed
=============================================================================
