--------------------------- MODULE DatabaseProofs ---------------------------
(* Proofs about the two ways to the database tables.  Migrate, for any number *)
(* of runners and any builds, whether the database can roll schema changes    *)
(* back or not; and Listing, for any rows, conditions, orders and limits and  *)
(* any number of writes between the statements of a list.                     *)
EXTENDS Migrate, Listing, FiniteSetTheorems, SequenceTheorems, TLAPS

\* FromFS returns sequences of migrations.
LEMMA PlanType == ASSUME NEW p \in Plans PROVE p \in Seq(Migration)
<1>1. PICK files \in Builds : p \in FromFS(files)
  BY DEF Plans
<1> DEFINE all == MigrationsOf(files)
           n == Cardinality(all)
<1>2. p \in [1 .. n -> all]
  BY <1>1 DEF FromFS
<1>3. IsFiniteSet(files) /\ files \subseteq File
  BY ConstantsAssumption
<1>4. all \subseteq Migration
  BY <1>3 DEF MigrationsOf, File, Migration
<1>5. IsFiniteSet({g \in files : ~g.isDir /\ g.isSQL})
  BY <1>3, FS_Subset, {g \in files : ~g.isDir /\ g.isSQL} \subseteq files, Zenon
<1>6. IsFiniteSet(all)
  <2> DEFINE F(f) == [version |-> f.version, sum |-> f.sum]
             S == {g \in files : ~g.isDir /\ g.isSQL}
  <2>1. all = {F(f) : f \in S}
    BY DEF MigrationsOf
  <2>2. IsFiniteSet({F(f) : f \in S})
    <3> DEFINE g == [f \in S |-> F(f)]
    <3>1. {F(f) : f \in S} = {g[f] : f \in S}
      OBVIOUS
    <3>2. g \in Surjection(S, {g[f] : f \in S})
      BY DEF Surjection
    <3> QED
      BY <1>5, <3>1, <3>2, FS_Surjection
  <2> QED
    BY <2>1, <2>2
<1>7. n \in Nat
  BY <1>6, FS_CardinalityType
<1> HIDE DEF n, all
<1> QED
  BY <1>2, <1>4, <1>7

\* What every runner is given, and the migration it looks at.
LEMMA PlanTypes ==
  ASSUME TypeOK
  PROVE  \A q \in Runners : /\ plan[q] \in Seq(Migration)
                            /\ next[q] <= Len(plan[q]) => Current(q) \in Migration
  BY PlanType DEF TypeOK, Current

\* What a sequence holds after one more element is appended.
LEMMA AppendElements ==
  ASSUME NEW S, NEW s \in Seq(S), NEW e \in S
  PROVE  {Append(s, e)[i] : i \in 1 .. Len(Append(s, e))} = {s[i] : i \in 1 .. Len(s)} \union {e}
<1>1. /\ Len(Append(s, e)) = Len(s) + 1 /\ Len(s) \in Nat
      /\ \A i \in 1 .. Len(s) : Append(s, e)[i] = s[i]
      /\ Append(s, e)[Len(s) + 1] = e
  OBVIOUS
<1>2. 1 .. Len(Append(s, e)) = (1 .. Len(s)) \union {Len(s) + 1}
  BY <1>1
<1> QED
  BY <1>1, <1>2, Zenon

\* What is in effect once a migration more has run.
LEMMA AppendInEffect ==
  ASSUME TypeOK, NEW m \in Migration, schema' = Append(schema, m)
  PROVE  InEffect' = InEffect \union {m}
<1>1. schema \in Seq(Migration)
  BY DEF TypeOK
<1>2. InEffect' = {Append(schema, m)[i] : i \in 1 .. Len(Append(schema, m))}
  BY Zenon DEF InEffect
<1>3. {Append(schema, m)[i] : i \in 1 .. Len(Append(schema, m))} = {schema[i] : i \in 1 .. Len(schema)} \union {m}
  BY <1>1, AppendElements
<1> QED
  BY <1>2, <1>3 DEF InEffect

\* The types of the history and of the open transactions after one more row.
LEMMA RecordTypes ==
  ASSUME history \subseteq Migration, writing \in [Runners -> SUBSET Migration],
         NEW r \in Runners, Current(r) \in Migration, Record(r)
  PROVE  history' \subseteq Migration /\ writing' \in [Runners -> SUBSET Migration]
<1>1. CASE history' = history /\ writing' = [writing EXCEPT ![r] = {Current(r)}]
  BY <1>1
<1>2. CASE history' = history \union {Current(r)} /\ writing' = writing
  BY <1>2
<1> QED
  BY <1>1, <1>2, Zenon DEF Record

\* The initial states satisfy the invariant.
LEMMA InitIInv == Init => IInv
  BY DEF Init, IInv, TypeOK, AtMostOnce, HistoryIsTrue, OkMeansUpToDate, Positions, Reserved, Executed, InEffect

\* The types are kept.
LEMMA StepType ==
  ASSUME IInv, [Next]_vars
  PROVE  TypeOK'
<1> USE DEF IInv, TypeOK, Positions, Reserved
<1>same. transactional' = transactional
  BY DEF Next, vars
<1>plan. \A q \in Runners : plan[q] \in Seq(Migration) /\ (next[q] <= Len(plan[q]) => Current(q) \in Migration)
  BY PlanTypes
<1>1. ASSUME NEW r \in Runners, Start(r) PROVE TypeOK'
  BY <1>1, <1>plan, <1>same DEF Start, GoTo
<1>2. ASSUME NEW r \in Runners, EnsureTable(r) PROVE TypeOK'
  BY <1>2, <1>plan, <1>same DEF EnsureTable, GoTo
<1>3. ASSUME NEW r \in Runners, LoadApplied(r) PROVE TypeOK'
  BY <1>3, <1>plan, <1>same DEF LoadApplied, GoTo
<1>4. ASSUME NEW r \in Runners, Check(r) PROVE TypeOK'
  <2>1. CASE Finish(r)
    BY <1>4, <2>1, <1>plan, <1>same DEF Check, Finish, GoTo, Return
  <2>2. CASE Skip(r)
    BY <1>4, <2>2, <1>plan, <1>same DEF Check, Skip, GoTo, Return
  <2>3. CASE Mismatch(r)
    BY <1>4, <2>3, <1>plan, <1>same DEF Check, Mismatch, GoTo, Return
  <2>4. CASE BeginTx(r)
    BY <1>4, <2>4, <1>plan, <1>same DEF Check, BeginTx, GoTo, Return
  <2> QED
    BY <1>4, <2>1, <2>2, <2>3, <2>4 DEF Check
<1>5. ASSUME NEW r \in Runners, Execute(r) PROVE TypeOK'
  BY <1>5, <1>plan, <1>same DEF Execute, GoTo
<1>6. ASSUME NEW r \in Runners, Record(r) PROVE TypeOK'
  <2>1. Current(r) \in Migration
    BY <1>6, <1>plan, <1>same DEF Record
  <2>2. history' \subseteq Migration /\ writing' \in [Runners -> SUBSET Migration]
    BY <1>6, <2>1, RecordTypes
  <2>3. pc' = [pc EXCEPT ![r] = "commit"] /\ UNCHANGED <<schema, plan, applied, next, outcome>>
    BY <1>6 DEF Record, GoTo
  <2> QED
    BY <2>1, <2>2, <2>3, <1>plan, <1>same
<1>7. ASSUME NEW r \in Runners, RecordConflict(r) PROVE TypeOK'
  BY <1>7, <1>plan, <1>same DEF RecordConflict, GoTo, Return, Rollback
<1>8. ASSUME NEW r \in Runners, Commit(r) PROVE TypeOK'
  BY <1>8, <1>plan, <1>same DEF Commit, CommitTx, GoTo
<1>9. ASSUME NEW r \in Runners, Fail(r) PROVE TypeOK'
  BY <1>9, <1>plan, <1>same DEF Fail, GoTo, Return, Rollback
<1>10. ASSUME NEW r \in Runners, FailAfterCommit(r) PROVE TypeOK'
  BY <1>10, <1>plan, <1>same DEF FailAfterCommit, CommitTx, GoTo, Return
<1>11. CASE UNCHANGED vars
  BY <1>11 DEF vars
<1> QED
  BY <1>1, <1>2, <1>3, <1>4, <1>5, <1>6, <1>7, <1>8, <1>9, <1>10, <1>11 DEF Next, Statement

\* What a commit appends was free until then.
LEMMA CommitOnce ==
  ASSUME IInv, NEW r \in Runners, pc[r] = "commit", CommitTx(r), transactional' = transactional
  PROVE  AtMostOnce'
<1>1. CASE ~transactional
  BY <1>1 DEF AtMostOnce
<1>2. CASE transactional
  <2>1. /\ schema' = Append(schema, Current(r))
        /\ schema \in Seq(Migration) /\ Current(r) \in Migration
    BY <1>2, PlanTypes DEF CommitTx, IInv, TypeOK, Positions
  <2>2. \A i \in 1 .. Len(schema) : schema[i] \in history
    BY <1>2 DEF IInv, HistoryIsTrue, InEffect
  <2>3. \A i \in 1 .. Len(schema) : schema[i].version # Current(r).version
    BY <1>2, <2>2 DEF IInv, Reserved, Versions
  <2>4. \A i, j \in 1 .. Len(schema) : schema[i].version = schema[j].version => i = j
    BY <1>2 DEF IInv, AtMostOnce
  <2>5. /\ Len(schema') = Len(schema) + 1 /\ Len(schema) \in Nat
        /\ \A i \in 1 .. Len(schema) : schema'[i] = schema[i]
        /\ schema'[Len(schema) + 1] = Current(r)
    BY <2>1
  <2>6. \A i, j \in 1 .. Len(schema') : schema'[i].version = schema'[j].version => i = j
    <3> SUFFICES ASSUME NEW i \in 1 .. Len(schema'), NEW j \in 1 .. Len(schema'),
                        schema'[i].version = schema'[j].version
                 PROVE  i = j
      OBVIOUS
    <3>1. i \in 1 .. Len(schema) \/ i = Len(schema) + 1
      BY <2>5
    <3>2. j \in 1 .. Len(schema) \/ j = Len(schema) + 1
      BY <2>5
    <3> QED
      BY <2>3, <2>4, <2>5, <3>1, <3>2
  <2> QED
    BY <2>6 DEF AtMostOnce
<1> QED
  BY <1>1, <1>2

\* Nothing takes effect twice: what Commit appends was free until then.
LEMMA StepOnce ==
  ASSUME IInv, [Next]_vars
  PROVE  AtMostOnce'
<1> USE DEF IInv, TypeOK, AtMostOnce, HistoryIsTrue, InEffect, Positions, Reserved, Current, Versions, Migration
<1>same. transactional' = transactional
  BY DEF Next, vars
<1>plan. \A q \in Runners : plan[q] \in Seq(Migration) /\ (next[q] <= Len(plan[q]) => Current(q) \in Migration)
  BY PlanTypes
<1>1. ASSUME NEW r \in Runners, Start(r) PROVE AtMostOnce'
  BY <1>1, <1>plan, <1>same DEF Start, GoTo
<1>2. ASSUME NEW r \in Runners, EnsureTable(r) PROVE AtMostOnce'
  BY <1>2, <1>plan, <1>same DEF EnsureTable, GoTo
<1>3. ASSUME NEW r \in Runners, LoadApplied(r) PROVE AtMostOnce'
  BY <1>3, <1>plan, <1>same DEF LoadApplied, GoTo
<1>4. ASSUME NEW r \in Runners, Check(r) PROVE AtMostOnce'
  <2>1. CASE Finish(r)
    BY <1>4, <2>1, <1>plan, <1>same DEF Check, Finish, GoTo, Return
  <2>2. CASE Skip(r)
    BY <1>4, <2>2, <1>plan, <1>same DEF Check, Skip, GoTo, Return
  <2>3. CASE Mismatch(r)
    BY <1>4, <2>3, <1>plan, <1>same DEF Check, Mismatch, GoTo, Return
  <2>4. CASE BeginTx(r)
    BY <1>4, <2>4, <1>plan, <1>same DEF Check, BeginTx, GoTo, Return
  <2> QED
    BY <1>4, <2>1, <2>2, <2>3, <2>4 DEF Check
<1>5. ASSUME NEW r \in Runners, Execute(r) PROVE AtMostOnce'
  BY <1>5, <1>plan, <1>same DEF Execute, GoTo
<1>6. ASSUME NEW r \in Runners, Record(r) PROVE AtMostOnce'
  BY <1>6, <1>plan, <1>same DEF Record, GoTo, RowIsFree
<1>7. ASSUME NEW r \in Runners, RecordConflict(r) PROVE AtMostOnce'
  BY <1>7, <1>plan, <1>same DEF RecordConflict, GoTo, Return, Rollback
<1>8. ASSUME NEW r \in Runners, Commit(r) PROVE AtMostOnce'
  <2>1. pc[r] = "commit" /\ CommitTx(r)
    BY <1>8 DEF Commit
  <2> QED
    BY <2>1, <1>same, CommitOnce, Zenon
<1>9. ASSUME NEW r \in Runners, Fail(r) PROVE AtMostOnce'
  BY <1>9, <1>plan, <1>same DEF Fail, GoTo, Return, Rollback
<1>10. ASSUME NEW r \in Runners, FailAfterCommit(r) PROVE AtMostOnce'
  <2>1. pc[r] = "commit" /\ CommitTx(r)
    BY <1>10 DEF FailAfterCommit
  <2> QED
    BY <2>1, <1>same, CommitOnce, Zenon
<1>11. CASE UNCHANGED vars
  BY <1>11 DEF vars
<1> QED
  BY <1>1, <1>2, <1>3, <1>4, <1>5, <1>6, <1>7, <1>8, <1>9, <1>10, <1>11 DEF Next, Statement

\* Commit records and applies the same migration.
LEMMA StepRecorded ==
  ASSUME IInv, [Next]_vars
  PROVE  HistoryIsTrue'
<1> USE DEF IInv, TypeOK, HistoryIsTrue, InEffect, Positions, Reserved, Executed, Current
<1>same. transactional' = transactional
  BY DEF Next, vars
<1>plan. \A q \in Runners : plan[q] \in Seq(Migration) /\ (next[q] <= Len(plan[q]) => Current(q) \in Migration)
  BY PlanTypes
<1>1. ASSUME NEW r \in Runners, Start(r) PROVE HistoryIsTrue'
  BY <1>1, <1>plan, <1>same DEF Start, GoTo
<1>2. ASSUME NEW r \in Runners, EnsureTable(r) PROVE HistoryIsTrue'
  BY <1>2, <1>plan, <1>same DEF EnsureTable, GoTo
<1>3. ASSUME NEW r \in Runners, LoadApplied(r) PROVE HistoryIsTrue'
  BY <1>3, <1>plan, <1>same DEF LoadApplied, GoTo
<1>4. ASSUME NEW r \in Runners, Check(r) PROVE HistoryIsTrue'
  <2>1. CASE Finish(r)
    BY <1>4, <2>1, <1>plan, <1>same DEF Check, Finish, GoTo, Return
  <2>2. CASE Skip(r)
    BY <1>4, <2>2, <1>plan, <1>same DEF Check, Skip, GoTo, Return
  <2>3. CASE Mismatch(r)
    BY <1>4, <2>3, <1>plan, <1>same DEF Check, Mismatch, GoTo, Return
  <2>4. CASE BeginTx(r)
    BY <1>4, <2>4, <1>plan, <1>same DEF Check, BeginTx, GoTo, Return
  <2> QED
    BY <1>4, <2>1, <2>2, <2>3, <2>4 DEF Check
<1>5. ASSUME NEW r \in Runners, Execute(r) PROVE HistoryIsTrue'
  BY <1>5, <1>plan, <1>same DEF Execute, GoTo
<1>6. ASSUME NEW r \in Runners, Record(r) PROVE HistoryIsTrue'
  <2>1. /\ pc[r] = "insert" /\ UNCHANGED schema
        /\ \/ transactional /\ UNCHANGED history
           \/ ~transactional /\ history' = history \union {Current(r)}
    BY <1>6, Zenon DEF Record
  <2>2. InEffect' = InEffect
    BY <2>1
  <2>3. ~transactional => Current(r) \in InEffect
    BY <2>1
  <2> HIDE DEF IInv, TypeOK, InEffect, Current, Positions, Reserved, Executed
  <2>4. history \subseteq InEffect /\ (transactional => InEffect \subseteq history)
    BY DEF IInv
  <2> QED
    BY <2>1, <2>2, <2>3, <2>4, <1>same
<1>7. ASSUME NEW r \in Runners, RecordConflict(r) PROVE HistoryIsTrue'
  BY <1>7, <1>plan, <1>same DEF RecordConflict, GoTo, Return, Rollback
<1>8. ASSUME NEW r \in Runners, Commit(r) PROVE HistoryIsTrue'
  <2>1. pc[r] = "commit" /\ history' = history \union writing[r]
    BY <1>8 DEF Commit, CommitTx
  <2>2. CASE transactional
    <3>1. schema' = Append(schema, Current(r)) /\ writing[r] = {Current(r)}
      BY <1>8, <2>1, <2>2 DEF Commit, CommitTx
    <3>2. Current(r) \in Migration
      BY <2>1, <1>plan
    <3>3. InEffect' = InEffect \union {Current(r)}
      <4> HIDE DEF Current, InEffect, TypeOK
      <4> QED
        BY <3>1, <3>2, AppendInEffect DEF IInv
    <3> QED
      BY <2>1, <2>2, <3>1, <3>3, <1>same
  <2>3. CASE ~transactional
    BY <1>8, <2>1, <2>3, <1>same DEF Commit, CommitTx
  <2> QED
    BY <2>2, <2>3
<1>9. ASSUME NEW r \in Runners, Fail(r) PROVE HistoryIsTrue'
  BY <1>9, <1>plan, <1>same DEF Fail, GoTo, Return, Rollback
<1>10. ASSUME NEW r \in Runners, FailAfterCommit(r) PROVE HistoryIsTrue'
  <2>1. pc[r] = "commit" /\ history' = history \union writing[r]
    BY <1>10 DEF FailAfterCommit, CommitTx
  <2>2. CASE transactional
    <3>1. schema' = Append(schema, Current(r)) /\ writing[r] = {Current(r)}
      BY <1>10, <2>1, <2>2 DEF FailAfterCommit, CommitTx
    <3>2. Current(r) \in Migration
      BY <2>1, <1>plan
    <3>3. InEffect' = InEffect \union {Current(r)}
      <4> HIDE DEF Current, InEffect, TypeOK
      <4> QED
        BY <3>1, <3>2, AppendInEffect DEF IInv
    <3> QED
      BY <2>1, <2>2, <3>1, <3>3, <1>same
  <2>3. CASE ~transactional
    BY <1>10, <2>1, <2>3, <1>same DEF FailAfterCommit, CommitTx
  <2> QED
    BY <2>2, <2>3
<1>11. CASE UNCHANGED vars
  BY <1>11 DEF vars
<1> QED
  BY <1>1, <1>2, <1>3, <1>4, <1>5, <1>6, <1>7, <1>8, <1>9, <1>10, <1>11 DEF Next, Statement

\* Up moves on only over what is recorded.
LEMMA StepOk ==
  ASSUME IInv, [Next]_vars
  PROVE  OkMeansUpToDate'
<1> USE DEF IInv, TypeOK, OkMeansUpToDate, Positions, Reserved, Executed, Current
<1>same. transactional' = transactional
  BY DEF Next, vars
<1>plan. \A q \in Runners : plan[q] \in Seq(Migration) /\ (next[q] <= Len(plan[q]) => Current(q) \in Migration)
  BY PlanTypes
<1>1. ASSUME NEW r \in Runners, Start(r) PROVE OkMeansUpToDate'
  BY <1>1, <1>plan, <1>same DEF Start, GoTo
<1>2. ASSUME NEW r \in Runners, EnsureTable(r) PROVE OkMeansUpToDate'
  BY <1>2, <1>plan, <1>same DEF EnsureTable, GoTo
<1>3. ASSUME NEW r \in Runners, LoadApplied(r) PROVE OkMeansUpToDate'
  BY <1>3, <1>plan, <1>same DEF LoadApplied, GoTo
<1>4. ASSUME NEW r \in Runners, Check(r) PROVE OkMeansUpToDate'
  <2>1. CASE Finish(r)
    BY <1>4, <2>1, <1>plan, <1>same DEF Check, Finish, GoTo, Return
  <2>2. CASE Skip(r)
    BY <1>4, <2>2, <1>plan, <1>same DEF Check, Skip, GoTo, Return
  <2>3. CASE Mismatch(r)
    BY <1>4, <2>3, <1>plan, <1>same DEF Check, Mismatch, GoTo, Return
  <2>4. CASE BeginTx(r)
    BY <1>4, <2>4, <1>plan, <1>same DEF Check, BeginTx, GoTo, Return
  <2> QED
    BY <1>4, <2>1, <2>2, <2>3, <2>4 DEF Check
<1>5. ASSUME NEW r \in Runners, Execute(r) PROVE OkMeansUpToDate'
  BY <1>5, <1>plan, <1>same DEF Execute, GoTo
<1>6. ASSUME NEW r \in Runners, Record(r) PROVE OkMeansUpToDate'
  BY <1>6, <1>plan, <1>same DEF Record, GoTo, RowIsFree
<1>7. ASSUME NEW r \in Runners, RecordConflict(r) PROVE OkMeansUpToDate'
  BY <1>7, <1>plan, <1>same DEF RecordConflict, GoTo, Return, Rollback
<1>8. ASSUME NEW r \in Runners, Commit(r) PROVE OkMeansUpToDate'
  BY <1>8, <1>plan, <1>same DEF Commit, CommitTx, GoTo
<1>9. ASSUME NEW r \in Runners, Fail(r) PROVE OkMeansUpToDate'
  BY <1>9, <1>plan, <1>same DEF Fail, GoTo, Return, Rollback
<1>10. ASSUME NEW r \in Runners, FailAfterCommit(r) PROVE OkMeansUpToDate'
  BY <1>10, <1>plan, <1>same DEF FailAfterCommit, CommitTx, GoTo, Return
<1>11. CASE UNCHANGED vars
  BY <1>11 DEF vars
<1> QED
  BY <1>1, <1>2, <1>3, <1>4, <1>5, <1>6, <1>7, <1>8, <1>9, <1>10, <1>11 DEF Next, Statement

\* The loop stays within the plan.
LEMMA StepPositions ==
  ASSUME IInv, [Next]_vars
  PROVE  Positions'
<1> USE DEF IInv, TypeOK, Positions, Reserved
<1>same. transactional' = transactional
  BY DEF Next, vars
<1>plan. \A q \in Runners : plan[q] \in Seq(Migration) /\ (next[q] <= Len(plan[q]) => Current(q) \in Migration)
  BY PlanTypes
<1>1. ASSUME NEW r \in Runners, Start(r) PROVE Positions'
  BY <1>1, <1>plan, <1>same DEF Start, GoTo
<1>2. ASSUME NEW r \in Runners, EnsureTable(r) PROVE Positions'
  BY <1>2, <1>plan, <1>same DEF EnsureTable, GoTo
<1>3. ASSUME NEW r \in Runners, LoadApplied(r) PROVE Positions'
  BY <1>3, <1>plan, <1>same DEF LoadApplied, GoTo
<1>4. ASSUME NEW r \in Runners, Check(r) PROVE Positions'
  <2>1. CASE Finish(r)
    BY <1>4, <2>1, <1>plan, <1>same DEF Check, Finish, GoTo, Return
  <2>2. CASE Skip(r)
    BY <1>4, <2>2, <1>plan, <1>same DEF Check, Skip, GoTo, Return
  <2>3. CASE Mismatch(r)
    BY <1>4, <2>3, <1>plan, <1>same DEF Check, Mismatch, GoTo, Return
  <2>4. CASE BeginTx(r)
    BY <1>4, <2>4, <1>plan, <1>same DEF Check, BeginTx, GoTo, Return
  <2> QED
    BY <1>4, <2>1, <2>2, <2>3, <2>4 DEF Check
<1>5. ASSUME NEW r \in Runners, Execute(r) PROVE Positions'
  BY <1>5, <1>plan, <1>same DEF Execute, GoTo
<1>6. ASSUME NEW r \in Runners, Record(r) PROVE Positions'
  BY <1>6, <1>plan, <1>same DEF Record, GoTo, RowIsFree
<1>7. ASSUME NEW r \in Runners, RecordConflict(r) PROVE Positions'
  BY <1>7, <1>plan, <1>same DEF RecordConflict, GoTo, Return, Rollback
<1>8. ASSUME NEW r \in Runners, Commit(r) PROVE Positions'
  BY <1>8, <1>plan, <1>same DEF Commit, CommitTx, GoTo
<1>9. ASSUME NEW r \in Runners, Fail(r) PROVE Positions'
  BY <1>9, <1>plan, <1>same DEF Fail, GoTo, Return, Rollback
<1>10. ASSUME NEW r \in Runners, FailAfterCommit(r) PROVE Positions'
  BY <1>10, <1>plan, <1>same DEF FailAfterCommit, CommitTx, GoTo, Return
<1>11. CASE UNCHANGED vars
  BY <1>11 DEF vars
<1> QED
  BY <1>1, <1>2, <1>3, <1>4, <1>5, <1>6, <1>7, <1>8, <1>9, <1>10, <1>11 DEF Next, Statement

\* A runner inserts its row when no other transaction holds the version.
LEMMA RecordReserves ==
  ASSUME IInv, NEW r \in Runners, Record(r), transactional' = transactional
  PROVE  Reserved'
<1> USE DEF IInv, Reserved
<1>1. /\ \A q \in Runners : Current(q)' = Current(q)
      /\ pc' = [pc EXCEPT ![r] = "commit"] /\ pc \in [Runners -> {pc[q] : q \in Runners}]
      /\ writing \in [Runners -> SUBSET Migration]
  BY DEF Record, GoTo, Current, TypeOK
<1>2. CASE ~transactional
  BY <1>1, <1>2 DEF Record
<1>3. CASE transactional
  <2>1. writing' = [writing EXCEPT ![r] = {Current(r)}] /\ history' = history
    BY <1>3 DEF Record
  <2>2. Current(r).version \notin Versions(history)
    BY DEF Record
  <2>3. \A q \in Runners \ {r} : pc[q] = "commit" => Current(q).version # Current(r).version
    BY <1>3 DEF Record, RowIsFree, Versions
  <2> HIDE DEF Reserved
  <2>4. ASSUME NEW q \in Runners
        PROVE  /\ pc'[q] # "commit" => writing'[q] = {}
               /\ pc'[q] = "commit" =>
                    /\ writing'[q] = {Current(q)}
                    /\ Current(q).version \notin Versions(history)
                    /\ \A p \in Runners \ {q} : pc'[p] = "commit" => Current(p).version # Current(q).version
    BY <1>1, <1>3, <2>1, <2>2, <2>3 DEF Reserved
  <2> QED
    BY <1>1, <1>3, <2>1, <2>4 DEF Reserved
<1> QED
  BY <1>2, <1>3

\* The primary key reserves a version for one transaction.
LEMMA StepReserved ==
  ASSUME IInv, [Next]_vars
  PROVE  Reserved'
<1> USE DEF IInv, TypeOK, Positions, Reserved, Current, Versions, Migration
<1>same. transactional' = transactional
  BY DEF Next, vars
<1>plan. \A q \in Runners : plan[q] \in Seq(Migration) /\ (next[q] <= Len(plan[q]) => Current(q) \in Migration)
  BY PlanTypes
<1>1. ASSUME NEW r \in Runners, Start(r) PROVE Reserved'
  BY <1>1, <1>plan, <1>same DEF Start, GoTo
<1>2. ASSUME NEW r \in Runners, EnsureTable(r) PROVE Reserved'
  BY <1>2, <1>plan, <1>same DEF EnsureTable, GoTo
<1>3. ASSUME NEW r \in Runners, LoadApplied(r) PROVE Reserved'
  BY <1>3, <1>plan, <1>same DEF LoadApplied, GoTo
<1>4. ASSUME NEW r \in Runners, Check(r) PROVE Reserved'
  <2>1. CASE Finish(r)
    BY <1>4, <2>1, <1>plan, <1>same DEF Check, Finish, GoTo, Return
  <2>2. CASE Skip(r)
    BY <1>4, <2>2, <1>plan, <1>same DEF Check, Skip, GoTo, Return
  <2>3. CASE Mismatch(r)
    BY <1>4, <2>3, <1>plan, <1>same DEF Check, Mismatch, GoTo, Return
  <2>4. CASE BeginTx(r)
    BY <1>4, <2>4, <1>plan, <1>same DEF Check, BeginTx, GoTo, Return
  <2> QED
    BY <1>4, <2>1, <2>2, <2>3, <2>4 DEF Check
<1>5. ASSUME NEW r \in Runners, Execute(r) PROVE Reserved'
  BY <1>5, <1>plan, <1>same DEF Execute, GoTo
<1>6. ASSUME NEW r \in Runners, Record(r) PROVE Reserved'
  BY <1>6, <1>same, RecordReserves
<1>7. ASSUME NEW r \in Runners, RecordConflict(r) PROVE Reserved'
  BY <1>7, <1>plan, <1>same DEF RecordConflict, GoTo, Return, Rollback
<1>8. ASSUME NEW r \in Runners, Commit(r) PROVE Reserved'
  BY <1>8, <1>plan, <1>same DEF Commit, CommitTx, GoTo
<1>9. ASSUME NEW r \in Runners, Fail(r) PROVE Reserved'
  BY <1>9, <1>plan, <1>same DEF Fail, GoTo, Return, Rollback
<1>10. ASSUME NEW r \in Runners, FailAfterCommit(r) PROVE Reserved'
  BY <1>10, <1>plan, <1>same DEF FailAfterCommit, CommitTx, GoTo, Return
<1>11. CASE UNCHANGED vars
  BY <1>11 DEF vars
<1> QED
  BY <1>1, <1>2, <1>3, <1>4, <1>5, <1>6, <1>7, <1>8, <1>9, <1>10, <1>11 DEF Next, Statement

\* Without transactions the SQL comes first, then the row.
LEMMA StepExecuted ==
  ASSUME IInv, [Next]_vars
  PROVE  Executed'
<1> USE DEF IInv, TypeOK, Positions, Executed, InEffect, Current
<1>same. transactional' = transactional
  BY DEF Next, vars
<1>plan. \A q \in Runners : plan[q] \in Seq(Migration) /\ (next[q] <= Len(plan[q]) => Current(q) \in Migration)
  BY PlanTypes
<1>1. ASSUME NEW r \in Runners, Start(r) PROVE Executed'
  BY <1>1, <1>plan, <1>same DEF Start, GoTo
<1>2. ASSUME NEW r \in Runners, EnsureTable(r) PROVE Executed'
  BY <1>2, <1>plan, <1>same DEF EnsureTable, GoTo
<1>3. ASSUME NEW r \in Runners, LoadApplied(r) PROVE Executed'
  BY <1>3, <1>plan, <1>same DEF LoadApplied, GoTo
<1>4. ASSUME NEW r \in Runners, Check(r) PROVE Executed'
  <2>1. CASE Finish(r)
    BY <1>4, <2>1, <1>plan, <1>same DEF Check, Finish, GoTo, Return
  <2>2. CASE Skip(r)
    BY <1>4, <2>2, <1>plan, <1>same DEF Check, Skip, GoTo, Return
  <2>3. CASE Mismatch(r)
    BY <1>4, <2>3, <1>plan, <1>same DEF Check, Mismatch, GoTo, Return
  <2>4. CASE BeginTx(r)
    BY <1>4, <2>4, <1>plan, <1>same DEF Check, BeginTx, GoTo, Return
  <2> QED
    BY <1>4, <2>1, <2>2, <2>3, <2>4 DEF Check
<1>5. ASSUME NEW r \in Runners, Execute(r), ~transactional PROVE Executed'
  <2>1. /\ schema' = Append(schema, Current(r)) /\ Current(r) \in Migration
        /\ pc' = [pc EXCEPT ![r] = "insert"] /\ UNCHANGED <<plan, next, history>>
    BY <1>5, <1>plan DEF Execute, GoTo
  <2>2. InEffect' = InEffect \union {Current(r)}
    <3> HIDE DEF Current, InEffect, TypeOK
    <3> QED
      BY <2>1, AppendInEffect
  <2> QED
    BY <2>1, <2>2, <1>same
<1>6. ASSUME NEW r \in Runners, Record(r) PROVE Executed'
  BY <1>6, <1>plan, <1>same DEF Record, GoTo, RowIsFree
<1>7. ASSUME NEW r \in Runners, RecordConflict(r) PROVE Executed'
  BY <1>7, <1>plan, <1>same DEF RecordConflict, GoTo, Return, Rollback
<1>8. ASSUME NEW r \in Runners, Commit(r) PROVE Executed'
  BY <1>8, <1>plan, <1>same DEF Commit, CommitTx, GoTo
<1>9. ASSUME NEW r \in Runners, Fail(r) PROVE Executed'
  BY <1>9, <1>plan, <1>same DEF Fail, GoTo, Return, Rollback
<1>10. ASSUME NEW r \in Runners, FailAfterCommit(r) PROVE Executed'
  BY <1>10, <1>plan, <1>same DEF FailAfterCommit, CommitTx, GoTo, Return
<1>11. CASE UNCHANGED vars
  BY <1>11 DEF vars
<1> QED
  BY <1>1, <1>2, <1>3, <1>4, <1>5, <1>6, <1>7, <1>8, <1>9, <1>10, <1>11 DEF Next, Statement

\* The inductive invariant holds in every reachable state.
THEOREM Invariance ==
  Spec => []IInv
<1>1. IInv /\ [Next]_vars => IInv'
  BY StepType, StepOnce, StepRecorded, StepOk, StepPositions, StepReserved, StepExecuted DEF IInv
<1> QED
  BY InitIInv, <1>1, PTL DEF Spec

\* Type correctness of the runners and the history.
THEOREM TypeCorrect ==
  Spec => []TypeOK
<1>1. IInv => TypeOK
  BY DEF IInv
<1> QED
  BY Invariance, <1>1, PTL

\* apply: no version takes effect twice, whatever races and crashes.
THEOREM RunsAtMostOnce ==
  Spec => []AtMostOnce
<1>1. IInv => AtMostOnce
  BY DEF IInv
<1> QED
  BY Invariance, <1>1, PTL

\* apply: the history records exactly what has taken effect.
THEOREM HistoryTellsTheTruth ==
  Spec => []HistoryIsTrue
<1>1. IInv => HistoryIsTrue
  BY DEF IInv
<1> QED
  BY Invariance, <1>1, PTL

\* Up: nil means that every migration of the build is recorded as it is.
THEOREM NilMeansUpToDate ==
  Spec => []OkMeansUpToDate
<1>1. IInv => OkMeansUpToDate
  BY DEF IInv
<1> QED
  BY Invariance, <1>1, PTL


\* Where the SQL of a migration takes effect, all before it in the plan has
\* taken effect, and none of its version where that can be rolled back.
LEMMA AppliedInOrder ==
  ASSUME IInv, NEW r \in Runners, next[r] <= Len(plan[r]),
         transactional => pc[r] = "commit"
  PROVE  /\ r \in DOMAIN plan /\ next[r] \in 1 .. Len(plan[r])
         /\ \A j \in 1 .. (next[r] - 1) : plan[r][j] \in History!Effective
         /\ transactional => \A m \in History!Effective : m.version # Current(r).version
<1>1. History!Effective = InEffect
  BY DEF History!Effective, InEffect
<1>2. /\ r \in DOMAIN plan /\ plan[r] \in Seq(Migration) /\ next[r] \in Nat \ {0}
  BY PlanTypes DEF IInv, TypeOK
<1>3. \A j \in 1 .. (next[r] - 1) : plan[r][j] \in history
  BY <1>2 DEF IInv, OkMeansUpToDate
<1>4. history \subseteq InEffect
  BY DEF IInv, HistoryIsTrue
<1>5. ASSUME transactional, NEW m \in InEffect PROVE m.version # Current(r).version
  BY <1>5 DEF IInv, HistoryIsTrue, Reserved, Versions
<1> QED
  BY <1>1, <1>2, <1>3, <1>4, <1>5

\* Every step applies a migration in its order or leaves the schema alone.
LEMMA StepImplements ==
  ASSUME IInv, [Next]_vars
  PROVE  [History!Apply]_<<plan, transactional, schema>>
<1>1. UNCHANGED <<plan, transactional>>
  BY DEF Next, vars, Start, Statement, EnsureTable, LoadApplied, Check, Execute,
         Record, RecordConflict, Commit, Fail, FailAfterCommit
<1>2. ASSUME NEW r \in Runners, next[r] <= Len(plan[r]), transactional => pc[r] = "commit",
             schema' = Append(schema, Current(r))
      PROVE  History!Apply
  <2> DEFINE k == next[r]
  <2>1. Current(r) = plan[r][k]
    BY DEF Current
  <2> QED
    BY <1>1, <1>2, <2>1, AppliedInOrder DEF History!Apply
<1>3. ASSUME NEW r \in Runners, Commit(r) \/ FailAfterCommit(r)
      PROVE  History!Apply \/ UNCHANGED schema
  <2>1. pc[r] = "commit" /\ next[r] <= Len(plan[r])
    BY <1>3 DEF Commit, FailAfterCommit, IInv, Positions
  <2>2. schema' = IF transactional THEN Append(schema, Current(r)) ELSE schema
    BY <1>3 DEF Commit, FailAfterCommit, CommitTx
  <2> QED
    BY <2>1, <2>2, <1>2
<1>4. ASSUME NEW r \in Runners, Execute(r)
      PROVE  History!Apply \/ UNCHANGED schema
  <2>1. next[r] <= Len(plan[r])
    BY <1>4 DEF Execute, IInv, Positions
  <2>2. schema' = IF transactional THEN schema ELSE Append(schema, Current(r))
    BY <1>4 DEF Execute
  <2> QED
    BY <2>1, <2>2, <1>2
<1>5. CASE \A r \in Runners : ~(Commit(r) \/ FailAfterCommit(r) \/ Execute(r))
  BY <1>5 DEF Next, vars, Start, Statement, EnsureTable, LoadApplied, Check,
              Record, RecordConflict, Fail
<1> QED
  BY <1>1, <1>3, <1>4, <1>5

\* Up implements MigrationHistory: migrations take effect in the order of the
\* directories, each after all before it and, where possible, only once.
THEOREM Refinement == Spec => ImplementsHistory
<1>1. Init => History!Init
  BY DEF Init, History!Init
<1>2. IInv /\ [Next]_vars => [History!Apply]_<<plan, transactional, schema>>
  BY StepImplements
<1> QED
  BY Invariance, <1>1, <1>2, PTL DEF Spec, ImplementsHistory, History!Spec

-----------------------------------------------------------------------------
\* Lists, exports, logs and files.
USE ListingAssumption

-----------------------------------------------------------------------------
\* What never changes, and what the steps of a reading have settled.
Settled ==
  /\ query \in Asked /\ rank \in Ranks
  /\ query.kind = "list" => step \in {"list", "select", "turn", "done", "refused"}
  /\ query.kind = "export" => step \in {"list", "select", "audit", "done", "refused"}
  /\ query.kind \in {"audit", "files"} => step \in {"read", "done"}
  /\ query.kind # "list" => page = 1
  /\ query.kind # "list" /\ step \in {"list", "select", "read"} => shown = <<>>
  /\ step \in {"select", "turn", "audit", "done"} /\ query.kind \in {"list", "export"} =>
       Accepted /\ IF store = "mongo" THEN where \in MongoFilter ELSE where = query.filter

Types == ListingTypeOK /\ Settled

\* No column to sort by: the primary key alone, or nothing.
Unordered == ListOrder = ""

\* i comes before j in the list.
Precedes(t, i, j) ==
  \/ ListOrder = "-" /\ Before(t[j].value, t[i].value)
  \/ ListOrder = "+" /\ Before(t[i].value, t[j].value)
  \/ store = "builder" /\ (Unordered \/ t[i].value = t[j].value) /\ rank[i] < rank[j]

\* The rows before i in the list, and how many they are.
Ahead(i) == {j \in Wanted(table) : Precedes(table, j, i)}
Place(i) == Cardinality(Ahead(i))

\* A list whose pages the server and the client cut alike, of which the store
\* can make what was asked for.
Plain == query.kind = "list" /\ PerPage <= Cap /\ Honoured

\* The pages shown so far.
Pages == IF step \in {"turn", "done"} THEN page ELSE page - 1

\* While nobody writes: what is shown is the beginning of the list.
Quiet ==
  Plain /\ writes = 0 /\ NoTies(table) /\ (Unordered => store = "builder") /\ step # "refused" =>
    LET n == Cardinality(Wanted(table))
    IN /\ Len(shown) = IF n <= Pages * Limit THEN n ELSE Pages * Limit
       /\ \A k \in DOMAIN shown : shown[k] \in Wanted(table) /\ Place(shown[k]) = k - 1
       /\ step \in {"select", "turn", "done"} => total = n
       /\ step = "done" => total <= page * Limit

\* While rows only arrive, newest first: the old ones are among the rows, all
\* others before them; those on the places of the pages so far have been shown.
Arriving ==
  Plain /\ ListOrder = "-" /\ ~removed /\ ~older /\ NoTies(first) /\ step # "refused" =>
    /\ NoTies(table)
    /\ \A i \in Rows(first) : table[i] = first[i]
    /\ \A i \in Rows(first), j \in Rows(table) \ Rows(first) : Before(first[i].value, table[j].value)
    /\ ~torn =>
         /\ step = "select" => total = Cardinality(Wanted(table))
         /\ \A i \in Wanted(first) : Place(i) < Pages * Limit => i \in ToSet(shown)
         /\ step = "done" \/ (step = "turn" /\ total <= page * Limit) => Wanted(first) \subseteq ToSet(shown)

\* What one reading is asked for, and what it shows of it.
All ==
  IF query.kind = "export" THEN Wanted(table)
  ELSE {i \in Rows(table) :
          /\ \/ reader.tenant \in {NoTenant, table[i].tenant}
             \/ reader.super /\ store \notin Logs
          /\ \A c \in query.filter : Compares(c, table[i].value, Before)}

Whole ==
  /\ ToSet(shown) \subseteq All /\ Len(shown) = Cardinality(ToSet(shown))
  /\ IF query.kind = "files" \/ Cardinality(All) <= Room THEN ToSet(shown) = All
     ELSE Len(shown) = Room
  /\ query.kind = "audit" =>
       \A k \in DOMAIN shown :
         \A i \in (All \ ToSet(shown)) \union {shown[n] : n \in k + 1 .. Len(shown)} :
           Older(i, shown[k])

Reading ==
  query.kind # "list" /\ step \in {"audit", "done"} /\ writes = 0 /\ query.perPage <= Cap => Whole

ListingIInv == Types /\ Quiet /\ Arriving /\ Reading

-----------------------------------------------------------------------------
\* The order of a column is that of the numbers 0 .. 99 under a key of its own.
Lex(s, t) ==
  \/ IsStrictPrefix(s, t)
  \/ \E k \in DOMAIN s \intersect DOMAIN t : s[k] < t[k] /\ \A j \in 1 .. k - 1 : s[j] = t[j]

Key(n) ==
  CASE query.column # "text" -> n
    [] query.column = "text" /\ n < 10 -> 11 * n
    [] query.column = "text" /\ n >= 10 -> 11 * (n \div 10) + 1 + (n % 10)

LEMMA ShortPrefixes ==
  \A x, y \in Nat : /\ SubSeq(<<x>>, 1, 1) = <<x>>
                    /\ SubSeq(<<x, y>>, 1, 1) = <<x>>
                    /\ SubSeq(<<x, y>>, 1, 2) = <<x, y>>
<1> SUFFICES ASSUME NEW x \in Nat, NEW y \in Nat
             PROVE  /\ SubSeq(<<x>>, 1, 1) = <<x>>
                    /\ SubSeq(<<x, y>>, 1, 1) = <<x>>
                    /\ SubSeq(<<x, y>>, 1, 2) = <<x, y>>
  OBVIOUS
<1>1. <<x>> \in Seq(Nat) /\ Len(<<x>>) = 1 /\ <<x, y>> \in Seq(Nat) /\ Len(<<x, y>>) = 2
  OBVIOUS
<1>2. SubSeq(<<x>>, 1, 1) = <<x>> /\ SubSeq(<<x, y>>, 1, 2) = <<x, y>>
  BY <1>1, SubSeqFull
<1>3. SubSeq(<<x, y>>, 1, 1) = <<x>>
  <2> DEFINE s == SubSeq(<<x, y>>, 1, 1)
  <2>1. \A i \in 1 .. 1 : <<x, y>>[i] \in Nat
    OBVIOUS
  <2>2. s \in Seq(Nat) /\ Len(s) = 1 /\ s[1] = x
    BY <2>1, SubSeqProperties
  <2> HIDE DEF s
  <2>3. s = <<x>>
    BY <1>1, <2>2, SeqEqual
  <2> QED
    BY <2>3 DEF s
<1> QED
  BY <1>2, <1>3

LEMMA LexOfOneAndOne == \A x, y \in Nat : Lex(<<x>>, <<y>>) <=> x < y
<1> SUFFICES ASSUME NEW x \in Nat, NEW y \in Nat PROVE Lex(<<x>>, <<y>>) <=> x < y
  OBVIOUS
<1>1. ~IsStrictPrefix(<<x>>, <<y>>)
  <2>1. \A e \in Nat : SubSeq(<<e>>, 1, 1) = <<e>>
    BY ShortPrefixes
  <2> QED
    BY <2>1 DEF IsStrictPrefix, IsPrefix
<1>2. DOMAIN <<x>> \intersect DOMAIN <<y>> = {1}
  OBVIOUS
<1>3. <<x>>[1] = x /\ <<y>>[1] = y /\ 1 .. 1 - 1 = {}
  OBVIOUS
<1> QED
  BY <1>1, <1>2, <1>3 DEF Lex

LEMMA LexOfOneAndTwo == \A x, y, z \in Nat : Lex(<<x>>, <<y, z>>) <=> x <= y
<1> SUFFICES ASSUME NEW x \in Nat, NEW y \in Nat, NEW z \in Nat PROVE Lex(<<x>>, <<y, z>>) <=> x <= y
  OBVIOUS
<1>1. IsStrictPrefix(<<x>>, <<y, z>>) <=> x = y
  <2>1. SubSeq(<<x>>, 1, 1) = <<x>> /\ SubSeq(<<y, z>>, 1, 1) = <<y>>
    BY ShortPrefixes
  <2>2. <<x>> # <<y, z>>
    OBVIOUS
  <2> QED
    BY <2>1, <2>2 DEF IsStrictPrefix, IsPrefix
<1>2. DOMAIN <<x>> \intersect DOMAIN <<y, z>> = {1}
  OBVIOUS
<1> QED
  BY <1>1, <1>2 DEF Lex

LEMMA LexOfTwoAndOne == \A x, y, w \in Nat : Lex(<<x, w>>, <<y>>) <=> x < y
<1> SUFFICES ASSUME NEW x \in Nat, NEW y \in Nat, NEW w \in Nat PROVE Lex(<<x, w>>, <<y>>) <=> x < y
  OBVIOUS
<1>1. ~IsStrictPrefix(<<x, w>>, <<y>>)
  BY DEF IsStrictPrefix, IsPrefix
<1>2. DOMAIN <<x, w>> \intersect DOMAIN <<y>> = {1}
  OBVIOUS
<1> QED
  BY <1>1, <1>2 DEF Lex

LEMMA LexOfTwoAndTwo ==
  \A x, y, w, z \in Nat : Lex(<<x, w>>, <<y, z>>) <=> x < y \/ (x = y /\ w < z)
<1> SUFFICES ASSUME NEW x \in Nat, NEW y \in Nat, NEW w \in Nat, NEW z \in Nat
             PROVE Lex(<<x, w>>, <<y, z>>) <=> x < y \/ (x = y /\ w < z)
  OBVIOUS
<1>1. ~IsStrictPrefix(<<x, w>>, <<y, z>>)
  <2>1. SubSeq(<<x, w>>, 1, 2) = <<x, w>> /\ SubSeq(<<y, z>>, 1, 2) = <<y, z>>
    BY ShortPrefixes
  <2> QED
    BY <2>1 DEF IsStrictPrefix, IsPrefix
<1>2. DOMAIN <<x, w>> \intersect DOMAIN <<y, z>> = {1, 2}
  OBVIOUS
<1>3. (\E k \in {1, 2} : <<x, w>>[k] < <<y, z>>[k] /\ \A j \in 1 .. k - 1 : <<x, w>>[j] = <<y, z>>[j])
        <=> x < y \/ (x = y /\ w < z)
  <2>1. 1 .. 1 - 1 = {} /\ 1 .. 2 - 1 = {1}
    OBVIOUS
  <2> QED
    BY <2>1
<1> QED
  BY <1>1, <1>2, <1>3 DEF Lex

LEMMA TextIs ==
  ASSUME NEW n \in 0 .. 99
  PROVE  /\ n \div 10 \in 0 .. 9 /\ n % 10 \in 0 .. 9 /\ n = 10 * (n \div 10) + (n % 10)
         /\ n < 10 => n \div 10 = 0 /\ n % 10 = n
<1>1. n \div 10 \in 0 .. 9
  OBVIOUS
<1>2. n % 10 \in 0 .. 9
  OBVIOUS
<1>3. n = 10 * (n \div 10) + (n % 10)
  OBVIOUS
<1>4. n < 10 => n % 10 = n
  OBVIOUS
<1>5. n < 10 => n \div 10 = 0
  OBVIOUS
<1> QED
  BY <1>1, <1>2, <1>3, <1>4, <1>5

LEMMA TextOrder ==
  ASSUME NEW a \in 0 .. 99, NEW b \in 0 .. 99, query.column \in {"text", "created_at"}
  PROVE  TextLess(a, b) <=> Key(a) < Key(b)
<1>1. TextLess(a, b) <=> Lex(Text(a), Text(b))
  BY DEF TextLess, Lex
<1> DEFINE x == a \div 10
           w == a % 10
           y == b \div 10
           z == b % 10
<1>2. /\ x \in 0 .. 9 /\ w \in 0 .. 9 /\ a = 10 * x + w
      /\ y \in 0 .. 9 /\ z \in 0 .. 9 /\ b = 10 * y + z
      /\ a < 10 => x = 0 /\ w = a
      /\ b < 10 => y = 0 /\ z = b
  BY TextIs
<1>3. /\ Text(a) = IF a < 10 /\ query.column # "created_at" THEN <<a>> ELSE <<x, w>>
      /\ Text(b) = IF b < 10 /\ query.column # "created_at" THEN <<b>> ELSE <<y, z>>
  BY DEF Text
<1>4. /\ Key(a) = IF query.column # "text" THEN a ELSE IF a < 10 THEN 11 * a ELSE 11 * x + 1 + w
      /\ Key(b) = IF query.column # "text" THEN b ELSE IF b < 10 THEN 11 * b ELSE 11 * y + 1 + z
  BY <1>2 DEF Key
<1> HIDE DEF x, y, w, z
<1>5. CASE query.column = "created_at"
  BY <1>1, <1>2, <1>3, <1>4, <1>5, LexOfTwoAndTwo
<1>6. CASE query.column = "text" /\ a < 10 /\ b < 10
  BY <1>1, <1>2, <1>3, <1>4, <1>6, LexOfOneAndOne
<1>7. CASE query.column = "text" /\ a < 10 /\ b >= 10
  BY <1>1, <1>2, <1>3, <1>4, <1>7, LexOfOneAndTwo
<1>8. CASE query.column = "text" /\ a >= 10 /\ b < 10
  BY <1>1, <1>2, <1>3, <1>4, <1>8, LexOfTwoAndOne
<1>9. CASE query.column = "text" /\ a >= 10 /\ b >= 10
  BY <1>1, <1>2, <1>3, <1>4, <1>9, LexOfTwoAndTwo
<1> QED
  BY <1>2, <1>5, <1>6, <1>7, <1>8, <1>9

LEMMA KeyIs ==
  ASSUME NEW a \in 0 .. 99, NEW b \in 0 .. 99
  PROVE  Key(a) \in Int /\ (Key(a) = Key(b) => a = b)
<1> DEFINE x == a \div 10
           w == a % 10
           y == b \div 10
           z == b % 10
<1>1. /\ x \in 0 .. 9 /\ w \in 0 .. 9 /\ a = 10 * x + w
      /\ y \in 0 .. 9 /\ z \in 0 .. 9 /\ b = 10 * y + z
  BY TextIs
<1>2. /\ Key(a) = IF query.column # "text" THEN a ELSE IF a < 10 THEN 11 * a ELSE 11 * x + 1 + w
      /\ Key(b) = IF query.column # "text" THEN b ELSE IF b < 10 THEN 11 * b ELSE 11 * y + 1 + z
  BY <1>1 DEF Key
<1> HIDE DEF x, y, w, z
<1> QED
  BY <1>1, <1>2

LEMMA BeforeIs ==
  ASSUME NEW a \in 0 .. 99, NEW b \in 0 .. 99
  PROVE  Before(a, b) <=> Key(a) < Key(b)
<1>1. CASE query.column = "text"
  BY <1>1, TextOrder DEF Before
<1>2. CASE query.column # "text"
  BY <1>2 DEF Before, Key
<1> QED
  BY <1>1, <1>2

\* Where texts are compared instead, numbers but for timestamps come in another order.
LEMMA TextLessIsBefore ==
  ASSUME NEW a \in 0 .. 99, NEW b \in 0 .. 99, query.column \in {"text", "created_at"}
  PROVE  TextLess(a, b) <=> Before(a, b)
  BY TextOrder, BeforeIs

-----------------------------------------------------------------------------
\* Rows in some order.

LEMMA Arrangement ==
  ASSUME NEW F, IsFiniteSet(F), NEW s \in SetToSeqs(F)
  PROVE  /\ Cardinality(F) \in Nat /\ Len(s) = Cardinality(F)
         /\ s \in [1 .. Cardinality(F) -> F] /\ s \in Seq(F)
         /\ \A j, k \in 1 .. Cardinality(F) : s[j] = s[k] => j = k
         /\ \A i \in F : \E k \in 1 .. Cardinality(F) : s[k] = i
<1> DEFINE n == Cardinality(F)
           D == 1 .. n
<1>1. n \in Nat
  BY FS_CardinalityType
<1>2. s \in [D -> F] /\ \A j, k \in D : j # k => s[j] # s[k]
  BY DEF SetToSeqs
<1>3. IsFiniteSet(D) /\ Cardinality(D) = n
  BY <1>1, FS_Interval
<1>4. s \in Injection(D, F)
  BY <1>2 DEF Injection, IsInjective
<1>5. s \in Surjection(D, F)
  BY <1>3, <1>4, FS_Injection
<1>6. \A i \in F : \E k \in D : s[k] = i
  BY <1>5 DEF Surjection
<1> HIDE DEF n
<1>7. s \in Seq(F) /\ Len(s) = n
  BY <1>1, <1>2
<1> QED
  BY <1>1, <1>2, <1>6, <1>7 DEF n

\* The place of an element is told by how many are ahead of it.
LEMMA RowPlaces ==
  ASSUME NEW F, IsFiniteSet(F), NEW s \in SetToSeqs(F), NEW A \in [F -> SUBSET F],
         \A j, k \in 1 .. Cardinality(F) : s[j] \in A[s[k]] <=> j < k
  PROVE  \A k \in 1 .. Cardinality(F) : Cardinality(A[s[k]]) = k - 1
<1> DEFINE n == Cardinality(F)
<1>1. /\ n \in Nat /\ s \in [1 .. n -> F]
      /\ \A j, k \in 1 .. n : s[j] = s[k] => j = k
      /\ \A i \in F : \E k \in 1 .. n : s[k] = i
      /\ \A j, k \in 1 .. n : s[j] \in A[s[k]] <=> j < k
  BY Arrangement
<1> HIDE DEF n
<1> SUFFICES ASSUME NEW k \in 1 .. n PROVE Cardinality(A[s[k]]) = k - 1
  BY DEF n
<1> DEFINE D == 1 .. k - 1
           f == [j \in D |-> s[j]]
           T == A[s[k]]
<1>2. IsFiniteSet(D) /\ Cardinality(D) = k - 1
  BY FS_Interval
<1>3. f \in [D -> T]
  <2>1. \A j \in D : j \in 1 .. n /\ j < k
    BY <1>1
  <2> QED
    BY <1>1, <2>1
<1>4. \A i, j \in D : f[i] = f[j] => i = j
  BY <1>1
<1>5. \A i \in T : \E j \in D : f[j] = i
  <2> SUFFICES ASSUME NEW i \in T PROVE \E j \in D : f[j] = i
    OBVIOUS
  <2>1. i \in F
    BY <1>1
  <2>2. PICK j \in 1 .. n : s[j] = i
    BY <1>1, <2>1
  <2>3. j \in D
    BY <1>1, <2>2
  <2> QED
    BY <2>2, <2>3
<1> HIDE DEF D, f, T
<1>6. f \in Bijection(D, T)
  BY <1>3, <1>4, <1>5 DEF Bijection, Injection, Surjection, IsInjective
<1>7. Cardinality(T) = Cardinality(D)
  BY <1>2, <1>6, FS_Bijection DEF ExistsBijection
<1> QED
  BY <1>2, <1>7 DEF T

\* A page of them.
LEMMA PageIs ==
  ASSUME NEW F, NEW n \in Nat, NEW s \in [1 .. n -> F], NEW o \in Nat, NEW l \in Nat,
         NEW r, r = SubSeq(s, o + 1, IF o + l <= n THEN o + l ELSE n)
  PROVE  /\ r \in Seq(F)
         /\ Len(r) = IF n <= o THEN 0 ELSE IF n <= o + l THEN n - o ELSE l
         /\ \A k \in 1 .. Len(r) : r[k] = s[o + k] /\ o + k \in 1 .. n
<1> DEFINE e == IF o + l <= n THEN o + l ELSE n
<1>1. e \in Nat /\ \A i \in o + 1 .. e : s[i] \in F
  OBVIOUS
<1>2. /\ r \in Seq(F) /\ Len(r) = IF o + 1 <= e THEN e - (o + 1) + 1 ELSE 0
      /\ \A i \in 1 .. e - (o + 1) + 1 : r[i] = s[o + 1 + i - 1]
  BY <1>1, SubSeqProperties
<1>3. \A i \in 1 .. Len(r) : i \in 1 .. e - (o + 1) + 1 /\ o + i \in 1 .. n /\ o + 1 + i - 1 = o + i
  BY <1>1, <1>2
<1> QED
  BY <1>1, <1>2, <1>3

-----------------------------------------------------------------------------
\* What never changes, and what depends on nothing else.
Fixed == UNCHANGED <<store, rank, budget, reader, query, first>>

\* A row is one of those the reader asked for.
Asks(row) == Visible(row) /\ \A c \in query.filter : Compares(c, row.value, Before)

LEMMA WantedIs == \A t : Wanted(t) = {i \in Rows(t) : Asks(t[i])}
  BY DEF Wanted, Asks

LEMMA FixedOrder ==
  ASSUME Fixed
  PROVE  /\ \A a, b : Before(a, b)' = Before(a, b)
         /\ \A row : Asks(row)' = Asks(row)
         /\ ListOrder' = ListOrder /\ PerPage' = PerPage /\ Limit' = Limit
         /\ Plain' = Plain /\ Accepted' = Accepted /\ Room' = Room
<1> USE DEF Fixed
<1>1. \A n : Text(n)' = Text(n)
  BY DEF Text
<1>2. \A a, b : TextLess(a, b)' = TextLess(a, b)
  BY <1>1 DEF TextLess
<1>3. \A a, b : Before(a, b)' = Before(a, b)
  BY <1>2 DEF Before
<1>4. \A row : Asks(row)' = Asks(row)
  BY <1>1, <1>3 DEF Asks, Visible, Compares
<1>5. ListOrder' = ListOrder
  BY DEF ListOrder, PostgresOrder, TemplateOrder, SqlOrder, MongoOrder, BuilderOrder, Sortable
<1>6. PerPage' = PerPage /\ Limit' = Limit
  BY DEF PerPage, Limit, PostgresLimit, TemplateLimit
<1>7. Accepted' = Accepted
  BY DEF Accepted, Parsed, Known, OperatorAllowed
<1>8. Plain' = Plain
  BY <1>6 DEF Plain, Honoured
<1> QED
  BY <1>3, <1>4, <1>5, <1>6, <1>7, <1>8 DEF Room


LEMMA LimitIs ==
  ASSUME Types
  PROVE  /\ PerPage \in Nat \ {0} /\ Limit \in Nat \ {0}
         /\ PerPage <= Cap => Limit = PerPage
         /\ query.perPage \in Nat
<1>1. query.perPage \in Nat /\ Cap \in Nat \ {0} /\ Default \in Nat \ {0} /\ Default <= Cap
  <2>1. query \in Query
    BY DEF Types, ListingTypeOK
  <2>2. query.perPage \in Nat
    BY <2>1 DEF Query
  <2> QED
    BY <2>2
<1>2. PerPage \in Nat \ {0}
  BY <1>1 DEF PerPage, parseInt
<1>3. /\ Limit \in Nat \ {0}
      /\ PerPage <= Cap => Limit = PerPage
  BY <1>1, <1>2 DEF Limit, PostgresLimit, TemplateLimit
<1> QED
  BY <1>1, <1>2, <1>3

\* The rows are finitely many.
LEMMA RowsAreFinite ==
  /\ Cardinality(Ids) \in Nat
  /\ \A S \in SUBSET Ids :
       IsFiniteSet(S) /\ Cardinality(S) \in Nat /\ Cardinality(S) <= Cardinality(Ids)
  /\ \A S, T \in SUBSET Ids :
       S \subseteq T => Cardinality(S) <= Cardinality(T) /\ (S # T => Cardinality(S) < Cardinality(T))
<1>1. Cardinality(Ids) \in Nat
  BY FS_CardinalityType
<1>2. \A S \in SUBSET Ids :
        IsFiniteSet(S) /\ Cardinality(S) \in Nat /\ Cardinality(S) <= Cardinality(Ids)
  BY FS_Subset, FS_CardinalityType
<1>3. ASSUME NEW S \in SUBSET Ids, NEW T \in SUBSET Ids, S \subseteq T
      PROVE  Cardinality(S) <= Cardinality(T) /\ (S # T => Cardinality(S) < Cardinality(T))
  <2>1. IsFiniteSet(T)
    BY <1>2
  <2>2. Cardinality(S) <= Cardinality(T) /\ (Cardinality(S) = Cardinality(T) => S = T)
    BY <1>3, <2>1, FS_Subset
  <2> QED
    BY <1>2, <2>2
<1> QED
  BY <1>1, <1>2, <1>3

\* How often the pages so far and one more fit.
LEMMA PageEnds ==
  ASSUME NEW p \in Nat \ {0}, NEW l \in Nat \ {0}
  PROVE  (p - 1) * l \in Nat /\ p * l \in Nat /\ p * l = (p - 1) * l + l
<1>1. p - 1 \in Nat
  OBVIOUS
<1>2. (p - 1) * l \in Nat /\ p * l \in Nat
  BY <1>1
<1>3. p * l = (p - 1) * l + l
  OBVIOUS
<1> QED
  BY <1>2, <1>3

-----------------------------------------------------------------------------
\* Where the stores keep to what the reader means by its conditions.

LEMMA ConditionsAre ==
  ASSUME Types
  PROVE  /\ \A c \in query.filter : c.op \in Operators \union {"other"} /\ c.value \in 0 .. 99
         /\ \A i \in Rows(table) : table[i] \in Row /\ table[i].value \in 0 .. 99
         /\ Accepted => query.filter = {} \/ query.column \in {"number", "text", "created_at"}
<1>1. query \in Query /\ table \in [Ids -> Row \union {None}]
  BY DEF Types, ListingTypeOK
<1>2. query.filter \in Filters /\ query.column \in Columns
  BY <1>1 DEF Query
<1>3. query.filter \subseteq [op : Operators \union {"other"}, value : 0 .. 99]
  BY <1>2
<1>4. \A i \in Rows(table) : table[i] \in Row /\ table[i].value \in 0 .. 99
  BY <1>1 DEF Rows, Row
<1>5. Accepted => query.filter = {} \/ query.column \in {"number", "text", "created_at"}
  BY <1>2 DEF Accepted, Known, Columns
<1> QED
  BY <1>3, <1>4, <1>5

LEMMA ComparesAsText ==
  ASSUME NEW c, c.value \in 0 .. 99, NEW v \in 0 .. 99,
         query.column \in {"text", "created_at"} \/ (query.column = "number" /\ ~IsRange(c))
  PROVE  Compares(c, v, TextLess) <=> Compares(c, v, Before)
<1>1. CASE query.column \in {"text", "created_at"}
  <2>1. /\ TextLess(c.value, v) <=> Before(c.value, v)
        /\ TextLess(v, c.value) <=> Before(v, c.value)
    BY <1>1, TextLessIsBefore
  <2> QED
    BY <2>1 DEF Compares
<1>2. CASE query.column = "number" /\ ~IsRange(c)
  BY <1>2 DEF Compares, IsRange
<1> QED
  BY <1>1, <1>2

LEMMA MatchesIs ==
  ASSUME Types, Accepted, Honoured, store # "builder", store \notin Logs,
         NEW c \in query.filter, NEW v \in 0 .. 99
  PROVE  Matches(c, v) <=> Compares(c, v, Before)
<1>1. /\ c.value \in 0 .. 99 /\ query.filter # {}
      /\ query.column \in {"number", "text", "created_at"}
  BY ConditionsAre
<1>2. CASE store = "sql"
  BY <1>2 DEF Matches, SqlMatches, Logs
<1>3. CASE store = "postgres"
  <2>1. Matches(c, v) <=> Compares(c, v, TextLess)
    BY <1>3 DEF Matches, PostgresMatches, Logs
  <2>2. query.column = "number" => ~IsRange(c)
    BY <1>1, <1>3 DEF Honoured
  <2> QED
    BY <1>1, <2>1, <2>2, ComparesAsText
<1>4. CASE store = "template"
  <2>1. Matches(c, v) <=> Compares(c, v, TextLess)
    BY <1>4 DEF Matches, TemplateMatches, PostgresMatches, Logs
  <2>2. query.column = "number" => ~IsRange(c)
    BY <1>1, <1>4 DEF Honoured
  <2> QED
    BY <1>1, <2>1, <2>2, ComparesAsText
<1>5. CASE store = "mongo"
  <2>1. query.column = "text"
    BY <1>1, <1>5 DEF Honoured
  <2>2. Matches(c, v) <=> Compares(c, v, TextLess)
    BY <1>5, <2>1 DEF Matches, MongoMatches, Logs
  <2> QED
    BY <1>1, <2>1, <2>2, ComparesAsText
<1> QED
  <2>1. store \in Stores
    BY DEF Types, ListingTypeOK
  <2> QED
    BY <1>2, <1>3, <1>4, <1>5, <2>1 DEF Stores

LEMMA LogMatchesIs ==
  ASSUME store \in Logs, NEW c, NEW v
  PROVE  Matches(c, v) <=> Compares(c, v, Before)
  BY DEF Matches, LogMatches, Logs

\* MongoDB keeps the one condition it can honour.
LEMMA MongoFilterIs ==
  ASSUME store = "mongo", Types, Honoured, NEW f \in MongoFilter
  PROVE  f = query.filter
<1>1. CASE query.filter = {}
  BY <1>1 DEF MongoFilter
<1>2. CASE query.filter # {}
  <2>1. Cardinality(query.filter) = 1
    BY <1>2 DEF Honoured
  <2>2. IsFiniteSet(query.filter)
    BY DEF Types, ListingTypeOK, Query
  <2>3. PICK c : query.filter = {c}
    BY <2>1, <2>2, FS_Singleton
  <2> QED
    BY <1>2, <2>3 DEF MongoFilter
<1> QED
  BY <1>1, <1>2

LEMMA FoundIs ==
  ASSUME Types, Accepted, Honoured, store # "builder", store \notin Logs
  PROVE  Found(query.filter) = Wanted(table)
<1>1. \A i \in Rows(table) : \A c \in query.filter :
        Matches(c, table[i].value) <=> Compares(c, table[i].value, Before)
  BY ConditionsAre, MatchesIs
<1> QED
  BY <1>1 DEF Found, Wanted, Visible

LEMMA BuilderFoundIs ==
  BuilderFound = Wanted(table)
  BY DEF BuilderFound, Wanted, Visible, BuilderMatches

-----------------------------------------------------------------------------
\* The order of a list: strict, and total where nothing ties or ties are broken.
Ordered == NoTies(table) /\ (Unordered => store = "builder") /\ store \notin Logs

LEMMA OrderIs ==
  ASSUME Types
  PROVE  /\ Unordered \/ ListOrder = "+" \/ ListOrder = "-" \/ store \in Logs
         /\ Unordered => ListOrder # "+" /\ ListOrder # "-"
         /\ \A i \in Ids : rank[i] \in Nat
         /\ store = "builder" => \A i, j \in Ids : rank[i] = rank[j] => i = j
<1>1. query \in Query /\ store \in Stores /\ rank \in [Ids -> 0 .. Cardinality(Ids)] /\ rank \in Ranks
  BY DEF Types, ListingTypeOK, Settled
<1> DEFINE Sort(x) == x \in {"", "+", "-"}
<1>2. Sort("") /\ Sort("-")
  BY Zenon
<1>3. Sort(query.sort)
  <2>1. query.sort \in {"", "+", "-"}
    BY <1>1, Zenon DEF Query
  <2> QED
    BY <2>1, Zenon
<1> HIDE DEF Sort
<1>4. Sort(IF query.sort = "" THEN "-" ELSE query.sort)
  BY <1>2, <1>3, Zenon
<1>5. \A x : Sort(x) => Sort(Sortable(x))
  BY <1>2, Zenon DEF Sortable
<1>6. Sort(PostgresOrder) /\ Sort(SqlOrder) /\ Sort(BuilderOrder)
  BY <1>3, <1>4, <1>5, Zenon DEF PostgresOrder, SqlOrder, BuilderOrder
<1>7. Sort(ListOrder) \/ store \in Logs
  BY <1>1, <1>6 DEF Stores, ListOrder, TemplateOrder, MongoOrder
<1>8. Unordered \/ ListOrder = "+" \/ ListOrder = "-" \/ store \in Logs
  BY <1>7, Zenon DEF Sort, Unordered
<1>9. \A i \in Ids : rank[i] \in Nat
  BY <1>1, RowsAreFinite
<1>10. store = "builder" => \A i, j \in Ids : rank[i] = rank[j] => i = j
  BY <1>1 DEF Ranks, Ranked
<1>11. Unordered => ListOrder # "+" /\ ListOrder # "-"
  BY Zenon DEF Unordered
<1> QED
  BY <1>8, <1>9, <1>10, <1>11

LEMMA SortedIs ==
  ASSUME NEW s
  PROVE  Sorted(s, ListOrder) <=>
           \A j, k \in DOMAIN s : j < k =>
             /\ ListOrder = "-" => ~Before(table[s[j]].value, table[s[k]].value)
             /\ ListOrder = "+" => ~Before(table[s[k]].value, table[s[j]].value)
             /\ ListOrder = "recorded" => rank[s[k]] < rank[s[j]]
             /\ store = "builder" /\ (Unordered \/ table[s[j]].value = table[s[k]].value) =>
                  rank[s[j]] < rank[s[k]]
  BY Zenon DEF Sorted, Unordered

LEMMA PrecedesIs ==
  ASSUME Types
  PROVE  /\ \A i \in Rows(table) : ~Precedes(table, i, i)
         /\ \A i, j, k \in Rows(table) :
              Precedes(table, i, j) /\ Precedes(table, j, k) => Precedes(table, i, k)
         /\ Ordered => \A i, j \in Rows(table) :
              i # j => Precedes(table, i, j) \/ Precedes(table, j, i)
<1> DEFINE K(i) == Key(table[i].value)
<1>1. \A i \in Rows(table) : i \in Ids /\ K(i) \in Int /\ rank[i] \in Nat
  BY ConditionsAre, OrderIs, KeyIs DEF Rows
<1>2. \A i, j \in Rows(table) :
        /\ Before(table[i].value, table[j].value) <=> K(i) < K(j)
        /\ K(i) = K(j) => table[i].value = table[j].value
  BY ConditionsAre, BeforeIs, KeyIs
<1>3. \A i, j \in Rows(table) : table[i].value = table[j].value => K(i) = K(j)
  OBVIOUS
<1> HIDE DEF K
<1>4. \A i, j \in Rows(table) : Precedes(table, i, j) <=>
        \/ ListOrder = "-" /\ K(j) < K(i)
        \/ ListOrder = "+" /\ K(i) < K(j)
        \/ store = "builder" /\ (Unordered \/ K(i) = K(j)) /\ rank[i] < rank[j]
  BY <1>2, <1>3 DEF Precedes
<1>5. \A i \in Rows(table) : ~Precedes(table, i, i)
  BY <1>1, <1>4
<1>6. \A i, j, k \in Rows(table) :
        Precedes(table, i, j) /\ Precedes(table, j, k) => Precedes(table, i, k)
  <2> SUFFICES ASSUME NEW i \in Rows(table), NEW j \in Rows(table), NEW k \in Rows(table),
                      Precedes(table, i, j), Precedes(table, j, k)
               PROVE  Precedes(table, i, k)
    OBVIOUS
  <2>1. K(i) \in Int /\ K(j) \in Int /\ K(k) \in Int /\ rank[i] \in Nat /\ rank[j] \in Nat /\ rank[k] \in Nat
    BY <1>1
  <2>2. Unordered => ListOrder # "+" /\ ListOrder # "-"
    BY OrderIs
  <2> QED
    BY <1>4, <2>1, <2>2
<1>7. ASSUME Ordered, NEW i \in Rows(table), NEW j \in Rows(table), i # j
      PROVE  Precedes(table, i, j) \/ Precedes(table, j, i)
  <2>1. K(i) \in Int /\ K(j) \in Int /\ rank[i] \in Nat /\ rank[j] \in Nat /\ i \in Ids /\ j \in Ids
    BY <1>1
  <2>2. store = "builder" => rank[i] # rank[j]
    BY <1>7, <2>1, OrderIs
  <2>3. store # "builder" => K(i) # K(j)
    BY <1>2, <1>7 DEF Ordered, NoTies
  <2>4. Unordered => store = "builder"
    BY <1>7 DEF Ordered
  <2>5. Unordered \/ ListOrder = "+" \/ ListOrder = "-"
    BY <1>7, OrderIs DEF Ordered
  <2> QED
    BY <1>4, <2>1, <2>2, <2>3, <2>4, <2>5
<1> QED
  BY <1>5, <1>6, <1>7

\* In a list of all of them, one precedes another if it stands before it.
LEMMA ListPlaces ==
  ASSUME Types, Ordered, NEW s \in SetToSeqs(Wanted(table)), Sorted(s, ListOrder)
  PROVE  \A k \in 1 .. Cardinality(Wanted(table)) : Place(s[k]) = k - 1
<1> DEFINE F == Wanted(table)
           n == Cardinality(F)
           A == [i \in F |-> Ahead(i)]
<1>1. F \subseteq Rows(table) /\ F \subseteq Ids /\ IsFiniteSet(F)
  BY RowsAreFinite DEF Wanted, Rows
<1>2. /\ n \in Nat /\ s \in [1 .. n -> F] /\ DOMAIN s = 1 .. n
      /\ \A j, k \in 1 .. n : s[j] = s[k] => j = k
  BY <1>1, Arrangement
<1>3. A \in [F -> SUBSET F]
  BY DEF Ahead
<1>4. \A i, j \in F : j \in A[i] <=> Precedes(table, j, i)
  BY DEF Ahead
<1> HIDE DEF n, A
<1>5. ASSUME NEW j \in 1 .. n, NEW k \in 1 .. n, j < k PROVE Precedes(table, s[j], s[k])
  <2>1. s[j] \in Rows(table) /\ s[k] \in Rows(table) /\ s[j] # s[k]
    BY <1>1, <1>2, <1>5
  <2>2. /\ ListOrder = "-" => ~Before(table[s[j]].value, table[s[k]].value)
        /\ ListOrder = "+" => ~Before(table[s[k]].value, table[s[j]].value)
        /\ store = "builder" /\ (Unordered \/ table[s[j]].value = table[s[k]].value) =>
             rank[s[j]] < rank[s[k]]
    BY <1>2, <1>5, SortedIs
  <2>3. rank[s[j]] \in Nat /\ rank[s[k]] \in Nat
    BY <2>1, OrderIs DEF Rows
  <2>4. ~Precedes(table, s[k], s[j])
    BY <2>2, <2>3 DEF Precedes
  <2> QED
    BY <2>1, <2>4, PrecedesIs
<1>6. \A j, k \in 1 .. n : s[j] \in A[s[k]] <=> j < k
  <2> SUFFICES ASSUME NEW j \in 1 .. n, NEW k \in 1 .. n PROVE s[j] \in A[s[k]] <=> j < k
    OBVIOUS
  <2>1. s[j] \in F /\ s[k] \in F /\ s[j] \in Rows(table) /\ s[k] \in Rows(table)
    BY <1>1, <1>2
  <2>2. CASE j < k
    BY <1>4, <1>5, <2>1, <2>2
  <2>3. CASE j = k
    BY <1>4, <2>1, <2>3, PrecedesIs
  <2>4. CASE k < j
    <3>1. Precedes(table, s[k], s[j])
      BY <1>5, <2>4
    <3>2. ~Precedes(table, s[j], s[k])
      BY <2>1, <3>1, PrecedesIs
    <3> QED
      BY <1>4, <2>1, <2>4, <3>2
  <2> QED
    BY <2>2, <2>3, <2>4
<1>7. \A k \in 1 .. n : Cardinality(A[s[k]]) = k - 1
  BY <1>1, <1>3, <1>6, RowPlaces DEF n
<1>8. \A k \in 1 .. n : A[s[k]] = Ahead(s[k])
  BY <1>2 DEF A
<1> QED
  BY <1>7, <1>8 DEF Place, n

LEMMA PlaceGrows ==
  ASSUME Types, NEW i \in Wanted(table), NEW j \in Wanted(table), Precedes(table, i, j)
  PROVE  Place(i) < Place(j) /\ Place(i) \in Nat /\ Place(j) \in Nat
<1>1. Wanted(table) \subseteq Rows(table) /\ Wanted(table) \subseteq Ids
  BY DEF Wanted, Rows
<1>2. Ahead(i) \in SUBSET Ids /\ Ahead(j) \in SUBSET Ids
  BY <1>1 DEF Ahead
<1>3. Ahead(i) \subseteq Ahead(j)
  BY <1>1, PrecedesIs DEF Ahead
<1>4. i \in Ahead(j) /\ i \notin Ahead(i)
  BY <1>1, PrecedesIs DEF Ahead
<1> QED
  BY <1>2, <1>3, <1>4, RowsAreFinite DEF Place

LEMMA PlacesEnd ==
  ASSUME Types, NEW i \in Wanted(table)
  PROVE  Place(i) \in Nat /\ Place(i) < Cardinality(Wanted(table)) /\ Cardinality(Wanted(table)) \in Nat
<1>1. Wanted(table) \subseteq Rows(table) /\ Wanted(table) \in SUBSET Ids
  BY DEF Wanted, Rows
<1>2. Ahead(i) \in SUBSET Ids /\ Ahead(i) \subseteq Wanted(table)
  BY <1>1 DEF Ahead
<1>3. i \in Wanted(table) /\ i \notin Ahead(i)
  BY <1>1, PrecedesIs DEF Ahead
<1> QED
  BY <1>1, <1>2, <1>3, RowsAreFinite DEF Place

-----------------------------------------------------------------------------
\* What the invariant says of the end of a reading.

LEMMA ListIsNoLog ==
  ASSUME Types
  PROVE  /\ query.kind \in {"list", "export", "files"} => store \notin Logs
         /\ store \in Logs => query.kind = "audit"
         /\ store = "builder" => query.kind = "list"
         /\ query.kind \in {"list", "export", "audit", "files"}
<1>1. store \in Stores /\ query \in Asked
  BY DEF Types, ListingTypeOK, Settled
<1>2. \A q \in AskedLists : q.kind = "list"
  BY Zenon DEF AskedLists
<1>3. \A q \in AskedLogs : q.kind = "audit"
  BY Zenon DEF AskedLogs
<1>4. CASE store \in Logs
  <2>1. store # "builder"
    BY <1>4 DEF Logs
  <2>2. query \in AskedLogs
    BY <1>1, <1>4, <2>1, Zenon DEF Asked
  <2> QED
    BY <1>3, <1>4, <2>1, <2>2
<1>5. CASE store \notin Logs
  <2> DEFINE Other == [kind : {"export", "audit", "files"}, column : {"created_at"}, sort : {""},
                       filter : {{}}, perPage : {Cap}]
  <2>1. \A q \in Other : q.kind \in {"export", "audit", "files"}
    BY Zenon
  <2>2. store = "builder" => query \in AskedLists
    BY <1>1, <1>5 DEF Asked
  <2>3. store # "builder" => query \in AskedLists \union Other
    BY <1>1, <1>5, Zenon DEF Asked
  <2> HIDE DEF Other
  <2> QED
    BY <1>2, <1>5, <2>1, <2>2, <2>3
<1> QED
  BY <1>4, <1>5

LEMMA EndIs ==
  ASSUME ListingIInv
  PROVE  QuietWalkIsComplete /\ ArrivalsHideNothing /\ ReadingIsWhole
<1>1. Types /\ Quiet /\ Arriving /\ Reading
  BY DEF ListingIInv
<1>2. QuietWalkIsComplete
  <2> DEFINE F == Wanted(table)
             n == Cardinality(F)
  <2>1. SUFFICES ASSUME step = "done", query.kind = "list", writes = 0, NoTies(table),
                        Unordered => store = "builder", PerPage <= Cap, Honoured
                 PROVE  ToSet(shown) = F /\ Len(shown) = n /\ Sorted(shown, ListOrder)
    BY Zenon DEF QuietWalkIsComplete, Unordered
  <2>2. Types /\ Plain /\ Ordered
    BY <1>1, <2>1, ListIsNoLog DEF Plain, Ordered
  <2>3. /\ Len(shown) = IF n <= page * Limit THEN n ELSE page * Limit
        /\ \A k \in DOMAIN shown : shown[k] \in F /\ Place(shown[k]) = k - 1
        /\ total = n /\ total <= page * Limit
    BY <1>1, <2>1, <2>2 DEF Quiet, Pages
  <2>4. Len(shown) = n
    BY <2>3
  <2>5. F \subseteq Rows(table) /\ F \subseteq Ids /\ IsFiniteSet(F) /\ n \in Nat
    BY RowsAreFinite DEF Wanted, Rows
  <2>6. shown \in Seq(Ids)
    BY <2>2 DEF Types, ListingTypeOK
  <2> HIDE DEF F, n
  <2>7. DOMAIN shown = 1 .. n /\ shown \in [1 .. n -> F]
    BY <2>3, <2>4, <2>5, <2>6
  <2>8. \A j, k \in 1 .. n : shown[j] = shown[k] => j = k
    BY <2>3, <2>7
  <2>9. ToSet(shown) = F
    <3>1. shown \in Injection(1 .. n, F)
      BY <2>7, <2>8 DEF Injection, IsInjective
    <3>2. IsFiniteSet(1 .. n) /\ Cardinality(1 .. n) = n
      BY <2>5, FS_Interval
    <3>3. shown \in Surjection(1 .. n, F)
      BY <2>5, <3>1, <3>2, FS_Injection DEF n
    <3>4. \A i \in F : \E k \in 1 .. n : shown[k] = i
      BY <3>3 DEF Surjection
    <3> QED
      BY <2>7, <3>4 DEF ToSet
  <2>10. Sorted(shown, ListOrder)
    <3>1. SUFFICES ASSUME NEW j \in 1 .. n, NEW k \in 1 .. n, j < k
                   PROVE /\ ListOrder = "-" => ~Before(table[shown[j]].value, table[shown[k]].value)
                         /\ ListOrder = "+" => ~Before(table[shown[k]].value, table[shown[j]].value)
                         /\ ListOrder # "recorded"
                         /\ store = "builder" /\ (Unordered \/ table[shown[j]].value = table[shown[k]].value) =>
                              rank[shown[j]] < rank[shown[k]]
      BY <2>7, SortedIs
    <3>2. shown[j] \in F /\ shown[k] \in F /\ Place(shown[j]) = j - 1 /\ Place(shown[k]) = k - 1
      BY <2>3, <2>7
    <3>3. ~Precedes(table, shown[k], shown[j])
      BY <2>2, <3>1, <3>2, PlaceGrows DEF F
    <3>4. /\ rank[shown[j]] \in Nat /\ rank[shown[k]] \in Nat
          /\ store = "builder" => rank[shown[j]] # rank[shown[k]]
      BY <2>2, <2>5, <2>8, <3>1, <3>2, OrderIs
    <3>5. ListOrder # "recorded"
      <4>1. Unordered \/ ListOrder = "+" \/ ListOrder = "-"
        BY <2>2, OrderIs DEF Ordered
      <4>2. Unordered => ListOrder # "recorded"
        BY Zenon DEF Unordered
      <4> QED
        BY <4>1, <4>2
    <3> QED
      BY <3>3, <3>4, <3>5 DEF Precedes
  <2> QED
    BY <2>4, <2>9, <2>10 DEF F
<1>3. ArrivalsHideNothing
  BY <1>1 DEF ArrivalsHideNothing, Arriving, Plain
<1>4. ReadingIsWhole
  BY <1>1, Zenon DEF ReadingIsWhole, Reading, Whole, All
<1> QED
  BY <1>2, <1>3, <1>4

-----------------------------------------------------------------------------
\* The steps, by what they have in common.

CountedOf(filter, found) ==
  /\ filter \subseteq query.filter
  /\ IF store = "mongo" THEN filter \in MongoFilter ELSE filter = query.filter
  /\ found \subseteq Rows(table) /\ (Honoured => found = Wanted(table))

SelectedOf(found) == found \subseteq Rows(table) /\ (Honoured => found = Wanted(table))

Counting == \E filter, found : Counted(filter, found) /\ CountedOf(filter, found)
Selecting == \E found : Selected(found) /\ SelectedOf(found)

LEMMA CountingIs ==
  ASSUME Types,
         CountPostgres \/ CountTemplate \/ CountSql \/ CountMongo \/ CountBuilder
  PROVE  Counting
<1>1. step = "list" /\ Accepted
  BY DEF CountPostgres, CountTemplate, CountSql, CountMongo, CountBuilder, Counted
<1>2. store \notin Logs
  BY <1>1, ListIsNoLog DEF Types, Settled
<1>3. store # "builder" /\ Honoured => Found(query.filter) = Wanted(table)
  BY <1>1, <1>2, FoundIs
<1>4. \A f : Found(f) \subseteq Rows(table)
  BY DEF Found
<1>5. BuilderFound = Wanted(table) /\ Wanted(table) \subseteq Rows(table)
  BY BuilderFoundIs DEF Wanted
<1>6. CASE CountMongo
  <2>1. PICK f \in MongoFilter : Counted(f, Found(f)) /\ store = "mongo"
    BY <1>6 DEF CountMongo
  <2>2. Honoured => f = query.filter
    BY <2>1, MongoFilterIs
  <2>3. f \subseteq query.filter
    BY DEF MongoFilter
  <2>4. CountedOf(f, Found(f))
    BY <1>3, <1>4, <2>1, <2>2, <2>3 DEF CountedOf
  <2> QED
    BY <2>1, <2>4 DEF Counting
<1>7. CASE CountBuilder
  BY <1>5, <1>7 DEF CountBuilder, Counting, CountedOf
<1>8. CASE CountPostgres \/ CountTemplate \/ CountSql
  <2>1. store # "builder" /\ store # "mongo" /\ Counted(query.filter, Found(query.filter))
    BY <1>8 DEF CountPostgres, CountTemplate, CountSql
  <2> QED
    BY <1>3, <1>4, <2>1 DEF Counting, CountedOf
<1> QED
  BY <1>6, <1>7, <1>8

LEMMA SelectingIs ==
  ASSUME Types, Select \/ SelectBuilder
  PROVE  Selecting
<1>1. step = "select"
  BY DEF Select, SelectBuilder, Selected
<1>2. /\ store \notin Logs /\ Accepted
      /\ IF store = "mongo" THEN where \in MongoFilter ELSE where = query.filter
  BY <1>1, ListIsNoLog DEF Types, Settled
<1>3. Honoured => where = query.filter
  BY <1>2, MongoFilterIs
<1>4. store # "builder" /\ Honoured => Found(where) = Wanted(table)
  BY <1>2, <1>3, FoundIs
<1>5. \A f : Found(f) \subseteq Rows(table)
  BY DEF Found
<1>6. BuilderFound = Wanted(table) /\ Wanted(table) \subseteq Rows(table)
  BY BuilderFoundIs DEF Wanted
<1>7. CASE Select
  BY <1>4, <1>5, <1>7 DEF Select, Selecting, SelectedOf
<1>8. CASE SelectBuilder
  BY <1>6, <1>8 DEF SelectBuilder, Selecting, SelectedOf
<1> QED
  BY <1>7, <1>8

LEMMA ReturnsIs ==
  ASSUME Types, NEW ids \in SUBSET Ids, NEW order, NEW o \in Nat, NEW l \in Nat,
         Returns(ids, order, o, l)
  PROVE  /\ items' \in Seq(ids) /\ shown' \in Seq(Ids) /\ Cardinality(ids) \in Nat
         /\ Cardinality(ids) <= o => Len(items') = 0
         /\ o < Cardinality(ids) /\ Cardinality(ids) <= o + l => Len(items') = Cardinality(ids) - o
         /\ o + l < Cardinality(ids) => Len(items') = l
         /\ Len(shown') = Len(shown) + Len(items')
         /\ \A k \in 1 .. Len(shown) : shown'[k] = shown[k]
         /\ \A k \in 1 .. Len(items') : shown'[Len(shown) + k] = items'[k]
         /\ \E s \in SetToSeqs(ids) :
              /\ Sorted(s, order)
              /\ \A k \in 1 .. Len(items') : items'[k] = s[o + k] /\ o + k \in 1 .. Cardinality(ids)
<1> DEFINE n == Cardinality(ids)
<1>1. PICK s \in SetToSeqs(ids) :
        /\ Sorted(s, order)
        /\ items' = SubSeq(s, o + 1, IF o + l <= Len(s) THEN o + l ELSE Len(s))
        /\ shown' = shown \o items'
  BY DEF Returns
<1>2. IsFiniteSet(ids) /\ n \in Nat
  BY RowsAreFinite
<1>3. s \in [1 .. n -> ids] /\ Len(s) = n
  BY <1>2, Arrangement
<1> HIDE DEF n
<1>4. /\ items' \in Seq(ids)
      /\ Len(items') = IF n <= o THEN 0 ELSE IF n <= o + l THEN n - o ELSE l
      /\ \A k \in 1 .. Len(items') : items'[k] = s[o + k] /\ o + k \in 1 .. n
  BY <1>1, <1>2, <1>3, PageIs
<1>5. shown \in Seq(Ids) /\ items' \in Seq(Ids)
  BY <1>4 DEF Types, ListingTypeOK
<1>6. /\ shown' \in Seq(Ids) /\ Len(shown') = Len(shown) + Len(items')
      /\ Len(shown) \in Nat /\ Len(items') \in Nat
      /\ \A k \in 1 .. Len(shown) + Len(items') :
           shown'[k] = IF k <= Len(shown) THEN shown[k] ELSE items'[k - Len(shown)]
  BY <1>1, <1>5, ConcatProperties
<1>7. \A k \in 1 .. Len(shown) : shown'[k] = shown[k]
  BY <1>6
<1>8. \A k \in 1 .. Len(items') : shown'[Len(shown) + k] = items'[k]
  <2> SUFFICES ASSUME NEW k \in 1 .. Len(items') PROVE shown'[Len(shown) + k] = items'[k]
    OBVIOUS
  <2>1. Len(shown) + k \in 1 .. Len(shown) + Len(items') /\ ~(Len(shown) + k <= Len(shown))
    BY <1>6
  <2>2. Len(shown) + k - Len(shown) = k
    BY <1>6
  <2> QED
    BY <1>6, <2>1, <2>2
<1>9. /\ n <= o => Len(items') = 0
      /\ o < n /\ n <= o + l => Len(items') = n - o
      /\ o + l < n => Len(items') = l
  BY <1>2, <1>4
<1> QED
  BY <1>1, <1>2, <1>4, <1>6, <1>7, <1>8, <1>9 DEF n

\* The readings in one statement, of which store, kind, order and limit.
Readings ==
  \/ /\ store \in {"postgres", "template", "sql", "mongo"}
     /\ \/ Read(store, "audit", "-", Cap)
        \/ Read(store, "files", "-", Cardinality(Ids))
  \/ Read("pglog", "audit", "-", PGLogLimit)
  \/ Read("memlog", "audit", "recorded", MemoryLogLimit)

Counts == CountPostgres \/ CountTemplate \/ CountSql \/ CountMongo \/ CountBuilder
Writes == \E i \in Ids : InsertRow(i) \/ RemoveRow(i) \/ UpdateRow(i) \/ RecordPG(i) \/ RecordMemory(i)

LEMMA StepsAre ==
  ASSUME Types, ListingNext
  PROVE  Refuse \/ Counting \/ Selecting \/ Exported \/ Turn \/ Readings \/ Writes
<1>1. CASE Refuse \/ Turn \/ Writes
  BY <1>1
<1>2. CASE Counts
  BY <1>2, CountingIs DEF Counts
<1>3. CASE Select \/ SelectBuilder
  BY <1>3, SelectingIs
<1>4. CASE ServerExport \/ TemplateExport
  BY <1>4 DEF ServerExport, TemplateExport
<1>5. CASE PostgresAudit \/ TemplateAudit \/ SqlAudit \/ MongoAudit
  BY <1>5 DEF PostgresAudit, TemplateAudit, SqlAudit, MongoAudit, Readings, Read
<1>6. CASE PostgresFiles \/ TemplateFiles \/ SqlFiles \/ MongoFiles
  BY <1>6 DEF PostgresFiles, TemplateFiles, SqlFiles, MongoFiles, Readings, Read
<1>7. CASE ListPG \/ ListMemory
  BY <1>7 DEF ListPG, ListMemory, Readings
<1> QED
  BY <1>1, <1>2, <1>3, <1>4, <1>5, <1>6, <1>7, Zenon DEF ListingNext, Counts, Writes

LEMMA FixedTypes ==
  ASSUME Types, Fixed
  PROVE  /\ store' \in Stores /\ rank' \in [Ids -> 0 .. Cardinality(Ids)] /\ budget' \in Budgets
         /\ reader' \in [tenant : Tenants, super : BOOLEAN]
         /\ query' \in Query /\ query' \in Asked' /\ rank' \in Ranks'
         /\ Accepted' = Accepted /\ MongoFilter' = MongoFilter
<1>1. Asked' = Asked
  BY Zenon DEF Fixed, Asked
<1>2. Ranks' = Ranks
  BY DEF Fixed, Ranks
<1>3. Accepted' = Accepted
  BY FixedOrder
<1>4. MongoFilter' = MongoFilter
  BY DEF Fixed, MongoFilter
<1> QED
  BY <1>1, <1>2, <1>3, <1>4 DEF Fixed, Types, ListingTypeOK, Settled

LEMMA LogLimits ==
  ASSUME Types
  PROVE  /\ PGLogLimit \in Nat \ {0} /\ MemoryLogLimit \in Nat \ {0}
         /\ query.perPage <= Cap => PGLogLimit = Room /\ MemoryLogLimit = Room
<1>1. query.perPage \in Nat
  BY LimitIs
<1> QED
  BY <1>1 DEF PGLogLimit, MemoryLogLimit, Room

LEMMA ReadingsAre ==
  ASSUME Types, Readings
  PROVE  /\ step = "read" /\ step' = "done" /\ query.kind \in {"audit", "files"}
         /\ UNCHANGED <<table, writes, store, rank, budget, reader, query, page, total, where, first, ghosts>>
         /\ \E order, limit :
              /\ Returns(Logged, order, 0, limit) /\ limit \in Nat
              /\ query.kind = "files" => limit = Cardinality(Ids)
              /\ query.kind = "audit" /\ store \notin Logs => limit = Cap
              /\ query.kind = "audit" /\ store \in Logs /\ query.perPage <= Cap => limit = Room
              /\ order = IF store = "memlog" THEN "recorded" ELSE "-"
<1> DEFINE Order == IF store = "memlog" THEN "recorded" ELSE "-"
<1>1. PICK by, kind, order, limit :
        /\ by \in Stores /\ kind \in {"audit", "files"} /\ Read(by, kind, order, limit) /\ limit \in Nat
        /\ kind = "files" => limit = Cardinality(Ids)
        /\ kind = "audit" /\ by \notin Logs => limit = Cap
        /\ kind = "audit" /\ by \in Logs /\ query.perPage <= Cap => limit = Room
        /\ order = IF by = "memlog" THEN "recorded" ELSE "-"
  <2>1. Cap \in Nat /\ Cardinality(Ids) \in Nat
    BY RowsAreFinite
  <2>2. CASE store \in {"postgres", "template", "sql", "mongo"} /\ Read(store, "audit", "-", Cap)
    BY <2>1, <2>2 DEF Stores, Logs
  <2>3. CASE store \in {"postgres", "template", "sql", "mongo"} /\ Read(store, "files", "-", Cardinality(Ids))
    BY <2>1, <2>3 DEF Stores, Logs
  <2>4. CASE Read("pglog", "audit", "-", PGLogLimit)
    BY <2>4, LogLimits DEF Stores, Logs
  <2>5. CASE Read("memlog", "audit", "recorded", MemoryLogLimit)
    BY <2>5, LogLimits DEF Stores, Logs
  <2> QED
    BY <2>2, <2>3, <2>4, <2>5 DEF Readings
<1>2. store = by /\ query.kind = kind
  BY <1>1 DEF Read
<1> QED
  BY <1>1, <1>2 DEF Read

LEMMA WritesAre ==
  ASSUME Types, Writes
  PROVE  /\ step \notin {"refused", "done"} /\ writes < budget /\ writes' = writes + 1 /\ UNCHANGED client
         /\ torn' = (torn \/ step = "select")
         /\ \E i \in Ids, row \in Row \union {None} : table' = [table EXCEPT ![i] = row]
         /\ \/ removed' = TRUE
            \/ /\ removed' = removed
               /\ \E i \in Ids, row \in Row :
                    /\ table[i] = None /\ table' = [table EXCEPT ![i] = row]
                    /\ older' = (older \/ \E j \in Rows(table) : ~Before(table[j].value, row.value))
<1>1. PICK i \in Ids : InsertRow(i) \/ RemoveRow(i) \/ UpdateRow(i) \/ RecordPG(i) \/ RecordMemory(i)
  BY DEF Writes
<1>2. CASE RemoveRow(i)
  BY <1>2 DEF RemoveRow, Write
<1>3. CASE UpdateRow(i)
  BY <1>3 DEF UpdateRow, Write
<1>4. CASE InsertRow(i) \/ RecordPG(i) \/ RecordMemory(i)
  <2>1. Arrives(i)
    BY <1>4 DEF InsertRow, RecordPG, RecordMemory
  <2>2. PICK row \in Row :
          /\ Write(i, row)
          /\ older' = (older \/ \E j \in Rows(table) : ~Before(table[j].value, row.value))
    BY <2>1 DEF Arrives
  <2> QED
    BY <2>1, <2>2 DEF Arrives, Write
<1> QED
  BY <1>1, <1>2, <1>3, <1>4

LEMMA TypesStay ==
  ASSUME Types, [ListingNext]_listingVars
  PROVE  Types'
<1>1. CASE UNCHANGED listingVars
  <2>1. Fixed
    BY <1>1 DEF listingVars, client, Fixed
  <2> QED
    BY <1>1, <2>1, FixedTypes DEF listingVars, client, Types, ListingTypeOK, Settled
<1> SUFFICES ASSUME ListingNext PROVE Types'
  BY <1>1
<1>2. /\ table \in [Ids -> Row \union {None}] /\ writes \in 0 .. budget /\ budget \in Nat
      /\ where \subseteq query.filter /\ page \in Nat \ {0} /\ total \in 0 .. Cardinality(Ids)
      /\ items \in Seq(Ids) /\ shown \in Seq(Ids) /\ Cardinality(Ids) \in Nat
  BY RowsAreFinite DEF Types, ListingTypeOK
<1>3. CASE Refuse
  <2>1. Fixed
    BY <1>3 DEF Refuse, Fixed
  <2> QED
    BY <1>3, <2>1, FixedTypes DEF Refuse, Types, ListingTypeOK, Settled
<1>4. CASE Counting
  <2>1. PICK filter, found : Counted(filter, found) /\ CountedOf(filter, found)
    BY <1>4 DEF Counting
  <2>2. Fixed
    BY <2>1 DEF Counted, Fixed
  <2>3. found \in SUBSET Ids /\ filter \subseteq query.filter
    BY <2>1 DEF CountedOf, Rows
  <2>4. Cardinality(found) \in 0 .. Cardinality(Ids)
    BY <2>3, RowsAreFinite
  <2>5. ListingTypeOK'
    BY <1>2, <2>1, <2>2, <2>3, <2>4, FixedTypes DEF Counted, ListingTypeOK, Fixed
  <2>6. Settled'
    BY <2>1, <2>2, FixedTypes DEF Counted, CountedOf, Types, Settled, Fixed
  <2> QED
    BY <2>5, <2>6 DEF Types
<1>5. CASE Selecting
  <2>1. PICK found : Selected(found) /\ SelectedOf(found)
    BY <1>5 DEF Selecting
  <2>2. Fixed
    BY <2>1 DEF Selected, Fixed
  <2>3. found \in SUBSET Ids
    BY <2>1 DEF SelectedOf, Rows
  <2>4. Limit \in Nat /\ Offset \in Nat
    BY <1>2, LimitIs, PageEnds DEF Offset
  <2>5. items' \in Seq(found) /\ shown' \in Seq(Ids)
    BY <2>1, <2>3, <2>4, ReturnsIs DEF Selected
  <2>6. items' \in Seq(Ids)
    BY <2>3, <2>5
  <2>7. ListingTypeOK'
    BY <1>2, <2>1, <2>2, <2>5, <2>6, FixedTypes DEF Selected, ListingTypeOK, Fixed
  <2>8. Settled'
    BY <2>1, <2>2, FixedTypes, ListIsNoLog DEF Selected, Types, Settled, Fixed
  <2> QED
    BY <2>7, <2>8 DEF Types
<1>6. CASE Exported
  <2>1. Fixed
    BY <1>6 DEF Exported, Fixed
  <2>2. Settled'
    BY <1>6, <2>1, FixedTypes, ListIsNoLog DEF Exported, Types, Settled, Fixed
  <2>3. ListingTypeOK'
    BY <1>6, <1>2, <2>1, FixedTypes DEF Exported, ListingTypeOK, Fixed
  <2> QED
    BY <2>2, <2>3 DEF Types
<1>7. CASE Turn
  <2>1. Fixed
    BY <1>7 DEF Turn, Fixed
  <2>2. page' \in Nat \ {0} /\ step' \in {"list", "done"} /\ step = "turn"
    BY <1>2, <1>7 DEF Turn
  <2>3. query.kind = "list"
    BY <2>2, ListIsNoLog DEF Types, Settled
  <2>4. Settled'
    BY <1>7, <2>1, <2>2, <2>3, FixedTypes DEF Turn, Types, Settled, Fixed
  <2>5. ListingTypeOK'
    BY <1>7, <1>2, <2>1, <2>2, FixedTypes DEF Turn, ListingTypeOK, Fixed
  <2> QED
    BY <2>4, <2>5 DEF Types
<1>8. CASE Readings
  <2>1. /\ step = "read" /\ step' = "done" /\ query.kind \in {"audit", "files"}
        /\ UNCHANGED <<table, writes, store, rank, budget, reader, query, page, total, where, first, ghosts>>
    BY <1>8, ReadingsAre
  <2>2. PICK order, limit : Returns(Logged, order, 0, limit) /\ limit \in Nat
    BY <1>8, ReadingsAre
  <2>3. Fixed
    BY <2>1 DEF Fixed
  <2>4. Logged \in SUBSET Ids
    BY DEF Logged, Rows
  <2>5. items' \in Seq(Logged) /\ shown' \in Seq(Ids)
    BY <2>2, <2>4, ReturnsIs
  <2>6. items' \in Seq(Ids)
    BY <2>4, <2>5
  <2>7. ListingTypeOK'
    BY <1>2, <2>1, <2>3, <2>5, <2>6, FixedTypes DEF ListingTypeOK, Fixed
  <2>8. Settled'
    BY <2>1, <2>3, FixedTypes DEF Types, Settled, Fixed
  <2> QED
    BY <2>7, <2>8 DEF Types
<1>9. CASE Writes
  <2>1. /\ writes < budget /\ writes' = writes + 1 /\ UNCHANGED client
        /\ \E i \in Ids, row \in Row \union {None} : table' = [table EXCEPT ![i] = row]
    BY <1>9, WritesAre
  <2>2. Fixed
    BY <2>1 DEF client, Fixed
  <2>3. writes' \in 0 .. budget
    BY <1>2, <2>1
  <2>4. table' \in [Ids -> Row \union {None}]
    BY <1>2, <2>1
  <2>5. ListingTypeOK'
    BY <2>1, <2>2, <2>3, <2>4, FixedTypes DEF client, Types, ListingTypeOK
  <2>6. Settled'
    BY <2>1, <2>2, FixedTypes DEF client, Types, Settled
  <2> QED
    BY <2>5, <2>6 DEF Types
<1> QED
  BY <1>3, <1>4, <1>5, <1>6, <1>7, <1>8, <1>9, StepsAre

\* P[i] is the place of i among W, however a statement sorts them.
PlacesOf(P, W, order) ==
  /\ P \in [W -> Nat]
  /\ \A s \in SetToSeqs(W) : Sorted(s, order) => \A k \in 1 .. Cardinality(W) : P[s[k]] = k - 1

\* What is shown are the first m of them.
Begins(seen, P, W, m) ==
  /\ Len(seen) = IF Cardinality(W) <= m THEN Cardinality(W) ELSE m
  /\ \A k \in DOMAIN seen : seen[k] \in W /\ P[seen[k]] = k - 1

\* A statement returns the rows on the places of its page, and they continue
\* the list that ended where it begins.
LEMMA ItemsAre ==
  ASSUME Types, NEW W \in SUBSET Ids, NEW order, NEW o \in Nat, NEW l \in Nat,
         Returns(W, order, o, l), NEW P, PlacesOf(P, W, order)
  PROVE  /\ \A i \in W : o <= P[i] /\ P[i] < o + l => i \in ToSet(shown')
         /\ Begins(shown, P, W, o) => Begins(shown', P, W, o + l)
<1> DEFINE n == Cardinality(W)
<1>1. /\ items' \in Seq(W) /\ shown' \in Seq(Ids) /\ n \in Nat
      /\ n <= o => Len(items') = 0
      /\ o < n /\ n <= o + l => Len(items') = n - o
      /\ o + l < n => Len(items') = l
      /\ Len(shown') = Len(shown) + Len(items')
      /\ \A k \in 1 .. Len(shown) : shown'[k] = shown[k]
      /\ \A k \in 1 .. Len(items') : shown'[Len(shown) + k] = items'[k]
  BY ReturnsIs
<1>2. PICK s \in SetToSeqs(W) :
        /\ Sorted(s, order)
        /\ \A k \in 1 .. Len(items') : items'[k] = s[o + k] /\ o + k \in 1 .. n
  BY ReturnsIs
<1>3. \A k \in 1 .. n : P[s[k]] = k - 1
  BY <1>2 DEF PlacesOf
<1>4. \A i \in W : \E k \in 1 .. n : s[k] = i
  BY RowsAreFinite, Arrangement
<1>5. shown \in Seq(Ids)
  BY DEF Types, ListingTypeOK
<1>6. Len(shown) \in Nat /\ Len(items') \in Nat
  BY <1>1, <1>5
<1> HIDE DEF n
<1>7. ASSUME NEW k \in 1 .. Len(items')
      PROVE  items'[k] \in W /\ P[items'[k]] = (o + k) - 1
  <2>1. items'[k] = s[o + k] /\ o + k \in 1 .. n
    BY <1>2
  <2>2. P[s[o + k]] = (o + k) - 1
    BY <1>3, <2>1
  <2>3. items'[k] \in W
    BY <1>1
  <2> QED
    BY <2>1, <2>2, <2>3
<1>8. ASSUME NEW i \in W, o <= P[i], P[i] < o + l
      PROVE  i \in ToSet(shown')
  <2>1. PICK m \in 1 .. n : s[m] = i
    BY <1>4
  <2>2. P[i] = m - 1
    BY <1>3, <2>1
  <2> DEFINE j == m - o
  <2>3. j \in 1 .. Len(items') /\ o + j = m
    BY <1>1, <1>8, <2>2
  <2>4. items'[j] = i
    BY <1>2, <2>1, <2>3
  <2> HIDE DEF j
  <2>5. Len(shown) + j \in DOMAIN shown'
    BY <1>1, <1>6, <2>3
  <2>6. shown'[Len(shown) + j] = i
    BY <1>1, <2>3, <2>4
  <2> QED
    BY <2>5, <2>6 DEF ToSet
<1>9. ASSUME Begins(shown, P, W, o)
      PROVE  Begins(shown', P, W, o + l)
  <2>1. /\ Len(shown) = IF n <= o THEN n ELSE o
        /\ \A k \in DOMAIN shown : shown[k] \in W /\ P[shown[k]] = k - 1
    BY <1>9 DEF Begins, n
  <2>2. Len(shown') = IF n <= o + l THEN n ELSE o + l
    BY <1>1, <2>1
  <2>3. ASSUME NEW k \in DOMAIN shown'
        PROVE  shown'[k] \in W /\ P[shown'[k]] = k - 1
    <3>1. k \in 1 .. Len(shown) + Len(items')
      BY <1>1
    <3>2. CASE k <= Len(shown)
      <4>1. k \in 1 .. Len(shown) /\ k \in DOMAIN shown
        BY <1>5, <1>6, <3>1, <3>2
      <4> QED
        BY <1>1, <2>1, <4>1
    <3>3. CASE ~(k <= Len(shown))
      <4> DEFINE j == k - Len(shown)
      <4>1. j \in 1 .. Len(items') /\ k = Len(shown) + j
        BY <1>6, <3>1, <3>3
      <4>2. Len(shown) = o
        BY <1>1, <2>1, <4>1
      <4>3. shown'[k] = items'[j]
        BY <1>1, <4>1
      <4>4. items'[j] \in W /\ P[items'[j]] = (o + j) - 1
        BY <1>7, <4>1
      <4> QED
        BY <4>1, <4>2, <4>3, <4>4
    <3> QED
      BY <3>2, <3>3
  <2> QED
    BY <2>2, <2>3 DEF Begins, n
<1> QED
  BY <1>8, <1>9

\* The places of a list are those of its order.
LEMMA ListHasPlaces ==
  ASSUME Types, Ordered
  PROVE  PlacesOf([i \in Wanted(table) |-> Place(i)], Wanted(table), ListOrder)
<1> DEFINE W == Wanted(table)
           P == [i \in W |-> Place(i)]
<1>1. P \in [W -> Nat]
  BY PlacesEnd
<1>2. ASSUME NEW s \in SetToSeqs(W), Sorted(s, ListOrder), NEW k \in 1 .. Cardinality(W)
      PROVE  P[s[k]] = k - 1
  <2>1. Place(s[k]) = k - 1
    BY <1>2, ListPlaces
  <2>2. W \in SUBSET Ids
    BY DEF Wanted, Rows
  <2>3. s[k] \in W
    BY <2>2, RowsAreFinite, Arrangement
  <2> QED
    BY <2>1, <2>3
<1> QED
  BY <1>1, <1>2 DEF PlacesOf

\* As long as nobody writes, the list is what it was.
LEMMA FixedTable ==
  ASSUME Fixed, table' = table
  PROVE  /\ Wanted(table)' = Wanted(table) /\ NoTies(table)' = NoTies(table)
         /\ \A i : Place(i)' = Place(i)
         /\ Unordered' = Unordered /\ Plain' = Plain /\ Limit' = Limit
<1>1. Wanted(table)' = Wanted(table)
  <2>1. Rows(table)' = Rows(table)
    BY DEF Rows
  <2>2. \A row : Asks(row)' = Asks(row)
    BY FixedOrder
  <2>3. Wanted(table) = {i \in Rows(table) : Asks(table[i])}
    BY WantedIs
  <2>4. Wanted(table)' = {i \in Rows(table)' : Asks(table[i])'}
    BY DEF Wanted, Asks
  <2> QED
    BY <2>1, <2>2, <2>3, <2>4
<1>2. NoTies(table)' = NoTies(table)
  BY DEF NoTies, Rows, Fixed
<1>3. ListOrder' = ListOrder /\ (\A a, b : Before(a, b)' = Before(a, b)) /\ Plain' = Plain /\ Limit' = Limit
  BY FixedOrder
<1>4. Unordered' = Unordered
  BY <1>3, Zenon DEF Unordered
<1>5. ASSUME NEW i, NEW j PROVE Precedes(table, j, i)' = Precedes(table, j, i)
  BY <1>3, <1>4 DEF Precedes, Fixed
<1>6. \A i : Ahead(i)' = Ahead(i)
  BY <1>1, <1>5 DEF Ahead
<1>7. \A i : Place(i)' = Place(i)
  BY <1>6 DEF Place
<1> QED
  BY <1>1, <1>2, <1>3, <1>4, <1>7

LEMMA QuietStays ==
  ASSUME Types, Types', Quiet, [ListingNext]_listingVars
  PROVE  Quiet'
<1> DEFINE n == Cardinality(Wanted(table))
<1>1. SUFFICES ASSUME Plain', writes' = 0, NoTies(table)', (Unordered => store = "builder")', step' # "refused"
      PROVE  /\ Len(shown') = IF n' <= Pages' * Limit' THEN n' ELSE Pages' * Limit'
             /\ \A k \in DOMAIN shown' : shown'[k] \in Wanted(table)' /\ Place(shown[k])' = k - 1
             /\ step' \in {"select", "turn", "done"} => total' = n'
             /\ step' = "done" => total' <= page' * Limit'
  BY DEF Quiet
<1>2. ~Writes
  <2>1. writes \in 0 .. budget
    BY DEF Types, ListingTypeOK
  <2>2. writes >= 0 /\ writes \in Int
    BY <2>1
  <2>3. Writes => writes' = writes + 1
    BY WritesAre
  <2> QED
    BY <1>1, <2>2, <2>3
<1>3. Fixed /\ table' = table /\ writes' = writes
  <2>1. CASE UNCHANGED listingVars
    BY <2>1 DEF listingVars, client, Fixed
  <2>2. CASE ListingNext
    <3>1. Refuse \/ Counting \/ Selecting \/ Exported \/ Turn \/ Readings
      BY <1>2, <2>2, StepsAre
    <3>2. CASE Readings
      BY <3>2, ReadingsAre DEF Fixed
    <3> QED
      BY <3>1, <3>2 DEF Refuse, Counting, Counted, Selecting, Selected, Exported, Turn, Fixed
  <2> QED
    BY <2>1, <2>2
<1>4. /\ n' = n /\ Wanted(table)' = Wanted(table) /\ Limit' = Limit
      /\ \A i : Place(i)' = Place(i)
      /\ Plain /\ Ordered
  <2>1. /\ n' = n /\ Wanted(table)' = Wanted(table) /\ Limit' = Limit
        /\ \A i : Place(i)' = Place(i)
    BY <1>3, FixedTable
  <2>2. Plain /\ NoTies(table) /\ Unordered' = Unordered
    BY <1>1, <1>3, FixedTable
  <2>3. store' = store
    BY <1>3 DEF Fixed
  <2>4. store \notin Logs
    BY <2>2, ListIsNoLog DEF Plain
  <2>5. Unordered => store = "builder"
    BY <1>1, <2>2, <2>3
  <2> QED
    BY <2>1, <2>2, <2>4, <2>5 DEF Ordered
<1>5. /\ query.kind = "list" /\ PerPage <= Cap /\ Honoured
      /\ Limit \in Nat \ {0} /\ Limit = PerPage /\ page \in Nat \ {0} /\ total \in Nat
      /\ step \in {"list", "select", "turn", "done", "refused"}
      /\ shown \in Seq(Ids) /\ Wanted(table) \in SUBSET Ids /\ n \in Nat
  <2>1. Wanted(table) \in SUBSET Ids /\ n \in Nat
    BY RowsAreFinite DEF Wanted, Rows
  <2> QED
    BY <1>4, <2>1, LimitIs, RowsAreFinite DEF Plain, Types, Settled, ListingTypeOK
<1>6. step # "refused" =>
        /\ Len(shown) = IF n <= Pages * Limit THEN n ELSE Pages * Limit
        /\ \A k \in DOMAIN shown : shown[k] \in Wanted(table) /\ Place(shown[k]) = k - 1
        /\ step \in {"select", "turn", "done"} => total = n
        /\ step = "done" => total <= page * Limit
  BY <1>1, <1>3, <1>4 DEF Quiet, Ordered
<1>7. (page - 1) * Limit \in Nat /\ page * Limit \in Nat /\ page * Limit = (page - 1) * Limit + Limit
  BY <1>5, PageEnds
<1> SUFFICES /\ Len(shown') = IF n <= Pages' * Limit THEN n ELSE Pages' * Limit
             /\ \A k \in DOMAIN shown' : shown'[k] \in Wanted(table) /\ Place(shown'[k]) = k - 1
             /\ step' \in {"select", "turn", "done"} => total' = n
             /\ step' = "done" => total' <= page' * Limit
  BY <1>4
<1> HIDE DEF n
<1>8. CASE UNCHANGED listingVars
  BY <1>1, <1>6, <1>8 DEF listingVars, client, Pages
<1>9. CASE Counting
  <2>1. PICK filter, found : Counted(filter, found) /\ CountedOf(filter, found)
    BY <1>9 DEF Counting
  <2>2. total' = n
    BY <1>5, <2>1 DEF Counted, CountedOf, n
  <2> QED
    BY <1>6, <2>1, <2>2 DEF Counted, Pages
<1>10. CASE Selecting
  <2>1. PICK found : Selected(found) /\ SelectedOf(found)
    BY <1>10 DEF Selecting
  <2>2. /\ found = Wanted(table) /\ step = "select" /\ step' = "turn"
        /\ page' = page /\ total' = total
        /\ Returns(Wanted(table), ListOrder, (page - 1) * Limit, Limit)
    BY <1>5, <2>1 DEF Selected, SelectedOf, Offset
  <2>3. Pages = page - 1 /\ Pages' = page
    BY <2>2 DEF Pages
  <2> DEFINE o == (page - 1) * Limit
             W == Wanted(table)
             P == [i \in W |-> Place(i)]
  <2>4. o \in Nat /\ page * Limit = o + Limit /\ Limit \in Nat
    BY <1>5, <1>7
  <2>5. PlacesOf(P, W, ListOrder)
    BY <1>4, ListHasPlaces
  <2>6. Begins(shown, P, W, o)
    BY <1>6, <2>2, <2>3 DEF Begins, n
  <2>7. \A i \in W : P[i] = Place(i)
    OBVIOUS
  <2>8. Returns(W, ListOrder, o, Limit) /\ W \in SUBSET Ids
    BY <1>5, <2>2
  <2> HIDE DEF o, W, P
  <2>9. Begins(shown', P, W, o + Limit)
    BY <2>4, <2>5, <2>6, <2>8, ItemsAre
  <2>10. /\ Len(shown') = IF n <= o + Limit THEN n ELSE o + Limit
         /\ \A k \in DOMAIN shown' : shown'[k] \in W /\ P[shown'[k]] = k - 1
    BY <2>9 DEF Begins, n, W
  <2>11. \A k \in DOMAIN shown' : Place(shown'[k]) = k - 1
    BY <2>7, <2>10
  <2> QED
    BY <1>6, <2>2, <2>3, <2>4, <2>10, <2>11 DEF W
<1>11. CASE Turn
  <2>1. step = "turn" /\ UNCHANGED <<total, shown>> /\ Pages = page
    BY <1>11 DEF Turn, Pages
  <2>2. CASE Meta
    <3>1. page' = page + 1 /\ step' = "list" /\ Pages' = page
      BY <1>5, <1>11, <2>2 DEF Turn, Pages
    <3> QED
      BY <1>6, <2>1, <3>1
  <2>3. CASE ~Meta
    <3>1. page' = page /\ step' = "done" /\ Pages' = page
      BY <1>11, <2>3 DEF Turn, Pages
    <3>2. total <= page * Limit
      BY <1>5, <1>7, <2>3 DEF Meta
    <3> QED
      BY <1>6, <2>1, <3>1, <3>2
  <2> QED
    BY <2>2, <2>3
<1>12. ~Exported /\ ~Readings /\ ~Refuse
  BY <1>1, <1>5, ReadingsAre DEF Exported, Refuse
<1> QED
  BY <1>2, <1>8, <1>9, <1>10, <1>11, <1>12, StepsAre

LEMMA FixedFirst ==
  ASSUME Fixed
  PROVE  Wanted(first)' = Wanted(first) /\ NoTies(first)' = NoTies(first) /\ Rows(first)' = Rows(first)
<1>1. Rows(first)' = Rows(first) /\ first' = first
  BY DEF Rows, Fixed
<1>2. \A row : Asks(row)' = Asks(row)
  BY FixedOrder
<1>3. Wanted(first) = {i \in Rows(first) : Asks(first[i])}
  BY WantedIs
<1>4. Wanted(first)' = {i \in Rows(first)' : Asks(first[i])'}
  BY DEF Wanted, Asks
<1>5. Wanted(first)' = Wanted(first)
  BY <1>1, <1>2, <1>3, <1>4
<1>6. NoTies(first)' = NoTies(first)
  BY <1>1 DEF NoTies, Fixed
<1> QED
  BY <1>1, <1>5, <1>6

\* What was there at the start is among the rows.
LEMMA FirstAreWanted ==
  ASSUME \A i \in Rows(first) : table[i] = first[i]
  PROVE  Wanted(first) \subseteq Wanted(table) /\ Rows(first) \subseteq Rows(table)
  BY WantedIs DEF Rows

\* A row that arrives is newer than all, and pushes none forward.
LEMMA ArrivalIs ==
  ASSUME Types, Types', Fixed, ListOrder = "-", NoTies(table), store \notin Logs,
         NEW i \in Ids, NEW row \in Row, table[i] = None, table' = [table EXCEPT ![i] = row],
         \A j \in Rows(table) : Before(table[j].value, row.value)
  PROVE  /\ Rows(table)' = Rows(table) \union {i} /\ table'[i] = row
         /\ \A j \in Rows(table) : j # i /\ table'[j] = table[j]
         /\ NoTies(table)'
         /\ \A a \in Wanted(table) :
              a \in Wanted(table)' /\ Place(a) \in Nat /\ Place(a)' \in Nat /\ Place(a) <= Place(a)'
<1>1. table \in [Ids -> Row \union {None}] /\ None \notin Row /\ row.value \in 0 .. 99
  <2>1. table \in [Ids -> Row \union {None}]
    BY DEF Types, ListingTypeOK
  <2> QED
    BY <2>1 DEF Row
<1>2. \A j \in Rows(table) : j # i /\ table'[j] = table[j] /\ j \in Ids /\ table[j].value \in 0 .. 99
  BY <1>1, ConditionsAre DEF Rows
<1>3. Rows(table)' = Rows(table) \union {i} /\ table'[i] = row
  BY <1>1 DEF Rows
<1>4. \A j \in Rows(table) : table[j].value # row.value
  <2> SUFFICES ASSUME NEW j \in Rows(table), table[j].value = row.value PROVE FALSE
    OBVIOUS
  <2>1. Before(row.value, row.value)
    OBVIOUS
  <2>2. \A v \in 0 .. 99 : ~Before(v, v)
    <3> SUFFICES ASSUME NEW v \in 0 .. 99 PROVE ~Before(v, v)
      OBVIOUS
    <3>1. Key(v) \in Int /\ (Before(v, v) <=> Key(v) < Key(v))
      BY BeforeIs, KeyIs
    <3> QED
      BY <3>1
  <2> QED
    BY <1>1, <2>1, <2>2
<1>5. NoTies(table)'
  <2>1. CASE store = "builder"
    BY <2>1 DEF NoTies, Fixed
  <2>2. CASE store # "builder"
    <3>1. \A a, b \in Rows(table) : table[a].value = table[b].value => a = b
      BY <2>2 DEF NoTies
    <3>2. ASSUME NEW a \in Rows(table)', NEW b \in Rows(table)', table'[a].value = table'[b].value
          PROVE  a = b
      <4>1. CASE a # i /\ b # i
        BY <1>2, <1>3, <3>1, <3>2, <4>1
      <4>2. CASE a = i \/ b = i
        BY <1>2, <1>3, <1>4, <3>2, <4>2
      <4> QED
        BY <4>1, <4>2
    <3> QED
      BY <3>2 DEF NoTies
  <2> QED
    BY <2>1, <2>2
<1>6. Wanted(table) \subseteq Wanted(table)'
  <2>1. Wanted(table)' = {j \in Rows(table)' : Asks(table'[j])}
    <3>1. \A r : Asks(r)' = Asks(r)
      BY FixedOrder
    <3>2. Wanted(table)' = {j \in Rows(table)' : Asks(table[j])'}
      BY DEF Wanted, Asks
    <3> QED
      BY <3>1, <3>2
  <2> QED
    BY <1>2, <1>3, <2>1, WantedIs
<1>7. \A j, a \in Rows(table) : Precedes(table, j, a)' = Precedes(table, j, a)
  <2> SUFFICES ASSUME NEW j \in Rows(table), NEW a \in Rows(table)
               PROVE  Precedes(table, j, a)' = Precedes(table, j, a)
    OBVIOUS
  <2>1. table'[j] = table[j] /\ table'[a] = table[a]
    BY <1>2
  <2>2. ListOrder' = ListOrder /\ (\A x, y : Before(x, y)' = Before(x, y))
    BY FixedOrder
  <2>3. Unordered' = Unordered
    BY <2>2, Zenon DEF Unordered
  <2> QED
    BY <2>1, <2>2, <2>3 DEF Precedes, Fixed
<1>8. ASSUME NEW a \in Wanted(table)
      PROVE  Place(a) \in Nat /\ Place(a)' \in Nat /\ Place(a) <= Place(a)'
  <2>1. Wanted(table) \subseteq Rows(table)
    BY DEF Wanted
  <2>2. Ahead(a) \subseteq Ahead(a)'
    BY <1>6, <1>7, <2>1 DEF Ahead
  <2>3. Ahead(a)' \in SUBSET Ids /\ Ahead(a) \in SUBSET Ids
    BY <1>3, <2>1 DEF Ahead, Wanted, Rows
  <2> QED
    BY <2>2, <2>3, RowsAreFinite DEF Place
<1> QED
  BY <1>2, <1>3, <1>5, <1>6, <1>8

\* What Arriving says of the pages, of any table the old rows are in.
ShownSoFar ==
  /\ step = "select" => total = Cardinality(Wanted(table))
  /\ \A i \in Wanted(first) : Place(i) < Pages * Limit => i \in ToSet(shown)
  /\ step = "done" \/ (step = "turn" /\ total <= page * Limit) => Wanted(first) \subseteq ToSet(shown)

LEMMA ArrivingUnderWrites ==
  ASSUME Types, Types', Arriving, Writes,
         Plain', ListOrder' = "-", ~removed', ~older', NoTies(first)', step' # "refused"
  PROVE  /\ NoTies(table)'
         /\ \A i \in Rows(first)' : table'[i] = first'[i]
         /\ \A i \in Rows(first)', j \in Rows(table)' \ Rows(first)' : Before(first[i].value, table[j].value)'
         /\ ~torn' => ShownSoFar'
<1>1. /\ step \notin {"refused", "done"} /\ UNCHANGED client
      /\ torn' = (torn \/ step = "select")
      /\ removed' = removed
  BY WritesAre
<1>2. PICK i \in Ids, row \in Row :
        /\ table[i] = None /\ table' = [table EXCEPT ![i] = row]
        /\ older' = (older \/ \E j \in Rows(table) : ~Before(table[j].value, row.value))
  BY WritesAre
<1>3. Fixed /\ step' = step /\ shown' = shown /\ total' = total /\ page' = page
  BY <1>1 DEF client, Fixed
<1>4. /\ Plain /\ Limit' = Limit /\ ListOrder = "-"
      /\ Wanted(first)' = Wanted(first) /\ Rows(first)' = Rows(first) /\ NoTies(first)
      /\ first' = first /\ \A a, b : Before(a, b)' = Before(a, b)
  BY <1>3, FixedFirst, FixedOrder DEF Fixed
<1>5. /\ NoTies(table)
      /\ \A a \in Rows(first) : table[a] = first[a]
      /\ \A a \in Rows(first), j \in Rows(table) \ Rows(first) : Before(first[a].value, table[j].value)
      /\ ~torn => ShownSoFar
  BY <1>1, <1>2, <1>3, <1>4 DEF Arriving, ShownSoFar
<1>6. \A j \in Rows(table) : Before(table[j].value, row.value)
  BY <1>2
<1>7. store \notin Logs
  BY <1>4, ListIsNoLog DEF Plain
<1>8. /\ Rows(table)' = Rows(table) \union {i} /\ table'[i] = row
      /\ \A j \in Rows(table) : j # i /\ table'[j] = table[j]
      /\ NoTies(table)'
      /\ \A a \in Wanted(table) :
           a \in Wanted(table)' /\ Place(a) \in Nat /\ Place(a)' \in Nat /\ Place(a) <= Place(a)'
  BY <1>2, <1>3, <1>4, <1>5, <1>6, <1>7, ArrivalIs
<1>9. Wanted(first) \subseteq Wanted(table) /\ Rows(first) \subseteq Rows(table)
  BY <1>5, FirstAreWanted
<1>10. \A a \in Rows(first)' : table'[a] = first'[a]
  BY <1>4, <1>5, <1>8, <1>9
<1>11. ASSUME NEW a \in Rows(first)', NEW j \in Rows(table)' \ Rows(first)'
       PROVE  Before(first[a].value, table[j].value)'
  <2>1. a \in Rows(first) /\ first[a] = table[a] /\ a \in Rows(table)
    BY <1>4, <1>5, <1>9
  <2>2. Before(first[a].value, table'[j].value)
    <3>1. CASE j = i
      BY <1>6, <1>8, <2>1, <3>1
    <3>2. CASE j # i
      BY <1>4, <1>5, <1>8, <2>1, <3>2
    <3> QED
      BY <3>1, <3>2
  <2> QED
    BY <1>4, <2>2 DEF Before, Fixed
<1>12. ASSUME ~torn'
       PROVE  ShownSoFar'
  <2>1. ~torn /\ step # "select"
    BY <1>1, <1>12
  <2>2. ShownSoFar
    BY <1>5, <2>1
  <2>3. Pages' = Pages
    BY <1>3 DEF Pages
  <2>4. Pages * Limit \in Nat
    <3>1. page \in Nat \ {0} /\ Limit \in Nat \ {0}
      BY LimitIs DEF Types, ListingTypeOK
    <3>2. (page - 1) * Limit \in Nat /\ page * Limit \in Nat
      BY <3>1, PageEnds
    <3> QED
      BY <3>2 DEF Pages
  <2>5. ASSUME NEW a \in Wanted(first), Place(a)' < Pages * Limit
        PROVE  a \in ToSet(shown)
    <3>1. Place(a) \in Nat /\ Place(a)' \in Nat /\ Place(a) <= Place(a)'
      BY <1>8, <1>9
    <3>2. Place(a) < Pages * Limit
      BY <2>4, <2>5, <3>1
    <3> QED
      BY <2>2, <3>2 DEF ShownSoFar
  <2>6. ToSet(shown)' = ToSet(shown)
    BY <1>3 DEF ToSet
  <2> QED
    BY <1>3, <1>4, <2>1, <2>2, <2>3, <2>5, <2>6 DEF ShownSoFar
<1> QED
  BY <1>8, <1>10, <1>11, <1>12

LEMMA ArrivingStays ==
  ASSUME Types, Types', Arriving, [ListingNext]_listingVars
  PROVE  Arriving'
<1>1. SUFFICES ASSUME Plain', ListOrder' = "-", ~removed', ~older', NoTies(first)', step' # "refused"
      PROVE  /\ NoTies(table)'
             /\ \A i \in Rows(first)' : table'[i] = first'[i]
             /\ \A i \in Rows(first)', j \in Rows(table)' \ Rows(first)' : Before(first[i].value, table[j].value)'
             /\ ~torn' => ShownSoFar'
  BY DEF Arriving, ShownSoFar
<1> SUFFICES ASSUME ~Writes
             PROVE  /\ NoTies(table)'
                    /\ \A i \in Rows(first)' : table'[i] = first'[i]
                    /\ \A i \in Rows(first)', j \in Rows(table)' \ Rows(first)' :
                         Before(first[i].value, table[j].value)'
                    /\ ~torn' => ShownSoFar'
  BY <1>1, ArrivingUnderWrites
<1>2. Fixed /\ table' = table /\ torn' = torn /\ removed' = removed /\ older' = older
  <2>1. CASE UNCHANGED listingVars
    BY <2>1 DEF listingVars, client, ghosts, Fixed
  <2>2. CASE ListingNext
    <3>1. Refuse \/ Counting \/ Selecting \/ Exported \/ Turn \/ Readings
      BY <2>2, StepsAre
    <3>2. CASE Readings
      BY <3>2, ReadingsAre DEF Fixed, ghosts
    <3> QED
      BY <3>1, <3>2 DEF Refuse, Counting, Counted, Selecting, Selected, Exported, Turn, Fixed, ghosts
  <2> QED
    BY <2>1, <2>2
<1>3. /\ Plain /\ Limit' = Limit /\ ListOrder = "-" /\ Wanted(table)' = Wanted(table)
      /\ Wanted(first)' = Wanted(first) /\ Rows(first)' = Rows(first) /\ Rows(table)' = Rows(table)
      /\ NoTies(first) /\ NoTies(table)' = NoTies(table)
      /\ first' = first /\ \A a, b : Before(a, b)' = Before(a, b)
  BY <1>1, <1>2, FixedFirst, FixedOrder, FixedTable DEF Fixed, Rows
<1>4. \A i : Place(i)' = Place(i)
  BY <1>2, FixedTable
<1>5. /\ query.kind = "list" /\ PerPage <= Cap /\ Honoured
      /\ Limit \in Nat \ {0} /\ Limit = PerPage /\ page \in Nat \ {0} /\ total \in Nat
      /\ step \in {"list", "select", "turn", "done", "refused"}
      /\ shown \in Seq(Ids) /\ Wanted(table) \in SUBSET Ids
  BY <1>3, LimitIs, RowsAreFinite DEF Plain, Types, Settled, ListingTypeOK, Wanted, Rows
<1>6. step # "refused"
  <2>1. CASE UNCHANGED listingVars
    BY <1>1, <2>1 DEF listingVars, client
  <2>2. CASE ListingNext
    BY <1>1, <2>2, StepsAre, ReadingsAre
       DEF Counting, Counted, Selecting, Selected, Exported, Turn, Refuse
  <2> QED
    BY <2>1, <2>2
<1>7. /\ NoTies(table)
      /\ \A i \in Rows(first) : table[i] = first[i]
      /\ \A i \in Rows(first), j \in Rows(table) \ Rows(first) : Before(first[i].value, table[j].value)
      /\ ~torn => ShownSoFar
  BY <1>1, <1>2, <1>3, <1>6 DEF Arriving, ShownSoFar
<1>8. /\ NoTies(table)'
      /\ \A i \in Rows(first)' : table'[i] = first'[i]
      /\ \A i \in Rows(first)', j \in Rows(table)' \ Rows(first)' : Before(first[i].value, table[j].value)'
  BY <1>2, <1>3, <1>7
<1>9. Wanted(first) \subseteq Wanted(table)
  BY <1>7, FirstAreWanted
<1>10. Ordered
  <2>1. store \notin Logs
    BY <1>5, ListIsNoLog
  <2>2. ~Unordered
    BY <1>3, OrderIs
  <2> QED
    BY <1>7, <2>1, <2>2 DEF Ordered
<1>11. (page - 1) * Limit \in Nat /\ page * Limit \in Nat /\ page * Limit = (page - 1) * Limit + Limit
  BY <1>5, PageEnds
<1> SUFFICES ASSUME ~torn, ShownSoFar
             PROVE  /\ step' = "select" => total' = Cardinality(Wanted(table))
                    /\ \A i \in Wanted(first) : Place(i) < Pages' * Limit => i \in ToSet(shown')
                    /\ step' = "done" \/ (step' = "turn" /\ total' <= page' * Limit) =>
                         Wanted(first) \subseteq ToSet(shown')
  <2>1. ToSet(shown') = ToSet(shown)'
    BY DEF ToSet
  <2> QED
    BY <1>2, <1>3, <1>4, <1>7, <1>8, <2>1 DEF ShownSoFar
<1>12. CASE UNCHANGED listingVars
  BY <1>12 DEF listingVars, client, ShownSoFar, Pages
<1>13. CASE Counting
  BY <1>5, <1>13 DEF Counting, Counted, CountedOf, ShownSoFar, Pages
<1>14. CASE Selecting
  <2>1. PICK found : Selected(found) /\ SelectedOf(found)
    BY <1>14 DEF Selecting
  <2>2. /\ found = Wanted(table) /\ step = "select" /\ step' = "turn"
        /\ page' = page /\ total' = total
        /\ Returns(Wanted(table), ListOrder, (page - 1) * Limit, Limit)
    BY <1>5, <2>1 DEF Selected, SelectedOf, Offset
  <2>3. Pages = page - 1 /\ Pages' = page
    BY <2>2 DEF Pages
  <2> DEFINE o == (page - 1) * Limit
             W == Wanted(table)
             P == [i \in W |-> Place(i)]
  <2>4. o \in Nat /\ page * Limit = o + Limit /\ Limit \in Nat
    BY <1>5, <1>11
  <2>5. PlacesOf(P, W, ListOrder)
    BY <1>10, ListHasPlaces
  <2>6. \A i \in W : P[i] = Place(i) /\ Place(i) \in Nat /\ Place(i) < Cardinality(W) /\ Cardinality(W) \in Nat
    BY PlacesEnd
  <2>7. Returns(W, ListOrder, o, Limit) /\ W \in SUBSET Ids
    BY <1>5, <2>2
  <2>8. \A i \in Wanted(first) : i \in W /\ (Place(i) < o => i \in ToSet(shown))
    BY <1>9, <2>3 DEF ShownSoFar
  <2>9. total = Cardinality(W)
    BY <2>2 DEF ShownSoFar
  <2> HIDE DEF o, W, P
  <2>10. \A i \in W : o <= P[i] /\ P[i] < o + Limit => i \in ToSet(shown')
    BY <2>4, <2>5, <2>7, ItemsAre
  <2>11. ToSet(shown) \subseteq ToSet(shown')
    <3>1. /\ shown' \in Seq(Ids) /\ Len(shown') = Len(shown) + Len(items') /\ items' \in Seq(W)
          /\ \A k \in 1 .. Len(shown) : shown'[k] = shown[k]
      BY <2>4, <2>7, ReturnsIs
    <3>2. Len(items') \in Nat /\ Len(shown) \in Nat
      BY <1>5, <3>1
    <3>3. \A k \in DOMAIN shown : k \in DOMAIN shown' /\ shown'[k] = shown[k]
      BY <1>5, <3>1, <3>2
    <3> QED
      BY <3>3 DEF ToSet
  <2>12. ASSUME NEW i \in Wanted(first), Place(i) < page * Limit PROVE i \in ToSet(shown')
    <3>1. i \in W /\ P[i] = Place(i) /\ Place(i) \in Nat
      BY <2>6, <2>8
    <3>2. CASE Place(i) < o
      BY <2>8, <2>11, <3>2
    <3>3. CASE ~(Place(i) < o)
      BY <2>4, <2>10, <2>12, <3>1, <3>3
    <3> QED
      BY <3>2, <3>3
  <2>13. ASSUME total <= page * Limit PROVE Wanted(first) \subseteq ToSet(shown')
    <3> SUFFICES ASSUME NEW i \in Wanted(first) PROVE i \in ToSet(shown')
      OBVIOUS
    <3>1. Place(i) \in Nat /\ Place(i) < total /\ total \in Nat
      BY <2>6, <2>8, <2>9
    <3>2. Place(i) < page * Limit
      BY <1>11, <2>13, <3>1
    <3> QED
      BY <2>12, <3>2
  <2> QED
    BY <2>2, <2>3, <2>12, <2>13
<1>15. CASE Turn
  <2>1. step = "turn" /\ UNCHANGED <<total, shown>> /\ Pages = page
    BY <1>15 DEF Turn, Pages
  <2>2. CASE Meta
    <3>1. page' = page + 1 /\ step' = "list" /\ Pages' = page
      BY <1>5, <1>15, <2>2 DEF Turn, Pages
    <3> QED
      BY <2>1, <3>1 DEF ShownSoFar
  <2>3. CASE ~Meta
    <3>1. page' = page /\ step' = "done" /\ Pages' = page
      BY <1>15, <2>3 DEF Turn, Pages
    <3>2. total <= page * Limit
      BY <1>5, <1>11, <2>3 DEF Meta
    <3> QED
      BY <2>1, <3>1, <3>2 DEF ShownSoFar
  <2> QED
    BY <2>2, <2>3
<1>16. ~Exported /\ ~Readings /\ ~Refuse
  BY <1>1, <1>5, ReadingsAre DEF Exported, Refuse
<1> QED
  BY <1>12, <1>13, <1>14, <1>15, <1>16, StepsAre

-----------------------------------------------------------------------------
\* One reading.

LEMMA OthersAre ==
  ASSUME Types, query.kind # "list", store \notin Logs
  PROVE  query.filter = {} /\ query.perPage = Cap
<1>1. query \in Asked /\ store # "builder"
  BY ListIsNoLog DEF Types, Settled
<1>2. \A q \in AskedLists : q.kind = "list"
  BY Zenon DEF AskedLists
<1> DEFINE Other == [kind : {"export", "audit", "files"}, column : {"created_at"}, sort : {""},
                     filter : {{}}, perPage : {Cap}]
<1>3. \A q \in Other : q.filter = {} /\ q.perPage = Cap
  BY Zenon
<1>4. query \in AskedLists \union Other
  BY <1>1, Zenon DEF Asked
<1> HIDE DEF Other
<1> QED
  BY <1>2, <1>3, <1>4

LEMMA AllIs ==
  ASSUME Types, query.kind # "list"
  PROVE  /\ All \in SUBSET Ids
         /\ query.kind = "export" => All = Wanted(table)
         /\ query.kind \in {"audit", "files"} => Logged = All
<1>1. All \in SUBSET Ids
  BY DEF All, Wanted, Rows
<1>2. \A i \in Rows(table) : \A c \in query.filter :
        Matches(c, table[i].value) <=> Compares(c, table[i].value, Before)
  <2>1. CASE store \in Logs
    BY <2>1, LogMatchesIs
  <2>2. CASE store \notin Logs
    BY <2>2, OthersAre
  <2> QED
    BY <2>1, <2>2
<1> QED
  BY <1>1, <1>2 DEF All, Logged

\* What was sorted is sorted by age.
LEMMA SortedByAge ==
  ASSUME NEW s, Sorted(s, IF store = "memlog" THEN "recorded" ELSE "-"),
         NEW j \in DOMAIN s, NEW k \in DOMAIN s, j < k
  PROVE  Older(s[k], s[j])
<1>1. CASE store = "memlog"
  BY <1>1, Zenon DEF Sorted, Older
<1>2. CASE store # "memlog"
  BY <1>2, Zenon DEF Sorted, Older
<1> QED
  BY <1>1, <1>2

\* What is seen are the first of s: all others of W are after them.
StartOf(s, seen, W) ==
  \A k \in DOMAIN seen :
    \A i \in (W \ ToSet(seen)) \union {seen[n] : n \in k + 1 .. Len(seen)} :
      \E m \in DOMAIN s : k \in DOMAIN s /\ k < m /\ s[k] = seen[k] /\ s[m] = i

LEMMA OneReadingIs ==
  ASSUME Types, NEW W \in SUBSET Ids, NEW order, NEW l \in Nat,
         Returns(W, order, 0, l), shown = <<>>
  PROVE  /\ ToSet(shown') \subseteq W /\ Len(shown') = Cardinality(ToSet(shown'))
         /\ Cardinality(W) <= l => ToSet(shown') = W
         /\ l < Cardinality(W) => Len(shown') = l
         /\ \E s \in SetToSeqs(W) : Sorted(s, order) /\ StartOf(s, shown', W)
<1> DEFINE n == Cardinality(W)
           h == Len(shown')
<1>1. /\ items' \in Seq(W) /\ shown' \in Seq(Ids) /\ n \in Nat
      /\ n <= 0 => Len(items') = 0
      /\ 0 < n /\ n <= 0 + l => Len(items') = n - 0
      /\ 0 + l < n => Len(items') = l
      /\ Len(shown') = Len(shown) + Len(items')
      /\ \A k \in 1 .. Len(items') : shown'[Len(shown) + k] = items'[k]
  BY ReturnsIs
<1>2. PICK s \in SetToSeqs(W) :
        /\ Sorted(s, order)
        /\ \A k \in 1 .. Len(items') : items'[k] = s[0 + k] /\ 0 + k \in 1 .. n
  BY ReturnsIs
<1>3. /\ s \in [1 .. n -> W] /\ DOMAIN s = 1 .. n
      /\ \A j, k \in 1 .. n : s[j] = s[k] => j = k
      /\ \A i \in W : \E k \in 1 .. n : s[k] = i
  BY RowsAreFinite, Arrangement
<1>4. Len(shown) = 0 /\ Len(items') \in Nat
  BY <1>1
<1>5. h \in Nat /\ h <= n /\ (n <= l => h = n) /\ (l < n => h = l) /\ h = Len(items')
  BY <1>1, <1>4
<1>6. \A k \in 1 .. h : k \in 1 .. n /\ shown'[k] = s[k]
  <2> SUFFICES ASSUME NEW k \in 1 .. h PROVE k \in 1 .. n /\ shown'[k] = s[k]
    OBVIOUS
  <2>1. 0 + k = k /\ k \in 1 .. Len(items') /\ k \in 1 .. n
    BY <1>1, <1>5
  <2> QED
    BY <1>1, <1>2, <1>4, <2>1
<1>7. DOMAIN shown' = 1 .. h
  BY <1>1
<1> HIDE DEF n, h
<1>8. ToSet(shown') = {s[k] : k \in 1 .. h}
  BY <1>6, <1>7 DEF ToSet
<1>9. ToSet(shown') \subseteq W
  BY <1>3, <1>6, <1>8
<1>10. h = Cardinality(ToSet(shown'))
  <2> DEFINE T == ToSet(shown')
             f == [k \in 1 .. h |-> s[k]]
  <2>1. IsFiniteSet(1 .. h) /\ Cardinality(1 .. h) = h
    <3>1. h \in Nat
      BY <1>5
    <3> QED
      BY <3>1, FS_Interval
  <2>2. f \in [1 .. h -> T] /\ (\A j, k \in 1 .. h : f[j] = f[k] => j = k) /\ \A i \in T : \E k \in 1 .. h : f[k] = i
    BY <1>3, <1>6, <1>8
  <2> HIDE DEF T, f
  <2>3. f \in Bijection(1 .. h, T)
    BY <2>2 DEF Bijection, Injection, Surjection, IsInjective
  <2>4. Cardinality(T) = Cardinality(1 .. h)
    BY <2>1, <2>3, FS_Bijection DEF ExistsBijection
  <2> QED
    BY <2>1, <2>4 DEF T
<1>11. n <= l => ToSet(shown') = W
  BY <1>3, <1>5, <1>8, <1>9
<1>12. ASSUME NEW k \in DOMAIN shown',
              NEW i \in (W \ ToSet(shown')) \union {shown'[m] : m \in k + 1 .. h}
       PROVE  \E m \in DOMAIN s : k \in DOMAIN s /\ k < m /\ s[k] = shown'[k] /\ s[m] = i
  <2>1. k \in 1 .. h /\ k \in 1 .. n /\ shown'[k] = s[k]
    BY <1>6, <1>7
  <2>2. CASE i \in W \ ToSet(shown')
    <3>1. PICK m \in 1 .. n : s[m] = i
      BY <1>3, <2>2
    <3>2. ~(m \in 1 .. h)
      BY <1>8, <2>2, <3>1
    <3>3. k < m
      BY <1>5, <2>1, <3>1, <3>2
    <3> QED
      BY <1>3, <2>1, <3>1, <3>3
  <2>3. CASE i \in {shown'[m] : m \in k + 1 .. h}
    <3>1. PICK m \in k + 1 .. h : shown'[m] = i
      BY <2>3
    <3>2. m \in 1 .. h /\ k < m
      BY <2>1, <3>1, <1>5
    <3> QED
      BY <1>3, <1>6, <2>1, <3>1, <3>2
  <2> QED
    BY <2>2, <2>3
<1>13. StartOf(s, shown', W)
  BY <1>12 DEF StartOf, h
<1> QED
  BY <1>2, <1>5, <1>9, <1>10, <1>11, <1>13 DEF n, h

\* Whole, of what the next state shows.
WholeOf(seen) ==
  /\ ToSet(seen) \subseteq All /\ Len(seen) = Cardinality(ToSet(seen))
  /\ IF query.kind = "files" \/ Cardinality(All) <= Room THEN ToSet(seen) = All
     ELSE Len(seen) = Room
  /\ query.kind = "audit" =>
       \A k \in DOMAIN seen :
         \A i \in (All \ ToSet(seen)) \union {seen[n] : n \in k + 1 .. Len(seen)} :
           Older(i, seen[k])

\* A row meets the conditions.
Meets(row) == \A c \in query.filter : Compares(c, row.value, Before)

LEMMA FixedAll ==
  ASSUME Fixed, table' = table
  PROVE  All' = All /\ \A i, j : Older(i, j)' = Older(i, j)
<1>1. \A n : Text(n)' = Text(n)
  BY DEF Text, Fixed
<1>2. \A a, b : Before(a, b)' = Before(a, b)
  BY FixedOrder
<1>3. \A row : Meets(row)' = Meets(row)
  BY <1>1, <1>2 DEF Meets, Compares, Fixed
<1>4. Rows(table)' = Rows(table) /\ Wanted(table)' = Wanted(table)
  BY FixedTable DEF Rows
<1>5. All = IF query.kind = "export" THEN Wanted(table)
            ELSE {i \in Rows(table) :
                    /\ \/ reader.tenant \in {NoTenant, table[i].tenant}
                       \/ reader.super /\ store \notin Logs
                    /\ Meets(table[i])}
  BY DEF All, Meets
<1>6. All' = IF query'.kind = "export" THEN Wanted(table)'
             ELSE {i \in Rows(table)' :
                     /\ \/ reader'.tenant \in {NoTenant, table'[i].tenant}
                        \/ reader'.super /\ store' \notin Logs
                     /\ Meets(table[i])'}
  BY DEF All, Meets
<1>7. All' = All
  BY <1>3, <1>4, <1>5, <1>6 DEF Fixed
<1>8. \A i, j : Older(i, j)' = Older(i, j)
  BY <1>2 DEF Older, Fixed
<1> QED
  BY <1>7, <1>8

LEMMA ReadingIs ==
  ASSUME Types, query.kind # "list", NEW order, NEW l \in Nat, Returns(All, order, 0, l), shown = <<>>,
         query.kind = "files" => l = Cardinality(Ids),
         query.kind # "files" => l = Room,
         query.kind = "audit" => order = IF store = "memlog" THEN "recorded" ELSE "-"
  PROVE  WholeOf(shown')
<1>1. All \in SUBSET Ids /\ Cardinality(All) \in Nat /\ Cardinality(All) <= Cardinality(Ids)
  BY AllIs, RowsAreFinite
<1>2. /\ ToSet(shown') \subseteq All /\ Len(shown') = Cardinality(ToSet(shown'))
      /\ Cardinality(All) <= l => ToSet(shown') = All
      /\ l < Cardinality(All) => Len(shown') = l
  BY <1>1, OneReadingIs
<1>3. IF query.kind = "files" \/ Cardinality(All) <= Room THEN ToSet(shown') = All ELSE Len(shown') = Room
  BY <1>1, <1>2
<1>4. ASSUME query.kind = "audit", NEW k \in DOMAIN shown',
             NEW i \in (All \ ToSet(shown')) \union {shown'[n] : n \in k + 1 .. Len(shown')}
      PROVE  Older(i, shown'[k])
  <2>1. PICK s \in SetToSeqs(All) : Sorted(s, order) /\ StartOf(s, shown', All)
    BY <1>1, OneReadingIs
  <2>2. PICK m \in DOMAIN s : k \in DOMAIN s /\ k < m /\ s[k] = shown'[k] /\ s[m] = i
    BY <1>4, <2>1 DEF StartOf
  <2>3. Older(s[m], s[k])
    BY <1>4, <2>1, <2>2, SortedByAge
  <2> QED
    BY <2>2, <2>3 DEF Older
<1> QED
  BY <1>2, <1>3, <1>4 DEF WholeOf

LEMMA ReadingStays ==
  ASSUME Types, Types', Reading, [ListingNext]_listingVars
  PROVE  Reading'
<1>1. SUFFICES ASSUME query'.kind # "list", step' \in {"audit", "done"}, writes' = 0, query'.perPage <= Cap
               PROVE  Whole'
  BY DEF Reading
<1>2. ~Writes
  <2>1. writes \in 0 .. budget
    BY DEF Types, ListingTypeOK
  <2>2. writes >= 0 /\ writes \in Int
    BY <2>1
  <2>3. Writes => writes' = writes + 1
    BY WritesAre
  <2> QED
    BY <1>1, <2>2, <2>3
<1>3. Fixed /\ table' = table /\ writes' = writes
  <2>1. CASE UNCHANGED listingVars
    BY <2>1 DEF listingVars, client, Fixed
  <2>2. CASE ListingNext
    <3>1. Refuse \/ Counting \/ Selecting \/ Exported \/ Turn \/ Readings
      BY <1>2, <2>2, StepsAre
    <3>2. CASE Readings
      BY <3>2, ReadingsAre DEF Fixed
    <3> QED
      BY <3>1, <3>2 DEF Refuse, Counting, Counted, Selecting, Selected, Exported, Turn, Fixed
  <2> QED
    BY <2>1, <2>2
<1>4. query.kind # "list" /\ query.perPage <= Cap /\ query' = query
  BY <1>1, <1>3 DEF Fixed
<1>5. All' = All /\ Room' = Room /\ \A i, j : Older(i, j)' = Older(i, j)
  BY <1>3, FixedAll, FixedOrder
<1> SUFFICES WholeOf(shown')
  <2>1. ToSet(shown)' = ToSet(shown')
    BY DEF ToSet
  <2> QED
    BY <1>4, <1>5, <2>1 DEF WholeOf, Whole
<1>6. step \in {"audit", "done"} => WholeOf(shown)
  BY <1>1, <1>3, <1>4 DEF Reading, Whole, WholeOf
<1>7. /\ step = "read" \/ step = "select" => shown = <<>>
      /\ page = 1 /\ Room \in Nat /\ All \in SUBSET Ids
  BY <1>4, AllIs, LimitIs DEF Types, Settled, Room
<1>8. CASE UNCHANGED listingVars
  BY <1>1, <1>6, <1>8 DEF listingVars, client, WholeOf
<1>9. CASE Exported
  BY <1>6, <1>9 DEF Exported, WholeOf
<1>10. CASE Selecting
  <2>1. PICK found : Selected(found) /\ SelectedOf(found)
    BY <1>10 DEF Selecting
  <2>2. /\ step = "select" /\ step' = (IF query.kind = "export" THEN "audit" ELSE "turn")
        /\ Returns(found, ListOrder, (page - 1) * Limit, Limit)
    BY <2>1 DEF Selected, Offset
  <2>3. query.kind = "export"
    BY <1>1, <2>2
  <2>4. store \notin Logs /\ query.filter = {} /\ query.perPage = Cap /\ store # "builder"
    BY <2>3, ListIsNoLog, OthersAre
  <2>5. found = All
    BY <1>4, <2>1, <2>3, <2>4, AllIs DEF SelectedOf, Honoured
  <2>6. Limit = Cap /\ Room = Cap /\ Cap \in Nat
    <3>1. Cap \in Nat \ {0}
      OBVIOUS
    <3>2. PerPage = Cap
      BY <2>4, <3>1 DEF PerPage, parseInt
    <3>3. Limit = Cap
      BY <3>1, <3>2, LimitIs
    <3> QED
      BY <2>4, <3>1, <3>3 DEF Room
  <2>7. (page - 1) * Limit = 0
    BY <1>7, <2>6
  <2>8. Returns(All, ListOrder, 0, Cap)
    BY <2>2, <2>5, <2>6, <2>7
  <2> QED
    BY <1>4, <1>7, <2>2, <2>3, <2>6, <2>8, ReadingIs
<1>11. CASE Readings
  <2>1. step = "read" /\ query.kind \in {"audit", "files"}
    BY <1>11, ReadingsAre
  <2>2. PICK order, limit :
          /\ Returns(Logged, order, 0, limit) /\ limit \in Nat
          /\ query.kind = "files" => limit = Cardinality(Ids)
          /\ query.kind = "audit" /\ store \notin Logs => limit = Cap
          /\ query.kind = "audit" /\ store \in Logs /\ query.perPage <= Cap => limit = Room
          /\ order = IF store = "memlog" THEN "recorded" ELSE "-"
    BY <1>11, ReadingsAre
  <2>3. Logged = All
    BY <1>4, <2>1, AllIs
  <2>4. query.kind # "files" => limit = Room
    <3>1. store \notin Logs => Room = Cap
      <4>1. Cap # 0
        OBVIOUS
      <4> QED
        BY <1>4, <4>1, OthersAre DEF Room
    <3> QED
      BY <1>4, <2>1, <2>2, <3>1
  <2> QED
    BY <1>4, <1>7, <2>1, <2>2, <2>3, <2>4, ReadingIs
<1>12. ~Refuse /\ ~Counting /\ ~Turn
  BY <1>1, <1>4, ListIsNoLog DEF Refuse, Counting, Counted, Turn, Types, Settled
<1> QED
  BY <1>2, <1>8, <1>9, <1>10, <1>11, <1>12, StepsAre

-----------------------------------------------------------------------------
LEMMA ListingStarts ==
  ASSUME ListingInit
  PROVE  ListingIInv
<1>1. /\ store \in Stores /\ table \in [Ids -> Row \union {None}] /\ rank \in Ranks
      /\ budget \in Budgets /\ writes = 0
      /\ reader \in [tenant : Tenants, super : BOOLEAN] /\ query \in Asked
      /\ page = 1 /\ total = 0 /\ items = <<>> /\ shown = <<>> /\ where = {}
      /\ step = IF query.kind \in {"list", "export"} THEN "list" ELSE "read"
      /\ first = table /\ removed = FALSE /\ older = FALSE /\ torn = FALSE
  BY DEF ListingInit
<1>2. rank \in [Ids -> 0 .. Cardinality(Ids)]
  <2>1. Cardinality(Ids) \in Nat
    BY RowsAreFinite
  <2>2. ASSUME NEW r \in [Ids -> 1 .. Cardinality(Ids)] PROVE r \in [Ids -> 0 .. Cardinality(Ids)]
    BY <2>1
  <2>3. [i \in Ids |-> 0] \in [Ids -> 0 .. Cardinality(Ids)]
    BY <2>1
  <2> QED
    BY <1>1, <2>2, <2>3 DEF Ranks
<1>3. query \in Query
  <2>1. AskedLists \subseteq Query
    <3>1. PerPages \subseteq Nat
      OBVIOUS
    <3> QED
      BY <3>1, Zenon DEF AskedLists, Query
  <2>2. AskedLogs \subseteq Query
    <3>1. PerPages \subseteq Nat
      OBVIOUS
    <3> QED
      BY <3>1, Zenon DEF AskedLogs, Query, Columns
  <2> DEFINE Other == [kind : {"export", "audit", "files"}, column : {"created_at"}, sort : {""},
                       filter : {{}}, perPage : {Cap}]
  <2>3. Other \subseteq Query
    <3>1. Cap \in Nat /\ {} \in Filters
      OBVIOUS
    <3> QED
      BY <3>1, Zenon DEF Query, Columns
  <2>4. query \in AskedLists \union AskedLogs \union Other
    <3>1. CASE store \in Logs
      <4>1. store # "builder"
        BY <3>1 DEF Logs
      <4> QED
        BY <1>1, <3>1, <4>1, Zenon DEF Asked
    <3>2. CASE store \notin Logs
      BY <1>1, <3>2, Zenon DEF Asked
    <3> QED
      BY <3>1, <3>2
  <2> HIDE DEF Other
  <2> QED
    BY <2>1, <2>2, <2>3, <2>4
<1>4. Types
  <2>1. query.kind \in {"list", "export", "audit", "files"}
    BY <1>3 DEF Query
  <2>2. budget \in Nat /\ Cardinality(Ids) \in Nat
    BY <1>1, RowsAreFinite
  <2>3. ListingTypeOK
    BY <1>1, <1>2, <1>3, <2>2 DEF ListingTypeOK
  <2>4. Settled
    BY <1>1, <2>1 DEF Settled
  <2> QED
    BY <2>3, <2>4 DEF Types
<1>5. Quiet
  <2>1. SUFFICES ASSUME Plain
                 PROVE LET n == Cardinality(Wanted(table))
                       IN /\ Len(shown) = IF n <= Pages * Limit THEN n ELSE Pages * Limit
                          /\ \A k \in DOMAIN shown : shown[k] \in Wanted(table) /\ Place(shown[k]) = k - 1
                          /\ step \in {"select", "turn", "done"} => total = n
                          /\ step = "done" => total <= page * Limit
    BY DEF Quiet
  <2>2. step = "list"
    BY <1>1, <2>1 DEF Plain
  <2>3. Pages * Limit = 0
    BY <1>1, <1>4, <2>2, LimitIs DEF Pages
  <2>4. Cardinality(Wanted(table)) \in Nat
    BY RowsAreFinite DEF Wanted, Rows
  <2> QED
    BY <1>1, <2>2, <2>3, <2>4
<1>6. Arriving
  <2>1. SUFFICES ASSUME Plain, NoTies(first)
                 PROVE  /\ NoTies(table)
                        /\ \A i \in Rows(first) : table[i] = first[i]
                        /\ \A i \in Rows(first), j \in Rows(table) \ Rows(first) : Before(first[i].value, table[j].value)
                        /\ ~torn => ShownSoFar
    BY DEF Arriving, ShownSoFar
  <2>2. step = "list"
    BY <1>1, <2>1 DEF Plain
  <2>3. Pages * Limit = 0
    BY <1>1, <1>4, <2>2, LimitIs DEF Pages
  <2>4. \A i \in Wanted(first) : Place(i) \in Nat
    BY <1>1, <1>4, PlacesEnd
  <2>5. ShownSoFar
    BY <2>2, <2>3, <2>4 DEF ShownSoFar
  <2> QED
    BY <1>1, <2>1, <2>5
<1>7. Reading
  BY <1>1 DEF Reading
<1> QED
  BY <1>4, <1>5, <1>6, <1>7 DEF ListingIInv

LEMMA ListingInvariance == ListingSpec => []ListingIInv
<1>1. ListingInit => ListingIInv
  BY ListingStarts
<1>2. ListingIInv /\ [ListingNext]_listingVars => ListingIInv'
  <2> SUFFICES ASSUME Types, Quiet, Arriving, Reading, [ListingNext]_listingVars
               PROVE  Types' /\ Quiet' /\ Arriving' /\ Reading'
    BY DEF ListingIInv
  <2>1. Types'
    BY TypesStay
  <2> QED
    BY <2>1, QuietStays, ArrivingStays, ReadingStays
<1> QED
  BY <1>1, <1>2, PTL DEF ListingSpec

\* The variables keep to their types: every page is cut from the rows there are.
THEOREM ListingTypeCorrect == ListingSpec => []ListingTypeOK
<1>1. ListingIInv => ListingTypeOK
  BY DEF ListingIInv, Types
<1> QED
  BY <1>1, ListingInvariance, PTL

\* QuietWalkIsComplete, of any table, conditions, order and limits: a client
\* that reads what nobody writes sees every row it asked for, once and in order
\* (List of the stores, handleList, Select and Count of pkg/postgres).
THEOREM QuietWalkHolds == ListingSpec => []QuietWalkIsComplete
<1>1. ListingIInv => QuietWalkIsComplete
  BY EndIs
<1> QED
  BY <1>1, ListingInvariance, PTL

\* ArrivalsHideNothing, of any number of rows inserted between the statements of
\* a list sorted newest first (List of the stores, the data grid).
THEOREM ArrivalsHold == ListingSpec => []ArrivalsHideNothing
<1>1. ListingIInv => ArrivalsHideNothing
  BY EndIs
<1> QED
  BY <1>1, ListingInvariance, PTL

\* ReadingIsWhole: an export, an audit log and a list of files show all there is
\* or are full, a log with its newest part (handleExport, Audit, Files, pkg/audit).
THEOREM ReadingHolds == ListingSpec => []ReadingIsWhole
<1>1. ListingIInv => ReadingIsWhole
  BY EndIs
<1> QED
  BY <1>1, ListingInvariance, PTL
=============================================================================
