-------------------------- MODULE AdminServerProofs --------------------------
(***************************************************************************)
(* Proofs about AdminServer for every set of requests, ids, tenants and    *)
(* calls: the inductive invariant IInv, the safety properties that follow  *)
(* from it, and the refinement of TenantTable.                             *)
(***************************************************************************)
EXTENDS AdminServer, TLAPS

USE ConstantsAssumption, CallsAssumption DEF ConstantsAssumption, CallsAssumption

\* The row Create inserts is a row of the table.
LEMMA NewRowType ==
  ASSUME TypeOK, NEW r \in Requests, call[r].op = "create", NEW id \in Ids
  PROVE  NewRow(r, id) \in Row
BY DEF TypeOK, NewRow, Row, Call, Actor

\* The update statement keeps a row a row.
LEMMA ChangedRowType ==
  ASSUME TypeOK, NEW r \in Requests, call[r].val # NoValue, NEW x \in Row
  PROVE  [x EXCEPT !.val = call[r].val] \in Row
<1>1. call[r] \in Call
  BY DEF TypeOK
<1>2. call[r].val \in Values
  BY <1>1 DEF Call
<1> QED BY <1>2 DEF Row

\* emitAudit writes well-formed events.
LEMMA EventType == ASSUME TypeOK, NEW r \in Requests PROVE EventOf(r) \in Event
BY DEF TypeOK, EventOf, Event, Call

\* A where clause only selects.
LEMMA MatchingType ==
  ASSUME NEW r, NEW ids, NEW table PROVE Matching(r, ids, table) \subseteq table
BY DEF Matching

\* Every action keeps every variable in its type (LabelsOfOperations is what
\* makes inserted and changed rows well-formed).
LEMMA TypeStep ==
  ASSUME TypeOK, LabelsOfOperations, [Next]_vars PROVE TypeOK'
<1> USE DEF TypeOK, Labels, Outcomes, GoTo, Answer, Rollback
<1>1. ASSUME NEW r \in Requests, Begin(r) PROVE TypeOK'
  BY <1>1 DEF Begin, FirstLabel
<1>2. ASSUME NEW r \in Requests, Read(r) PROVE TypeOK'
  BY <1>2, MatchingType DEF Read
<1>3. ASSUME NEW r \in Requests, InsertRow(r), pc[r] = "insert"
      PROVE  rows' \subseteq Row /\ effect' \in [Requests -> SUBSET Row]
  <2>1. call[r].ids \subseteq Ids /\ call[r].op = "create"
    BY <1>3 DEF LabelsOfOperations, Call
  <2> QED BY <1>3, <2>1, NewRowType DEF InsertRow
<1>4. ASSUME NEW r \in Requests, ChangeRow(r), pc[r] = "change"
      PROVE  rows' \subseteq Row /\ effect' \in [Requests -> SUBSET Row]
  BY <1>4, MatchingType, ChangedRowType DEF ChangeRow, LabelsOfOperations
<1>5. ASSUME NEW r \in Requests, RemoveRow(r) \/ CommitRows(r)
      PROVE  rows' \subseteq Row /\ effect' \in [Requests -> SUBSET Row]
  BY <1>5, MatchingType DEF RemoveRow, CommitRows
<1>6. ASSUME NEW r \in Requests, Insert(r) PROVE TypeOK'
  BY <1>6, <1>3 DEF Insert
<1>7. ASSUME NEW r \in Requests, InsertConflict(r) PROVE TypeOK'
  BY <1>7 DEF InsertConflict
<1>8. ASSUME NEW r \in Requests, Change(r) PROVE TypeOK'
  BY <1>8, <1>4 DEF Change
<1>9. ASSUME NEW r \in Requests, Remove(r) PROVE TypeOK'
  BY <1>9, <1>5 DEF Remove
<1>10. ASSUME NEW r \in Requests, Reread(r) PROVE TypeOK'
  BY <1>10, MatchingType DEF Reread, RereadTable
<1>11. ASSUME NEW r \in Requests, Select(r) PROVE TypeOK'
  BY <1>11, MatchingType DEF Select
<1>12. ASSUME NEW r \in Requests, Erase(r) PROVE TypeOK'
  BY <1>12, MatchingType DEF Erase
<1>13. ASSUME NEW r \in Requests, Commit(r) PROVE TypeOK'
  BY <1>13, <1>5 DEF Commit
<1>14. ASSUME NEW r \in Requests, DeadlockAbort(r) \/ Fail(r) PROVE TypeOK'
  BY <1>14 DEF DeadlockAbort, Fail
<1>15. ASSUME NEW r \in Requests, Audit(r) \/ AuditFails(r) PROVE TypeOK'
  BY <1>15, EventType DEF Audit, AuditFails, FinalOutcome
<1>16. ASSUME NEW r \in Requests, FailAfterEffect(r) PROVE TypeOK'
  BY <1>16, <1>3, <1>4, <1>5 DEF FailAfterEffect
<1>17. CASE Crash
  BY <1>17 DEF Crash
<1>18. CASE UNCHANGED vars
  BY <1>18 DEF vars
<1> QED
  BY <1>1, <1>2, <1>6, <1>7, <1>8, <1>9, <1>10, <1>11, <1>12, <1>13, <1>14,
     <1>15, <1>16, <1>17, <1>18 DEF Next, Statement

\* After an update statement, every row is the row it was, up to its values, and
\* a locked row is exactly what it was.
LEMMA ChangedRows ==
  ASSUME IInv, NEW r \in Requests, pc[r] = "change", ChangeRow(r), NEW y \in rows'
  PROVE  \E x \in rows :
           /\ y = IF x \in Matching(r, call[r].ids, rows) THEN [x EXCEPT !.val = call[r].val] ELSE x
           /\ SameRecord(x, y) /\ x.tenant = y.tenant
           /\ \A q \in Requests : x \in pending[q] => y = x
<1> DEFINE hit == Matching(r, call[r].ids, rows)
<1>1. CASE y \in rows \ hit
  BY <1>1 DEF SameRecord
<1>2. CASE \E x \in hit : y = [x EXCEPT !.val = call[r].val]
  <2>1. PICK x \in hit : y = [x EXCEPT !.val = call[r].val]
    BY <1>2
  <2>2. x \in rows /\ x \in Row
    BY DEF Matching, IInv, TypeOK
  <2>3. SameRecord(x, y) /\ x.tenant = y.tenant
    BY <2>1, <2>2 DEF Row, SameRecord
  <2>4. \A q \in Requests : x \notin pending[q]
    BY <2>2 DEF ChangeRow, Locked, IInv, LocksInTransaction
  <2> QED BY <2>1, <2>2, <2>3, <2>4
<1> QED BY <1>1, <1>2 DEF ChangeRow

\* The control flow of the handlers: which statement belongs to which operation.
LEMMA LabelsStep ==
  ASSUME IInv, [Next]_vars PROVE LabelsOfOperations'
<1> USE DEF IInv, TypeOK, Labels, GoTo, Answer, Rollback, LabelsOfOperations,
     InTransaction, Call, Ops, Lookups
<1>1. ASSUME NEW r \in Requests, Begin(r) PROVE LabelsOfOperations'
  BY <1>1 DEF Begin, FirstLabel
<1>2. ASSUME NEW r \in Requests, Read(r) PROVE LabelsOfOperations'
  BY <1>2 DEF Read
<1>3. ASSUME NEW r \in Requests, Insert(r) PROVE LabelsOfOperations'
  BY <1>3 DEF Insert, InsertRow
<1>4. ASSUME NEW r \in Requests, InsertConflict(r) PROVE LabelsOfOperations'
  BY <1>4 DEF InsertConflict
<1>5. ASSUME NEW r \in Requests, Change(r) PROVE LabelsOfOperations'
  BY <1>5 DEF Change, ChangeRow
<1>6. ASSUME NEW r \in Requests, Remove(r) PROVE LabelsOfOperations'
  BY <1>6 DEF Remove, RemoveRow
<1>7. ASSUME NEW r \in Requests, Reread(r) PROVE LabelsOfOperations'
  BY <1>7 DEF Reread, RereadTable
<1>8. ASSUME NEW r \in Requests, Select(r) PROVE LabelsOfOperations'
  BY <1>8 DEF Select
<1>9. ASSUME NEW r \in Requests, Erase(r) PROVE LabelsOfOperations'
  BY <1>9 DEF Erase
<1>10. ASSUME NEW r \in Requests, Commit(r) PROVE LabelsOfOperations'
  BY <1>10 DEF Commit, CommitRows
<1>11. ASSUME NEW r \in Requests, DeadlockAbort(r) PROVE LabelsOfOperations'
  BY <1>11 DEF DeadlockAbort
<1>12. ASSUME NEW r \in Requests, Audit(r) PROVE LabelsOfOperations'
  BY <1>12 DEF Audit
<1>13. ASSUME NEW r \in Requests, AuditFails(r) PROVE LabelsOfOperations'
  BY <1>13 DEF AuditFails
<1>14. ASSUME NEW r \in Requests, Fail(r) PROVE LabelsOfOperations'
  BY <1>14 DEF Fail
<1>15. ASSUME NEW r \in Requests, FailAfterEffect(r) PROVE LabelsOfOperations'
  BY <1>15 DEF FailAfterEffect, InsertRow, ChangeRow, RemoveRow, CommitRows
<1>16. CASE Crash
  BY <1>16 DEF Crash
<1>17. CASE UNCHANGED vars
  BY <1>17 DEF vars
<1> QED
  BY <1>1, <1>2, <1>3, <1>4, <1>5, <1>6, <1>7, <1>8, <1>9, <1>10, <1>11, <1>12, <1>13,
       <1>14, <1>15, <1>16, <1>17 DEF Next, Statement

\* Row locks: Erase takes them, Commit and Rollback release them, and no other
\* statement touches a locked row.
LEMMA LocksStep ==
  ASSUME IInv, [Next]_vars PROVE LocksInTransaction'
<1> USE DEF IInv, TypeOK, Labels, GoTo, Answer, Rollback, LocksInTransaction,
     LabelsOfOperations, InTransaction, Locked, Matching
<1>1. ASSUME NEW r \in Requests, Begin(r) PROVE LocksInTransaction'
  BY <1>1 DEF Begin, FirstLabel
<1>2. ASSUME NEW r \in Requests, Read(r) PROVE LocksInTransaction'
  BY <1>2 DEF Read
<1>3. ASSUME NEW r \in Requests, Insert(r) PROVE LocksInTransaction'
  BY <1>3 DEF Insert, InsertRow
<1>4. ASSUME NEW r \in Requests, InsertConflict(r) PROVE LocksInTransaction'
  BY <1>4 DEF InsertConflict
<1>5. ASSUME NEW r \in Requests, Change(r) PROVE LocksInTransaction'
  BY <1>5 DEF Change, ChangeRow
<1>6. ASSUME NEW r \in Requests, Remove(r) PROVE LocksInTransaction'
  BY <1>6 DEF Remove, RemoveRow
<1>7. ASSUME NEW r \in Requests, Reread(r) PROVE LocksInTransaction'
  BY <1>7 DEF Reread, RereadTable
<1>8. ASSUME NEW r \in Requests, Select(r) PROVE LocksInTransaction'
  BY <1>8 DEF Select
<1>9. ASSUME NEW r \in Requests, Erase(r) PROVE LocksInTransaction'
  BY <1>9 DEF Erase
<1>10. ASSUME NEW r \in Requests, Commit(r) PROVE LocksInTransaction'
  BY <1>10 DEF Commit, CommitRows
<1>11. ASSUME NEW r \in Requests, DeadlockAbort(r) PROVE LocksInTransaction'
  BY <1>11 DEF DeadlockAbort
<1>12. ASSUME NEW r \in Requests, Audit(r) PROVE LocksInTransaction'
  BY <1>12 DEF Audit
<1>13. ASSUME NEW r \in Requests, AuditFails(r) PROVE LocksInTransaction'
  BY <1>13 DEF AuditFails
<1>14. ASSUME NEW r \in Requests, Fail(r) PROVE LocksInTransaction'
  BY <1>14 DEF Fail
<1>15. ASSUME NEW r \in Requests, FailAfterEffect(r) PROVE LocksInTransaction'
  BY <1>15 DEF FailAfterEffect, InsertRow, ChangeRow, RemoveRow, CommitRows
<1>16. CASE Crash
  BY <1>16 DEF Crash
<1>17. CASE UNCHANGED vars
  BY <1>17 DEF vars
<1> QED
  BY <1>1, <1>2, <1>3, <1>4, <1>5, <1>6, <1>7, <1>8, <1>9, <1>10, <1>11, <1>12, <1>13,
       <1>14, <1>15, <1>16, <1>17 DEF Next, Statement

\* Get, Select and the reread return rows the request asked for and may see.
LEMMA LookupsStep ==
  ASSUME IInv, [Next]_vars PROVE Lookups'
<1> USE DEF IInv, TypeOK, Labels, GoTo, Answer, Rollback, Lookups, LabelsOfOperations,
     InTransaction, Visible, Matching, RereadTable, FinalOutcome, Bookkeeping, Current
<1>1. ASSUME NEW r \in Requests, Begin(r) PROVE Lookups'
  BY <1>1 DEF Begin, FirstLabel
<1>2. ASSUME NEW r \in Requests, Read(r) PROVE Lookups'
  BY <1>2 DEF Read
<1>3. ASSUME NEW r \in Requests, Insert(r) PROVE Lookups'
  BY <1>3 DEF Insert, InsertRow
<1>4. ASSUME NEW r \in Requests, InsertConflict(r) PROVE Lookups'
  BY <1>4 DEF InsertConflict
<1>5. ASSUME NEW r \in Requests, Change(r) PROVE Lookups'
  BY <1>5 DEF Change, ChangeRow
<1>6. ASSUME NEW r \in Requests, Remove(r) PROVE Lookups'
  BY <1>6 DEF Remove, RemoveRow
<1>7. ASSUME NEW r \in Requests, Reread(r) PROVE Lookups'
  BY <1>7 DEF Reread, RereadTable
<1>8. ASSUME NEW r \in Requests, Select(r) PROVE Lookups'
  BY <1>8 DEF Select
<1>9. ASSUME NEW r \in Requests, Erase(r) PROVE Lookups'
  BY <1>9 DEF Erase
<1>10. ASSUME NEW r \in Requests, Commit(r) PROVE Lookups'
  BY <1>10 DEF Commit, CommitRows
<1>11. ASSUME NEW r \in Requests, DeadlockAbort(r) PROVE Lookups'
  BY <1>11 DEF DeadlockAbort
<1>12. ASSUME NEW r \in Requests, Audit(r) PROVE Lookups'
  BY <1>12 DEF Audit
<1>13. ASSUME NEW r \in Requests, AuditFails(r) PROVE Lookups'
  BY <1>13 DEF AuditFails
<1>14. ASSUME NEW r \in Requests, Fail(r) PROVE Lookups'
  BY <1>14 DEF Fail
<1>15. ASSUME NEW r \in Requests, FailAfterEffect(r) PROVE Lookups'
  BY <1>15 DEF FailAfterEffect, InsertRow, ChangeRow, RemoveRow, CommitRows
<1>16. CASE Crash
  BY <1>16 DEF Crash
<1>17. CASE UNCHANGED vars
  BY <1>17 DEF vars
<1> QED
  BY <1>1, <1>2, <1>3, <1>4, <1>5, <1>6, <1>7, <1>8, <1>9, <1>10, <1>11, <1>12, <1>13,
       <1>14, <1>15, <1>16, <1>17 DEF Next, Statement

\* Ids stay unique and a record is inserted once, by the Create that made it.
LEMMA OriginsStep ==
  ASSUME IInv, [Next]_vars PROVE Origins'
<1> USE DEF IInv, TypeOK, Labels, GoTo, Answer, Rollback, Origins, UniqueIds, Inserted,
     SameRecord, LabelsOfOperations, Matching, NewRow
<1>1. ASSUME NEW r \in Requests, Begin(r) PROVE Origins'
  BY <1>1 DEF Begin, FirstLabel
<1>2. ASSUME NEW r \in Requests, Read(r) PROVE Origins'
  BY <1>2 DEF Read
<1>3. ASSUME NEW r \in Requests, Insert(r) PROVE Origins'
  BY <1>3 DEF Insert, InsertRow
<1>4. ASSUME NEW r \in Requests, InsertConflict(r) PROVE Origins'
  BY <1>4 DEF InsertConflict
<1>5. ASSUME NEW r \in Requests, Change(r) PROVE Origins'
  BY <1>5, ChangedRows DEF Change
<1>6. ASSUME NEW r \in Requests, Remove(r) PROVE Origins'
  BY <1>6 DEF Remove, RemoveRow
<1>7. ASSUME NEW r \in Requests, Reread(r) PROVE Origins'
  BY <1>7 DEF Reread, RereadTable
<1>8. ASSUME NEW r \in Requests, Select(r) PROVE Origins'
  BY <1>8 DEF Select
<1>9. ASSUME NEW r \in Requests, Erase(r) PROVE Origins'
  BY <1>9 DEF Erase
<1>10. ASSUME NEW r \in Requests, Commit(r) PROVE Origins'
  BY <1>10 DEF Commit, CommitRows
<1>11. ASSUME NEW r \in Requests, DeadlockAbort(r) PROVE Origins'
  BY <1>11 DEF DeadlockAbort
<1>12. ASSUME NEW r \in Requests, Audit(r) PROVE Origins'
  BY <1>12 DEF Audit
<1>13. ASSUME NEW r \in Requests, AuditFails(r) PROVE Origins'
  BY <1>13 DEF AuditFails
<1>14. ASSUME NEW r \in Requests, Fail(r) PROVE Origins'
  BY <1>14 DEF Fail
<1>15. ASSUME NEW r \in Requests, FailAfterEffect(r) PROVE Origins'
  <2>1. CASE pc[r] = "insert" /\ InsertRow(r)
    BY <1>15, <2>1 DEF FailAfterEffect, InsertRow
  <2>2. CASE pc[r] = "change" /\ ChangeRow(r)
    BY <1>15, <2>2, ChangedRows DEF FailAfterEffect
  <2>3. CASE pc[r] = "remove" /\ RemoveRow(r)
    BY <1>15, <2>3 DEF FailAfterEffect, RemoveRow
  <2>4. CASE pc[r] = "commit" /\ CommitRows(r)
    BY <1>15, <2>4 DEF FailAfterEffect, CommitRows
  <2> QED BY <1>15, <2>1, <2>2, <2>3, <2>4 DEF FailAfterEffect
<1>16. CASE Crash
  BY <1>16 DEF Crash
<1>17. CASE UNCHANGED vars
  BY <1>17 DEF vars
<1> QED
  BY <1>1, <1>2, <1>3, <1>4, <1>5, <1>6, <1>7, <1>8, <1>9, <1>10, <1>11, <1>12, <1>13,
       <1>14, <1>15, <1>16, <1>17 DEF Next, Statement

\* A record keeps its creator and its tenant: only Create gives it both.
LEMMA TenantStep ==
  ASSUME IInv, [Next]_vars PROVE TenantOfCreator'
<1> USE DEF IInv, TypeOK, GoTo, Answer, Rollback, TenantOfCreator
<1>1. ASSUME NEW r \in Requests, Begin(r) PROVE TenantOfCreator'
  BY <1>1 DEF Begin
<1>2. ASSUME NEW r \in Requests, Read(r) PROVE TenantOfCreator'
  BY <1>2, MatchingType DEF Read
<1>3. ASSUME NEW r \in Requests, InsertRow(r), UNCHANGED <<call, new>> PROVE TenantOfCreator'
  BY <1>3 DEF InsertRow, NewRow
<1>4. ASSUME NEW r \in Requests, ChangeRow(r), pc[r] = "change", UNCHANGED <<call, new>>
      PROVE  TenantOfCreator'
  BY <1>4, ChangedRows DEF SameRecord
<1>5. ASSUME NEW r \in Requests, RemoveRow(r) \/ CommitRows(r), UNCHANGED <<call, new>>
      PROVE  TenantOfCreator'
  BY <1>5 DEF RemoveRow, CommitRows
<1>6. ASSUME NEW r \in Requests,
             Insert(r) \/ Change(r) \/ Remove(r) \/ Commit(r) \/ FailAfterEffect(r)
      PROVE  TenantOfCreator'
  BY <1>3, <1>4, <1>5, <1>6 DEF Insert, Change, Remove, Commit, FailAfterEffect
<1>7. ASSUME NEW r \in Requests, Reread(r) PROVE TenantOfCreator'
  BY <1>7, MatchingType DEF Reread, RereadTable
<1>8. ASSUME NEW r \in Requests, InsertConflict(r) \/ Select(r) \/ Erase(r) \/ DeadlockAbort(r)
      PROVE  TenantOfCreator'
  BY <1>8 DEF InsertConflict, Select, Erase, DeadlockAbort
<1>9. ASSUME NEW r \in Requests, Audit(r) \/ AuditFails(r) \/ Fail(r) PROVE TenantOfCreator'
  BY <1>9 DEF Audit, AuditFails, Fail
<1>10. CASE Crash
  BY <1>10 DEF Crash
<1>11. CASE UNCHANGED vars
  BY <1>11 DEF vars
<1> QED
  BY <1>1, <1>2, <1>6, <1>7, <1>8, <1>9, <1>10, <1>11 DEF Next, Statement

\* The loop of DeleteMany: what it has passed is locked by it or gone.
LEMMA SelectedStep ==
  ASSUME IInv, [Next]_vars PROVE SelectedIsLockedOrGone'
<1> USE DEF IInv, TypeOK, Labels, GoTo, Answer, Rollback, SelectedIsLockedOrGone,
     LabelsOfOperations, InTransaction, Origins, Lookups, LocksInTransaction,
     SameRecord, Matching, Visible, Locked, Current, NewRow, UniqueIds, Inserted
<1>1. ASSUME NEW r \in Requests, Begin(r) PROVE SelectedIsLockedOrGone'
  BY <1>1 DEF Begin, FirstLabel
<1>2. ASSUME NEW r \in Requests, Read(r) PROVE SelectedIsLockedOrGone'
  BY <1>2 DEF Read
<1>3. ASSUME NEW r \in Requests, Insert(r) PROVE SelectedIsLockedOrGone'
  BY <1>3 DEF Insert, InsertRow
<1>4. ASSUME NEW r \in Requests, InsertConflict(r) PROVE SelectedIsLockedOrGone'
  BY <1>4 DEF InsertConflict
<1>5. ASSUME NEW r \in Requests, Change(r) PROVE SelectedIsLockedOrGone'
  BY <1>5, ChangedRows DEF Change
<1>6. ASSUME NEW r \in Requests, Remove(r) PROVE SelectedIsLockedOrGone'
  BY <1>6 DEF Remove, RemoveRow
<1>7. ASSUME NEW r \in Requests, Reread(r) PROVE SelectedIsLockedOrGone'
  BY <1>7 DEF Reread, RereadTable
<1>8. ASSUME NEW r \in Requests, Select(r) PROVE SelectedIsLockedOrGone'
  BY <1>8 DEF Select
<1>9. ASSUME NEW r \in Requests, Erase(r) PROVE SelectedIsLockedOrGone'
  BY <1>9 DEF Erase
<1>10. ASSUME NEW r \in Requests, Commit(r) PROVE SelectedIsLockedOrGone'
  BY <1>10 DEF Commit, CommitRows
<1>11. ASSUME NEW r \in Requests, DeadlockAbort(r) PROVE SelectedIsLockedOrGone'
  BY <1>11 DEF DeadlockAbort
<1>12. ASSUME NEW r \in Requests, Audit(r) PROVE SelectedIsLockedOrGone'
  BY <1>12 DEF Audit
<1>13. ASSUME NEW r \in Requests, AuditFails(r) PROVE SelectedIsLockedOrGone'
  BY <1>13 DEF AuditFails
<1>14. ASSUME NEW r \in Requests, Fail(r) PROVE SelectedIsLockedOrGone'
  BY <1>14 DEF Fail
<1>15. ASSUME NEW r \in Requests, FailAfterEffect(r) PROVE SelectedIsLockedOrGone'
  <2>1. CASE pc[r] = "insert" /\ InsertRow(r)
    BY <1>15, <2>1 DEF FailAfterEffect, InsertRow
  <2>2. CASE pc[r] = "change" /\ ChangeRow(r)
    BY <1>15, <2>2, ChangedRows DEF FailAfterEffect
  <2>3. CASE pc[r] = "remove" /\ RemoveRow(r)
    BY <1>15, <2>3 DEF FailAfterEffect, RemoveRow
  <2>4. CASE pc[r] = "commit" /\ CommitRows(r)
    BY <1>15, <2>4 DEF FailAfterEffect, CommitRows
  <2> QED BY <1>15, <2>1, <2>2, <2>3, <2>4 DEF FailAfterEffect
<1>16. CASE Crash
  BY <1>16 DEF Crash
<1>17. CASE UNCHANGED vars
  BY <1>17 DEF vars
<1> QED
  BY <1>1, <1>2, <1>3, <1>4, <1>5, <1>6, <1>7, <1>8, <1>9, <1>10, <1>11, <1>12, <1>13,
       <1>14, <1>15, <1>16, <1>17 DEF Next, Statement

\* Delete and DeleteMany reach the audit only once what they read is gone.
LEMMA GoneStep ==
  ASSUME IInv, [Next]_vars PROVE ReadIsGone'
<1> USE DEF IInv, TypeOK, Labels, GoTo, Answer, Rollback, ReadIsGone, Deletes, EventOf,
     Bookkeeping, SelectedIsLockedOrGone, LabelsOfOperations, InTransaction, Origins,
     Lookups, SameRecord, Matching, Visible, NewRow, UniqueIds, Inserted
<1>1. ASSUME NEW r \in Requests, Begin(r) PROVE ReadIsGone'
  BY <1>1 DEF Begin, FirstLabel
<1>2. ASSUME NEW r \in Requests, Read(r) PROVE ReadIsGone'
  BY <1>2 DEF Read
<1>3. ASSUME NEW r \in Requests, Insert(r) PROVE ReadIsGone'
  BY <1>3 DEF Insert, InsertRow
<1>4. ASSUME NEW r \in Requests, InsertConflict(r) PROVE ReadIsGone'
  BY <1>4 DEF InsertConflict
<1>5. ASSUME NEW r \in Requests, Change(r) PROVE ReadIsGone'
  BY <1>5, ChangedRows DEF Change
<1>6. ASSUME NEW r \in Requests, Remove(r) PROVE ReadIsGone'
  BY <1>6 DEF Remove, RemoveRow
<1>7. ASSUME NEW r \in Requests, Reread(r) PROVE ReadIsGone'
  BY <1>7 DEF Reread, RereadTable
<1>8. ASSUME NEW r \in Requests, Select(r) PROVE ReadIsGone'
  BY <1>8 DEF Select
<1>9. ASSUME NEW r \in Requests, Erase(r) PROVE ReadIsGone'
  BY <1>9 DEF Erase
<1>10. ASSUME NEW r \in Requests, Commit(r) PROVE ReadIsGone'
  BY <1>10 DEF Commit, CommitRows
<1>11. ASSUME NEW r \in Requests, DeadlockAbort(r) PROVE ReadIsGone'
  BY <1>11 DEF DeadlockAbort
<1>12. ASSUME NEW r \in Requests, Audit(r) PROVE ReadIsGone'
  BY <1>12 DEF Audit
<1>13. ASSUME NEW r \in Requests, AuditFails(r) PROVE ReadIsGone'
  BY <1>13 DEF AuditFails
<1>14. ASSUME NEW r \in Requests, Fail(r) PROVE ReadIsGone'
  BY <1>14 DEF Fail
<1>15. ASSUME NEW r \in Requests, FailAfterEffect(r) PROVE ReadIsGone'
  <2>1. CASE pc[r] = "insert" /\ InsertRow(r)
    BY <1>15, <2>1 DEF FailAfterEffect, InsertRow
  <2>2. CASE pc[r] = "change" /\ ChangeRow(r)
    BY <1>15, <2>2, ChangedRows DEF FailAfterEffect
  <2>3. CASE pc[r] = "remove" /\ RemoveRow(r)
    BY <1>15, <2>3 DEF FailAfterEffect, RemoveRow
  <2>4. CASE pc[r] = "commit" /\ CommitRows(r)
    BY <1>15, <2>4 DEF FailAfterEffect, CommitRows
  <2> QED BY <1>15, <2>1, <2>2, <2>3, <2>4 DEF FailAfterEffect
<1>16. CASE Crash
  BY <1>16 DEF Crash
<1>17. CASE UNCHANGED vars
  BY <1>17 DEF vars
<1> QED
  BY <1>1, <1>2, <1>3, <1>4, <1>5, <1>6, <1>7, <1>8, <1>9, <1>10, <1>11, <1>12, <1>13,
       <1>14, <1>15, <1>16, <1>17 DEF Next, Statement

\* Events match the answered requests; effects and answers come last.
LEMMA BookStep ==
  ASSUME IInv, [Next]_vars PROVE Bookkeeping'
<1> USE DEF IInv, TypeOK, Labels, GoTo, Answer, Rollback, Bookkeeping, EventOf, Event,
     LabelsOfOperations, InTransaction
<1>1. ASSUME NEW r \in Requests, Begin(r) PROVE Bookkeeping'
  BY <1>1 DEF Begin, FirstLabel
<1>2. ASSUME NEW r \in Requests, Read(r) PROVE Bookkeeping'
  BY <1>2 DEF Read
<1>3. ASSUME NEW r \in Requests, Insert(r) PROVE Bookkeeping'
  BY <1>3 DEF Insert, InsertRow
<1>4. ASSUME NEW r \in Requests, InsertConflict(r) PROVE Bookkeeping'
  BY <1>4 DEF InsertConflict
<1>5. ASSUME NEW r \in Requests, Change(r) PROVE Bookkeeping'
  BY <1>5 DEF Change, ChangeRow
<1>6. ASSUME NEW r \in Requests, Remove(r) PROVE Bookkeeping'
  BY <1>6 DEF Remove, RemoveRow
<1>7. ASSUME NEW r \in Requests, Reread(r) PROVE Bookkeeping'
  BY <1>7 DEF Reread, RereadTable
<1>8. ASSUME NEW r \in Requests, Select(r) PROVE Bookkeeping'
  BY <1>8 DEF Select
<1>9. ASSUME NEW r \in Requests, Erase(r) PROVE Bookkeeping'
  BY <1>9 DEF Erase
<1>10. ASSUME NEW r \in Requests, Commit(r) PROVE Bookkeeping'
  BY <1>10 DEF Commit, CommitRows
<1>11. ASSUME NEW r \in Requests, DeadlockAbort(r) PROVE Bookkeeping'
  BY <1>11 DEF DeadlockAbort
<1>12. ASSUME NEW r \in Requests, Audit(r) PROVE Bookkeeping'
  BY <1>12 DEF Audit
<1>13. ASSUME NEW r \in Requests, AuditFails(r) PROVE Bookkeeping'
  BY <1>13 DEF AuditFails
<1>14. ASSUME NEW r \in Requests, Fail(r) PROVE Bookkeeping'
  BY <1>14 DEF Fail
<1>15. ASSUME NEW r \in Requests, FailAfterEffect(r) PROVE Bookkeeping'
  BY <1>15 DEF FailAfterEffect, InsertRow, ChangeRow, RemoveRow, CommitRows
<1>16. CASE Crash
  BY <1>16 DEF Crash
<1>17. CASE UNCHANGED vars
  BY <1>17 DEF vars
<1> QED
  BY <1>1, <1>2, <1>3, <1>4, <1>5, <1>6, <1>7, <1>8, <1>9, <1>10, <1>11, <1>12, <1>13,
       <1>14, <1>15, <1>16, <1>17 DEF Next, Statement

\* A 403, a 400 and the 404 of a get or a delete come before any effect.
LEMMA RefusalStep ==
  ASSUME IInv, [Next]_vars PROVE RefusalHasNoEffect'
<1> USE DEF IInv, TypeOK, Labels, GoTo, Answer, Rollback, RefusalHasNoEffect,
     Bookkeeping, LabelsOfOperations, InTransaction, Lookups, FinalOutcome
<1>1. ASSUME NEW r \in Requests, Begin(r) PROVE RefusalHasNoEffect'
  BY <1>1 DEF Begin, FirstLabel
<1>2. ASSUME NEW r \in Requests, Read(r) PROVE RefusalHasNoEffect'
  BY <1>2 DEF Read
<1>3. ASSUME NEW r \in Requests, Insert(r) PROVE RefusalHasNoEffect'
  BY <1>3 DEF Insert, InsertRow
<1>4. ASSUME NEW r \in Requests, InsertConflict(r) PROVE RefusalHasNoEffect'
  BY <1>4 DEF InsertConflict
<1>5. ASSUME NEW r \in Requests, Change(r) PROVE RefusalHasNoEffect'
  BY <1>5 DEF Change, ChangeRow
<1>6. ASSUME NEW r \in Requests, Remove(r) PROVE RefusalHasNoEffect'
  BY <1>6 DEF Remove, RemoveRow
<1>7. ASSUME NEW r \in Requests, Reread(r) PROVE RefusalHasNoEffect'
  BY <1>7 DEF Reread, RereadTable
<1>8. ASSUME NEW r \in Requests, Select(r) PROVE RefusalHasNoEffect'
  BY <1>8 DEF Select
<1>9. ASSUME NEW r \in Requests, Erase(r) PROVE RefusalHasNoEffect'
  BY <1>9 DEF Erase
<1>10. ASSUME NEW r \in Requests, Commit(r) PROVE RefusalHasNoEffect'
  BY <1>10 DEF Commit, CommitRows
<1>11. ASSUME NEW r \in Requests, DeadlockAbort(r) PROVE RefusalHasNoEffect'
  BY <1>11 DEF DeadlockAbort
<1>12. ASSUME NEW r \in Requests, Audit(r) PROVE RefusalHasNoEffect'
  BY <1>12 DEF Audit
<1>13. ASSUME NEW r \in Requests, AuditFails(r) PROVE RefusalHasNoEffect'
  BY <1>13 DEF AuditFails
<1>14. ASSUME NEW r \in Requests, Fail(r) PROVE RefusalHasNoEffect'
  BY <1>14 DEF Fail
<1>15. ASSUME NEW r \in Requests, FailAfterEffect(r) PROVE RefusalHasNoEffect'
  BY <1>15 DEF FailAfterEffect, InsertRow, ChangeRow, RemoveRow, CommitRows
<1>16. CASE Crash
  BY <1>16 DEF Crash
<1>17. CASE UNCHANGED vars
  BY <1>17 DEF vars
<1> QED
  BY <1>1, <1>2, <1>3, <1>4, <1>5, <1>6, <1>7, <1>8, <1>9, <1>10, <1>11, <1>12, <1>13,
       <1>14, <1>15, <1>16, <1>17 DEF Next, Statement

-----------------------------------------------------------------------------
\* The table a server starts on satisfies the invariant.
LEMMA InitIInv == Init => IInv
<1> SUFFICES ASSUME Init PROVE IInv
  OBVIOUS
<1>1. TypeOK
  BY DEF Init, TypeOK, Row, Labels, Outcomes, Call
<1>2. LocksInTransaction /\ LabelsOfOperations /\ Lookups
  BY DEF Init, LocksInTransaction, LabelsOfOperations, Lookups, InTransaction
<1>3. Origins /\ TenantOfCreator
  BY DEF Init, Origins, TenantOfCreator, Inserted, UniqueIds
<1>4. SelectedIsLockedOrGone /\ ReadIsGone /\ Bookkeeping /\ RefusalHasNoEffect
  BY DEF Init, SelectedIsLockedOrGone, ReadIsGone, Bookkeeping, RefusalHasNoEffect
<1> QED BY <1>1, <1>2, <1>3, <1>4 DEF IInv

\* The inductive invariant holds in every reachable state of the handlers.
THEOREM Invariance == Spec => []IInv
<1>1. Init => IInv
  BY InitIInv
<1>2. IInv /\ [Next]_vars => IInv'
  <2> SUFFICES ASSUME IInv, [Next]_vars PROVE IInv'
    OBVIOUS
  <2>1. TypeOK'
    BY TypeStep DEF IInv
  <2> QED
    BY <2>1, LabelsStep, LocksStep, LookupsStep, OriginsStep, TenantStep, SelectedStep,
       GoneStep, BookStep, RefusalStep DEF IInv
<1> QED BY <1>1, <1>2, PTL DEF Spec

\* Type correctness of the handlers and their store.
THEOREM TypeCorrect == Spec => []TypeOK
<1>1. IInv => TypeOK
  BY DEF IInv
<1> QED BY <1>1, Invariance, PTL

\* What the log reports as deleted is gone, however requests interleave, fail
\* or die (Delete, DeleteMany and emitAudit).
THEOREM DeletedIsGone == Spec => []GoneOnceAudited
<1>1. IInv => GoneOnceAudited
  <2> SUFFICES ASSUME IInv, NEW e \in audit, e.action \in {"delete", "bulk_delete"},
                      NEW x \in e.old, NEW y \in rows
               PROVE  ~SameRecord(x, y)
    BY DEF GoneOnceAudited
  <2>1. e.req \in Requests /\ e = EventOf(e.req)
    BY DEF IInv, TypeOK, Event, Bookkeeping
  <2>2. call[e.req].allowed /\ call[e.req].op = e.action /\ x \in old[e.req]
    BY <2>1 DEF EventOf
  <2> QED BY <2>1, <2>2 DEF IInv, ReadIsGone, Deletes
<1> QED BY <1>1, Invariance, PTL

\* Refused requests leave the table alone, a bulk delete that misses one of
\* its records included.
THEOREM RefusalsRefuse == Spec => []RefusalHasNoEffect
<1>1. IInv => RefusalHasNoEffect
  BY DEF IInv
<1> QED BY <1>1, Invariance, PTL

\* Row locks live and die with the transaction of DeleteMany.
THEOREM LocksReleased == Spec => []LocksInTransaction
<1>1. IInv => LocksInTransaction
  BY DEF IInv
<1> QED BY <1>1, Invariance, PTL

\* The audit log stays within the tenant of the actor, whatever a create reads
\* back of a record that is not its own left aside.
THEOREM LogWithinTenant == Spec => []AuditWithinTenant
<1>1. IInv => AuditWithinTenant
  <2> SUFFICES ASSUME IInv, NEW e \in audit, NEW x \in e.old \union e.new,
                      ~(e.action = "create" /\ x.by # e.req)
               PROVE  MaySee(e.actor, x)
    BY DEF AuditWithinTenant
  <2>1. e.req \in Requests /\ e = EventOf(e.req)
    BY DEF IInv, TypeOK, Event, Bookkeeping
  <2>2. e.actor = call[e.req].actor /\ e.old = old[e.req] /\ e.new = new[e.req]
    BY <2>1 DEF EventOf
  <2>3. CASE x \in e.old
    BY <2>1, <2>2, <2>3 DEF IInv, Lookups, Visible, MaySee
  <2>4. CASE x \in e.new /\ e.action # "create"
    <3>1. call[e.req].op # "create"
      BY <2>1, <2>2, <2>4 DEF EventOf, IInv, Lookups
    <3> QED BY <2>1, <2>2, <2>4, <3>1 DEF IInv, Lookups, Visible, MaySee
  <2>5. CASE x \in e.new /\ x.by = e.req
    BY <2>1, <2>2, <2>5 DEF IInv, TenantOfCreator, MaySee
  <2> QED BY <2>3, <2>4, <2>5
<1> QED BY <1>1, Invariance, PTL

-----------------------------------------------------------------------------
(* Refinement: the statements that change the table are the abstract steps. *)

\* Every operation but a bulk delete names one id.
LEMMA OneId ==
  ASSUME TypeOK, NEW r \in Requests, call[r].op # "bulk_delete"
  PROVE  \E id \in Ids : call[r].ids = {id}
BY DEF TypeOK

\* The insert of Create is the abstract Insert.
LEMMA AbstractInsert ==
  ASSUME IInv, NEW r \in Requests, pc[r] = "insert", InsertRow(r), UNCHANGED call
  PROVE  Table!Next
<1>1. call[r].op = "create" /\ effect[r] = {}
  BY DEF IInv, LabelsOfOperations, Bookkeeping
<1>2. PICK id \in Ids : call[r].ids = {id}
  BY <1>1, OneId DEF IInv
<1> DEFINE x == NewRow(r, id)
<1>3. x \in Row
  BY <1>1, NewRowType DEF IInv
<1>4. {NewRow(r, k) : k \in call[r].ids} = {x}
  BY <1>2
<1>5. Table!Insert(r, x)
  BY <1>1, <1>2, <1>4 DEF InsertRow, Table!Insert, Table!TakesEffect, NewRow
<1> QED BY <1>3, <1>5 DEF Table!Next

\* The update statement is the abstract Modify, or hits nothing.
LEMMA AbstractChange ==
  ASSUME IInv, NEW r \in Requests, pc[r] = "change", ChangeRow(r), UNCHANGED call
  PROVE  Table!Next \/ UNCHANGED Table!vars
<1> DEFINE hit == Matching(r, call[r].ids, rows)
<1>1. call[r].op = "update" /\ call[r].val # NoValue /\ effect[r] = {}
  BY DEF IInv, LabelsOfOperations, Bookkeeping
<1>2. effect \in [Requests -> SUBSET Row] /\ effect' = [effect EXCEPT ![r] = hit]
  BY DEF IInv, TypeOK, ChangeRow
<1>3. CASE hit = {}
  <2>1. rows' = rows /\ effect' = effect
    BY <1>1, <1>2, <1>3 DEF ChangeRow
  <2> QED BY <2>1 DEF Table!vars
<1>4. CASE hit # {}
  <2>1. PICK x \in hit : TRUE
    BY <1>4
  <2>2. x \in rows /\ x \in Row /\ Visible(r, x)
    BY DEF Matching, IInv, TypeOK
  <2>3. hit = {x}
    <3>1. PICK id \in Ids : call[r].ids = {id}
      BY <1>1, OneId DEF IInv
    <3> QED BY <2>1, <3>1 DEF Matching, IInv, Origins, UniqueIds
  <2> DEFINE y == [x EXCEPT !.val = call[r].val]
  <2>4. y \in Row /\ y.id = x.id /\ y.tenant = x.tenant /\ y.by = x.by
    BY <2>2, <1>1, ChangedRowType DEF IInv, Row
  <2>5. rows' = (rows \ {x}) \union {y}
    BY <2>3 DEF ChangeRow
  <2>6. Table!Modify(r, x, y)
    BY <1>1, <1>2, <2>2, <2>3, <2>4, <2>5
       DEF Table!Modify, Table!TakesEffect, Table!MayTouch, Visible
  <2> QED BY <2>2, <2>4, <2>6 DEF Table!Next
<1> QED BY <1>3, <1>4

\* RemoveRow and CommitRows: a set of visible rows disappears.
LEMMA AbstractRemove ==
  ASSUME IInv, NEW r \in Requests, effect[r] = {}, UNCHANGED call,
         NEW S \in SUBSET rows, \A x \in S : Visible(r, x),
         rows' = rows \ S, effect' = [effect EXCEPT ![r] = S]
  PROVE  Table!Next \/ UNCHANGED Table!vars
<1>1. CASE S = {}
  BY <1>1 DEF IInv, TypeOK, Table!vars
<1>2. CASE S # {}
  <2>1. Table!Remove(r, S)
    BY <1>2 DEF Table!Remove, Table!TakesEffect, Table!MayTouch, Visible
  <2> QED BY <2>1 DEF Table!Next
<1> QED BY <1>1, <1>2

\* The delete of Delete and the commit of DeleteMany are abstract removals.
LEMMA AbstractDelete ==
  ASSUME IInv, NEW r \in Requests, UNCHANGED call,
         \/ pc[r] = "remove" /\ RemoveRow(r)
         \/ pc[r] = "commit" /\ CommitRows(r)
  PROVE  Table!Next \/ UNCHANGED Table!vars
<1>1. effect[r] = {}
  BY DEF IInv, Bookkeeping
<1>2. CASE pc[r] = "remove" /\ RemoveRow(r)
  BY <1>1, <1>2, AbstractRemove DEF RemoveRow, Matching
<1>3. CASE pc[r] = "commit" /\ CommitRows(r)
  BY <1>1, <1>3, AbstractRemove DEF CommitRows, IInv, LocksInTransaction, Lookups
<1> QED BY <1>2, <1>3

\* Every step of the server is a step of the abstract table or leaves it alone.
LEMMA TableStep ==
  ASSUME IInv, [Next]_vars PROVE [Table!Next]_(Table!vars)
<1>1. ASSUME NEW r \in Requests, Insert(r) \/ Change(r) \/ Remove(r) \/ Commit(r) \/ FailAfterEffect(r)
      PROVE  Table!Next \/ UNCHANGED Table!vars
  BY <1>1, AbstractInsert, AbstractChange, AbstractDelete
     DEF Insert, Change, Remove, Commit, FailAfterEffect
<1>2. ASSUME NEW r \in Requests,
             \/ Begin(r) \/ Read(r) \/ InsertConflict(r) \/ Reread(r) \/ Select(r) \/ Erase(r)
             \/ DeadlockAbort(r) \/ Audit(r) \/ AuditFails(r) \/ Fail(r)
      PROVE  UNCHANGED Table!vars
  BY <1>2 DEF Begin, Read, InsertConflict, Reread, Select, Erase, DeadlockAbort, Audit,
              AuditFails, Fail, Table!vars
<1>3. CASE Crash \/ UNCHANGED vars
  BY <1>3 DEF Crash, vars, Table!vars
<1> QED BY <1>1, <1>2, <1>3 DEF Next, Statement

\* The handlers and the store implement the abstract table: every request
\* takes effect at most once, at one instant, within the tenant of its actor.
THEOREM Refinement == Spec => ImplementsTable
<1>1. Init => Table!Init
  BY InitIInv DEF Init, Table!Init, IInv, TypeOK
<1>2. IInv /\ [Next]_vars => [Table!Next]_(Table!vars)
  BY TableStep
<1> QED BY <1>1, <1>2, Invariance, PTL DEF Spec, ImplementsTable, Table!Spec
=============================================================================
