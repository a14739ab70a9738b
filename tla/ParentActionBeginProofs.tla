----------------------- MODULE ParentActionBeginProofs -----------------------
(***************************************************************************)
(* Proofs about ParentActionBegin, for any packets and any number of       *)
(* failures: an interrupted parent action can always be taken back, and    *)
(* taking it back restores the wait it began from.                         *)
(***************************************************************************)
EXTENDS ParentActionBegin, TLAPS

\* A snapshot is determined by its three parts.
LEMMA SnapshotExtensionality ==
    ASSUME NEW s \in Snapshots,
           s.source = status, s.pending = pending, s.review = review
    PROVE  Snapshot = s
BY DEF Snapshots, Snapshot

\* The empty record is not the record of any wait.
LEMMA NoSnapshotIsNone == NoSnapshot \notin Snapshots
BY DEF NoSnapshot, Snapshots, Waits

\* The record of a wait is a snapshot.
LEMMA SnapshotType ==
    ASSUME TypeOK, status \in Waits
    PROVE  Snapshot \in Snapshots
BY DEF TypeOK, Snapshots, Snapshot

LEMMA InitIInv == Init => IInv
<1> SUFFICES ASSUME Init PROVE IInv
    OBVIOUS
<1>1. TypeOK
    BY MaxFailuresAssumption DEF Init, TypeOK, Snapshots, Snapshot, Steps
<1>2. FilesFollowOrigin
    BY DEF Init, FilesFollowOrigin, Snapshot, Waits
<1>3. RecordFollowsOrigin /\ WritesInOrder
    BY DEF Init, RecordFollowsOrigin, WritesInOrder, Waits
<1> QED
    BY <1>1, <1>2, <1>3 DEF IInv

\* Every write, every failure and every command keeps the invariant.
LEMMA NextIInv == IInv /\ [Next]_vars => IInv'
<1> SUFFICES ASSUME IInv, [Next]_vars PROVE IInv'
    OBVIOUS
<1> USE NoSnapshotIsNone DEF IInv, FilesFollowOrigin, RecordFollowsOrigin,
        WritesInOrder, Restoring, Steps, TypeOK, Waits, files
<1>1. CASE Begin
  <2>1. Snapshot \in Snapshots
    BY <1>1, SnapshotType DEF Begin
  <2>2. /\ Snapshot.source = status
        /\ Snapshot.pending = pending
        /\ Snapshot.review = review
    BY DEF Snapshot
  <2> QED
    BY <1>1, <2>1, <2>2 DEF Begin
<1>2. CASE SaveRecord
    BY <1>2 DEF SaveRecord
<1>3. CASE Activate
    BY <1>3 DEF Activate
<1>4. CASE ResolveReview
    BY <1>4 DEF ResolveReview
<1>5. CASE SaveCheckpoint
    BY <1>5 DEF SaveCheckpoint
<1>6. CASE Commit
    BY <1>6 DEF Commit
<1>7. CASE PreCallGuardFails
    BY <1>7 DEF PreCallGuardFails
<1>8. CASE GiveUp
    BY <1>8 DEF GiveUp
<1>9. CASE NextWait
    BY <1>9 DEF NextWait, Waiting, Snapshots
<1>10. CASE Recover
    BY <1>10 DEF Recover, CanRecover
<1>11. CASE ClearResume
    BY <1>11 DEF ClearResume
<1>12. CASE RestoreReview
    BY <1>12 DEF RestoreReview, Snapshots
<1>13. CASE RestorePending
    BY <1>13 DEF RestorePending, Snapshots
<1>14. CASE RestoreStatus
    BY <1>14 DEF RestoreStatus, Snapshots
<1>15. CASE DropRecord
    BY <1>15 DEF DropRecord, Snapshots
<1>16. CASE WriteFails
    BY <1>16, MaxFailuresAssumption DEF WriteFails
<1>17. CASE Crash
    BY <1>17, MaxFailuresAssumption DEF Crash
<1>18. CASE Dispose
    BY <1>18 DEF Dispose
<1>19. CASE UNCHANGED vars
    BY <1>19 DEF vars
<1> QED
    BY <1>1, <1>2, <1>3, <1>4, <1>5, <1>6, <1>7, <1>8, <1>9, <1>10, <1>11, <1>12,
       <1>13, <1>14, <1>15, <1>16, <1>17, <1>18, <1>19 DEF Next, Process

\* The inductive invariant holds throughout: files and record follow the wait the
\* parent action began from, write by write.
THEOREM RecordInvariant == Spec => []IInv
BY InitIInv, NextIInv, PTL DEF Spec

\* Whatever fails and wherever a process dies, a task that waits between two
\* commands is in exactly the wait the parent left it in
\* (rollbackParentAction, RecoverParentActionBeginFromState).
THEOREM WaitStaysIntact == Spec => []WaitIsIntact
<1>1. IInv => WaitIsIntact
  <2> SUFFICES ASSUME IInv, step = "idle", status \in Waits PROVE Snapshot = origin
    BY DEF WaitIsIntact
  <2> QED
    BY SnapshotExtensionality
       DEF IInv, FilesFollowOrigin, TypeOK, Waits
<1> QED
    BY <1>1, RecordInvariant, PTL

\* A task left active before its model call is accepted by the recovery, and the
\* record it restores from is the wait the action began from
\* (validateParentActionBeginRecovery).
THEOREM ActionStaysRecoverable == Spec => []InterruptedActionIsRecoverable
<1>1. IInv => InterruptedActionIsRecoverable
    BY NoSnapshotIsNone
       DEF IInv, FilesFollowOrigin, RecordFollowsOrigin, TypeOK,
           InterruptedActionIsRecoverable, CanRecover
<1> QED
    BY <1>1, RecordInvariant, PTL

=============================================================================
