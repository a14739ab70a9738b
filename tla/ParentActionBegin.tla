-------------------------- MODULE ParentActionBegin --------------------------
(***************************************************************************)
(* The files behind one parent action (--decision, --fix), write by write. *)
(*                                                                         *)
(* TaskStore takes the begin, the rollback and the recovery of a parent    *)
(* action as single steps.  Each of them is a sequence of file writes; the *)
(* process can die, and a write can fail, between any two of them, and     *)
(* --recover-parent-action can itself be cut short and run again.  The     *)
(* record parent-action-begin.json is what makes that safe.                *)
(***************************************************************************)
EXTENDS Naturals

CONSTANTS
    Packets,        \* what a review can be open about
    NoPacket,       \* no review is open
    MaxFailures     \* how many crashes and failing writes are explored

ASSUME NoPacketAssumption == NoPacket \notin Packets
ASSUME MaxFailuresAssumption == MaxFailures \in Nat

VARIABLES
    status,     \* task.status: a wait of the parent, or "active"
    pending,    \* whether pending-decision exists
    review,     \* the open review of parent-review-state.json
    resume,     \* resume-state.json: "none", the "pre-call" checkpoint of the action,
                \* or the "approval" checkpoint a surface approval wait retains
    begin,      \* parent-action-begin.json
    step,       \* the next write of the running process, "idle" when none runs
    held,       \* what that process restores from: ParentActionRollback in the
                \* process that began, the loaded record in a recovery
    origin,     \* history: the wait the last parent action began from
    failures    \* crashes and failing writes so far

files == <<status, pending, review, resume, begin>>
vars == <<files, step, held, origin, failures>>

-----------------------------------------------------------------------------
Waits == {"waiting-decision", "waiting-sol-review"}

Snapshots == [source : Waits, pending : BOOLEAN, review : Packets \union {NoPacket}]
NoSnapshot == [source |-> "none", pending |-> FALSE, review |-> NoPacket]

Restoring == {"restore-review", "restore-pending", "restore-status", "drop-record"}
Steps == {"idle", "save-record", "activate", "resolve-review", "begun", "saved",
          "model", "clear-resume"} \union Restoring

Snapshot == [source |-> status, pending |-> pending, review |-> review]

\* Every file and every variable of the process keeps its shape.
TypeOK ==
    /\ status \in Waits \union {"active"}
    /\ pending \in BOOLEAN
    /\ review \in Packets \union {NoPacket}
    /\ resume \in {"none", "pre-call", "approval"}
    /\ begin \in Snapshots \union {NoSnapshot}
    /\ step \in Steps
    /\ held \in Snapshots \union {NoSnapshot}
    /\ origin \in Snapshots
    /\ failures \in 0..MaxFailures

\* The waits a task can be in: only one that follows a decision packet has the
\* marker, only one that follows a review packet can retain an approval.
Waiting(s, p, r, cp) ==
    /\ \/ s = "waiting-decision" /\ p /\ cp = "none"
       \/ s = "waiting-sol-review" /\ ~p /\ cp \in {"none", "approval"}
    /\ r \in Packets \union {NoPacket}

Init ==
    /\ status \in Waits /\ pending \in BOOLEAN
    /\ review \in Packets \union {NoPacket}
    /\ resume \in {"none", "approval"}
    /\ Waiting(status, pending, review, resume)
    /\ begin = NoSnapshot
    /\ step = "idle" /\ held = NoSnapshot
    /\ origin = Snapshot
    /\ failures = 0

-----------------------------------------------------------------------------
(* BeginParentDecision and BeginParentFix. *)

\* saveParentActionBegin refuses while a record is there.
Begin ==
    /\ step = "idle"
    /\ status \in Waits
    /\ begin = NoSnapshot
    /\ held' = Snapshot
    /\ origin' = Snapshot
    /\ step' = "save-record"
    /\ UNCHANGED <<files, failures>>

\* Mutant: the record is written once the task is active.
SaveRecordLate ==
    /\ step = "save-record"
    /\ status' = "active"
    /\ step' = "activate"
    /\ UNCHANGED <<pending, review, resume, begin, held, origin, failures>>

SaveRecord ==
    /\ step = "save-record"
    /\ begin' = held
    /\ step' = "activate"
    /\ UNCHANGED <<status, pending, review, resume, held, origin, failures>>

Activate ==
    /\ step = "activate"
    /\ status' = "active"
    /\ step' = "resolve-review"
    /\ UNCHANGED <<pending, review, resume, begin, held, origin, failures>>

\* RecordParentOutcome.
ResolveReview ==
    /\ step = "resolve-review"
    /\ review' = NoPacket
    /\ step' = "begun"
    /\ UNCHANGED <<status, pending, resume, begin, held, origin, failures>>

-----------------------------------------------------------------------------
(* Up to the admission of the model call. *)

SaveCheckpoint ==
    /\ step = "begun"
    /\ resume' = "pre-call"
    /\ step' = "saved"
    /\ UNCHANGED <<status, pending, review, begin, held, origin, failures>>

\* CommitParentActionBegin in the runner's admission callback.
Commit ==
    /\ step = "saved"
    /\ begin' = NoSnapshot
    /\ step' = "model"
    /\ held' = NoSnapshot
    /\ UNCHANGED <<status, pending, review, resume, origin, failures>>

\* A guard refuses the call: finalizeModelCallState clears the checkpoint and
\* rollbackWhenPreCallGuardFailure starts the rollback.
PreCallGuardFails ==
    /\ step = "saved"
    /\ resume' = "none"
    /\ step' = "restore-review"
    /\ UNCHANGED <<status, pending, review, begin, held, origin, failures>>

\* Any other error before the admission ends the command; the checkpoint of a
\* call that was prepared stays or is cleared.
GiveUp ==
    /\ step \in {"begun", "saved"}
    /\ resume' = resume \/ (step = "saved" /\ resume' = "none")
    /\ step' = "idle"
    /\ held' = NoSnapshot
    /\ UNCHANGED <<status, pending, review, begin, origin, failures>>

\* What follows the admission is TaskLifecycle's: the task comes to its next wait.
NextWait ==
    /\ step = "model"
    /\ status' \in Waits /\ pending' \in BOOLEAN
    /\ review' \in Packets \union {NoPacket}
    /\ resume' \in {"none", "approval"}
    /\ Waiting(status', pending', review', resume')
    /\ origin' = [source |-> status', pending |-> pending', review |-> review']
    /\ step' = "idle"
    /\ UNCHANGED <<begin, held, failures>>

-----------------------------------------------------------------------------
(* rollbackParentAction, and the recovery of a later process. *)

\* Mutant: the recovery insists on the review the action began from.
CanRecoverUnresolvedOnly ==
    /\ step = "idle"
    /\ begin # NoSnapshot
    /\ status \in {"active", begin.source}
    /\ pending = begin.pending
    /\ review = begin.review
    /\ resume # "approval"

\* validateParentActionBeginRecovery and the checks of
\* clearParentActionBeginResume: an approval checkpoint is never discarded.
CanRecover ==
    /\ step = "idle"
    /\ begin # NoSnapshot
    /\ status \in {"active", begin.source}
    /\ pending = begin.pending
    /\ review \in {begin.review, NoPacket}
    /\ resume # "approval"

Recover ==
    /\ CanRecover
    /\ held' = begin
    /\ step' = "clear-resume"
    /\ UNCHANGED <<files, origin, failures>>

ClearResume ==
    /\ step = "clear-resume"
    /\ resume' = "none"
    /\ step' = "restore-review"
    /\ UNCHANGED <<status, pending, review, begin, held, origin, failures>>

\* Mutant: the status is restored first and the review left for later.
RestoreStatusFirst ==
    /\ step = "restore-review"
    /\ status' = held.source
    /\ step' = "restore-pending"
    /\ UNCHANGED <<pending, review, resume, begin, held, origin, failures>>

RestoreReview ==
    /\ step = "restore-review"
    /\ review' = held.review
    /\ step' = "restore-pending"
    /\ UNCHANGED <<status, pending, resume, begin, held, origin, failures>>

RestorePending ==
    /\ step = "restore-pending"
    /\ pending' = held.pending
    /\ step' = "restore-status"
    /\ UNCHANGED <<status, review, resume, begin, held, origin, failures>>

RestoreStatus ==
    /\ step = "restore-status"
    /\ status' = held.source
    /\ step' = "drop-record"
    /\ UNCHANGED <<pending, review, resume, begin, held, origin, failures>>

DropRecord ==
    /\ step = "drop-record"
    /\ begin' = NoSnapshot
    /\ step' = "idle"
    /\ held' = NoSnapshot
    /\ UNCHANGED <<status, pending, review, resume, origin, failures>>

-----------------------------------------------------------------------------
(* What can go wrong. *)

\* A write fails.  The begin that has its record rolls back; a failing rollback,
\* recovery or first write ends the command where it is.
WriteFails ==
    /\ failures < MaxFailures
    /\ failures' = failures + 1
    /\ UNCHANGED <<files, origin>>
    /\ \/ /\ step \in {"activate", "resolve-review"}
          /\ step' = "restore-review"
          /\ UNCHANGED held
       \/ /\ step \in {"save-record", "clear-resume"} \union Restoring
          /\ step' = "idle"
          /\ held' = NoSnapshot

Crash ==
    /\ step \notin {"idle", "model"}
    /\ failures < MaxFailures
    /\ failures' = failures + 1
    /\ step' = "idle"
    /\ held' = NoSnapshot
    /\ UNCHANGED <<files, origin>>

\* The controller gives up the task, a new one starts: StartNewTask clears the
\* task-bound files and the new task comes to its own first wait.
Dispose ==
    /\ step = "idle"
    /\ status' = "active"
    /\ pending' = FALSE
    /\ review' = NoPacket
    /\ resume' = "none"
    /\ begin' = NoSnapshot
    /\ step' = "model"
    /\ UNCHANGED <<held, origin, failures>>

Process ==
    \/ SaveRecord \/ Activate \/ ResolveReview
    \/ SaveCheckpoint \/ Commit \/ PreCallGuardFails \/ GiveUp \/ NextWait
    \/ ClearResume \/ RestoreReview \/ RestorePending \/ RestoreStatus \/ DropRecord

Next == Begin \/ Recover \/ Dispose \/ Process \/ WriteFails \/ Crash

Spec == Init /\ [][Next]_vars

\* A running process goes on, and a parent that finds a record asks for the
\* recovery.
FairSpec == Spec /\ WF_vars(Process) /\ WF_vars(Recover)

-----------------------------------------------------------------------------
(* Properties. *)

\* Between commands, a task that waits is in exactly the wait the parent left it
\* in, whatever write failed or wherever a process died: rollbackParentAction
\* and restoreParentActionBeginSnapshots restore the status last.
WaitIsIntact == step = "idle" /\ status \in Waits => Snapshot = origin

\* A task left active before its model call has a record that recovery accepts
\* and that describes the wait it came from.  The one exception is an approval
\* checkpoint still on disk, which recovery refuses to discard.
InterruptedActionIsRecoverable ==
    step = "idle" /\ status = "active" /\ resume # "approval" =>
        CanRecover /\ begin = origin

\* Recovery that is asked for finishes, also when it is cut short and repeated:
\* the record goes away.
RecoveryCompletes ==
    step = "idle" /\ begin # NoSnapshot /\ resume # "approval" ~> begin = NoSnapshot

-----------------------------------------------------------------------------
(* The inductive invariant behind the two safety properties. *)

\* Before the model call the files are those of the wait, except that the task
\* may be active and its review already resolved; a task that is not active has
\* all of them.
FilesFollowOrigin ==
    /\ status \in {"active", origin.source}
    /\ pending = origin.pending
    /\ review \in {origin.review, NoPacket}
    /\ status # "active" => review = origin.review

\* The record and what the process holds agree with the wait, write by write.
RecordFollowsOrigin ==
    /\ step = "idle" =>
           begin \in {NoSnapshot, origin} /\ (status = "active" => begin = origin)
    /\ step \in {"save-record", "model"} => begin = NoSnapshot
    /\ step \notin {"idle", "save-record", "model"} => begin = origin
    /\ step \notin {"idle", "model"} => held = origin

\* Which writes are already done at each step.
WritesInOrder ==
    /\ step \in {"save-record", "activate"} => status # "active"
    /\ step \in {"resolve-review", "begun", "saved"} => status = "active"
    /\ step \in {"restore-pending", "restore-status", "drop-record"} =>
           review = origin.review
    /\ step = "drop-record" => status = origin.source

\* Until a model is admitted the files, the record and the process agree with the
\* wait the action began from, in the order the code writes them
\* (saveParentActionBegin, restoreParentActionBeginSnapshots).
IInv ==
    /\ TypeOK
    /\ step # "model" => FilesFollowOrigin
    /\ RecordFollowsOrigin
    /\ WritesInOrder

=============================================================================
