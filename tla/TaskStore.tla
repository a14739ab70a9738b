------------------------------ MODULE TaskStore ------------------------------
(***************************************************************************)
(* The durable state of one delegated task and the lifecycle transitions   *)
(* the state store performs on it.                                         *)
(*                                                                         *)
(* Every variable is a file of the repository's state directory.  A        *)
(* transition of the store is one action here: each file is replaced       *)
(* atomically and a transition that fails half way restores the snapshots  *)
(* it took; module ParentActionBegin opens up the one transition whose     *)
(* intermediate files are meant to survive a crash.                        *)
(***************************************************************************)
EXTENDS Naturals

CONSTANTS
    Decisions,          \* the texts a parent can pass to --decision
    NoDecision,         \* no last-decision file, an empty Decision field
    MaxAutoFixRounds    \* config.MaxAutoFixRounds

ASSUME NoDecisionAssumption == NoDecision \notin Decisions
ASSUME MaxAutoFixRoundsAssumption == MaxAutoFixRounds \in Nat

VARIABLES
    status,         \* task.status
    pending,        \* whether the marker file pending-decision exists
    review,         \* the open review of parent-review-state.json
    resume,         \* resume-state.json, the resume checkpoint
    begin,          \* parent-action-begin.json
    lastDecision    \* last-decision

storeVars == <<status, pending, review, resume, begin, lastDecision>>

-----------------------------------------------------------------------------
(* The vocabulary of the files. *)

\* The resume stop kinds, and the task status each of them puts a task in:
\* the code gives both the same name.
StopKinds == {"rate-limited", "provider-unavailable", "interrupted",
              "guard-recoverable", "quality-gate-recoverable",
              "result-format-recoverable"}

\* The stops the provider or the user causes; the work continues as it was.
TransientStops == {"rate-limited", "provider-unavailable", "interrupted"}

Statuses == {"none", "active", "waiting-decision", "waiting-sol-review",
             "awaiting-parent-completion", "complete", "user-terminated"}
            \union StopKinds

\* A review is a packet handed to the parent.  "by" tells apart what the
\* persisted bytes tell apart: no model call of the process produced it
\* ("gate"), one did ("model"), or it is a reviewer's result bound to the
\* snapshot it reviewed ("bound").
NoReview == [label |-> "none", by |-> "none"]
Reviews == {NoReview}
           \union [label : {"NEEDS_SOL_DECISION", "NEEDS_SOL_REVIEW", "PASS"},
                   by : {"gate", "model", "bound"}]

Phases == {"worker-new", "worker-decision", "worker-explicit-fix",
           "worker-auto-fix", "reviewer"}

\* A checkpoint keeps the quality-surface approval it waits for (or has been
\* granted), whether it carries a completed worker result, the decision the
\* call works on and the automatic fixes made so far.
Checkpoints ==
    [stage : {"worker", "reviewer", "auto-fix"},
     phase : Phases,
     decision : Decisions \union {NoDecision},
     fixes : 0..MaxAutoFixRounds,
     stop : StopKinds \union {"none"},
     approval : {"none", "pending", "activated"},
     completed : BOOLEAN]

NoCheckpoint ==
    [stage |-> "none", phase |-> "none", decision |-> NoDecision, fixes |-> 0,
     stop |-> "none", approval |-> "none", completed |-> FALSE]

NewCheckpoint(stage, phase, decision, fixes) ==
    [stage |-> stage, phase |-> phase, decision |-> decision, fixes |-> fixes,
     stop |-> "none", approval |-> "none", completed |-> FALSE]

\* What a parent action began from: the rollback of the process and the record
\* on disk carry the same three things.
Begins == [source : {"waiting-decision", "waiting-sol-review"},
           pending : BOOLEAN, review : Reviews]
NoBegin == [source |-> "none", pending |-> FALSE, review |-> NoReview]

StoreTypeOK ==
    /\ status \in Statuses
    /\ pending \in BOOLEAN
    /\ review \in Reviews
    /\ resume \in Checkpoints \union {NoCheckpoint}
    /\ begin \in Begins \union {NoBegin}
    /\ lastDecision \in Decisions \union {NoDecision}

StoreInit ==
    /\ status = "none"
    /\ pending = FALSE
    /\ review = NoReview
    /\ resume = NoCheckpoint
    /\ begin = NoBegin
    /\ lastDecision = NoDecision

-----------------------------------------------------------------------------
(* Checkpoints. *)

IsStopped(cp) == cp.stop # "none"

\* clearStopPayload: the completed result survives only while a quality-surface
\* approval needs it, and never past a guard or quality-gate stop.
KeepsResult(cp) ==
    /\ cp.completed
    /\ cp.approval # "none"
    /\ cp.stop \notin {"guard-recoverable", "quality-gate-recoverable"}

SetStopKind(cp, kind) ==
    [cp EXCEPT !.stop = kind, !.completed = KeepsResult(cp)]

ClearStop(cp) == SetStopKind(cp, "none")

\* validateStopState, the part that relates the modelled fields.
ValidStopState(cp) ==
    /\ cp.approval # "none" /\ IsStopped(cp) =>
           cp.stop \in TransientStops /\ cp.completed
    /\ cp.completed =>
           \/ cp.approval # "none"
           \/ cp.stop \in {"guard-recoverable", "quality-gate-recoverable"}
    /\ cp.stop = "quality-gate-recoverable" => cp.completed

\* A pending decision does not contradict a stop that continues that decision.
PendingDecisionContinues(cp) ==
    /\ pending
    /\ cp.stop \in TransientStops
    /\ cp.stage = "worker" /\ cp.phase = "worker-decision"
    /\ cp.decision # NoDecision /\ cp.decision = lastDecision

-----------------------------------------------------------------------------
(* The parent's review state. *)

\* recordSolResult: open a review for an emitted packet.
OpenReview(label, by) == review' = [label |-> label, by |-> by]

\* RecordParentOutcome: resolve the open review; without one nothing is written.
ResolveReview == review' = NoReview

-----------------------------------------------------------------------------
(* Parent actions that begin work: the record on disk is what a crash before
   the model call is recovered from. *)

Snapshot == [source |-> status, pending |-> pending, review |-> review]

\* saveParentActionBegin refuses while an earlier record is still there.
CanBeginDecision == status = "waiting-decision" /\ pending /\ begin = NoBegin
CanBeginFix == status = "waiting-sol-review" /\ ~pending /\ begin = NoBegin

BeginParentAction ==
    /\ begin' = Snapshot
    /\ status' = "active"
    /\ ResolveReview
    /\ UNCHANGED <<pending, resume, lastDecision>>

BeginParentDecision == CanBeginDecision /\ BeginParentAction
BeginParentFix == CanBeginFix /\ BeginParentAction

\* Mutant: taking a parent action back consumes its decision.
RollbackWithoutMarker(from) ==
    /\ review' = from.review
    /\ pending' = FALSE
    /\ status' = from.source
    /\ begin' = NoBegin
    /\ UNCHANGED <<resume, lastDecision>>

RollbackParentAction(from) ==
    /\ review' = from.review
    /\ pending' = from.pending
    /\ status' = from.source
    /\ begin' = NoBegin
    /\ UNCHANGED <<resume, lastDecision>>

\* Mutant: the admission checks the record and leaves it behind.
CommitWithoutRemoval ==
    /\ begin # NoBegin => status = "active"
    /\ UNCHANGED storeVars

\* CommitParentActionBegin, the runner's admission of the model call.
CommitParentActionBegin ==
    /\ begin # NoBegin => status = "active"
    /\ begin' = NoBegin
    /\ UNCHANGED <<status, pending, review, resume, lastDecision>>

\* clearParentActionBeginResume accepts only a worker checkpoint no model has
\* answered yet, of the kind of call the action begins.
ClearableBeginResume ==
    \/ resume = NoCheckpoint
    \/ /\ resume.stop = "none" /\ ~resume.completed /\ resume.approval = "none"
       /\ resume.stage = "worker"
       /\ resume.phase = IF begin.source = "waiting-decision"
                         THEN "worker-decision" ELSE "worker-explicit-fix"

\* validateParentActionBeginRecovery and clearParentActionBeginResume.
CanRecoverParentAction ==
    /\ begin # NoBegin
    /\ status \in {"active", begin.source}
    /\ pending = begin.pending
    /\ review = begin.review \/ review = NoReview
    /\ ClearableBeginResume

\* Mutant: the recovery restores the files and forgets its own record.
RecoverWithoutRemoval ==
    /\ CanRecoverParentAction
    /\ resume' = NoCheckpoint
    /\ review' = begin.review
    /\ pending' = begin.pending
    /\ status' = begin.source
    /\ UNCHANGED <<begin, lastDecision>>

RecoverParentActionBegin ==
    /\ CanRecoverParentAction
    /\ resume' = NoCheckpoint
    /\ review' = begin.review
    /\ pending' = begin.pending
    /\ status' = begin.source
    /\ begin' = NoBegin
    /\ UNCHANGED lastDecision

-----------------------------------------------------------------------------
(* Transitions of a running task. *)

WaitForDecision ==
    /\ status = "active"
    /\ pending' = TRUE
    /\ status' = "waiting-decision"
    /\ UNCHANGED <<review, resume, begin, lastDecision>>

\* Mutant: the worker's result is routed on with the marker in place.
ContinueWithMarker ==
    /\ status = "active"
    /\ UNCHANGED storeVars

ContinueAfterWorkerResult ==
    /\ status = "active"
    /\ pending' = FALSE
    /\ UNCHANGED <<status, review, resume, begin, lastDecision>>

FinishReview(to) ==
    /\ status = "active"
    /\ status' = to
    /\ UNCHANGED <<pending, review, resume, begin, lastDecision>>

CanWaitForSolReview ==
    status \in {"none", "active", "waiting-decision", "waiting-sol-review"}

WaitForSolReview ==
    /\ CanWaitForSolReview
    /\ status' = "waiting-sol-review"
    /\ UNCHANGED <<pending, review, resume, begin, lastDecision>>

\* The marker of a decision may only be dropped by the continuation that
\* consumed the decision.
WaitForQualitySurfaceReview(phase) ==
    /\ pending => phase = "worker-decision" /\ lastDecision # NoDecision
    /\ CanWaitForSolReview
    /\ pending' = FALSE
    /\ status' = "waiting-sol-review"
    /\ UNCHANGED <<review, resume, begin, lastDecision>>

\* Mutant: failing closed forgets the checkpoint.
WaitForSolReviewKeepingResume ==
    /\ CanWaitForSolReview
    /\ status' = "waiting-sol-review"
    /\ UNCHANGED <<pending, resume, review, begin, lastDecision>>

\* Fail closed: the checkpoint goes, the pending decision and the begin record
\* stay where they are.
DiscardResumeAndWaitForSolReview ==
    /\ CanWaitForSolReview
    /\ resume' = NoCheckpoint
    /\ status' = "waiting-sol-review"
    /\ UNCHANGED <<pending, review, begin, lastDecision>>

\* Mutant: the approval wait keeps the marker of the decision it has consumed.
ApprovalWaitKeepingMarker(cp) ==
    /\ status = "active"
    /\ cp.approval # "none" /\ ~IsStopped(cp) /\ cp.completed
    /\ resume' = cp
    /\ status' = "waiting-sol-review"
    /\ UNCHANGED <<pending, review, begin, lastDecision>>

EnterQualitySurfaceApprovalWait(cp) ==
    /\ status = "active"
    /\ cp.approval # "none" /\ ~IsStopped(cp) /\ cp.completed
    /\ resume' = cp
    /\ pending' = FALSE
    /\ status' = "waiting-sol-review"
    /\ UNCHANGED <<review, begin, lastDecision>>

ActivateQualitySurfaceApproval ==
    /\ status = "waiting-sol-review"
    /\ resume.approval # "none" /\ ~IsStopped(resume)
    /\ review.label \in {"none", "NEEDS_SOL_REVIEW"}
    /\ ResolveReview
    /\ resume' = NoCheckpoint
    /\ status' = "active"
    /\ UNCHANGED <<pending, begin, lastDecision>>

SaveResumeCheckpoint(cp) ==
    /\ ValidStopState(cp)
    /\ resume' = cp
    /\ UNCHANGED <<status, pending, review, begin, lastDecision>>

\* Mutant: clearing the checkpoint clears the marker with it.
ClearResumeAndMarker ==
    /\ resume' = NoCheckpoint
    /\ pending' = FALSE
    /\ UNCHANGED <<status, review, begin, lastDecision>>

ClearResumeCheckpoint ==
    /\ resume' = NoCheckpoint
    /\ UNCHANGED <<status, pending, review, begin, lastDecision>>

\* Mutant: every stop keeps the marker.
NoStopClearsPending(kind) == FALSE

\* The stops that keep the call's own result drop the marker: the work that
\* resumes is no longer the parent's to decide.
StopClearsPending(kind) ==
    kind \in {"guard-recoverable", "quality-gate-recoverable",
              "result-format-recoverable"}

\* Mutant: a stop does not replace the stop already on disk.
EnterStopOnce(cp) ==
    /\ IsStopped(cp) /\ ValidStopState(cp)
    /\ resume' = IF IsStopped(resume) THEN resume ELSE cp
    /\ pending' = (pending /\ ~StopClearsPending(cp.stop))
    /\ status' = cp.stop
    /\ UNCHANGED <<review, begin, lastDecision>>

EnterStop(cp) ==
    /\ IsStopped(cp) /\ ValidStopState(cp)
    /\ resume' = cp
    /\ pending' = (pending /\ ~StopClearsPending(cp.stop))
    /\ status' = cp.stop
    /\ UNCHANGED <<review, begin, lastDecision>>

BeginResume ==
    /\ IsStopped(resume) /\ status = resume.stop
    /\ status' = "active"
    /\ UNCHANGED <<pending, review, resume, begin, lastDecision>>

\* RestoreResumeStop: a stopped checkpoint on disk wins over the one the resume
\* started from; a task that already left "active" is left alone.
RestoreResumeStop(previous) ==
    IF status = "active"
    THEN EnterStop(IF IsStopped(resume) THEN resume ELSE previous)
    ELSE UNCHANGED storeVars

-----------------------------------------------------------------------------
(* Ends and beginnings. *)

\* StartNewTask clears every task-bound file before the task becomes active.
StartNewTask ==
    /\ status' = "active"
    /\ pending' = FALSE
    /\ review' = NoReview
    /\ resume' = NoCheckpoint
    /\ begin' = NoBegin
    /\ lastDecision' = NoDecision

\* AcceptParentReview resolves the review and leaves completion to the parent.
AcceptParentReview ==
    /\ review.label \in {"NEEDS_SOL_REVIEW", "PASS"}
    /\ ResolveReview
    /\ status' = "awaiting-parent-completion"
    /\ UNCHANGED <<pending, resume, begin, lastDecision>>

CompleteParentAwaiting ==
    /\ status = "awaiting-parent-completion"
    /\ status' = "complete"
    /\ UNCHANGED <<pending, review, resume, begin, lastDecision>>

\* RecordRuntimeDisposition ends a task the controller has given up.
RecordRuntimeDisposition ==
    /\ status \notin {"none", "complete", "user-terminated"}
    /\ status' = "user-terminated"
    /\ UNCHANGED <<pending, review, resume, begin, lastDecision>>

\* RecoverApprovedQualitySurfaceReview closes a stale review over a stop that
\* an automatic fix entered.
RecoverApprovedQualitySurfaceReview ==
    /\ status \in StopKinds \ {"result-format-recoverable"}
    /\ resume.stop = status
    /\ resume.stage = "auto-fix" /\ resume.phase = "worker-auto-fix"
    /\ ~pending
    /\ review.label = "NEEDS_SOL_REVIEW"
    /\ ResolveReview
    /\ UNCHANGED <<status, pending, resume, begin, lastDecision>>

=============================================================================
