------------------------------ MODULE ParentPlan ------------------------------
(***************************************************************************)
(* ParentActionPlan: what the parent may do next, computed from the files  *)
(* alone.  The plan exists only when the files agree with each other;      *)
(* otherwise every parent command is refused with a lifecycle              *)
(* inconsistency.                                                          *)
(***************************************************************************)
EXTENDS TaskStore

OpenReviewIn(labels) == review.label \in labels \union {"none"}

\* One conjunct per status, as parentActionPlanForStatus dispatches.
WaitingDecisionConsistent ==
    status = "waiting-decision" =>
        pending /\ ~IsStopped(resume) /\ OpenReviewIn({"NEEDS_SOL_DECISION"})

WaitingReviewConsistent ==
    status = "waiting-sol-review" =>
        ~pending /\ ~IsStopped(resume) /\ OpenReviewIn({"NEEDS_SOL_REVIEW"})

AwaitingCompletionConsistent ==
    status = "awaiting-parent-completion" =>
        ~pending /\ ~IsStopped(resume) /\ OpenReviewIn({})

CompleteConsistent ==
    status = "complete" =>
        ~pending /\ ~IsStopped(resume) /\ OpenReviewIn({"PASS"})

InactiveConsistent ==
    status \in {"none", "active"} =>
        ~pending /\ ~IsStopped(resume) /\ OpenReviewIn({})

StoppedConsistent ==
    status \in StopKinds =>
        /\ resume.stop = status
        /\ pending => PendingDecisionContinues(resume)
        /\ OpenReviewIn({})

LifecycleConsistent ==
    /\ WaitingDecisionConsistent
    /\ WaitingReviewConsistent
    /\ AwaitingCompletionConsistent
    /\ CompleteConsistent
    /\ InactiveConsistent
    /\ StoppedConsistent

\* A retained, unstopped approval checkpoint makes approval the required action.
SurfaceApprovalPending == resume.approval # "none" /\ ~IsStopped(resume)

\* The actions of the plan.  "accept" of a review also needs the evidence the
\* parent gathered, which is not part of these files.
Allows(action) ==
    /\ LifecycleConsistent
    /\ \/ action = "decision" /\ status = "waiting-decision"
       \/ action = "fix" /\ status = "waiting-sol-review"
       \/ action = "approve-surface" /\ status = "waiting-sol-review"
                                     /\ SurfaceApprovalPending
       \/ action = "accept" /\ status = "waiting-sol-review"
                            /\ ~SurfaceApprovalPending /\ review.by = "bound"
       \/ action = "accept" /\ status = "complete" /\ review.label = "PASS"
       \/ action = "complete" /\ status = "awaiting-parent-completion"
       \/ action = "resume"
          /\ status \in StopKinds \ {"result-format-recoverable"}
       \/ action = "resubmit-report" /\ status = "result-format-recoverable"

\* Mutant: a complete task admits the next one before its PASS is accepted.
AdmitsNewTaskUnaccepted ==
    \/ status = "user-terminated"
    \/ LifecycleConsistent /\ status \in {"none", "complete"}

\* admitNewTaskCommand: nothing is required of the parent and no task runs.
AdmitsNewTask ==
    \/ status = "user-terminated"
    \/ /\ LifecycleConsistent
       /\ status = "none" \/ (status = "complete" /\ review = NoReview)

=============================================================================
