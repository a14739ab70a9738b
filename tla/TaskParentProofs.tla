--------------------------- MODULE TaskParentProofs ---------------------------
(***************************************************************************)
(* What the lifecycle of a task promises its parent, proved for any        *)
(* decisions, any number of automatic fixes and of rule contracts: a       *)
(* decision is used once, by the work it was given for; the plan is        *)
(* consistent and what it offers can begin; the turn passes as             *)
(* TaskContract says.  The invariants here stand on SafetyInv, proved in   *)
(* TaskLifecycleProofs.  Where a promise depends on the absence of faults, *)
(* the theorem names them as its hypothesis.                               *)
(***************************************************************************)
EXTENDS TaskLifecycleProofs

-----------------------------------------------------------------------------
(* The marker of a decision, and what a parent action goes back to. *)

\* The checkpoint works on the decision last given.
WorksOnDecision(c) ==
    /\ c.stage = "worker" /\ c.phase = "worker-decision"
    /\ c.decision = lastDecision /\ lastDecision # NoDecision

StopWorksOnDecision(c) == c.stop \in TransientStops /\ WorksOnDecision(c)

\* While the marker is there, whatever a process works on, whatever stop is on disk
\* and whatever stop a failing resume goes back to belongs to the decision.
MarkerIsCarried ==
    /\ pending /\ pc \in ActiveSteps \union {"begin"} => WorksOnDecision(cp)
    /\ pending /\ IsStopped(resume) => StopWorksOnDecision(resume)
    /\ pending /\ armed # "no" /\ pc \in ActiveSteps => StopWorksOnDecision(prev)

\* Behind the routing of a worker's result, and in the gates of a new task or a fix,
\* there is no marker.
MarkerIsUsed ==
    pc \in {"gate", "search", "gate-repaired", "review", "reviewed", "fix-required"} => ~pending

\* A resume has the stop it came from in hand until it continues, and a command that
\* has just been given goes back to none.
ResumeInHand ==
    /\ pc = "resume" => cp = resume /\ IsStopped(resume)
    /\ pc \in (ActiveSteps \ {"resume"}) \union {"begin"} => ~IsStopped(cp)
    /\ pc \in {"idle", "begin"} => armed = "no"

\* The process is on its way back to the wait its parent action began from.
TakingBack == pc = "rollback" \/ (pc = "emit" /\ out.next = "rollback")

\* A parent action is taken back only before a model was admitted, and what it goes
\* back to has the marker as it is now.
RollbackFits ==
    /\ rb # NoBegin => pc \in {"gate", "search", "call", "saved", "failed", "emit", "rollback"}
    /\ rb # NoBegin => (pending <=> rb.pending)
    /\ TakingBack => rb # NoBegin /\ status \in {"active", rb.source}
    /\ pc = "search" => rb # NoBegin
    /\ pc \in {"gate", "search"} => rb.source # "waiting-decision"
    /\ rb.source # "waiting-decision" => ~rb.pending
    /\ begin.source # "waiting-decision" => ~begin.pending

\* An approval in the hands of a process, or of a stop, has been activated.
ApprovalIsActivated ==
    /\ cp.approval # "pending"
    /\ prev.approval # "pending"
    /\ IsStopped(resume) => resume.approval # "pending"

\* No review a reviewer's result is bound to, and no task that is done, has a begin
\* record beside it.
BeginIsEarly ==
    /\ begin # NoBegin =>
           /\ review.by # "bound"
           /\ status \notin {"none", "awaiting-parent-completion", "complete"}
    /\ pc = "emit" /\ begin # NoBegin => out.by # "bound"
    /\ pc = "reviewed" => producer # "none"

\* What agrees with the marker of a decision at every step, whatever the faults.
MarkerInv ==
    /\ MarkerIsCarried
    /\ MarkerIsUsed
    /\ ResumeInHand
    /\ RollbackFits
    /\ ApprovalIsActivated
    /\ BeginIsEarly

-----------------------------------------------------------------------------
(* The plan and the begin record. *)

\* The labels of an open review that fit a status.
Labels(s) ==
    {"none"} \union
    IF s = "waiting-decision" THEN {"NEEDS_SOL_DECISION"}
    ELSE IF s = "waiting-sol-review" THEN {"NEEDS_SOL_REVIEW"}
    ELSE IF s = "complete" THEN {"PASS"}
    ELSE {}

\* The faults that put a packet where the plan does not expect it.
NoMisplacedPacket == Faults \cap {"decision-task", "feasibility", "parent-file"} = {}

\* The packet of a wait is the one the wait is for, on disk, in the hands of the process
\* and in what a parent action goes back to; who waits for nobody has no marker.
PlanInv ==
    /\ status # "user-terminated" => review.label \in Labels(status)
    /\ pc = "emit" => status # "user-terminated" /\ out.label \in Labels(status)
    /\ begin # NoBegin => begin.review.label \in Labels(begin.source)
    /\ rb # NoBegin => rb.review.label \in Labels(rb.source)
    /\ status \in {"none", "waiting-sol-review", "awaiting-parent-completion", "complete"} =>
           ~pending
    /\ status = "none" => ~IsStopped(resume)

\* The faults that leave a begin record in a review wait: a changed parent-managed
\* file, or a process that dies between the gate that rejected its fix and the rollback.
NoStrandedBegin ==
    /\ "parent-file" \notin Faults
    /\ "crash" \notin Faults \/ Faults \cap {"active-task", "feasibility"} = {}

\* A checkpoint no model has been admitted for yet.
Unadmitted(c) == c.stage = "worker" /\ ~StopClearsPending(c.stop)

\* A begin record means that no model has been admitted since: neither the process nor a
\* stop has more than the first call of the action, and a review wait has one only on the
\* way back.
BeginInv ==
    /\ begin # NoBegin /\ status = "waiting-sol-review" =>
           TakingBack /\ "crash" \notin Faults
    /\ begin # NoBegin => pc \notin RoutingSteps
    /\ begin # NoBegin /\ pc = "gate" => rb # NoBegin
    /\ begin # NoBegin /\ pc \in ActiveSteps => Unadmitted(cp)
    /\ begin # NoBegin /\ IsStopped(resume) => Unadmitted(resume)
    /\ begin # NoBegin /\ armed # "no" /\ pc \in ActiveSteps => Unadmitted(prev)

-----------------------------------------------------------------------------
(* Checkpoints and records. *)

\* Setting or clearing a stop changes what the call works on in nothing.
LEMMA SetStopKindFields ==
    ASSUME NEW c \in Checkpoints, NEW kind \in StopKinds \union {"none"}
    PROVE  /\ SetStopKind(c, kind).stage = c.stage
           /\ SetStopKind(c, kind).phase = c.phase
           /\ SetStopKind(c, kind).decision = c.decision
           /\ SetStopKind(c, kind).approval = c.approval
           /\ SetStopKind(c, kind).stop = kind
BY DEF Checkpoints, SetStopKind, KeepsResult

\* A continuation works on what its stop worked on, without an approval.
LEMMA ContinuationFields ==
    ASSUME NEW c \in Checkpoints
    PROVE  /\ Continuation(c).stage = c.stage
           /\ Continuation(c).phase = c.phase
           /\ Continuation(c).decision = c.decision
           /\ Continuation(c).approval = "none"
           /\ Continuation(c).stop = "none"
<1> DEFINE e == [c EXCEPT !.approval = "none"]
<1>1. /\ e \in Checkpoints /\ e.approval = "none"
      /\ e.stage = c.stage /\ e.phase = c.phase /\ e.decision = c.decision
    BY DEF Checkpoints
<1> HIDE DEF e
<1>2. Continuation(c) = SetStopKind(e, "none")
    BY DEF Continuation, ClearStop, e
<1> QED
    BY <1>1, <1>2, SetStopKindFields

\* What a stop that keeps the call's result works on.
LEMMA GuardFields ==
    ASSUME NEW completed \in BOOLEAN, cp \in Checkpoints
    PROVE  /\ GuardCheckpoint(completed) \in Checkpoints
           /\ GuardCheckpoint(completed).stop = "guard-recoverable"
           /\ GuardCheckpoint(completed).approval = cp.approval
<1>1. SetStopKind(cp, "guard-recoverable") \in Checkpoints
      /\ SetStopKind(cp, "guard-recoverable").stop = "guard-recoverable"
      /\ SetStopKind(cp, "guard-recoverable").approval = cp.approval
    BY SetStopKindType, SetStopKindFields DEF StopKinds
<1> QED
    BY <1>1 DEF GuardCheckpoint, Checkpoints

\* The stops that drop the marker are those that keep the call's result, and the
\* others are the transient ones.
LEMMA StopsByMarker ==
    ASSUME NEW kind \in StopKinds
    PROVE  StopClearsPending(kind) <=> kind \notin TransientStops
BY DEF StopKinds, StopClearsPending, TransientStops

\* No begin record is none of a parent action.
LEMMA NoBeginIsNone ==
    /\ NoBegin \notin Begins
    /\ NoBegin.source = "none"
    /\ ~NoBegin.pending
BY DEF NoBegin, Begins

-----------------------------------------------------------------------------
(* The marker: every step. *)

LEMMA InitMarker == Init => MarkerInv
<1> SUFFICES ASSUME Init PROVE MarkerInv
    OBVIOUS
<1> QED
    BY NoCheckpointIsNone, NoBeginIsNone
    DEF Init, StoreInit, MarkerInv, MarkerIsCarried, MarkerIsUsed, ResumeInHand,
        TakingBack, RollbackFits, ApprovalIsActivated, BeginIsEarly, ActiveSteps,
        RoutingSteps, IsStopped

\* A process that ends and leaves the files alone.
LEMMA QuietEndMarker ==
    ASSUME MarkerInv, UNCHANGED storeVars, ProcessEnds PROVE MarkerInv'
BY NoCheckpointIsNone, NoBeginIsNone
DEF storeVars, ProcessEnds, MarkerInv, MarkerIsCarried, MarkerIsUsed, ResumeInHand,
    TakingBack, RollbackFits, ApprovalIsActivated, BeginIsEarly, ActiveSteps,
    RoutingSteps, IsStopped, StopWorksOnDecision, WorksOnDecision

\* A process that ends by stopping the task.
LEMMA StopMarker ==
    ASSUME SafetyInv, MarkerInv, NEW c \in Checkpoints, EnterStop(c), ProcessEnds,
           c.approval # "pending",
           pending /\ c.stop \in TransientStops => WorksOnDecision(c)
    PROVE  MarkerInv'
<1>1. c.stop \in StopKinds
    BY DEF EnterStop, IsStopped, Checkpoints
<1>2. pending' => pending /\ c.stop \in TransientStops
    BY <1>1, StopsByMarker DEF EnterStop
<1>3. MarkerIsCarried'
    BY <1>2 DEF EnterStop, ProcessEnds, MarkerIsCarried, StopWorksOnDecision,
                WorksOnDecision, ActiveSteps, RoutingSteps
<1>4. RollbackFits' /\ ApprovalIsActivated'
    BY NoCheckpointIsNone, NoBeginIsNone
    DEF EnterStop, ProcessEnds, MarkerInv, RollbackFits, TakingBack, ApprovalIsActivated
<1>5. BeginIsEarly'
    BY <1>1 DEF EnterStop, ProcessEnds, MarkerInv, BeginIsEarly, StopKinds
<1> QED
    BY <1>3, <1>4, <1>5
    DEF ProcessEnds, MarkerInv, MarkerIsUsed, ResumeInHand, ActiveSteps, RoutingSteps

\* A process that ends by going back to a stop.
LEMMA RestoreMarker ==
    ASSUME SafetyInv, MarkerInv, NEW c \in Checkpoints \union {NoCheckpoint},
           RestoreResumeStop(c), ProcessEnds, c.approval # "pending",
           pending => StopWorksOnDecision(c)
    PROVE  MarkerInv'
<1> DEFINE back == IF IsStopped(resume) THEN resume ELSE c
<1>1. CASE EnterStop(back)
  <2>1. back \in Checkpoints
    BY <1>1, NoCheckpointIsNone
    DEF EnterStop, IsStopped, SafetyInv, TypeInv, TypeOK, StoreTypeOK
  <2>2. back.approval # "pending" /\ (pending => WorksOnDecision(back))
    BY DEF MarkerInv, MarkerIsCarried, ApprovalIsActivated, StopWorksOnDecision
  <2> QED
    BY <1>1, <2>1, <2>2, StopMarker
<1>2. CASE UNCHANGED storeVars
    BY <1>2, QuietEndMarker
<1> QED
    BY <1>1, <1>2 DEF RestoreResumeStop

\* What a consistent plan says of the marker.
LEMMA OfferedWithoutMarker ==
    /\ Allows("fix") => ~pending
    /\ Allows("approve-surface") => ~pending
    /\ Allows("accept") /\ status = "waiting-sol-review" => review.by = "bound"
    /\ Allows("resubmit-report") => status = "result-format-recoverable"
BY DEF Allows, LifecycleConsistent, WaitingReviewConsistent

\* Commands of the parent.
LEMMA CommandMarker ==
    ASSUME SafetyInv, MarkerInv, ParentCommand PROVE MarkerInv'
<1> USE NoCheckpointIsNone, NoBeginIsNone
    DEF MarkerInv, MarkerIsCarried, MarkerIsUsed, ResumeInHand,
        TakingBack, RollbackFits, ApprovalIsActivated, BeginIsEarly, ActiveSteps,
        RoutingSteps, IsStopped, StopWorksOnDecision, WorksOnDecision
<1>0. /\ pc = "idle" => producer = "none"
      /\ status = "waiting-decision" => ~IsStopped(resume)
      /\ status = "waiting-sol-review" => ~IsStopped(resume)
    BY DEF SafetyInv, ProcessFollowsStore, WaitCarriesNoStop
<1>1. CASE NewTask
    BY <1>1 DEF NewTask, StartNewTask, Launch, NewCheckpoint
<1>2. CASE DecisionRejected
    BY <1>0, <1>2, AllowedStatus
    DEF DecisionRejected, ClearResumeCheckpoint, storeVars, Announce
<1>3. ASSUME NEW d \in Decisions, Decision(d) PROVE MarkerInv'
    BY <1>0, <1>3, AllowedStatus, NoDecisionAssumption DEF Decision, Launch, NewCheckpoint
<1>4. ASSUME NEW milestone \in BOOLEAN, Fix(milestone) PROVE MarkerInv'
    BY <1>4, <1>0, OfferedWithoutMarker
    DEF Fix, BeginParentFix, CanBeginFix, BeginParentAction, Snapshot, Launch,
        FixCheckpoint, NewCheckpoint, ResolveReview, NoReview
<1>5. CASE MilestoneFixRejected
    BY <1>0, <1>5, AllowedStatus
    DEF MilestoneFixRejected, DiscardResumeAndWaitForSolReview, Announce, storeVars
<1>6. CASE Resume
    BY <1>6, <1>0 DEF Resume, BeginResume, Launch
<1>7. CASE ResumeRejected
    BY <1>7, <1>0 DEF ResumeRejected, Announce, storeVars
<1>8. CASE ResubmitReport
  <2>1. resume \in Checkpoints /\ resume.stop \notin TransientStops
    BY <1>8, OfferedWithoutMarker
    DEF ResubmitReport, BeginResume, SafetyInv, TypeInv, TypeOK, StoreTypeOK, TransientStops
  <2>2. ClearStop(resume).approval = resume.approval /\ ClearStop(resume).stop = "none"
    BY <2>1, SetStopKindFields DEF ClearStop
  <2> QED
    BY <1>8, <2>1, <2>2 DEF ResubmitReport, BeginResume
<1>9. CASE ApproveSurface
    BY <1>0, <1>9, OfferedWithoutMarker
    DEF ApproveSurface, ActivateQualitySurfaceApproval, Launch, ResolveReview, NoReview
<1>10. CASE ApproveSurfaceUnmeasurable
    BY <1>10, <1>0, AllowedStatus, OfferedWithoutMarker
    DEF ApproveSurfaceUnmeasurable, WaitForQualitySurfaceReview, Announce
<1>11. CASE Accept
    BY <1>0, <1>11, AllowedStatus, OfferedWithoutMarker
    DEF Accept, AcceptParentReview, procVars, ResolveReview, NoReview
<1>12. CASE Complete
    BY <1>12 DEF Complete, CompleteParentAwaiting, procVars
<1>13. CASE RuntimeDisposition
    BY <1>13 DEF RuntimeDisposition, RecordRuntimeDisposition, procVars
<1>14. CASE RecoverParentAction
    BY <1>14 DEF RecoverParentAction, RecoverParentActionBegin, procVars
<1>15. CASE RecoverQualitySurfaceReview
    BY <1>15 DEF RecoverQualitySurfaceReview, RecoverApprovedQualitySurfaceReview,
                 procVars, ResolveReview, NoReview
<1> QED
    BY <1>1, <1>2, <1>3, <1>4, <1>5, <1>6, <1>7, <1>8, <1>9, <1>10, <1>11, <1>12,
       <1>13, <1>14, <1>15 DEF ParentCommand

\* Steps of one model call.
LEMMA CallMarker ==
    ASSUME SafetyInv, MarkerInv, ModelCall PROVE MarkerInv'
<1>0. pc \in {"call", "saved", "running"} => cp \in Checkpoints /\ status = "active"
    BY DEF SafetyInv, TypeInv, CallInHand, ProcessFollowsStore, ActiveSteps
<1>1. ASSUME NEW kind \in TransientStops, pc \in {"saved", "running"},
             EnterStop(SetStopKind(cp, kind)), ProcessEnds
      PROVE  MarkerInv'
  <2>1. SetStopKind(cp, kind) \in Checkpoints
    BY <1>0, <1>1, SetStopKindType DEF TransientStops, StopKinds
  <2>2. /\ SetStopKind(cp, kind).approval # "pending"
        /\ pending => WorksOnDecision(SetStopKind(cp, kind))
    BY <1>0, <1>1, SetStopKindFields
    DEF TransientStops, StopKinds, MarkerInv, MarkerIsCarried, ApprovalIsActivated,
        WorksOnDecision, ActiveSteps
  <2> QED
    BY <1>1, <2>1, <2>2, StopMarker
<1>2. CASE InterruptBetweenCalls
    BY <1>1, <1>2 DEF InterruptBetweenCalls, TransientStops
<1>3. ASSUME NEW kind \in TransientStops, ModelStops(kind) PROVE MarkerInv'
    BY <1>1, <1>3 DEF ModelStops
<1>4. ASSUME pc \in {"call", "saved", "running"}, Goto("failed"),
             UNCHANGED storeVars \/ ClearResumeCheckpoint
      PROVE  MarkerInv'
    BY <1>4, NoCheckpointIsNone
    DEF Goto, storeVars, ClearResumeCheckpoint, MarkerInv, MarkerIsCarried, MarkerIsUsed,
        ResumeInHand, TakingBack, RollbackFits, ApprovalIsActivated, BeginIsEarly,
        ActiveSteps, RoutingSteps, IsStopped, StopWorksOnDecision, WorksOnDecision
<1>5. ASSUME NEW completed \in BOOLEAN, GuardStops(completed) PROVE MarkerInv'
  <2>1. cp.approval # "pending" /\ pc = "running"
    BY <1>5 DEF GuardStops, MarkerInv, ApprovalIsActivated
  <2>2. CASE EnterStop(GuardCheckpoint(completed)) /\ ProcessEnds
    BY <1>0, <2>1, <2>2, GuardFields, StopMarker DEF TransientStops
  <2> QED
    BY <1>4, <1>5, <2>1, <2>2 DEF GuardStops
<1>6. CASE ResultFormatStops
  <2> DEFINE stopped == SetStopKind(cp, "result-format-recoverable")
  <2>1. cp.approval # "pending" /\ pc = "running"
    BY <1>6 DEF ResultFormatStops, MarkerInv, ApprovalIsActivated
  <2>2. /\ stopped \in Checkpoints /\ stopped.approval = cp.approval
        /\ stopped.stop = "result-format-recoverable"
    BY <1>0, <2>1, SetStopKindType, SetStopKindFields DEF StopKinds
  <2>3. CASE EnterStop(stopped) /\ ProcessEnds
    BY <2>1, <2>2, <2>3, StopMarker DEF TransientStops
  <2> QED
    BY <1>4, <1>6, <2>1, <2>3 DEF ResultFormatStops
<1>7. CASE PrepareFails \/ CallRefused \/ WorkerFormatFails \/ RunnerFails \/ ModelFails
    BY <1>4, <1>7 DEF PrepareFails, CallRefused, WorkerFormatFails, RunnerFails, ModelFails
<1> USE NoCheckpointIsNone, NoBeginIsNone
    DEF MarkerInv, MarkerIsCarried, MarkerIsUsed, ResumeInHand,
        TakingBack, RollbackFits, ApprovalIsActivated, BeginIsEarly, ActiveSteps,
        RoutingSteps, IsStopped, StopWorksOnDecision, WorksOnDecision
<1>8. CASE PreCallGuardFails
    BY <1>0, <1>8 DEF PreCallGuardFails, ClearResumeCheckpoint, Goto
<1>9. CASE SaveCheckpoint
    BY <1>0, <1>9 DEF SaveCheckpoint, SaveResumeCheckpoint, Goto
<1>10. CASE ParentFileStops
    BY <1>0, <1>10
    DEF ParentFileStops, FailClosed, DiscardResumeAndWaitForSolReview, Announce,
        SafetyInv, NoBeginBehindModel, Unbound
<1>11. CASE AdmitCall
    BY <1>11 DEF AdmitCall, CommitParentActionBegin
<1>12. CASE ModelAccepted
    BY <1>0, <1>12 DEF ModelAccepted, ClearResumeCheckpoint, IsWorkerCall
<1> QED
    BY <1>2, <1>3, <1>5, <1>6, <1>7, <1>8, <1>9, <1>10, <1>11, <1>12 DEF ModelCall

\* Steps of the workflow around the calls.
LEMMA WorkflowMarker ==
    ASSUME SafetyInv, MarkerInv, WorkflowStep PROVE MarkerInv'
<1>0. pc \in ActiveSteps => cp \in Checkpoints /\ status = "active"
    BY DEF SafetyInv, TypeInv, CallInHand, ProcessFollowsStore
<1>00. /\ pc \in RoutingSteps => resume = NoCheckpoint
       /\ producer # "none" => begin = NoBegin
       /\ prev \in Checkpoints \union {NoCheckpoint}
       /\ cp \in Checkpoints \union {NoCheckpoint}
    BY DEF SafetyInv, TypeInv, TypeOK, ProcessFollowsStore, NoBeginBehindModel
<1>1. ASSUME NEW kind \in TransientStops, ResumeProbeStops(kind) PROVE MarkerInv'
  <2>1. cp \in Checkpoints /\ cp.approval # "pending" /\ (pending => WorksOnDecision(cp))
    BY <1>0, <1>1 DEF ResumeProbeStops, MarkerInv, MarkerIsCarried, ApprovalIsActivated,
                      ActiveSteps
  <2>2. /\ SetStopKind(cp, kind) \in Checkpoints
        /\ SetStopKind(cp, kind).approval # "pending"
        /\ pending => WorksOnDecision(SetStopKind(cp, kind))
    BY <2>1, SetStopKindType, SetStopKindFields DEF TransientStops, StopKinds, WorksOnDecision
  <2> QED
    BY <1>1, <2>2, StopMarker DEF ResumeProbeStops
<1>2. CASE ResumeProbeFails
  <2>1. cp.approval # "pending" /\ (pending => StopWorksOnDecision(cp))
    BY <1>2 DEF ResumeProbeFails, MarkerInv, MarkerIsCarried, ApprovalIsActivated, ResumeInHand
  <2> QED
    BY <1>00, <1>2, <2>1, RestoreMarker DEF ResumeProbeFails
<1>3. CASE Unwind
  <2>1. CASE armed = "no"
    BY <1>3, <2>1, QuietEndMarker DEF Unwind
  <2>2. CASE armed # "no"
    <3>1. prev.approval # "pending" /\ (pending => StopWorksOnDecision(prev))
      BY <1>3, <2>2 DEF Unwind, MarkerInv, MarkerIsCarried, ApprovalIsActivated, ActiveSteps
    <3> QED
      BY <1>00, <1>3, <2>2, <3>1, RestoreMarker DEF Unwind
  <2> QED
    BY <2>1, <2>2
<1>4. CASE ResumeContextFails
    BY <1>4, QuietEndMarker DEF ResumeContextFails
<1>5. CASE QualityGateStops
  <2> DEFINE kept == [stage |-> "worker", phase |-> cp.phase,
                      decision |-> lastDecision, fixes |-> cp.fixes,
                      stop |-> "quality-gate-recoverable", approval |-> "none",
                      completed |-> TRUE]
  <2>1. kept \in Checkpoints
    BY <1>0, <1>5 DEF QualityGateStops, ActiveSteps, RoutingSteps, Checkpoints,
                      StopKinds, SafetyInv, TypeInv, TypeOK, StoreTypeOK
  <2> QED
    BY <1>5, <2>1, StopMarker DEF QualityGateStops, TransientStops
<1> USE NoCheckpointIsNone, NoBeginIsNone
    DEF MarkerInv, MarkerIsCarried, MarkerIsUsed, ResumeInHand,
        TakingBack, RollbackFits, ApprovalIsActivated, BeginIsEarly, ActiveSteps,
        RoutingSteps, IsStopped, StopWorksOnDecision, WorksOnDecision
<1>6. CASE BeginDecision
  <2>1. CASE BeginParentDecision
    BY <1>6, <2>1
    DEF BeginDecision, BeginParentDecision, CanBeginDecision, BeginParentAction, Snapshot,
        ProcessEnds, ResolveReview, NoReview, SafetyInv, WaitCarriesNoStop
  <2>2. CASE UNCHANGED storeVars /\ ProcessEnds
    BY <2>2, QuietEndMarker
  <2> QED
    BY <1>6, <2>1, <2>2 DEF BeginDecision
<1>7. CASE GateFails
  <2>1. rb = NoBegin \/ rb.source = "waiting-sol-review"
    BY <1>7 DEF GateFails, SafetyInv, TypeInv, TypeOK, Begins
  <2> QED
    BY <1>0, <1>00, <1>7, <2>1
    DEF GateFails, FailClosed, FailFeasibility, WaitForSolReview,
        DiscardResumeAndWaitForSolReview, Announce, Unbound, Begins
<1>8. CASE GatePasses \/ SearchFails \/ QualityViolation \/ ReviewPreparationFails
           \/ ConvergenceFails \/ ReviewRequiresFix
    BY <1>0, <1>8 DEF GatePasses, SearchFails, QualityViolation, ReviewPreparationFails,
                ConvergenceFails, ReviewRequiresFix, Goto, storeVars
<1>9. CASE ResumeSnapshotFails \/ SnapshotFails
    BY <1>0, <1>00, <1>9 DEF ResumeSnapshotFails, SnapshotFails, FailClosed,
                DiscardResumeAndWaitForSolReview, Announce, Unbound
<1>10. CASE ResumeCalls
    BY <1>0, <1>10, ContinuationFields DEF ResumeCalls, storeVars
<1>11. CASE ResumeReusesResult
  <2>1. cp \in Checkpoints /\ ~pending
    BY <1>0, <1>11 DEF ResumeReusesResult, TransientStops
  <2> QED
    BY <1>11, <2>1, ContinuationFields DEF ResumeReusesResult, ClearResumeCheckpoint
<1>12. CASE SurfaceNeedsApproval
    BY <1>0, <1>00, <1>12
    DEF SurfaceNeedsApproval, EnterQualitySurfaceApprovalWait, Announce, Unbound,
        Checkpoints
<1>13. CASE SurfaceFailsClosed
    BY <1>0, <1>00, <1>13 DEF SurfaceFailsClosed, WaitForQualitySurfaceReview, Announce, Unbound
<1>14. CASE RuleCorrection
    BY <1>0, <1>14 DEF RuleCorrection, storeVars
<1>15. CASE WorkerNeedsDecision \/ ReviewNeedsDecision
    BY <1>0, <1>00, <1>15
    DEF WorkerNeedsDecision, ReviewNeedsDecision, WaitForDecision, Announce, Unbound
<1>16. CASE WorkerImplemented
    BY <1>0, <1>16 DEF WorkerImplemented, ContinueAfterWorkerResult, Goto
<1>17. CASE DispatchGateFails
    BY <1>0, <1>00, <1>17 DEF DispatchGateFails, FailClosed, FailFeasibility, WaitForSolReview,
                 DiscardResumeAndWaitForSolReview, Announce, Unbound
<1>18. CASE Review \/ AutoFix
    BY <1>0, <1>18 DEF Review, AutoFix, Proceed, storeVars, NewCheckpoint
<1>19. CASE ReviewPasses \/ ReviewNeedsParent \/ NotConverged
    BY <1>0, <1>00, <1>19
    DEF ReviewPasses, ReviewNeedsParent, NotConverged, FinishReview, Announce, Bound,
        Unbound
<1>20. CASE Emit
    BY <1>20 DEF Emit, OpenReview, Goto, ProcessEnds
<1>21. CASE Rollback
    BY <1>21 DEF Rollback, RollbackParentAction, ProcessEnds, SafetyInv, ProcessFollowsStore
<1> QED
    BY <1>1, <1>2, <1>3, <1>4, <1>5, <1>6, <1>7, <1>8, <1>9, <1>10, <1>11, <1>12,
       <1>13, <1>14, <1>15, <1>16, <1>17, <1>18, <1>19, <1>20, <1>21 DEF WorkflowStep

LEMMA NextMarker ==
    ASSUME SafetyInv, MarkerInv, [Next]_vars PROVE MarkerInv'
<1>1. CASE Crash
    BY <1>1, QuietEndMarker DEF Crash
<1>2. CASE UNCHANGED vars
    BY <1>2
    DEF vars, storeVars, procVars, MarkerInv, MarkerIsCarried, MarkerIsUsed, ResumeInHand,
        TakingBack, RollbackFits, ApprovalIsActivated, BeginIsEarly, IsStopped,
        StopWorksOnDecision, WorksOnDecision
<1> QED
    BY <1>1, <1>2, CommandMarker, CallMarker, WorkflowMarker DEF Next, Process

\* The marker of a decision, the checkpoint in hand, the stop on disk and what a parent
\* action goes back to agree at every step, for any faults.
THEOREM MarkerInvariant == Spec => []MarkerInv
BY InitMarker, NextMarker, Safety, PTL DEF Spec

\* A stop that keeps the marker is a stop the pending decision continues, whatever
\* command was rejected or process died before it, so that resume is still offered
\* (pendingDecisionContinuesCheckpoint).
THEOREM PendingStopsContinue == Spec => []PendingStopContinues
<1>1. SafetyInv /\ MarkerInv => PendingStopContinues
    BY DEF SafetyInv, StopIsResumable, MarkerInv, MarkerIsCarried, PendingStopContinues,
           PendingDecisionContinues, StopWorksOnDecision, WorksOnDecision, IsStopped,
           StopKinds
<1> QED
    BY <1>1, Safety, MarkerInvariant, PTL

\* No stopped checkpoint carries an approval that is still pending
\* (prepareQualitySurfaceApprovalResume).
THEOREM StoppedApprovalsAreActivated == Spec => []StoppedApprovalIsActivated
<1>1. SafetyInv /\ MarkerInv => StoppedApprovalIsActivated
    BY DEF SafetyInv, StopIsResumable, MarkerInv, ApprovalIsActivated, IsStopped,
           StoppedApprovalIsActivated, StopKinds
<1> QED
    BY <1>1, Safety, MarkerInvariant, PTL

\* A marker that is still there when a worker's result is routed belongs to the decision
\* that worker was given: failing closed on the quality surface is never refused
\* (verifyPendingDecisionContinuation).
THEOREM SurfaceReviewsAreNotRefused == Spec => []SurfaceReviewNeverRefused
<1>1. MarkerInv => SurfaceReviewNeverRefused
    BY DEF MarkerInv, MarkerIsCarried, SurfaceReviewNeverRefused, WorksOnDecision,
           ActiveSteps, RoutingSteps
<1> QED
    BY <1>1, MarkerInvariant, PTL

-----------------------------------------------------------------------------
(* What no step does. *)


\* Outside a process that works, the marker goes only with a task that was ended.
LEMMA CommandsKeepMarker ==
    ASSUME ParentCommand, pending, ~pending' PROVE pc = "idle" /\ status = "user-terminated"
<1>1. CASE NewTask
    BY <1>1 DEF NewTask, AdmitsNewTask, LifecycleConsistent, InactiveConsistent,
                CompleteConsistent
<1>2. CASE DecisionRejected \/ MilestoneFixRejected \/ ResumeRejected
    BY <1>2 DEF DecisionRejected, MilestoneFixRejected, ResumeRejected, storeVars,
                ClearResumeCheckpoint, DiscardResumeAndWaitForSolReview
<1>3. ASSUME NEW d \in Decisions, Decision(d) PROVE FALSE
    BY <1>3 DEF Decision
<1>4. ASSUME NEW milestone \in BOOLEAN, Fix(milestone) PROVE FALSE
    BY <1>4 DEF Fix, BeginParentFix, BeginParentAction
<1>5. CASE Resume \/ ResubmitReport
    BY <1>5 DEF Resume, ResubmitReport, BeginResume
<1>6. CASE ApproveSurface \/ ApproveSurfaceUnmeasurable
    BY <1>6, OfferedWithoutMarker
    DEF ApproveSurface, ApproveSurfaceUnmeasurable, ActivateQualitySurfaceApproval
<1>7. CASE Accept \/ Complete \/ RuntimeDisposition
    BY <1>7 DEF Accept, Complete, RuntimeDisposition, AcceptParentReview,
                CompleteParentAwaiting, RecordRuntimeDisposition
<1>8. CASE RecoverParentAction \/ RecoverQualitySurfaceReview
    BY <1>8 DEF RecoverParentAction, RecoverParentActionBegin, CanRecoverParentAction,
                RecoverQualitySurfaceReview, RecoverApprovedQualitySurfaceReview
<1> QED
    BY <1>1, <1>2, <1>3, <1>4, <1>5, <1>6, <1>7, <1>8 DEF ParentCommand

\* The steps of a process that ends leave the marker, or belong to one that works.
LEMMA ProcessUsesDecision ==
    ASSUME SafetyInv, MarkerInv, Process, pending, ~pending' PROVE WorksOnDecision(cp)
<1>1. pc \in ActiveSteps \union {"begin"} => WorksOnDecision(cp)
    BY DEF MarkerInv, MarkerIsCarried
<1>2. CASE pc \in ActiveSteps \union {"begin"}
    BY <1>1, <1>2
<1>3. CASE pc \notin ActiveSteps \union {"begin"}
  <2>1. Emit \/ Rollback
    BY <1>3 DEF Process, ModelCall, WorkflowStep, ActiveSteps, RoutingSteps,
        PrepareFails, SaveCheckpoint, ParentFileStops, InterruptBetweenCalls, CallRefused,
        PreCallGuardFails, RunnerFails, AdmitCall, ModelAccepted, ModelStops, GuardStops,
        ResultFormatStops, ModelFails, WorkerFormatFails, BeginDecision, GateFails,
        GatePasses, SearchFails, ResumeSnapshotFails, ResumeProbeStops, ResumeProbeFails,
        ResumeContextFails, ResumeCalls, ResumeReusesResult, SurfaceNeedsApproval,
        SurfaceFailsClosed, RuleCorrection, ConvergenceFails, WorkerNeedsDecision,
        WorkerImplemented, SnapshotFails, QualityGateStops, QualityViolation,
        DispatchGateFails, ReviewPreparationFails, Review, ReviewPasses,
        ReviewNeedsParent, ReviewNeedsDecision, ReviewRequiresFix, NotConverged, AutoFix,
        Unwind
  <2>2. CASE Emit
    BY <2>2 DEF Emit
  <2>3. CASE Rollback
    BY <2>3 DEF Rollback, RollbackParentAction, MarkerInv, RollbackFits, TakingBack
  <2> QED
    BY <2>1, <2>2, <2>3
<1> QED
    BY <1>2, <1>3

\* The marker of a decision is dropped only by the process that works on the decision
\* last given, or with a task that was ended on purpose, for any faults (EnterStop,
\* ContinueAfterWorkerResult, WaitForQualitySurfaceReview, RollbackParentAction).
THEOREM DecisionsAreConsumedOnce == Spec => DecisionIsConsumedOnce
<1>1. ASSUME SafetyInv, MarkerInv, [Next]_vars
      PROVE  [pending /\ ~pending' =>
                 \/ cp.phase = "worker-decision" /\ cp.decision = lastDecision
                    /\ lastDecision # NoDecision
                 \/ pc = "idle" /\ status = "user-terminated"]_vars
  <2> SUFFICES ASSUME Next, pending, ~pending'
               PROVE  \/ WorksOnDecision(cp)
                      \/ pc = "idle" /\ status = "user-terminated"
    BY <1>1 DEF WorksOnDecision
  <2>1. CASE ParentCommand
    BY <2>1, CommandsKeepMarker
  <2>2. CASE Process
    BY <1>1, <2>2, ProcessUsesDecision
  <2>3. CASE Crash
    BY <2>3 DEF Crash, storeVars
  <2> QED
    BY <2>1, <2>2, <2>3 DEF Next
<1> QED
    BY <1>1, Safety, MarkerInvariant, PTL DEF Spec, DecisionIsConsumedOnce

\* A new task never replaces an open review, a pending decision, a stop or an unfinished
\* parent action, unless the task before it was ended on purpose (AdmitNewTask,
\* StartNewTask).
THEOREM NewTasksDropNothing == Spec => NewTaskDropsNothing
<1>1. ASSUME SafetyInv, MarkerInv, [Next]_vars
      PROVE  [pc = "idle" /\ pc' = "gate" /\ cp'.phase = "worker-new" =>
                 \/ status = "user-terminated"
                 \/ review = NoReview /\ ~pending /\ ~IsStopped(resume) /\ begin = NoBegin]_vars
  <2> SUFFICES ASSUME Next, pc = "idle", pc' = "gate", cp'.phase = "worker-new",
                      status # "user-terminated"
               PROVE  review = NoReview /\ ~pending /\ ~IsStopped(resume) /\ begin = NoBegin
    BY <1>1
  <2>1. NewTask
    <3>1. ParentCommand
      BY DEF Next, Process, ModelCall, WorkflowStep, Crash,
        PrepareFails, SaveCheckpoint, ParentFileStops, InterruptBetweenCalls, CallRefused,
        PreCallGuardFails, RunnerFails, AdmitCall, ModelAccepted, ModelStops, GuardStops,
        ResultFormatStops, ModelFails, WorkerFormatFails, BeginDecision, GateFails,
        GatePasses, SearchFails, ResumeSnapshotFails, ResumeProbeStops, ResumeProbeFails,
        ResumeContextFails, ResumeCalls, ResumeReusesResult, SurfaceNeedsApproval,
        SurfaceFailsClosed, RuleCorrection, ConvergenceFails, WorkerNeedsDecision,
        WorkerImplemented, SnapshotFails, QualityGateStops, QualityViolation,
        DispatchGateFails, ReviewPreparationFails, Review, ReviewPasses,
        ReviewNeedsParent, ReviewNeedsDecision, ReviewRequiresFix, NotConverged, AutoFix,
        Emit, Unwind, Rollback
    <3>2. ASSUME NEW milestone \in BOOLEAN PROVE ~Fix(milestone)
      BY DEF Fix, FixCheckpoint, NewCheckpoint, Launch
    <3> QED
      BY <3>1, <3>2
      DEF ParentCommand, DecisionRejected, Decision, MilestoneFixRejected, Resume,
          ResumeRejected, ResubmitReport, ApproveSurface, ApproveSurfaceUnmeasurable,
          Accept, Complete, RuntimeDisposition, RecoverParentAction,
          RecoverQualitySurfaceReview, Announce, Launch, procVars
  <2>2. status \in {"none", "complete"} /\ ~pending /\ ~IsStopped(resume)
        /\ review.label = "none"
    BY <2>1 DEF NewTask, AdmitsNewTask, LifecycleConsistent, InactiveConsistent,
                CompleteConsistent, OpenReviewIn, NoReview
  <2>3. review = NoReview
    BY <1>1, <2>2 DEF SafetyInv, TypeInv, TypeOK, StoreTypeOK, Reviews
  <2> QED
    BY <1>1, <2>2, <2>3 DEF MarkerInv, BeginIsEarly
<1> QED
    BY <1>1, Safety, MarkerInvariant, PTL DEF Spec, NewTaskDropsNothing

-----------------------------------------------------------------------------
(* The contract. *)

\* Whose turn it is, by status.
LEMMA TurnByStatus ==
    status \in Statuses =>
        /\ status = "none" => Turn = "none"
        /\ status = "active" => Turn = "working"
        /\ status = "waiting-decision" => Turn = "asking"
        /\ status = "waiting-sol-review" => Turn = "handed-over"
        /\ status = "awaiting-parent-completion" => Turn = "accepted"
        /\ status = "complete" => Turn = "done"
        /\ status = "user-terminated" => Turn = "abandoned"
        /\ status \in StopKinds => Turn = "stopped"
BY DEF Statuses, StopKinds, Turn

LEMMA TurnByStatusNext ==
    status' \in Statuses =>
        /\ status' = "none" => Turn' = "none"
        /\ status' = "active" => Turn' = "working"
        /\ status' = "waiting-decision" => Turn' = "asking"
        /\ status' = "waiting-sol-review" => Turn' = "handed-over"
        /\ status' = "awaiting-parent-completion" => Turn' = "accepted"
        /\ status' = "complete" => Turn' = "done"
        /\ status' = "user-terminated" => Turn' = "abandoned"
        /\ status' \in StopKinds => Turn' = "stopped"
BY DEF Statuses, StopKinds, Turn


\* The steps of the contract as steps of the files: the status and the marker.
TurnPasses ==
    \/ status' = status /\ pending' = pending
    \/ status \in {"none", "complete", "user-terminated"} /\ status' = "active" /\ ~pending'
    \/ status = "active" /\ status' = "waiting-decision" /\ pending'
    \/ status = "waiting-decision" /\ status' = "active" /\ pending /\ pending'
    \/ /\ status = "active" /\ status' \in {"active", "waiting-sol-review", "complete"}
       /\ ~pending'
    \/ status = "waiting-sol-review" /\ status' = "active" /\ pending' = pending
    \/ status = "active" /\ status' \in StopKinds /\ (pending' => pending)
    \/ status \in StopKinds /\ status' = "active" /\ pending' = pending
    \/ /\ status \in {"waiting-sol-review", "complete"}
       /\ status' = "awaiting-parent-completion" /\ pending' = pending
    \/ status = "awaiting-parent-completion" /\ status' = "complete" /\ pending' = pending
    \/ /\ status \notin {"none", "complete", "user-terminated"}
       /\ status' = "user-terminated" /\ pending' = pending

LEMMA ContractSteps ==
    ASSUME status \in Statuses, status' \in Statuses, pending \in BOOLEAN,
           pending' \in BOOLEAN, TurnPasses
    PROVE  [Contract!ContractNext]_(Contract!contractVars)
<1> USE TurnByStatus, TurnByStatusNext
<1>1. CASE status' = status /\ pending' = pending
    BY <1>1 DEF Turn, Contract!contractVars
<1>2. CASE status \in {"none", "complete", "user-terminated"}
           /\ status' = "active" /\ ~pending'
  <2>1. Contract!Start
    BY <1>2 DEF Contract!Start
  <2> QED
    BY <2>1 DEF Contract!ContractNext
<1>3. CASE status = "active" /\ status' = "waiting-decision" /\ pending'
  <2>1. Contract!Ask
    BY <1>3 DEF Contract!Ask
  <2> QED
    BY <2>1 DEF Contract!ContractNext
<1>4. CASE status = "waiting-decision" /\ status' = "active" /\ pending /\ pending'
  <2>1. Contract!Answer
    BY <1>4 DEF Contract!Answer
  <2> QED
    BY <2>1 DEF Contract!ContractNext
<1>5. CASE status = "active" /\ status' = "active" /\ ~pending'
  <2>1. Contract!UseAnswer
    BY <1>5 DEF Contract!UseAnswer
  <2> QED
    BY <2>1 DEF Contract!ContractNext
<1>6. CASE status = "active" /\ status' = "waiting-sol-review" /\ ~pending'
  <2>1. Contract!HandOver
    BY <1>6 DEF Contract!HandOver
  <2> QED
    BY <2>1 DEF Contract!ContractNext
<1>7. CASE status = "active" /\ status' = "complete" /\ ~pending'
  <2>1. Contract!Finish
    BY <1>7 DEF Contract!Finish
  <2> QED
    BY <2>1 DEF Contract!ContractNext
<1>8. CASE status = "waiting-sol-review" /\ status' = "active" /\ pending' = pending
  <2>1. Contract!Rework
    BY <1>8 DEF Contract!Rework
  <2> QED
    BY <2>1 DEF Contract!ContractNext
<1>9. CASE status = "active" /\ status' \in StopKinds /\ (pending' => pending)
  <2>1. Contract!Stop
    BY <1>9 DEF Contract!Stop
  <2> QED
    BY <2>1 DEF Contract!ContractNext
<1>10. CASE status \in StopKinds /\ status' = "active" /\ pending' = pending
  <2>1. Contract!Continue
    BY <1>10 DEF Contract!Continue
  <2> QED
    BY <2>1 DEF Contract!ContractNext
<1>11. CASE status \in {"waiting-sol-review", "complete"}
           /\ status' = "awaiting-parent-completion" /\ pending' = pending
  <2>1. Contract!Accept
    BY <1>11 DEF Contract!Accept
  <2> QED
    BY <2>1 DEF Contract!ContractNext
<1>12. CASE status = "awaiting-parent-completion" /\ status' = "complete" /\ pending' = pending
  <2>1. Contract!Close
    BY <1>12 DEF Contract!Close
  <2> QED
    BY <2>1 DEF Contract!ContractNext
<1>13. CASE status \notin {"none", "complete", "user-terminated"}
           /\ status' = "user-terminated" /\ pending' = pending
  <2>1. Contract!Abandon
    BY <1>13 DEF Contract!Abandon, Statuses
  <2> QED
    BY <2>1 DEF Contract!ContractNext
<1> QED
    BY <1>1, <1>2, <1>3, <1>4, <1>5, <1>6, <1>7, <1>8, <1>9, <1>10, <1>11, <1>12, <1>13
    DEF TurnPasses

\* A stop is entered from an active task and adds no marker.
LEMMA StopPasses ==
    ASSUME status = "active", NEW c \in Checkpoints, EnterStop(c) PROVE TurnPasses
<1>1. c.stop \in StopKinds
    BY DEF EnterStop, IsStopped, Checkpoints
<1> QED
    BY <1>1 DEF EnterStop, TurnPasses

LEMMA RestorePasses ==
    ASSUME SafetyInv, NEW c \in Checkpoints \union {NoCheckpoint}, RestoreResumeStop(c)
    PROVE  TurnPasses
<1> DEFINE back == IF IsStopped(resume) THEN resume ELSE c
<1>1. CASE status = "active" /\ EnterStop(back)
  <2>1. back \in Checkpoints
    BY <1>1, NoCheckpointIsNone
    DEF EnterStop, IsStopped, SafetyInv, TypeInv, TypeOK, StoreTypeOK
  <2> QED
    BY <1>1, <2>1, StopPasses
<1>2. CASE UNCHANGED storeVars
    BY <1>2 DEF storeVars, TurnPasses
<1> QED
    BY <1>1, <1>2 DEF RestoreResumeStop

\* Commands of the parent.
LEMMA CommandPasses ==
    ASSUME SafetyInv, MarkerInv, ParentCommand PROVE TurnPasses
<1>1. CASE NewTask
    BY <1>1 DEF NewTask, AdmitsNewTask, StartNewTask, TurnPasses
<1>2. CASE DecisionRejected \/ ResumeRejected
    BY <1>2 DEF DecisionRejected, ResumeRejected, ClearResumeCheckpoint, storeVars, TurnPasses
<1>3. ASSUME NEW d \in Decisions, Decision(d) PROVE TurnPasses
    BY <1>3 DEF Decision, TurnPasses
<1>4. ASSUME NEW milestone \in BOOLEAN, Fix(milestone) PROVE TurnPasses
    BY <1>4 DEF Fix, BeginParentFix, CanBeginFix, BeginParentAction, TurnPasses
<1>5. CASE MilestoneFixRejected
    BY <1>5, AllowedStatus
    DEF MilestoneFixRejected, DiscardResumeAndWaitForSolReview, storeVars, TurnPasses
<1>6. CASE Resume \/ ResubmitReport
    BY <1>6 DEF Resume, ResubmitReport, BeginResume, Allows, TurnPasses, StopKinds
<1>7. CASE ApproveSurface
    BY <1>7 DEF ApproveSurface, ActivateQualitySurfaceApproval, TurnPasses
<1>8. CASE ApproveSurfaceUnmeasurable
    BY <1>8, AllowedStatus, OfferedWithoutMarker
    DEF ApproveSurfaceUnmeasurable, WaitForQualitySurfaceReview, TurnPasses,
        SafetyInv, TypeInv, TypeOK, StoreTypeOK
<1>9. CASE Accept
    BY <1>9, AllowedStatus DEF Accept, AcceptParentReview, TurnPasses
<1>10. CASE Complete \/ RuntimeDisposition
    BY <1>10 DEF Complete, CompleteParentAwaiting, RuntimeDisposition,
                 RecordRuntimeDisposition, TurnPasses
<1>11. CASE RecoverParentAction
  <2>1. begin.source \in {"waiting-decision", "waiting-sol-review"}
    BY <1>11 DEF RecoverParentAction, RecoverParentActionBegin,
                 CanRecoverParentAction, SafetyInv, TypeInv, TypeOK, StoreTypeOK, Begins
  <2>2. /\ begin.source = "waiting-decision" => begin.pending
        /\ begin.source # "waiting-decision" => ~begin.pending
    BY DEF SafetyInv, BeginKeepsMarker, MarkerInv, RollbackFits
  <2> QED
    BY <1>11, <2>1, <2>2
    DEF RecoverParentAction, RecoverParentActionBegin, CanRecoverParentAction, TurnPasses
<1>12. CASE RecoverQualitySurfaceReview
    BY <1>12 DEF RecoverQualitySurfaceReview, RecoverApprovedQualitySurfaceReview, TurnPasses
<1> QED
    BY <1>1, <1>2, <1>3, <1>4, <1>5, <1>6, <1>7, <1>8, <1>9, <1>10, <1>11, <1>12
    DEF ParentCommand

\* Steps of one model call.
LEMMA CallPasses ==
    ASSUME SafetyInv, MarkerInv, "parent-file" \notin Faults, ModelCall PROVE TurnPasses
<1>0. pc \in {"call", "saved", "running"} => cp \in Checkpoints /\ status = "active"
    BY DEF SafetyInv, TypeInv, CallInHand, ProcessFollowsStore, ActiveSteps
<1>1. CASE PrepareFails \/ CallRefused \/ WorkerFormatFails
    BY <1>1 DEF PrepareFails, CallRefused, WorkerFormatFails, storeVars, TurnPasses
<1>2. CASE PreCallGuardFails \/ RunnerFails \/ ModelFails \/ ModelAccepted
    BY <1>2 DEF PreCallGuardFails, RunnerFails, ModelFails, ModelAccepted,
                ClearResumeCheckpoint, TurnPasses
<1>3. CASE SaveCheckpoint \/ AdmitCall
    BY <1>3 DEF SaveCheckpoint, SaveResumeCheckpoint, AdmitCall, CommitParentActionBegin,
                TurnPasses
<1>4. ~ParentFileStops
    BY DEF ParentFileStops
<1>5. CASE InterruptBetweenCalls
    BY <1>0, <1>5, SetStopKindType, StopPasses DEF InterruptBetweenCalls, StopKinds
<1>6. ASSUME NEW kind \in TransientStops, ModelStops(kind) PROVE TurnPasses
    BY <1>0, <1>6, SetStopKindType, StopPasses DEF ModelStops, StopKinds, TransientStops
<1>7. ASSUME NEW completed \in BOOLEAN, GuardStops(completed) PROVE TurnPasses
  <2>1. CASE EnterStop(GuardCheckpoint(completed))
    BY <1>0, <1>7, <2>1, GuardFields, StopPasses DEF GuardStops
  <2>2. CASE UNCHANGED storeVars
    BY <2>2 DEF storeVars, TurnPasses
  <2> QED
    BY <1>7, <2>1, <2>2 DEF GuardStops
<1>8. CASE ResultFormatStops
  <2>1. CASE EnterStop(SetStopKind(cp, "result-format-recoverable"))
    BY <1>0, <1>8, <2>1, SetStopKindType, StopPasses DEF ResultFormatStops, StopKinds
  <2>2. CASE UNCHANGED storeVars
    BY <2>2 DEF storeVars, TurnPasses
  <2> QED
    BY <1>8, <2>1, <2>2 DEF ResultFormatStops
<1> QED
    BY <1>1, <1>2, <1>3, <1>4, <1>5, <1>6, <1>7, <1>8 DEF ModelCall

\* Steps of the workflow around the calls.
LEMMA WorkflowPasses ==
    ASSUME SafetyInv, MarkerInv, WorkflowStep PROVE TurnPasses
<1>0. pc \in ActiveSteps => cp \in Checkpoints /\ status = "active"
    BY DEF SafetyInv, TypeInv, CallInHand, ProcessFollowsStore
<1>00. cp \in Checkpoints \union {NoCheckpoint} /\ prev \in Checkpoints \union {NoCheckpoint}
    BY DEF SafetyInv, TypeInv, TypeOK
<1>01. pc \in {"gate", "search", "gate-repaired", "review", "reviewed", "fix-required"} => ~pending
    BY DEF MarkerInv, MarkerIsUsed
<1> USE DEF ActiveSteps, RoutingSteps
<1>1. CASE BeginDecision
    BY <1>1 DEF BeginDecision, BeginParentDecision, CanBeginDecision, BeginParentAction,
                storeVars, TurnPasses
<1>2. CASE GateFails \/ SnapshotFails \/ DispatchGateFails
    BY <1>0, <1>01, <1>2
    DEF GateFails, SnapshotFails, DispatchGateFails, FailClosed, FailFeasibility,
        WaitForSolReview, DiscardResumeAndWaitForSolReview, TurnPasses
<1>3. CASE GatePasses \/ SearchFails \/ QualityViolation \/ ReviewPreparationFails \/ ConvergenceFails
           \/ ReviewRequiresFix \/ ResumeContextFails \/ ResumeCalls \/ RuleCorrection
           \/ Review \/ AutoFix
    BY <1>3 DEF GatePasses, SearchFails, QualityViolation, ReviewPreparationFails, ConvergenceFails,
                ReviewRequiresFix, ResumeContextFails, ResumeCalls, RuleCorrection, Review,
                AutoFix, storeVars, TurnPasses
<1>4. CASE ResumeSnapshotFails
  <2>1. ~pending
    BY <1>4 DEF ResumeSnapshotFails, MarkerInv, MarkerIsCarried, WorksOnDecision
  <2> QED
    BY <1>0, <1>4, <2>1
    DEF ResumeSnapshotFails, FailClosed, DiscardResumeAndWaitForSolReview, TurnPasses
<1>5. ASSUME NEW kind \in TransientStops, ResumeProbeStops(kind) PROVE TurnPasses
    BY <1>0, <1>5, SetStopKindType, StopPasses DEF ResumeProbeStops, StopKinds, TransientStops
<1>6. CASE ResumeProbeFails
    BY <1>00, <1>6, RestorePasses DEF ResumeProbeFails
<1>7. CASE Unwind
  <2>1. CASE UNCHANGED storeVars
    BY <2>1 DEF storeVars, TurnPasses
  <2> QED
    BY <1>00, <1>7, <2>1, RestorePasses DEF Unwind
<1>8. CASE ResumeReusesResult \/ Emit
    BY <1>8 DEF ResumeReusesResult, Emit, ClearResumeCheckpoint, TurnPasses
<1>9. CASE SurfaceNeedsApproval \/ SurfaceFailsClosed
    BY <1>0, <1>9 DEF SurfaceNeedsApproval, SurfaceFailsClosed, TurnPasses,
                      EnterQualitySurfaceApprovalWait, WaitForQualitySurfaceReview
<1>10. CASE WorkerNeedsDecision \/ ReviewNeedsDecision
    BY <1>10 DEF WorkerNeedsDecision, ReviewNeedsDecision, WaitForDecision, TurnPasses
<1>11. CASE WorkerImplemented
    BY <1>11 DEF WorkerImplemented, ContinueAfterWorkerResult, TurnPasses
<1>12. CASE QualityGateStops
  <2>1. PICK c \in Checkpoints : EnterStop(c)
    BY <1>0, <1>12 DEF QualityGateStops, Checkpoints, StopKinds, SafetyInv, TypeInv, TypeOK,
                       StoreTypeOK
  <2> QED
    BY <1>0, <1>12, <2>1, StopPasses DEF QualityGateStops
<1>13. CASE ReviewPasses \/ ReviewNeedsParent \/ NotConverged
    BY <1>01, <1>13 DEF ReviewPasses, ReviewNeedsParent, NotConverged, FinishReview, TurnPasses
<1>14. CASE Rollback
  <2>1. /\ rb # NoBegin /\ status \in {"active", rb.source}
        /\ pending <=> rb.pending
    BY <1>14 DEF Rollback, MarkerInv, RollbackFits, TakingBack
  <2>2. rb.source \in {"waiting-decision", "waiting-sol-review"} /\ rb.pending \in BOOLEAN
    BY <2>1 DEF SafetyInv, TypeInv, TypeOK, Begins
  <2>3. /\ rb.source = "waiting-decision" => rb.pending
        /\ rb.source # "waiting-decision" => ~rb.pending
    BY DEF SafetyInv, BeginKeepsMarker, MarkerInv, RollbackFits
  <2>4. pending \in BOOLEAN
    BY DEF SafetyInv, TypeInv, TypeOK, StoreTypeOK
  <2>5. CASE status = "active"
    BY <1>14, <2>2, <2>3, <2>5 DEF Rollback, RollbackParentAction, TurnPasses
  <2>6. CASE status = rb.source
    BY <1>14, <2>1, <2>2, <2>4, <2>6 DEF Rollback, RollbackParentAction, TurnPasses
  <2> QED
    BY <2>1, <2>5, <2>6
<1> QED
    BY <1>1, <1>2, <1>3, <1>4, <1>5, <1>6, <1>7, <1>8, <1>9, <1>10, <1>11, <1>12, <1>13,
       <1>14 DEF WorkflowStep

LEMMA NextPasses ==
    ASSUME SafetyInv, MarkerInv, "parent-file" \notin Faults, [Next]_vars PROVE TurnPasses
<1>1. CASE Crash \/ UNCHANGED vars
    BY <1>1 DEF Crash, vars, storeVars, TurnPasses
<1> QED
    BY <1>1, CommandPasses, CallPasses, WorkflowPasses DEF Next, Process

\* As long as no parent-managed file changes under a call, the workflow and the store
\* implement the contract with the parent, whatever else fails or dies: every step passes
\* the turn as TaskContract says or leaves it, and a question stays open until work has
\* used its answer.
THEOREM ContractIsKept ==
    ASSUME "parent-file" \notin Faults PROVE Spec => ImplementsContract
<1>1. Init => Contract!ContractInit
  <2> SUFFICES ASSUME Init PROVE Contract!ContractInit
    OBVIOUS
  <2>1. status = "none" /\ status \in Statuses /\ pending = FALSE
    BY DEF Init, StoreInit, Statuses
  <2> QED
    BY <2>1, TurnByStatus DEF Contract!ContractInit
<1>2. ASSUME SafetyInv, MarkerInv, [Next]_vars
      PROVE  [Contract!ContractNext]_(Contract!contractVars)
  <2>1. SafetyInv'
    BY <1>2, NextSafety
  <2>2. /\ status \in Statuses /\ status' \in Statuses
        /\ pending \in BOOLEAN /\ pending' \in BOOLEAN
    BY <1>2, <2>1 DEF SafetyInv, TypeInv, TypeOK, StoreTypeOK
  <2>3. TurnPasses
    BY <1>2, NextPasses
  <2> QED
    BY <2>2, <2>3, ContractSteps
<1> QED
    BY <1>1, <1>2, Safety, MarkerInvariant, PTL
    DEF Spec, ImplementsContract, Contract!ContractSpec

-----------------------------------------------------------------------------
(* The plan. *)

LEMMA InitPlan == Init => PlanInv
BY NoCheckpointIsNone DEF Init, StoreInit, PlanInv, Labels, NoReview, IsStopped

\* A process that ends and leaves the files alone.
LEMMA QuietEndPlan ==
    ASSUME PlanInv, UNCHANGED storeVars, ProcessEnds PROVE PlanInv'
BY DEF storeVars, ProcessEnds, PlanInv, Labels, IsStopped

\* A process that ends by stopping an active task.
LEMMA StopPlan ==
    ASSUME PlanInv, status = "active", NEW c \in Checkpoints, EnterStop(c), ProcessEnds
    PROVE  PlanInv'
<1>1. c.stop \in StopKinds
    BY DEF EnterStop, IsStopped, Checkpoints
<1>2. review'.label \in Labels(status')
    BY DEF EnterStop, PlanInv, Labels
<1> QED
    BY <1>1, <1>2 DEF EnterStop, ProcessEnds, PlanInv, StopKinds

LEMMA RestorePlan ==
    ASSUME SafetyInv, PlanInv, NEW c \in Checkpoints \union {NoCheckpoint},
           RestoreResumeStop(c), ProcessEnds
    PROVE  PlanInv'
<1> DEFINE back == IF IsStopped(resume) THEN resume ELSE c
<1>1. CASE status = "active" /\ EnterStop(back)
  <2>1. back \in Checkpoints
    BY <1>1, NoCheckpointIsNone
    DEF EnterStop, IsStopped, SafetyInv, TypeInv, TypeOK, StoreTypeOK
  <2> QED
    BY <1>1, <2>1, StopPlan
<1>2. CASE UNCHANGED storeVars
    BY <1>2, QuietEndPlan
<1> QED
    BY <1>1, <1>2 DEF RestoreResumeStop

\* Commands of the parent.
LEMMA CommandPlan ==
    ASSUME SafetyInv, MarkerInv, PlanInv, NoMisplacedPacket, ParentCommand PROVE PlanInv'
<1>0. pc = "idle" => rb = NoBegin
    BY DEF MarkerInv, RollbackFits
<1>00. "decision-task" \notin Faults /\ "feasibility" \notin Faults
    BY DEF NoMisplacedPacket
<1> USE DEF PlanInv, Labels, IsStopped
<1>1. CASE NewTask
    BY <1>1 DEF NewTask, StartNewTask, Launch, NoReview
<1>2. ~DecisionRejected /\ ~ResumeRejected
    BY <1>00 DEF DecisionRejected, ResumeRejected
<1>3. ASSUME NEW d \in Decisions, Decision(d) PROVE PlanInv'
    BY <1>3 DEF Decision, Launch
<1>4. ASSUME NEW milestone \in BOOLEAN, Fix(milestone) PROVE PlanInv'
    BY <1>4 DEF Fix, BeginParentFix, CanBeginFix, BeginParentAction, Snapshot, Launch,
                ResolveReview, NoReview
<1>5. CASE MilestoneFixRejected
    BY <1>0, <1>00, <1>5, AllowedStatus, OfferedWithoutMarker
    DEF MilestoneFixRejected, DiscardResumeAndWaitForSolReview, Announce
<1>6. CASE Resume \/ ResubmitReport
    BY <1>0, <1>6 DEF Resume, ResubmitReport, BeginResume, Launch, Allows, StopKinds
<1>7. CASE ApproveSurface
    BY <1>0, <1>7 DEF ApproveSurface, ActivateQualitySurfaceApproval, ResolveReview, NoReview,
                Launch
<1>8. CASE ApproveSurfaceUnmeasurable
    BY <1>0, <1>8, AllowedStatus
    DEF ApproveSurfaceUnmeasurable, WaitForQualitySurfaceReview, Announce
<1>9. CASE Accept
    BY <1>9, AllowedStatus DEF Accept, AcceptParentReview, ResolveReview, NoReview, procVars
<1>10. CASE Complete
    BY <1>10 DEF Complete, CompleteParentAwaiting, procVars
<1>11. CASE RuntimeDisposition
    BY <1>11 DEF RuntimeDisposition, RecordRuntimeDisposition, procVars
<1>12. CASE RecoverParentAction
  <2>1. begin # NoBegin /\ begin.source \in {"waiting-decision", "waiting-sol-review"}
    BY <1>12 DEF RecoverParentAction, RecoverParentActionBegin,
                 CanRecoverParentAction, SafetyInv, TypeInv, TypeOK, StoreTypeOK, Begins
  <2>2. begin.source # "waiting-decision" => ~begin.pending
    BY DEF MarkerInv, RollbackFits
  <2> QED
    BY <1>12, <2>1, <2>2 DEF RecoverParentAction, RecoverParentActionBegin, procVars
<1>13. CASE RecoverQualitySurfaceReview
    BY <1>13 DEF RecoverQualitySurfaceReview, RecoverApprovedQualitySurfaceReview,
                 ResolveReview, NoReview, procVars
<1> QED
    BY <1>1, <1>2, <1>3, <1>4, <1>5, <1>6, <1>7, <1>8, <1>9, <1>10, <1>11, <1>12, <1>13
    DEF ParentCommand

\* Steps of one model call.
LEMMA CallPlan ==
    ASSUME SafetyInv, MarkerInv, PlanInv, NoMisplacedPacket, ModelCall PROVE PlanInv'
<1>0. pc \in {"call", "saved", "running"} => cp \in Checkpoints /\ status = "active"
    BY DEF SafetyInv, TypeInv, CallInHand, ProcessFollowsStore, ActiveSteps
<1>1. CASE InterruptBetweenCalls
    BY <1>0, <1>1, SetStopKindType, StopPlan DEF InterruptBetweenCalls, StopKinds
<1>2. ASSUME NEW kind \in TransientStops, ModelStops(kind) PROVE PlanInv'
    BY <1>0, <1>2, SetStopKindType, StopPlan DEF ModelStops, StopKinds, TransientStops
<1>3. ASSUME pc \in {"call", "saved", "running"}, pc' # "emit",
             UNCHANGED <<status, pending, review>>,
             begin' \in {begin, NoBegin}, rb' \in {rb, NoBegin}
      PROVE  PlanInv'
    BY <1>0, <1>3 DEF PlanInv, Labels, IsStopped
<1>4. ASSUME NEW completed \in BOOLEAN, GuardStops(completed) PROVE PlanInv'
  <2>1. CASE EnterStop(GuardCheckpoint(completed)) /\ ProcessEnds
    BY <1>0, <1>4, <2>1, GuardFields, StopPlan DEF GuardStops
  <2> QED
    BY <1>3, <1>4, <2>1 DEF GuardStops, storeVars, Goto
<1>5. CASE ResultFormatStops
  <2>1. CASE EnterStop(SetStopKind(cp, "result-format-recoverable")) /\ ProcessEnds
    BY <1>0, <1>5, <2>1, SetStopKindType, StopPlan DEF ResultFormatStops, StopKinds
  <2> QED
    BY <1>3, <1>5, <2>1 DEF ResultFormatStops, storeVars, Goto
<1>6. CASE PrepareFails \/ CallRefused \/ WorkerFormatFails
    BY <1>3, <1>6 DEF PrepareFails, CallRefused, WorkerFormatFails, Goto, storeVars
<1>7. CASE PreCallGuardFails \/ RunnerFails \/ ModelFails
    BY <1>3, <1>7 DEF PreCallGuardFails, RunnerFails, ModelFails, Goto, ClearResumeCheckpoint
<1>8. CASE SaveCheckpoint \/ AdmitCall \/ ModelAccepted
    BY <1>3, <1>8 DEF SaveCheckpoint, SaveResumeCheckpoint, AdmitCall, ModelAccepted,
                      CommitParentActionBegin, ClearResumeCheckpoint, Goto
<1>9. ~ParentFileStops
    BY DEF ParentFileStops, NoMisplacedPacket
<1> QED
    BY <1>1, <1>2, <1>4, <1>5, <1>6, <1>7, <1>8, <1>9 DEF ModelCall

\* Steps of the workflow around the calls.
LEMMA WorkflowPlan ==
    ASSUME SafetyInv, MarkerInv, PlanInv, NoMisplacedPacket, WorkflowStep PROVE PlanInv'
<1>0. pc \in ActiveSteps => cp \in Checkpoints /\ status = "active"
    BY DEF SafetyInv, TypeInv, CallInHand, ProcessFollowsStore
<1>00. cp \in Checkpoints \union {NoCheckpoint} /\ prev \in Checkpoints \union {NoCheckpoint}
    BY DEF SafetyInv, TypeInv, TypeOK
<1>01. pc \in {"gate", "search", "gate-repaired", "review", "reviewed", "fix-required"} => ~pending
    BY DEF MarkerInv, MarkerIsUsed
<1>02. "feasibility" \notin Faults
    BY DEF NoMisplacedPacket
<1>1. ASSUME NEW kind \in TransientStops, ResumeProbeStops(kind) PROVE PlanInv'
    BY <1>0, <1>1, SetStopKindType, StopPlan
    DEF ResumeProbeStops, StopKinds, TransientStops, ActiveSteps
<1>2. CASE ResumeProbeFails \/ Unwind
    BY <1>00, <1>2, RestorePlan, QuietEndPlan DEF ResumeProbeFails, Unwind
<1>3. CASE ResumeContextFails
    BY <1>3, QuietEndPlan DEF ResumeContextFails
<1>4. CASE QualityGateStops
  <2>1. PICK c \in Checkpoints : EnterStop(c)
    BY <1>0, <1>4 DEF QualityGateStops, Checkpoints, StopKinds, SafetyInv, TypeInv, TypeOK,
                      StoreTypeOK, ActiveSteps, RoutingSteps
  <2> QED
    BY <1>0, <1>4, <2>1, StopPlan DEF QualityGateStops, ActiveSteps, RoutingSteps
<1> USE DEF PlanInv, Labels, IsStopped, ActiveSteps, RoutingSteps
<1>5. CASE BeginDecision
  <2>1. CASE BeginParentDecision /\ rb' = Snapshot /\ pc' = "call"
    BY <2>1 DEF BeginParentDecision, CanBeginDecision, BeginParentAction, Snapshot,
                ResolveReview, NoReview
  <2> QED
    BY <1>5, <2>1, QuietEndPlan DEF BeginDecision
<1>6. CASE GateFails \/ SnapshotFails \/ DispatchGateFails
    BY <1>0, <1>01, <1>02, <1>6
    DEF GateFails, SnapshotFails, DispatchGateFails, FailClosed, FailFeasibility,
        DiscardResumeAndWaitForSolReview, Announce
<1>7. CASE GatePasses \/ SearchFails \/ QualityViolation \/ ReviewPreparationFails \/ ConvergenceFails
           \/ ReviewRequiresFix
    BY <1>0, <1>7 DEF GatePasses, SearchFails, QualityViolation, ReviewPreparationFails, ConvergenceFails,
                      ReviewRequiresFix, Goto, storeVars
<1>8. CASE ResumeCalls \/ RuleCorrection \/ Review \/ AutoFix
    BY <1>0, <1>8 DEF ResumeCalls, RuleCorrection, Review, AutoFix, Proceed, storeVars
<1>9. CASE ResumeReusesResult
    BY <1>0, <1>9 DEF ResumeReusesResult, ClearResumeCheckpoint
<1>10. CASE ResumeSnapshotFails
  <2>1. ~pending
    BY <1>10 DEF ResumeSnapshotFails, MarkerInv, MarkerIsCarried, WorksOnDecision
  <2> QED
    BY <1>0, <1>10, <2>1
    DEF ResumeSnapshotFails, FailClosed, DiscardResumeAndWaitForSolReview, Announce
<1>11. CASE SurfaceNeedsApproval \/ SurfaceFailsClosed
    BY <1>0, <1>11 DEF SurfaceNeedsApproval, SurfaceFailsClosed, Announce,
                       EnterQualitySurfaceApprovalWait, WaitForQualitySurfaceReview
<1>12. CASE WorkerNeedsDecision \/ ReviewNeedsDecision
    BY <1>0, <1>12 DEF WorkerNeedsDecision, ReviewNeedsDecision, WaitForDecision, Announce
<1>13. CASE WorkerImplemented
    BY <1>0, <1>13 DEF WorkerImplemented, ContinueAfterWorkerResult, Goto
<1>14. CASE ReviewPasses \/ ReviewNeedsParent \/ NotConverged
    BY <1>0, <1>01, <1>14 DEF ReviewPasses, ReviewNeedsParent, NotConverged, FinishReview,
                              Announce
<1>15. CASE Emit
    BY <1>15 DEF Emit, OpenReview, Goto, ProcessEnds
<1>16. CASE Rollback
  <2>1. rb # NoBegin /\ rb.source \in {"waiting-decision", "waiting-sol-review"}
    BY <1>16 DEF Rollback, MarkerInv, RollbackFits, TakingBack, SafetyInv, TypeInv, TypeOK,
                 Begins
  <2>2. rb.source # "waiting-decision" => ~rb.pending
    BY DEF MarkerInv, RollbackFits
  <2> QED
    BY <1>16, <2>1, <2>2 DEF Rollback, RollbackParentAction, ProcessEnds
<1> QED
    BY <1>1, <1>2, <1>3, <1>4, <1>5, <1>6, <1>7, <1>8, <1>9, <1>10, <1>11, <1>12, <1>13,
       <1>14, <1>15, <1>16 DEF WorkflowStep

LEMMA NextPlan ==
    ASSUME SafetyInv, MarkerInv, PlanInv, NoMisplacedPacket, [Next]_vars PROVE PlanInv'
<1>1. CASE Crash
    BY <1>1, QuietEndPlan DEF Crash
<1>2. CASE UNCHANGED vars
    BY <1>2 DEF vars, storeVars, procVars, PlanInv, Labels, IsStopped
<1> QED
    BY <1>1, <1>2, CommandPlan, CallPlan, WorkflowPlan DEF Next, Process

\* As long as neither a rejected decision, nor the feasibility gate, nor a changed
\* parent-managed file puts a packet where the plan does not expect it, the files of a
\* task that is not active always agree: the parent has a plan after every command,
\* crash, stop and rejected fix (ParentActionPlan).
THEOREM PlanStaysConsistent ==
    ASSUME NoMisplacedPacket PROVE Spec => []PlanConsistent
<1>1. ASSUME SafetyInv, MarkerInv, PlanInv PROVE PlanConsistent
  <2> SUFFICES ASSUME status # "active" PROVE LifecycleConsistent
    BY DEF PlanConsistent
  <2>1. WaitingDecisionConsistent
    BY <1>1 DEF SafetyInv, DecisionWaitHasMarker, WaitCarriesNoStop, PlanInv, Labels,
                WaitingDecisionConsistent, OpenReviewIn
  <2>2. WaitingReviewConsistent /\ AwaitingCompletionConsistent /\ CompleteConsistent
    BY <1>1 DEF SafetyInv, WaitCarriesNoStop, PlanInv, Labels, OpenReviewIn,
                WaitingReviewConsistent, AwaitingCompletionConsistent, CompleteConsistent
  <2>3. InactiveConsistent
    BY <1>1 DEF PlanInv, Labels, OpenReviewIn, InactiveConsistent
  <2>4. StoppedConsistent
    BY <1>1 DEF SafetyInv, StopIsResumable, MarkerInv, MarkerIsCarried, IsStopped,
                StopWorksOnDecision, WorksOnDecision, PendingDecisionContinues, PlanInv,
                Labels, OpenReviewIn, StoppedConsistent, StopKinds
  <2> QED
    BY <2>1, <2>2, <2>3, <2>4 DEF LifecycleConsistent
<1> QED
    BY <1>1, InitPlan, NextPlan, Safety, MarkerInvariant, PTL DEF Spec

-----------------------------------------------------------------------------
(* The begin record. *)

LEMMA InitBegin == Init => BeginInv
BY DEF Init, StoreInit, BeginInv

\* A process that ends and leaves the files alone, without a begin record in a review wait.
LEMMA QuietEndBegin ==
    ASSUME BeginInv, UNCHANGED storeVars, ProcessEnds,
           begin # NoBegin => status # "waiting-sol-review"
    PROVE  BeginInv'
BY DEF storeVars, ProcessEnds, BeginInv, Unadmitted, IsStopped, ActiveSteps, RoutingSteps

\* A process that ends by stopping the task.
LEMMA StopBegin ==
    ASSUME NEW c \in Checkpoints, EnterStop(c), ProcessEnds,
           begin # NoBegin => Unadmitted(c)
    PROVE  BeginInv'
<1>1. c.stop \in StopKinds
    BY DEF EnterStop, IsStopped, Checkpoints
<1>2. status' # "waiting-sol-review"
    BY <1>1 DEF EnterStop, StopKinds
<1> QED
    BY <1>2 DEF EnterStop, ProcessEnds, BeginInv, Unadmitted, ActiveSteps, RoutingSteps

LEMMA RestoreBegin ==
    ASSUME SafetyInv, BeginInv, status = "active", NEW c \in Checkpoints \union {NoCheckpoint},
           RestoreResumeStop(c), ProcessEnds, begin # NoBegin => Unadmitted(c)
    PROVE  BeginInv'
<1> DEFINE back == IF IsStopped(resume) THEN resume ELSE c
<1>1. EnterStop(back)
    BY DEF RestoreResumeStop
<1>2. back \in Checkpoints
    BY <1>1, NoCheckpointIsNone
    DEF EnterStop, IsStopped, SafetyInv, TypeInv, TypeOK, StoreTypeOK
<1>3. begin # NoBegin => Unadmitted(back)
    BY DEF BeginInv
<1> QED
    BY <1>1, <1>2, <1>3, StopBegin

\* Commands of the parent.
LEMMA CommandBegin ==
    ASSUME SafetyInv, MarkerInv, BeginInv, ParentCommand PROVE BeginInv'
<1>0. /\ pc = "idle" => armed = "no" /\ rb = NoBegin
      /\ status \in {"waiting-decision", "waiting-sol-review"} => ~IsStopped(resume)
    BY DEF MarkerInv, ResumeInHand, RollbackFits, SafetyInv, WaitCarriesNoStop
<1>00. pc = "idle" /\ status = "waiting-sol-review" => begin = NoBegin
    BY DEF BeginInv, TakingBack
<1> USE NoCheckpointIsNone DEF BeginInv, Unadmitted, IsStopped, ActiveSteps, RoutingSteps,
    TakingBack
<1>1. CASE NewTask
    BY <1>1 DEF NewTask, StartNewTask, Launch
<1>2. CASE DecisionRejected \/ ResumeRejected
    BY <1>0, <1>00, <1>2 DEF DecisionRejected, ResumeRejected, ClearResumeCheckpoint,
       storeVars, Announce
<1>3. ASSUME NEW d \in Decisions, Decision(d) PROVE BeginInv'
    BY <1>3, <1>00 DEF Decision, Launch
<1>4. ASSUME NEW milestone \in BOOLEAN, Fix(milestone) PROVE BeginInv'
  <2>1. Snapshot # NoBegin
    BY <1>4, SnapshotType, NoBeginIsNone
    DEF Fix, BeginParentFix, SafetyInv, TypeInv, TypeOK
  <2>2. FixCheckpoint.stage = "worker" /\ FixCheckpoint.stop = "none"
    BY DEF FixCheckpoint, NewCheckpoint
  <2> QED
    BY <1>0, <1>4, <2>1, <2>2 DEF Fix, BeginParentFix, CanBeginFix, BeginParentAction, Launch,
       StopClearsPending
<1>5. CASE MilestoneFixRejected
    BY <1>0, <1>00, <1>5, AllowedStatus
    DEF MilestoneFixRejected, DiscardResumeAndWaitForSolReview, Announce, storeVars
<1>6. CASE Resume
    BY <1>0, <1>6 DEF Resume, BeginResume, Launch
<1>7. CASE ResubmitReport
  <2>1. begin = NoBegin
    BY <1>7, OfferedWithoutMarker DEF ResubmitReport, BeginResume, StopClearsPending
  <2> QED
    BY <1>7, <2>1 DEF ResubmitReport, BeginResume
<1>8. CASE ApproveSurface \/ ApproveSurfaceUnmeasurable
    BY <1>00, <1>8, AllowedStatus
    DEF ApproveSurface, ApproveSurfaceUnmeasurable, ActivateQualitySurfaceApproval,
        WaitForQualitySurfaceReview
<1>9. CASE Accept \/ Complete \/ RuntimeDisposition
    BY <1>9 DEF Accept, AcceptParentReview, Complete, CompleteParentAwaiting,
                RuntimeDisposition, RecordRuntimeDisposition, procVars
<1>10. CASE RecoverParentAction
    BY <1>10 DEF RecoverParentAction, RecoverParentActionBegin
<1>11. CASE RecoverQualitySurfaceReview
    BY <1>11 DEF RecoverQualitySurfaceReview, RecoverApprovedQualitySurfaceReview, procVars
<1> QED
    BY <1>1, <1>2, <1>3, <1>4, <1>5, <1>6, <1>7, <1>8, <1>9, <1>10, <1>11 DEF ParentCommand

\* Steps of one model call.
LEMMA CallBegin ==
    ASSUME SafetyInv, MarkerInv, BeginInv, "parent-file" \notin Faults, ModelCall
    PROVE  BeginInv'
<1>0. pc \in {"call", "saved", "running"} => cp \in Checkpoints /\ status = "active"
    BY DEF SafetyInv, TypeInv, CallInHand, ProcessFollowsStore, ActiveSteps
<1>00. pc = "running" => begin = NoBegin
    BY DEF SafetyInv, NoBeginBehindModel
<1>1. CASE InterruptBetweenCalls
  <2> DEFINE stopped == SetStopKind(cp, "interrupted")
  <2>1. /\ stopped \in Checkpoints /\ stopped.stage = cp.stage
        /\ stopped.stop = "interrupted"
    BY <1>0, <1>1, SetStopKindType, SetStopKindFields DEF InterruptBetweenCalls, StopKinds
  <2>2. begin # NoBegin => Unadmitted(stopped)
    BY <1>1, <2>1 DEF InterruptBetweenCalls, BeginInv, Unadmitted, StopClearsPending,
       ActiveSteps
  <2> QED
    BY <1>1, <2>1, <2>2, StopBegin DEF InterruptBetweenCalls
<1>2. CASE pc = "running"
  <2>1. begin' = NoBegin
    BY <1>00, <1>2
    DEF ModelCall, PrepareFails, SaveCheckpoint, ParentFileStops, InterruptBetweenCalls,
        CallRefused, PreCallGuardFails, RunnerFails, AdmitCall, ModelAccepted, ModelStops,
        GuardStops, ResultFormatStops, ModelFails, WorkerFormatFails, EnterStop,
        ClearResumeCheckpoint, storeVars
  <2> QED
    BY <2>1 DEF BeginInv
<1> USE NoCheckpointIsNone DEF BeginInv, Unadmitted, IsStopped, ActiveSteps, RoutingSteps,
    TakingBack
<1>3. CASE PrepareFails \/ CallRefused
    BY <1>0, <1>3 DEF PrepareFails, CallRefused, Goto, storeVars
<1>4. CASE PreCallGuardFails \/ RunnerFails
    BY <1>0, <1>4 DEF PreCallGuardFails, RunnerFails, Goto, ClearResumeCheckpoint
<1>5. CASE SaveCheckpoint
    BY <1>0, <1>5 DEF SaveCheckpoint, SaveResumeCheckpoint, Goto
<1>6. CASE AdmitCall
    BY <1>6 DEF AdmitCall, CommitParentActionBegin
<1>7. ~ParentFileStops
    BY DEF ParentFileStops
<1> QED
    BY <1>1, <1>2, <1>3, <1>4, <1>5, <1>6, <1>7
    DEF ModelCall, ModelAccepted, ModelStops, GuardStops, ResultFormatStops, ModelFails,
        WorkerFormatFails

\* Steps of the workflow around the calls.
LEMMA WorkflowBegin ==
    ASSUME SafetyInv, MarkerInv, BeginInv, NoStrandedBegin, WorkflowStep PROVE BeginInv'
<1>0. pc \in ActiveSteps => cp \in Checkpoints /\ status = "active"
    BY DEF SafetyInv, TypeInv, CallInHand, ProcessFollowsStore
<1>00. cp \in Checkpoints \union {NoCheckpoint} /\ prev \in Checkpoints \union {NoCheckpoint}
    BY DEF SafetyInv, TypeInv, TypeOK
<1>01. pc \in RoutingSteps => begin = NoBegin
    BY DEF BeginInv
<1>1. ASSUME NEW kind \in TransientStops, ResumeProbeStops(kind) PROVE BeginInv'
  <2>1. /\ SetStopKind(cp, kind) \in Checkpoints /\ SetStopKind(cp, kind).stage = cp.stage
        /\ SetStopKind(cp, kind).stop = kind
    <3>1. cp \in Checkpoints /\ kind \in StopKinds \union {"none"}
      BY <1>0, <1>1 DEF ResumeProbeStops, StopKinds, TransientStops, ActiveSteps
    <3> QED
      BY <3>1, SetStopKindType, SetStopKindFields
  <2>2. begin # NoBegin => Unadmitted(SetStopKind(cp, kind))
    BY <1>1, <2>1 DEF ResumeProbeStops, BeginInv, Unadmitted, StopClearsPending, TransientStops,
       ActiveSteps
  <2> QED
    BY <1>1, <2>1, <2>2, StopBegin DEF ResumeProbeStops
<1>2. CASE ResumeProbeFails
    BY <1>0, <1>00, <1>2, RestoreBegin DEF ResumeProbeFails, BeginInv, ActiveSteps
<1>3. CASE Unwind
  <2>1. status = "active" /\ (begin # NoBegin /\ armed # "no" => Unadmitted(prev))
    BY <1>0, <1>3 DEF Unwind, BeginInv, ActiveSteps
  <2>2. CASE armed = "no"
    BY <1>3, <2>1, <2>2, QuietEndBegin DEF Unwind
  <2>3. CASE armed # "no"
    BY <1>00, <1>3, <2>1, <2>3, RestoreBegin DEF Unwind
  <2> QED
    BY <2>2, <2>3
<1>4. CASE ResumeContextFails
    BY <1>0, <1>4, QuietEndBegin DEF ResumeContextFails, ActiveSteps
<1>5. CASE pc \in RoutingSteps
  <2>1. begin' = NoBegin
    BY <1>01, <1>5
    DEF RoutingSteps, WorkflowStep, BeginDecision, GateFails, GatePasses, SearchFails, ResumeSnapshotFails,
        ResumeProbeStops, ResumeProbeFails, ResumeContextFails, ResumeCalls,
        ResumeReusesResult, Emit, Unwind, Rollback, SurfaceNeedsApproval,
        SurfaceFailsClosed, RuleCorrection, ConvergenceFails, WorkerNeedsDecision,
        WorkerImplemented, SnapshotFails, QualityGateStops, QualityViolation,
        DispatchGateFails, ReviewPreparationFails, Review, ReviewPasses,
        ReviewNeedsParent, ReviewNeedsDecision, ReviewRequiresFix, NotConverged, AutoFix,
        EnterQualitySurfaceApprovalWait, WaitForQualitySurfaceReview, WaitForDecision,
        ContinueAfterWorkerResult, FailClosed, FailFeasibility, WaitForSolReview,
        DiscardResumeAndWaitForSolReview, EnterStop, FinishReview, storeVars
  <2> QED
    BY <2>1 DEF BeginInv
<1> USE NoCheckpointIsNone DEF BeginInv, Unadmitted, IsStopped, ActiveSteps, RoutingSteps,
    TakingBack
<1>6. CASE BeginDecision
  <2>0. /\ armed = "no" \/ pc # "begin"
        /\ status = "waiting-decision" => ~IsStopped(resume)
    BY DEF MarkerInv, ResumeInHand, SafetyInv, WaitCarriesNoStop
  <2>00. pending /\ pc = "begin" => cp.stage = "worker" /\ cp.stop = "none"
    BY DEF MarkerInv, MarkerIsCarried, WorksOnDecision, ResumeInHand
  <2>1. CASE BeginParentDecision /\ pc' = "call" /\ UNCHANGED <<cp, prev, armed>>
    BY <1>6, <2>0, <2>00, <2>1
    DEF BeginDecision, BeginParentDecision, CanBeginDecision, BeginParentAction,
        StopClearsPending
  <2> QED
    BY <1>6, <2>1, QuietEndBegin DEF BeginDecision
<1>7. CASE GateFails
    BY <1>0, <1>7
    DEF GateFails, NoStrandedBegin, FailClosed, FailFeasibility, WaitForSolReview,
        DiscardResumeAndWaitForSolReview, Announce
<1>8. CASE GatePasses \/ SearchFails
    BY <1>0, <1>8 DEF GatePasses, SearchFails, Goto, storeVars
<1>9. CASE ResumeSnapshotFails
  <2>1. begin = NoBegin
    BY <1>9 DEF ResumeSnapshotFails
  <2> QED
    BY <1>9, <2>1 DEF ResumeSnapshotFails, FailClosed, DiscardResumeAndWaitForSolReview
<1>10. CASE ResumeCalls
    BY <1>0, <1>10, ContinuationFields DEF ResumeCalls, storeVars, StopClearsPending
<1>11. CASE ResumeReusesResult
  <2>1. begin = NoBegin
    BY <1>11 DEF ResumeReusesResult, StopClearsPending
  <2> QED
    BY <1>11, <2>1 DEF ResumeReusesResult, ClearResumeCheckpoint
<1>12. CASE Emit
    BY <1>12 DEF Emit, Goto, ProcessEnds
<1>13. CASE Rollback
    BY <1>13 DEF Rollback, RollbackParentAction
<1> QED
    BY <1>1, <1>2, <1>3, <1>4, <1>5, <1>6, <1>7, <1>8, <1>9, <1>10, <1>11, <1>12, <1>13
    DEF WorkflowStep, SurfaceNeedsApproval, SurfaceFailsClosed, RuleCorrection,
        ConvergenceFails, WorkerNeedsDecision, WorkerImplemented, SnapshotFails,
        QualityGateStops, QualityViolation, DispatchGateFails, ReviewPreparationFails, Review,
        ReviewPasses, ReviewNeedsParent, ReviewNeedsDecision, ReviewRequiresFix, NotConverged,
        AutoFix

LEMMA NextBegin ==
    ASSUME SafetyInv, MarkerInv, BeginInv, NoStrandedBegin, [Next]_vars PROVE BeginInv'
<1>1. CASE Crash
    BY <1>1, QuietEndBegin DEF Crash, BeginInv
<1>2. CASE UNCHANGED vars
    BY <1>2 DEF vars, storeVars, procVars, BeginInv, Unadmitted, IsStopped, TakingBack
<1> QED
    BY <1>1, <1>2, CommandBegin, CallBegin, WorkflowBegin DEF Next, Process, NoStrandedBegin

\* A fix the plan offers can begin, unless a parent-managed file changed under a call or a
\* process died between the gate that rejected its fix and the rollback: in every other
\* case no begin record is left in a review wait (saveParentActionBegin,
\* RollbackParentAction).
THEOREM AllowedFixesBegin ==
    ASSUME NoStrandedBegin PROVE Spec => []AllowedFixBegins
<1>1. BeginInv => AllowedFixBegins
    BY AllowedStatus, OfferedWithoutMarker
    DEF BeginInv, TakingBack, AllowedFixBegins, CanBeginFix
<1> QED
    BY <1>1, InitBegin, NextBegin, Safety, MarkerInvariant, PTL DEF Spec

=============================================================================
