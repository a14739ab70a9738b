-------------------------- MODULE TaskLifecycleProofs --------------------------
(***************************************************************************)
(* Proofs about TaskLifecycle, for any decisions, any number of automatic  *)
(* fixes and of rule contracts, and any set of faults.                     *)
(***************************************************************************)
EXTENDS TaskLifecycle, TLAPS

-----------------------------------------------------------------------------
(* Checkpoints and records. *)

\* Setting or clearing a stop keeps the shape of a checkpoint.
LEMMA SetStopKindType ==
    ASSUME NEW c \in Checkpoints, NEW kind \in StopKinds \union {"none"}
    PROVE  /\ SetStopKind(c, kind) \in Checkpoints
           /\ SetStopKind(c, kind).stop = kind
BY DEF Checkpoints, SetStopKind, KeepsResult

\* The checkpoint a resume continues with is not stopped.
LEMMA ContinuationType ==
    ASSUME NEW c \in Checkpoints
    PROVE  Continuation(c) \in Checkpoints
<1>1. [c EXCEPT !.approval = "none"] \in Checkpoints
    BY DEF Checkpoints
<1> QED
    BY <1>1, SetStopKindType DEF Continuation, ClearStop

\* A checkpoint built for a call has the shape of one.
LEMMA NewCheckpointType ==
    ASSUME NEW stage \in {"worker", "reviewer", "auto-fix"}, NEW phase \in Phases,
           NEW d \in Decisions \union {NoDecision}, NEW n \in 0..MaxAutoFixRounds
    PROVE  NewCheckpoint(stage, phase, d, n) \in Checkpoints
BY DEF NewCheckpoint, Checkpoints

\* No checkpoint is not a checkpoint, and it carries neither a stop nor an approval.
LEMMA NoCheckpointIsNone ==
    /\ NoCheckpoint \notin Checkpoints
    /\ NoCheckpoint.stop = "none"
    /\ NoCheckpoint.approval = "none"
BY DEF NoCheckpoint, Checkpoints

\* A parent action that begins snapshots a wait of the parent.
LEMMA SnapshotType ==
    ASSUME StoreTypeOK, CanBeginDecision \/ CanBeginFix
    PROVE  /\ Snapshot \in Begins
           /\ Snapshot.source = status /\ Snapshot.pending = pending
BY DEF StoreTypeOK, CanBeginDecision, CanBeginFix, Snapshot, Begins

-----------------------------------------------------------------------------
(* Type correctness. *)

LEMMA InitTypeInv == Init => TypeInv
<1> SUFFICES ASSUME Init PROVE TypeInv
    OBVIOUS
<1>1. StoreTypeOK
    BY DEF Init, StoreInit, StoreTypeOK, Statuses, Reviews
<1>2. rules \in 0..MaxRules
    BY MaxRulesAssumption DEF Init
<1>3. TypeOK
    BY <1>1, <1>2 DEF Init, TypeOK, Steps, Packets
<1>4. CallInHand /\ PacketInHand
    BY DEF Init, CallInHand, PacketInHand, ActiveSteps, RoutingSteps
<1> QED
    BY <1>3, <1>4 DEF TypeInv

\* A process that ends leaves well-shaped memory behind.
LEMMA EndType ==
    ASSUME StoreTypeOK', ProcessEnds PROVE TypeInv'
<1>1. rules' \in 0..MaxRules
    BY MaxRulesAssumption DEF ProcessEnds
<1> QED
    BY <1>1 DEF ProcessEnds, TypeInv, TypeOK, CallInHand, PacketInHand, ActiveSteps,
                RoutingSteps, Steps, Packets

\* A process that ends and leaves the files alone.
LEMMA QuietEndType ==
    ASSUME TypeInv, UNCHANGED storeVars, ProcessEnds PROVE TypeInv'
<1>1. StoreTypeOK'
    BY DEF TypeInv, TypeOK, StoreTypeOK, storeVars
<1> QED
    BY <1>1, EndType

\* A process that ends by stopping the task.
LEMMA StopType ==
    ASSUME TypeInv, NEW c \in Checkpoints, EnterStop(c), ProcessEnds PROVE TypeInv'
<1>1. c.stop \in StopKinds
    BY DEF EnterStop, IsStopped, Checkpoints
<1>2. StoreTypeOK'
    BY <1>1 DEF EnterStop, TypeInv, TypeOK, StoreTypeOK, Statuses
<1> QED
    BY <1>2, EndType

\* A process that ends by going back to a stop.
LEMMA RestoreType ==
    ASSUME TypeInv, NEW c \in Checkpoints \union {NoCheckpoint},
           RestoreResumeStop(c), ProcessEnds
    PROVE  TypeInv'
<1> DEFINE back == IF IsStopped(resume) THEN resume ELSE c
<1>1. CASE EnterStop(back)
  <2>1. back \in Checkpoints
    BY <1>1, NoCheckpointIsNone DEF EnterStop, IsStopped, TypeInv, TypeOK, StoreTypeOK
  <2> QED
    BY <1>1, <2>1, StopType
<1>2. CASE UNCHANGED storeVars
    BY <1>2, QuietEndType
<1> QED
    BY <1>1, <1>2 DEF RestoreResumeStop

\* Commands of the parent.
LEMMA ParentCommandType ==
    ASSUME TypeInv, ParentCommand PROVE TypeInv'
<1> USE NoCheckpointIsNone DEF TypeInv, TypeOK, StoreTypeOK, CallInHand,
        PacketInHand, NoPacket, ActiveSteps, RoutingSteps
<1>0. 0 \in 0..MaxAutoFixRounds
    BY MaxAutoFixRoundsAssumption
<1>00. MaxRules \in 0..MaxRules
    BY MaxRulesAssumption
<1>1. CASE NewTask
    BY <1>1, <1>0, <1>00, NewCheckpointType
       DEF NewTask, StartNewTask, Launch, Statuses, Reviews, Steps, Phases
<1>2. CASE DecisionRejected
    BY <1>2 DEF DecisionRejected, Announce, ClearResumeCheckpoint, storeVars,
                Packets, Steps
<1>3. ASSUME NEW d \in Decisions, Decision(d) PROVE TypeInv'
    BY <1>3, <1>0, <1>00, NewCheckpointType DEF Decision, Launch, Steps, Phases
<1>4. ASSUME NEW milestone \in BOOLEAN, Fix(milestone) PROVE TypeInv'
    BY <1>4, <1>0, <1>00, NewCheckpointType, SnapshotType
       DEF Fix, FixCheckpoint, BeginParentFix, BeginParentAction, ResolveReview,
           Launch, Statuses, Reviews, Steps, Phases
<1>5. CASE MilestoneFixRejected
    BY <1>5 DEF MilestoneFixRejected, DiscardResumeAndWaitForSolReview, Announce,
                storeVars, Packets, Steps, Statuses
<1>6. CASE Resume
    BY <1>6, <1>00 DEF Resume, BeginResume, IsStopped, Launch, Statuses, Steps
<1>7. CASE ResumeRejected
    BY <1>7 DEF ResumeRejected, Announce, storeVars, Packets, Steps
<1>8. CASE ResubmitReport
    BY <1>8, <1>00, SetStopKindType
       DEF ResubmitReport, BeginResume, IsStopped, ClearStop, Statuses, Steps
<1>9. CASE ApproveSurface
  <2>1. [resume EXCEPT !.approval = "activated"] \in Checkpoints
    BY <1>9 DEF ApproveSurface, ActivateQualitySurfaceApproval, Checkpoints
  <2> QED
    BY <1>9, <1>00, <2>1 DEF ApproveSurface, ActivateQualitySurfaceApproval,
                ResolveReview, Launch, Statuses, Reviews, Steps
<1>10. CASE ApproveSurfaceUnmeasurable
  <2>1. /\ pc' = "emit" /\ status' = "waiting-sol-review" /\ pending' = FALSE
        /\ out' = [label |-> "NEEDS_SOL_REVIEW", by |-> "gate", next |-> "idle"]
        /\ UNCHANGED <<review, resume, begin, lastDecision, cp, prev, armed, rb, producer, rules>>
    BY <1>10 DEF ApproveSurfaceUnmeasurable, WaitForQualitySurfaceReview, Announce
  <2>2. StoreTypeOK'
    BY <2>1 DEF Statuses
  <2>3. out' \in Packets /\ out' # NoPacket
    BY <2>1 DEF Packets
  <2> HIDE DEF StoreTypeOK, NoPacket
  <2> QED
    BY <2>1, <2>2, <2>3 DEF Steps
<1>11. CASE Accept
    BY <1>11 DEF Accept, AcceptParentReview, ResolveReview, procVars, Statuses, Reviews
<1>12. CASE Complete
    BY <1>12 DEF Complete, CompleteParentAwaiting, procVars, Statuses
<1>13. CASE RuntimeDisposition
    BY <1>13 DEF RuntimeDisposition, RecordRuntimeDisposition, procVars, Statuses
<1>14. CASE RecoverParentAction
    BY <1>14 DEF RecoverParentAction, RecoverParentActionBegin,
                 CanRecoverParentAction, procVars, Statuses, Begins
<1>15. CASE RecoverQualitySurfaceReview
    BY <1>15 DEF RecoverQualitySurfaceReview, RecoverApprovedQualitySurfaceReview,
                 ResolveReview, procVars, Reviews
<1> QED
    BY <1>1, <1>2, <1>3, <1>4, <1>5, <1>6, <1>7, <1>8, <1>9, <1>10, <1>11, <1>12,
       <1>13, <1>14, <1>15 DEF ParentCommand

\* Steps of one model call.
LEMMA ModelCallType ==
    ASSUME TypeInv, ModelCall PROVE TypeInv'
<1> USE NoCheckpointIsNone DEF TypeInv, TypeOK, StoreTypeOK, CallInHand,
        PacketInHand, NoPacket, ActiveSteps, RoutingSteps
<1>1. CASE PrepareFails \/ CallRefused \/ WorkerFormatFails
    BY <1>1 DEF PrepareFails, CallRefused, WorkerFormatFails, Goto, storeVars, Steps
<1>2. CASE SaveCheckpoint
    BY <1>2 DEF SaveCheckpoint, SaveResumeCheckpoint, Goto, Steps
<1>3. CASE ParentFileStops
    BY <1>3 DEF ParentFileStops, FailClosed, DiscardResumeAndWaitForSolReview,
                Announce, Unbound, Packets, Steps, Statuses
<1>4. CASE InterruptBetweenCalls
  <2>1. SetStopKind(cp, "interrupted") \in Checkpoints
    BY <1>4, SetStopKindType DEF InterruptBetweenCalls, StopKinds
  <2> QED
    BY <1>4, <2>1, StopType DEF InterruptBetweenCalls
<1>5. CASE PreCallGuardFails \/ RunnerFails \/ ModelFails
    BY <1>5 DEF PreCallGuardFails, RunnerFails, ModelFails, ClearResumeCheckpoint,
                Goto, Steps
<1>6. CASE AdmitCall
    BY <1>6 DEF AdmitCall, CommitParentActionBegin, Steps
<1>7. CASE ModelAccepted
    BY <1>7 DEF ModelAccepted, ClearResumeCheckpoint, Steps
<1>8. ASSUME NEW kind \in TransientStops, ModelStops(kind) PROVE TypeInv'
  <2>1. SetStopKind(cp, kind) \in Checkpoints
    BY <1>8, SetStopKindType DEF ModelStops, StopKinds, TransientStops
  <2> QED
    BY <1>8, <2>1, StopType DEF ModelStops
<1>9. ASSUME NEW completed \in BOOLEAN, GuardStops(completed) PROVE TypeInv'
  <2>1. GuardCheckpoint(completed) \in Checkpoints
    BY <1>9, SetStopKindType DEF GuardStops, GuardCheckpoint, StopKinds, Checkpoints
  <2>2. CASE EnterStop(GuardCheckpoint(completed)) /\ ProcessEnds
    BY <2>1, <2>2, StopType
  <2>3. CASE UNCHANGED storeVars /\ pc = "running" /\ Goto("failed")
    BY <2>3 DEF Goto, storeVars, Steps
  <2> QED
    BY <1>9, <2>2, <2>3 DEF GuardStops
<1>10. CASE ResultFormatStops
  <2> DEFINE stopped == SetStopKind(cp, "result-format-recoverable")
  <2>1. stopped \in Checkpoints
    BY <1>10, SetStopKindType DEF ResultFormatStops, StopKinds
  <2>2. CASE EnterStop(stopped) /\ ProcessEnds
    BY <2>1, <2>2, StopType
  <2>3. CASE UNCHANGED storeVars /\ pc = "running" /\ Goto("failed")
    BY <2>3 DEF Goto, storeVars, Steps
  <2> QED
    BY <1>10, <2>2, <2>3 DEF ResultFormatStops
<1> QED
    BY <1>1, <1>2, <1>3, <1>4, <1>5, <1>6, <1>7, <1>8, <1>9, <1>10 DEF ModelCall

\* Steps of the workflow around the calls.
LEMMA WorkflowStepType ==
    ASSUME TypeInv, WorkflowStep PROVE TypeInv'
<1> USE NoCheckpointIsNone DEF TypeInv, TypeOK, StoreTypeOK, CallInHand,
        PacketInHand, NoPacket, ActiveSteps, RoutingSteps
<1>1. CASE BeginDecision
  <2>1. CASE BeginParentDecision
    BY <1>1, <2>1, SnapshotType
       DEF BeginDecision, BeginParentDecision, BeginParentAction, ResolveReview,
           Statuses, Reviews, Steps
  <2>2. CASE UNCHANGED storeVars /\ ProcessEnds
    BY <2>2, QuietEndType
  <2> QED
    BY <1>1, <2>1, <2>2 DEF BeginDecision
<1>2. CASE GateFails
    BY <1>2 DEF GateFails, FailClosed, FailFeasibility, WaitForSolReview,
                DiscardResumeAndWaitForSolReview, Announce, Unbound, Packets, Steps,
                Statuses
<1>3. CASE GatePasses \/ SearchFails \/ QualityViolation \/ ReviewPreparationFails
           \/ ConvergenceFails \/ ReviewRequiresFix
    BY <1>3 DEF GatePasses, SearchFails, QualityViolation, ReviewPreparationFails,
                ConvergenceFails, ReviewRequiresFix, Goto, storeVars, Steps
<1>4. CASE ResumeSnapshotFails \/ SnapshotFails
    BY <1>4 DEF ResumeSnapshotFails, SnapshotFails, FailClosed,
                DiscardResumeAndWaitForSolReview, Announce, Unbound, Packets, Steps,
                Statuses
<1>5. ASSUME NEW kind \in TransientStops, ResumeProbeStops(kind) PROVE TypeInv'
  <2>1. SetStopKind(cp, kind) \in Checkpoints
    BY <1>5, SetStopKindType DEF ResumeProbeStops, StopKinds, TransientStops
  <2> QED
    BY <1>5, <2>1, StopType DEF ResumeProbeStops
<1>6. CASE ResumeProbeFails
    BY <1>6, RestoreType DEF ResumeProbeFails
<1>7. CASE ResumeContextFails
    BY <1>7, QuietEndType DEF ResumeContextFails
<1>8. CASE ResumeCalls
    BY <1>8, ContinuationType DEF ResumeCalls, storeVars, Steps
<1>9. CASE ResumeReusesResult
    BY <1>9, ContinuationType DEF ResumeReusesResult, ClearResumeCheckpoint, Steps
<1>10. CASE SurfaceNeedsApproval
  <2>1. [cp EXCEPT !.approval = "pending", !.completed = TRUE] \in Checkpoints
    BY <1>10 DEF SurfaceNeedsApproval, Checkpoints
  <2> QED
    BY <1>10, <2>1 DEF SurfaceNeedsApproval, EnterQualitySurfaceApprovalWait,
                       Announce, Unbound, Packets, Steps, Statuses
<1>11. CASE SurfaceFailsClosed
    BY <1>11 DEF SurfaceFailsClosed, WaitForQualitySurfaceReview, Announce, Unbound,
                 Packets, Steps, Statuses
<1>12. CASE RuleCorrection
    BY <1>12, MaxRulesAssumption DEF RuleCorrection, storeVars, Steps
<1>13. CASE WorkerNeedsDecision \/ ReviewNeedsDecision
  <2>1. WaitForDecision /\ Announce("NEEDS_SOL_DECISION", Unbound, "idle")
    BY <1>13 DEF WorkerNeedsDecision, ReviewNeedsDecision
  <2>2. StoreTypeOK'
    BY <2>1 DEF WaitForDecision, Statuses
  <2> QED
    BY <2>1, <2>2 DEF Announce, Unbound, Packets, Steps
<1>14. CASE WorkerImplemented
    BY <1>14 DEF WorkerImplemented, ContinueAfterWorkerResult, Goto, Steps
<1>15. CASE QualityGateStops
    BY <1>15, StopType DEF QualityGateStops, Checkpoints, StopKinds
<1>16. CASE DispatchGateFails
    BY <1>16 DEF DispatchGateFails, FailClosed, FailFeasibility, WaitForSolReview,
                 DiscardResumeAndWaitForSolReview, Announce, Unbound, Packets, Steps,
                 Statuses
<1>17. CASE Review
  <2>1. cp.fixes \in 0..MaxAutoFixRounds
    BY <1>17 DEF Review, Checkpoints
  <2> QED
    BY <1>17, <2>1, NewCheckpointType DEF Review, Proceed, Phases, storeVars, Steps
<1>18. CASE ReviewPasses \/ ReviewNeedsParent \/ NotConverged
    BY <1>18 DEF ReviewPasses, ReviewNeedsParent, NotConverged, FinishReview,
                 Announce, Bound, Unbound, Packets, Steps, Statuses
<1>19. CASE AutoFix
  <2>1. cp.fixes + 1 \in 0..MaxAutoFixRounds
    BY <1>19, MaxAutoFixRoundsAssumption DEF AutoFix, Checkpoints
  <2> QED
    BY <1>19, <2>1, NewCheckpointType DEF AutoFix, Proceed, Phases, storeVars, Steps
<1>20. CASE Emit
  <2>1. review' \in Reviews
    BY <1>20 DEF Emit, OpenReview, Packets, Reviews
  <2>2. StoreTypeOK'
    BY <1>20, <2>1 DEF Emit
  <2>3. CASE Goto("rollback")
    BY <1>20, <2>2, <2>3 DEF Goto, Steps
  <2>4. CASE ProcessEnds
    BY <2>2, <2>4, EndType
  <2> QED
    BY <1>20, <2>3, <2>4 DEF Emit
<1>21. CASE Unwind
    BY <1>21, RestoreType, QuietEndType DEF Unwind
<1>22. CASE Rollback
  <2>1. rb.source \in Statuses /\ rb.pending \in BOOLEAN /\ rb.review \in Reviews
    <3>1. CASE rb \in Begins
      BY <3>1 DEF Begins, Statuses
    <3>2. CASE rb = NoBegin
      BY <3>2 DEF NoBegin, Statuses, Reviews
    <3> QED
      BY <3>1, <3>2
  <2>2. StoreTypeOK'
    BY <1>22, <2>1 DEF Rollback, RollbackParentAction
  <2> QED
    BY <1>22, <2>2, EndType DEF Rollback
<1> QED
    BY <1>1, <1>2, <1>3, <1>4, <1>5, <1>6, <1>7, <1>8, <1>9, <1>10, <1>11, <1>12,
       <1>13, <1>14, <1>15, <1>16, <1>17, <1>18, <1>19, <1>20, <1>21, <1>22
    DEF WorkflowStep

LEMMA NextTypeInv ==
    ASSUME TypeInv, [Next]_vars PROVE TypeInv'
<1>1. CASE Crash
    BY <1>1, QuietEndType DEF Crash
<1>2. CASE UNCHANGED vars
    BY <1>2 DEF vars, storeVars, procVars, TypeInv, TypeOK, StoreTypeOK, CallInHand,
                PacketInHand
<1> QED
    BY <1>1, <1>2, ParentCommandType, ModelCallType, WorkflowStepType
    DEF Next, Process

\* Every file and every process variable keeps its shape, for any decisions, any
\* number of automatic fixes and rule contracts and any faults: the automatic
\* fixes never exceed MaxAutoFixRounds, a stop is only entered with a checkpoint
\* and no process emits a packet it was not given.
THEOREM TypeCorrect == Spec => []TypeOK
<1>1. Spec => []TypeInv
    BY InitTypeInv, NextTypeInv, PTL DEF Spec
<1>2. TypeInv => TypeOK
    BY DEF TypeInv
<1> QED
    BY <1>1, <1>2, PTL

-----------------------------------------------------------------------------
(* Safety. *)

\* The statuses in which the plan offers an action.
LEMMA AllowedStatus ==
    /\ Allows("decision") => status = "waiting-decision"
    /\ Allows("fix") => status = "waiting-sol-review"
    /\ Allows("approve-surface") => status = "waiting-sol-review"
    /\ Allows("accept") => status \in {"waiting-sol-review", "complete"}
BY DEF Allows

LEMMA InitSafety == Init => SafetyInv
<1> SUFFICES ASSUME Init PROVE SafetyInv
    OBVIOUS
<1>1. TypeInv
    BY InitTypeInv
<1>2. BeginKeepsMarker
    BY DEF Init, StoreInit, NoBegin, BeginKeepsMarker
<1> QED
    BY <1>1, <1>2, NoCheckpointIsNone
    DEF Init, StoreInit, SafetyInv, ProcessFollowsStore, ActiveSteps, RoutingSteps,
        StopIsResumable, WaitCarriesNoStop, DecisionWaitHasMarker, NoBeginBehindModel,
        StopKinds

\* A process that ends and leaves the files alone.
LEMMA QuietEndSafety ==
    ASSUME SafetyInv, UNCHANGED storeVars, ProcessEnds PROVE SafetyInv'
<1>1. TypeInv'
    BY QuietEndType DEF SafetyInv
<1>2. BeginKeepsMarker'
    BY DEF SafetyInv, BeginKeepsMarker, NoBegin, ProcessEnds, storeVars
<1> QED
    BY <1>1, <1>2
    DEF SafetyInv, storeVars, ProcessEnds, ProcessFollowsStore, ActiveSteps,
        RoutingSteps, StopIsResumable, ValidStopState, WaitCarriesNoStop, IsStopped,
        DecisionWaitHasMarker, NoBeginBehindModel

\* A process that ends by stopping the task: the checkpoint on disk is the one of
\* that stop, and it loads again.
LEMMA StopSafety ==
    ASSUME SafetyInv, NEW c \in Checkpoints, EnterStop(c), ProcessEnds
    PROVE  SafetyInv'
<1>1. TypeInv'
    BY StopType DEF SafetyInv
<1>2. BeginKeepsMarker'
    BY DEF SafetyInv, BeginKeepsMarker, NoBegin, ProcessEnds, EnterStop
<1>3. status' \in StopKinds
    BY DEF EnterStop, IsStopped, Checkpoints
<1>4. StopIsResumable'
    BY DEF EnterStop, StopIsResumable, ValidStopState, IsStopped
<1>5. WaitCarriesNoStop' /\ DecisionWaitHasMarker'
    BY <1>3 DEF WaitCarriesNoStop, DecisionWaitHasMarker, StopKinds
<1> QED
    BY <1>1, <1>2, <1>4, <1>5
    DEF SafetyInv, ProcessEnds, ProcessFollowsStore, ActiveSteps, RoutingSteps,
        NoBeginBehindModel

\* A process that ends by going back to a stop.
LEMMA RestoreSafety ==
    ASSUME SafetyInv, NEW c \in Checkpoints \union {NoCheckpoint},
           RestoreResumeStop(c), ProcessEnds
    PROVE  SafetyInv'
<1> DEFINE back == IF IsStopped(resume) THEN resume ELSE c
<1>1. CASE EnterStop(back)
  <2>1. back \in Checkpoints
    BY <1>1, NoCheckpointIsNone
    DEF EnterStop, IsStopped, SafetyInv, TypeInv, TypeOK, StoreTypeOK
  <2> QED
    BY <1>1, <2>1, StopSafety
<1>2. CASE UNCHANGED storeVars
    BY <1>2, QuietEndSafety
<1> QED
    BY <1>1, <1>2 DEF RestoreResumeStop

\* Commands of the parent.
LEMMA CommandSafety ==
    ASSUME SafetyInv, ParentCommand PROVE SafetyInv'
<1>0. TypeInv'
    BY ParentCommandType DEF SafetyInv
<1> USE <1>0, NoCheckpointIsNone DEF SafetyInv, ProcessFollowsStore, BeginKeepsMarker,
        StopIsResumable, WaitCarriesNoStop, DecisionWaitHasMarker,
        NoBeginBehindModel, ActiveSteps, RoutingSteps, IsStopped, ValidStopState,
        StopKinds
<1>1. CASE NewTask
    BY <1>1 DEF NewTask, StartNewTask, Launch, NoBegin
<1>2. CASE DecisionRejected
  <2>1. status = "waiting-decision" /\ status' = status /\ pending' = pending
        /\ begin' = begin
    BY <1>2, AllowedStatus DEF DecisionRejected, ClearResumeCheckpoint, storeVars
  <2>2. resume'.stop = "none"
    BY <1>2, <2>1 DEF DecisionRejected, ClearResumeCheckpoint, storeVars
  <2> QED
    BY <1>2, <2>1, <2>2 DEF DecisionRejected, Announce
<1>3. ASSUME NEW d \in Decisions, Decision(d) PROVE SafetyInv'
    BY <1>3 DEF Decision, Launch, NoBegin
<1>4. ASSUME NEW milestone \in BOOLEAN, Fix(milestone) PROVE SafetyInv'
    BY <1>4 DEF Fix, BeginParentFix, CanBeginFix, BeginParentAction, Snapshot, Launch
<1>5. CASE MilestoneFixRejected
    BY <1>5 DEF MilestoneFixRejected, DiscardResumeAndWaitForSolReview, Announce,
                storeVars
<1>6. CASE Resume
    BY <1>6 DEF Resume, BeginResume, Launch, NoBegin
<1>7. CASE ResumeRejected
    BY <1>7 DEF ResumeRejected, Announce, storeVars
<1>8. CASE ResubmitReport
    BY <1>8 DEF ResubmitReport, BeginResume
<1>9. CASE ApproveSurface
    BY <1>9 DEF ApproveSurface, ActivateQualitySurfaceApproval, Launch, NoBegin
<1>10. CASE ApproveSurfaceUnmeasurable
    BY <1>10, AllowedStatus
    DEF ApproveSurfaceUnmeasurable, WaitForQualitySurfaceReview, Announce
<1>11. CASE Accept
    BY <1>11, AllowedStatus DEF Accept, AcceptParentReview, procVars
<1>12. CASE Complete
    BY <1>12 DEF Complete, CompleteParentAwaiting, procVars
<1>13. CASE RuntimeDisposition
    BY <1>13 DEF RuntimeDisposition, RecordRuntimeDisposition, procVars
<1>14. CASE RecoverParentAction
  <2>1. begin.source \in {"waiting-decision", "waiting-sol-review"}
    BY <1>14 DEF RecoverParentAction, RecoverParentActionBegin,
                 CanRecoverParentAction, TypeInv, TypeOK, StoreTypeOK, Begins
  <2> QED
    BY <1>14, <2>1 DEF RecoverParentAction, RecoverParentActionBegin, procVars,
                       NoBegin
<1>15. CASE RecoverQualitySurfaceReview
    BY <1>15 DEF RecoverQualitySurfaceReview, RecoverApprovedQualitySurfaceReview,
                 procVars
<1> QED
    BY <1>1, <1>2, <1>3, <1>4, <1>5, <1>6, <1>7, <1>8, <1>9, <1>10, <1>11, <1>12,
       <1>13, <1>14, <1>15 DEF ParentCommand

\* Steps of one model call.
LEMMA CallSafety ==
    ASSUME SafetyInv, ModelCall PROVE SafetyInv'
<1>0. TypeInv'
    BY ModelCallType DEF SafetyInv
<1>00. pc \in ActiveSteps => cp \in Checkpoints
    BY DEF SafetyInv, TypeInv, CallInHand
<1>1. CASE InterruptBetweenCalls
  <2>1. SetStopKind(cp, "interrupted") \in Checkpoints
    BY <1>1, <1>00, SetStopKindType DEF InterruptBetweenCalls, StopKinds, ActiveSteps
  <2> QED
    BY <1>1, <2>1, StopSafety DEF InterruptBetweenCalls
<1>2. ASSUME NEW kind \in TransientStops, ModelStops(kind) PROVE SafetyInv'
  <2>1. SetStopKind(cp, kind) \in Checkpoints
    BY <1>2, <1>00, SetStopKindType
    DEF ModelStops, StopKinds, TransientStops, ActiveSteps
  <2> QED
    BY <1>2, <2>1, StopSafety DEF ModelStops
<1>3. ASSUME pc = "running", UNCHANGED storeVars, Goto("failed") PROVE SafetyInv'
    BY <1>0, <1>3
    DEF Goto, storeVars, SafetyInv, ProcessFollowsStore, BeginKeepsMarker,
        StopIsResumable, WaitCarriesNoStop, DecisionWaitHasMarker,
        NoBeginBehindModel, ActiveSteps, RoutingSteps, IsStopped, ValidStopState
<1>4. ASSUME NEW completed \in BOOLEAN, GuardStops(completed) PROVE SafetyInv'
  <2>1. GuardCheckpoint(completed) \in Checkpoints
    <3>1. SetStopKind(cp, "guard-recoverable") \in Checkpoints
      BY <1>4, <1>00, SetStopKindType DEF GuardStops, StopKinds, ActiveSteps
    <3> QED
      BY <3>1 DEF GuardCheckpoint, Checkpoints
  <2>2. CASE EnterStop(GuardCheckpoint(completed)) /\ ProcessEnds
    BY <2>1, <2>2, StopSafety
  <2> QED
    BY <1>3, <1>4, <2>2 DEF GuardStops
<1>5. CASE ResultFormatStops
  <2> DEFINE stopped == SetStopKind(cp, "result-format-recoverable")
  <2>1. stopped \in Checkpoints
    BY <1>5, <1>00, SetStopKindType DEF ResultFormatStops, StopKinds, ActiveSteps
  <2>2. CASE EnterStop(stopped) /\ ProcessEnds
    BY <2>1, <2>2, StopSafety
  <2> QED
    BY <1>3, <1>5, <2>2 DEF ResultFormatStops
<1> USE <1>0, NoCheckpointIsNone DEF SafetyInv, ProcessFollowsStore, BeginKeepsMarker,
        StopIsResumable, WaitCarriesNoStop, DecisionWaitHasMarker,
        NoBeginBehindModel, ActiveSteps, RoutingSteps, IsStopped, ValidStopState,
        StopKinds
<1>6. CASE PrepareFails \/ CallRefused \/ WorkerFormatFails
    BY <1>6 DEF PrepareFails, CallRefused, WorkerFormatFails, Goto, storeVars
<1>7. CASE SaveCheckpoint
    BY <1>7 DEF SaveCheckpoint, SaveResumeCheckpoint, Goto
<1>8. CASE ParentFileStops
    BY <1>8 DEF ParentFileStops, FailClosed, DiscardResumeAndWaitForSolReview, Announce
<1>9. CASE PreCallGuardFails \/ RunnerFails \/ ModelFails
    BY <1>9 DEF PreCallGuardFails, RunnerFails, ModelFails, ClearResumeCheckpoint, Goto
<1>10. CASE AdmitCall
    BY <1>10 DEF AdmitCall, CommitParentActionBegin, NoBegin
<1>11. CASE ModelAccepted
    BY <1>11 DEF ModelAccepted, ClearResumeCheckpoint
<1> QED
    BY <1>1, <1>2, <1>4, <1>5, <1>6, <1>7, <1>8, <1>9, <1>10, <1>11 DEF ModelCall

\* Steps of the workflow around the calls.
LEMMA WorkflowSafety ==
    ASSUME SafetyInv, WorkflowStep PROVE SafetyInv'
<1>0. TypeInv'
    BY WorkflowStepType DEF SafetyInv
<1>00. pc \in ActiveSteps => cp \in Checkpoints
    BY DEF SafetyInv, TypeInv, CallInHand
<1>01. /\ cp \in Checkpoints \union {NoCheckpoint}
       /\ prev \in Checkpoints \union {NoCheckpoint}
    BY DEF SafetyInv, TypeInv, TypeOK
<1>1. ASSUME NEW kind \in TransientStops, ResumeProbeStops(kind) PROVE SafetyInv'
  <2>1. SetStopKind(cp, kind) \in Checkpoints
    BY <1>1, <1>00, SetStopKindType
    DEF ResumeProbeStops, StopKinds, TransientStops, ActiveSteps
  <2> QED
    BY <1>1, <2>1, StopSafety DEF ResumeProbeStops
<1>2. CASE QualityGateStops
  <2> DEFINE kept == [stage |-> "worker", phase |-> cp.phase,
                      decision |-> lastDecision, fixes |-> cp.fixes,
                      stop |-> "quality-gate-recoverable", approval |-> "none",
                      completed |-> TRUE]
  <2>1. kept \in Checkpoints
    BY <1>2, <1>00 DEF QualityGateStops, ActiveSteps, RoutingSteps, Checkpoints,
                       StopKinds, SafetyInv, TypeInv, TypeOK, StoreTypeOK
  <2> QED
    BY <1>2, <2>1, StopSafety DEF QualityGateStops
<1>3. CASE ResumeProbeFails \/ Unwind
    BY <1>3, <1>01, RestoreSafety, QuietEndSafety DEF ResumeProbeFails, Unwind
<1>4. CASE ResumeContextFails
    BY <1>4, QuietEndSafety DEF ResumeContextFails
<1>5. CASE Emit
  <2>1. SafetyInv' \/ Goto("rollback")
    BY <1>0, <1>5 DEF Emit, ProcessEnds, NoBegin, SafetyInv, ProcessFollowsStore,
        BeginKeepsMarker, StopIsResumable, WaitCarriesNoStop, DecisionWaitHasMarker,
        NoBeginBehindModel, ActiveSteps, RoutingSteps, IsStopped, ValidStopState
  <2>2. CASE Goto("rollback")
    BY <1>0, <1>5, <2>2 DEF Emit, Goto, ProcessEnds, SafetyInv, ProcessFollowsStore,
        BeginKeepsMarker, StopIsResumable, WaitCarriesNoStop, DecisionWaitHasMarker,
        NoBeginBehindModel, ActiveSteps, RoutingSteps, IsStopped, ValidStopState
  <2> QED
    BY <2>1, <2>2
<1> USE <1>0, NoCheckpointIsNone DEF SafetyInv, ProcessFollowsStore, BeginKeepsMarker,
        StopIsResumable, WaitCarriesNoStop, DecisionWaitHasMarker,
        NoBeginBehindModel, ActiveSteps, RoutingSteps, IsStopped, ValidStopState,
        StopKinds
<1>6. CASE BeginDecision
  <2>1. CASE BeginParentDecision
    BY <1>6, <2>1 DEF BeginDecision, BeginParentDecision, CanBeginDecision,
                      BeginParentAction, Snapshot, ProcessEnds, NoBegin
  <2>2. CASE UNCHANGED storeVars /\ ProcessEnds
    BY <2>2, QuietEndSafety
  <2> QED
    BY <1>6, <2>1, <2>2 DEF BeginDecision
<1>7. CASE GateFails
    BY <1>7 DEF GateFails, FailClosed, FailFeasibility, WaitForSolReview,
                DiscardResumeAndWaitForSolReview, Announce
<1>8. CASE GatePasses \/ SearchFails \/ QualityViolation \/ ReviewPreparationFails
           \/ ConvergenceFails \/ ReviewRequiresFix
    BY <1>8 DEF GatePasses, SearchFails, QualityViolation, ReviewPreparationFails,
                ConvergenceFails, ReviewRequiresFix, Goto, storeVars
<1>9. CASE ResumeSnapshotFails \/ SnapshotFails
    BY <1>9 DEF ResumeSnapshotFails, SnapshotFails, FailClosed,
                DiscardResumeAndWaitForSolReview, Announce
<1>10. CASE ResumeCalls
    BY <1>10 DEF ResumeCalls, storeVars
<1>11. CASE ResumeReusesResult
    BY <1>11 DEF ResumeReusesResult, ClearResumeCheckpoint
<1>12. CASE SurfaceNeedsApproval
    BY <1>12 DEF SurfaceNeedsApproval, EnterQualitySurfaceApprovalWait, Announce
<1>13. CASE SurfaceFailsClosed
    BY <1>13 DEF SurfaceFailsClosed, WaitForQualitySurfaceReview, Announce
<1>14. CASE RuleCorrection
    BY <1>14 DEF RuleCorrection, storeVars
<1>15. CASE WorkerNeedsDecision \/ ReviewNeedsDecision
    BY <1>15 DEF WorkerNeedsDecision, ReviewNeedsDecision, WaitForDecision, Announce
<1>16. CASE WorkerImplemented
    BY <1>16 DEF WorkerImplemented, ContinueAfterWorkerResult, Goto
<1>17. CASE DispatchGateFails
    BY <1>17 DEF DispatchGateFails, FailClosed, FailFeasibility, WaitForSolReview,
                 DiscardResumeAndWaitForSolReview, Announce
<1>18. CASE Review \/ AutoFix
    BY <1>18 DEF Review, AutoFix, Proceed, storeVars
<1>19. CASE ReviewPasses \/ ReviewNeedsParent \/ NotConverged
    BY <1>19 DEF ReviewPasses, ReviewNeedsParent, NotConverged, FinishReview, Announce
<1>20. CASE Rollback
  <2>1. rb = NoBegin \/ rb.source \in {"waiting-decision", "waiting-sol-review"}
    BY DEF TypeInv, TypeOK, Begins
  <2> QED
    BY <1>20, <2>1 DEF Rollback, RollbackParentAction, ProcessEnds, NoBegin
<1> QED
    BY <1>1, <1>2, <1>3, <1>4, <1>5, <1>6, <1>7, <1>8, <1>9, <1>10, <1>11, <1>12,
       <1>13, <1>14, <1>15, <1>16, <1>17, <1>18, <1>19, <1>20 DEF WorkflowStep

LEMMA NextSafety ==
    ASSUME SafetyInv, [Next]_vars PROVE SafetyInv'
<1>1. CASE Crash
    BY <1>1, QuietEndSafety DEF Crash
<1>2. CASE UNCHANGED vars
  <2>1. TypeInv'
    BY <1>2, NextTypeInv DEF SafetyInv
  <2> QED
    BY <1>2, <2>1
    DEF vars, storeVars, procVars, SafetyInv, ProcessFollowsStore, BeginKeepsMarker,
        StopIsResumable, WaitCarriesNoStop, DecisionWaitHasMarker,
        NoBeginBehindModel, IsStopped, ValidStopState
<1> QED
    BY <1>1, <1>2, CommandSafety, CallSafety, WorkflowSafety DEF Next, Process

\* The inductive invariant: what the process knows of the files it shares with
\* the next process, and that a parent action can give its decision back.
THEOREM Safety == Spec => []SafetyInv
BY InitSafety, NextSafety, PTL DEF Spec

\* A stopped task always has the checkpoint of exactly that stop, in a form the
\* store loads again (EnterStop, RestoreResumeStop, BeginResume).
THEOREM StopStaysResumable == Spec => []StopIsResumable
<1>1. SafetyInv => StopIsResumable
    BY DEF SafetyInv
<1> QED
    BY <1>1, Safety, PTL

\* A task that waits for its parent, or is done, carries no stop, so that its
\* plan is never refused for one (ParentActionPlan).
THEOREM WaitsCarryNoStop == Spec => []WaitCarriesNoStop
<1>1. SafetyInv => WaitCarriesNoStop
    BY DEF SafetyInv
<1> QED
    BY <1>1, Safety, PTL

\* A task that waits for a decision has the marker BeginParentDecision asks for,
\* through every rejected command, rollback, recovery and crash.
THEOREM DecisionWaitsHaveMarker == Spec => []DecisionWaitHasMarker
<1>1. SafetyInv => DecisionWaitHasMarker
    BY DEF SafetyInv
<1> QED
    BY <1>1, Safety, PTL

\* From the admission of a model to the end of the process there is no begin
\* record that a recovery could take the model's work back with.
THEOREM NoRecoveryBehindModel == Spec => []NoBeginBehindModel
<1>1. SafetyInv => NoBeginBehindModel
    BY DEF SafetyInv
<1> QED
    BY <1>1, Safety, PTL

=============================================================================
