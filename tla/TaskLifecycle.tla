---------------------------- MODULE TaskLifecycle ----------------------------
(***************************************************************************)
(* One task from the parent's first command to its completion.             *)
(*                                                                         *)
(* The parent runs glm-worker once per command.  A repository-wide lock    *)
(* admits one process at a time; the process drives the worker and the     *)
(* reviewer model through workflow.Workflow and ends by leaving the task   *)
(* in a waiting, stopped or complete state.  Everything the process knows  *)
(* beside the files of TaskStore is lost when it crashes.                  *)
(***************************************************************************)
EXTENDS ParentPlan

CONSTANTS
    MaxRules,   \* how many rule contracts a worker result can turn out to lack
    Faults      \* the environment faults that may happen

FaultKinds == {"crash", "decision-task", "active-task", "feasibility",
               "parent-file", "resume-context"}

ASSUME MaxRulesAssumption == MaxRules \in Nat
ASSUME FaultsAssumption == Faults \subseteq FaultKinds

VARIABLES
    pc,         \* what the running process does next, "idle" when none runs
    cp,         \* the checkpoint of the call in hand
    prev,       \* the stopped checkpoint a failing resume goes back to
    armed,      \* how long it goes back: "no", during the "call", or the "route"
    rb,         \* the ParentActionRollback held until the call is admitted
    out,        \* the packet the state has moved for and that is to be emitted
    producer,   \* lastProducer.Role: whose accepted result came last
    rules       \* rule contracts the worker has not been given yet

procVars == <<pc, cp, prev, armed, rb, out, producer, rules>>
vars == <<storeVars, procVars>>

-----------------------------------------------------------------------------
(* The process. *)

NoPacket == [label |-> "none", by |-> "none", next |-> "idle"]
Packets == {NoPacket}
           \union [label : {"NEEDS_SOL_DECISION", "NEEDS_SOL_REVIEW", "PASS"},
                   by : {"gate", "model", "bound"},
                   next : {"idle", "rollback"}]

Steps == {"idle", "begin", "gate", "search", "call", "saved", "running", "accepted",
          "gate-repaired", "review", "reviewed", "fix-required", "emit",
          "rollback", "failed", "resume"}

\* The process ends, or dies: its memory is gone.
ProcessEnds ==
    /\ pc' = "idle"
    /\ cp' = NoCheckpoint
    /\ prev' = NoCheckpoint
    /\ armed' = "no"
    /\ rb' = NoBegin
    /\ out' = NoPacket
    /\ producer' = "none"
    /\ rules' = 0

Goto(step) ==
    /\ pc' = step
    /\ UNCHANGED <<cp, prev, armed, rb, out, producer, rules>>

Proceed(step, checkpoint) ==
    /\ pc' = step
    /\ cp' = checkpoint
    /\ UNCHANGED <<prev, armed, rb, out, producer, rules>>

\* A command starts a process with nothing but the checkpoint it builds.
Launch(step, checkpoint, rollback) ==
    /\ pc' = step
    /\ cp' = checkpoint
    /\ rb' = rollback
    /\ rules' = MaxRules
    /\ UNCHANGED <<prev, armed, out, producer>>

\* Who an emitted packet is attributed to.
Unbound == IF producer = "none" THEN "gate" ELSE "model"
Bound == IF producer = "reviewer" THEN "bound" ELSE Unbound

Announce(label, by, next) ==
    /\ pc' = "emit"
    /\ out' = [label |-> label, by |-> by, next |-> next]
    /\ UNCHANGED <<cp, prev, armed, rb, producer, rules>>

Emit ==
    /\ pc = "emit"
    /\ OpenReview(out.label, out.by)
    /\ UNCHANGED <<status, pending, resume, begin, lastDecision>>
    /\ IF out.next = "rollback" THEN Goto("rollback") ELSE ProcessEnds

\* Fail closed on a parent-managed file, on the ACTIVE task or on a snapshot.
FailClosed(next) ==
    /\ DiscardResumeAndWaitForSolReview
    /\ Announce("NEEDS_SOL_REVIEW", Unbound, next)

\* The external feasibility gate, where it moves the task (keepTaskStatus false).
FailFeasibility(next) ==
    /\ WaitForSolReview
    /\ Announce("NEEDS_SOL_REVIEW", Unbound, next)

-----------------------------------------------------------------------------
(* Commands of the parent; one process at a time holds the repository. *)

NewTask ==
    /\ pc = "idle"
    /\ AdmitsNewTask
    /\ StartNewTask
    /\ Launch("gate", NewCheckpoint("worker", "worker-new", NoDecision, 0), NoBegin)

\* gateDecisionActiveTask and the feasibility gate reject a decision without
\* consuming it; the first one clears the checkpoint on the way.
DecisionRejected ==
    /\ pc = "idle"
    /\ Allows("decision")
    /\ \/ "decision-task" \in Faults /\ ClearResumeCheckpoint
       \/ "feasibility" \in Faults /\ UNCHANGED storeVars
    /\ Announce("NEEDS_SOL_REVIEW", "gate", "idle")

\* replaceAcceptedScopeWithDecision writes last-decision before the begin.
Decision(d) ==
    /\ pc = "idle"
    /\ Allows("decision")
    /\ lastDecision' = d
    /\ UNCHANGED <<status, pending, review, resume, begin>>
    /\ Launch("begin", NewCheckpoint("worker", "worker-decision", d, 0), NoBegin)

BeginDecision ==
    /\ pc = "begin"
    /\ \/ /\ BeginParentDecision
          /\ pc' = "call"
          /\ rb' = Snapshot
          /\ UNCHANGED <<cp, prev, armed, out, producer, rules>>
       \/ /\ ~CanBeginDecision
          /\ UNCHANGED storeVars
          /\ ProcessEnds

FixCheckpoint == NewCheckpoint("worker", "worker-explicit-fix", lastDecision, 0)

\* The plain --fix begins first and passes its gates after that; a fix of an
\* execution milestone passes them first (MilestoneFixRejected) and goes on to
\* the search of its context.
Fix(milestone) ==
    /\ pc = "idle"
    /\ Allows("fix")
    /\ BeginParentFix
    /\ Launch(IF milestone THEN "search" ELSE "gate", FixCheckpoint, Snapshot)

MilestoneFixRejected ==
    /\ pc = "idle"
    /\ Allows("fix")
    /\ \/ "active-task" \in Faults /\ DiscardResumeAndWaitForSolReview
       \/ "feasibility" \in Faults /\ UNCHANGED storeVars
    /\ Announce("NEEDS_SOL_REVIEW", "gate", "idle")

Resume ==
    /\ pc = "idle"
    /\ Allows("resume")
    /\ BeginResume
    /\ Launch("resume", resume, NoBegin)

ResumeRejected ==
    /\ pc = "idle"
    /\ Allows("resume") \/ Allows("resubmit-report")
    /\ "feasibility" \in Faults
    /\ UNCHANGED storeVars
    /\ Announce("NEEDS_SOL_REVIEW", "gate", "idle")

\* Report resubmission runs the correction call again; its one authorization
\* per task is not part of this model.
ResubmitReport ==
    /\ pc = "idle"
    /\ Allows("resubmit-report")
    /\ BeginResume
    /\ pc' = "call"
    /\ cp' = ClearStop(resume)
    /\ prev' = resume
    /\ armed' = "call"
    /\ rules' = MaxRules
    /\ UNCHANGED <<rb, out, producer>>

\* Mutant: the continuation carries the approval as if it were still pending.
ApproveSurfaceUnmarked ==
    /\ pc = "idle"
    /\ Allows("approve-surface")
    /\ ActivateQualitySurfaceApproval
    /\ Launch("accepted", resume, NoBegin)

ApproveSurface ==
    /\ pc = "idle"
    /\ Allows("approve-surface")
    /\ ActivateQualitySurfaceApproval
    /\ Launch("accepted", [resume EXCEPT !.approval = "activated"], NoBegin)

\* The approved surface cannot be measured again: validation stops before
\* activation and the retained checkpoint stays.
ApproveSurfaceUnmeasurable ==
    /\ pc = "idle"
    /\ Allows("approve-surface")
    /\ WaitForQualitySurfaceReview(resume.phase)
    /\ Announce("NEEDS_SOL_REVIEW", "gate", "idle")

\* The parent's evidence may or may not be ready; when it is not, the command
\* changes nothing.
Accept ==
    /\ pc = "idle"
    /\ Allows("accept")
    /\ AcceptParentReview
    /\ UNCHANGED procVars

Complete ==
    /\ pc = "idle"
    /\ Allows("complete")
    /\ CompleteParentAwaiting
    /\ UNCHANGED procVars

\* The controller gives up a task nobody can move on; also the only way out of
\* a task left active by a dead process that no recovery accepts.
RuntimeDisposition ==
    /\ pc = "idle"
    /\ RecordRuntimeDisposition
    /\ UNCHANGED procVars

RecoverParentAction ==
    /\ pc = "idle"
    /\ RecoverParentActionBegin
    /\ UNCHANGED procVars

RecoverQualitySurfaceReview ==
    /\ pc = "idle"
    /\ RecoverApprovedQualitySurfaceReview
    /\ UNCHANGED procVars

-----------------------------------------------------------------------------
(* Gates after the task became active. *)

GateFails ==
    LET next == IF rb = NoBegin THEN "idle" ELSE "rollback" IN
    /\ pc = "gate"
    /\ \/ "active-task" \in Faults /\ FailClosed(next)
       \/ "feasibility" \in Faults /\ FailFeasibility(next)

\* The search context of a milestone fix fails: unlike a failure of the plain fix's
\* (PrepareFails), it takes the action back.
SearchFails ==
    /\ pc = "search"
    /\ UNCHANGED storeVars
    /\ Goto("rollback")

GatePasses ==
    /\ pc \in {"gate", "search"}
    /\ UNCHANGED storeVars
    /\ Goto("call")

\* BeginResume left the stopped checkpoint on disk.  A reviewer or a report-only
\* automatic fix whose snapshot no longer matches fails closed.
ResumeSnapshotFails ==
    /\ pc = "resume"
    /\ cp.stage # "worker"
    /\ FailClosed("idle")

\* A provider-unavailable task is probed before it continues.
ResumeProbeStops(kind) ==
    /\ pc = "resume"
    /\ cp.stop = "provider-unavailable"
    /\ EnterStop(SetStopKind(cp, kind))
    /\ ProcessEnds

ResumeProbeFails ==
    /\ pc = "resume"
    /\ cp.stop = "provider-unavailable"
    /\ RestoreResumeStop(cp)
    /\ ProcessEnds

\* prepareResumeContinuation returns its error without restoring the stop.
ResumeContextFails ==
    /\ pc = "resume"
    /\ "resume-context" \in Faults
    /\ UNCHANGED storeVars
    /\ ProcessEnds

Continuation(checkpoint) == ClearStop([checkpoint EXCEPT !.approval = "none"])

ResumeCalls ==
    /\ pc = "resume"
    /\ cp.stop # "quality-gate-recoverable"
    /\ UNCHANGED storeVars
    /\ pc' = "call"
    /\ cp' = Continuation(cp)
    /\ prev' = cp
    /\ armed' = "call"
    /\ UNCHANGED <<rb, out, producer, rules>>

\* routeStoppedResultReuse: the result the stop kept is routed without a call.
ResumeReusesResult ==
    /\ pc = "resume"
    /\ cp.stop \in {"guard-recoverable", "quality-gate-recoverable"}
    /\ cp.completed
    /\ ClearResumeCheckpoint
    /\ pc' = IF cp.stop = "guard-recoverable" THEN "accepted" ELSE "gate-repaired"
    /\ cp' = Continuation(cp)
    /\ prev' = cp
    /\ armed' = "route"
    /\ UNCHANGED <<rb, out, producer, rules>>

-----------------------------------------------------------------------------
(* runModel: one call of the worker or the reviewer. *)

IsWorkerCall == cp.stage \in {"worker", "auto-fix"}

PrepareFails ==
    /\ pc = "call"
    /\ UNCHANGED storeVars
    /\ Goto("failed")

SaveCheckpoint ==
    /\ pc = "call"
    /\ SaveResumeCheckpoint(cp)
    /\ Goto("saved")

\* The parent-file guard: before the call it cannot be captured, after it the
\* files changed.
ParentFileStops ==
    /\ pc \in {"call", "saved", "running"}
    /\ IsWorkerCall
    /\ "parent-file" \in Faults
    /\ FailClosed("idle")

\* A stop request between the calls.
InterruptBetweenCalls ==
    /\ pc = "saved"
    /\ EnterStop(SetStopKind(cp, "interrupted"))
    /\ ProcessEnds

\* admitModelMutation: the controller refuses the call, the checkpoint stays.
CallRefused ==
    /\ pc = "saved"
    /\ UNCHANGED storeVars
    /\ Goto("failed")

\* A guard fails before the call is admitted: finalizeModelCallState clears the
\* checkpoint and a parent action that has not run a model yet is rolled back.
PreCallGuardFails ==
    /\ pc = "saved"
    /\ ClearResumeCheckpoint
    /\ Goto(IF rb # NoBegin THEN "rollback" ELSE "failed")

\* Any other error before the admission.
RunnerFails ==
    /\ pc = "saved"
    /\ ClearResumeCheckpoint
    /\ Goto("failed")

AdmitCall ==
    /\ pc = "saved"
    /\ CommitParentActionBegin
    /\ pc' = "running"
    /\ rb' = NoBegin
    /\ UNCHANGED <<cp, prev, armed, out, producer, rules>>

\* Mutant: the checkpoint of an answered call stays on disk.
ModelAcceptedKeepingCheckpoint ==
    /\ pc = "running"
    /\ UNCHANGED storeVars
    /\ pc' = IF IsWorkerCall THEN "accepted" ELSE "reviewed"
    /\ producer' = IF IsWorkerCall THEN "worker" ELSE "reviewer"
    /\ armed' = IF armed = "call" THEN "no" ELSE armed
    /\ prev' = IF armed = "call" THEN NoCheckpoint ELSE prev
    /\ UNCHANGED <<cp, rb, out, rules>>

ModelAccepted ==
    /\ pc = "running"
    /\ ClearResumeCheckpoint
    /\ pc' = IF IsWorkerCall THEN "accepted" ELSE "reviewed"
    /\ producer' = IF IsWorkerCall THEN "worker" ELSE "reviewer"
    /\ armed' = IF armed = "call" THEN "no" ELSE armed
    /\ prev' = IF armed = "call" THEN NoCheckpoint ELSE prev
    /\ UNCHANGED <<cp, rb, out, rules>>

\* A rate limit, a provider that stays away through the recovery probes, a stop
\* request, or a reviewer packet that is not acceptable ("interrupted").
ModelStops(kind) ==
    /\ pc = "running"
    /\ EnterStop(SetStopKind(cp, kind))
    /\ ProcessEnds

GuardCheckpoint(completed) ==
    [SetStopKind(cp, "guard-recoverable") EXCEPT !.completed = completed]

\* A recoverable guard failure keeps the worker's result when it is usable.  A
\* checkpoint that carries an approval cannot hold this stop: EnterStop refuses
\* it and the error leaves the task as it is.
GuardStops(completed) ==
    /\ pc = "running"
    /\ completed => cp.stage = "worker"
    /\ IF ValidStopState(GuardCheckpoint(completed))
       THEN EnterStop(GuardCheckpoint(completed)) /\ ProcessEnds
       ELSE UNCHANGED storeVars /\ Goto("failed")

\* persistResultCorrectionTerminal: the packet stayed invalid through the
\* correction calls.
ResultFormatStops ==
    LET stopped == SetStopKind(cp, "result-format-recoverable") IN
    /\ pc = "running"
    /\ IF ValidStopState(stopped)
       THEN EnterStop(stopped) /\ ProcessEnds
       ELSE UNCHANGED storeVars /\ Goto("failed")

ModelFails ==
    /\ pc = "running"
    /\ ClearResumeCheckpoint
    /\ Goto("failed")

\* A worker packet that does not parse: the checkpoint is left behind.
WorkerFormatFails ==
    /\ pc = "running"
    /\ IsWorkerCall
    /\ UNCHANGED storeVars
    /\ Goto("failed")

\* The error reaches the command: a resume goes back to the stop it came from.
Unwind ==
    /\ pc = "failed"
    /\ IF armed = "no" THEN UNCHANGED storeVars ELSE RestoreResumeStop(prev)
    /\ ProcessEnds

Rollback ==
    /\ pc = "rollback"
    /\ RollbackParentAction(rb)
    /\ ProcessEnds

-----------------------------------------------------------------------------
(* A worker result. *)

\* stopForQualitySurfaceApproval: the worker changed the quality policy surface.
SurfaceNeedsApproval ==
    /\ pc = "accepted"
    /\ EnterQualitySurfaceApprovalWait(
           [cp EXCEPT !.approval = "pending", !.completed = TRUE])
    /\ Announce("NEEDS_SOL_REVIEW", Unbound, "idle")

\* failClosedQualitySurface.  The transition refuses a marker that is not its
\* own to drop; SurfaceReviewNeverRefused says that this does not happen.
SurfaceFailsClosed ==
    /\ pc \in {"accepted", "gate-repaired"}
    /\ WaitForQualitySurfaceReview(cp.phase)
    /\ Announce("NEEDS_SOL_REVIEW", Unbound, "idle")

\* Mutant: the same contract is asked for again and again.
RuleCorrectionRepeated ==
    /\ pc = "accepted"
    /\ rules > 0
    /\ UNCHANGED storeVars
    /\ Goto("call")

\* runWorkerRuleCorrection: the diff needs a contract the worker was not given.
RuleCorrection ==
    /\ pc = "accepted"
    /\ rules > 0
    /\ UNCHANGED storeVars
    /\ pc' = "call"
    /\ rules' = rules - 1
    /\ UNCHANGED <<cp, prev, armed, rb, out, producer>>

ConvergenceFails ==
    /\ pc = "accepted"
    /\ UNCHANGED storeVars
    /\ Goto("failed")

WorkerNeedsDecision ==
    /\ pc = "accepted"
    /\ WaitForDecision
    /\ Announce("NEEDS_SOL_DECISION", Unbound, "idle")

WorkerImplemented ==
    /\ pc \in {"accepted", "gate-repaired"}
    /\ ContinueAfterWorkerResult
    /\ Goto("review")

-----------------------------------------------------------------------------
(* reviewUntilStable. *)

SnapshotFails ==
    /\ pc \in {"review", "reviewed"}
    /\ FailClosed("idle")

\* saveQualityGateStop: the gate itself failed; the worker's result is kept.
QualityGateStops ==
    /\ pc = "review"
    /\ EnterStop([stage |-> "worker", phase |-> cp.phase,
                  decision |-> lastDecision, fixes |-> cp.fixes,
                  stop |-> "quality-gate-recoverable", approval |-> "none",
                  completed |-> TRUE])
    /\ ProcessEnds

QualityViolation ==
    /\ pc = "review"
    /\ UNCHANGED storeVars
    /\ Goto("fix-required")

\* ensureActiveTaskPath and the feasibility gate before a reviewer or an
\* automatic fix.
DispatchGateFails ==
    /\ pc \in {"review", "fix-required"}
    /\ pc = "fix-required" => cp.fixes < MaxAutoFixRounds
    /\ \/ "active-task" \in Faults /\ FailClosed("idle")
       \/ "feasibility" \in Faults /\ FailFeasibility("idle")

ReviewPreparationFails ==
    /\ pc \in {"review", "fix-required"}
    /\ UNCHANGED storeVars
    /\ Goto("failed")

Review ==
    /\ pc = "review"
    /\ UNCHANGED storeVars
    /\ Proceed("call", NewCheckpoint("reviewer", "reviewer", lastDecision, cp.fixes))

ReviewPasses ==
    /\ pc = "reviewed"
    /\ FinishReview("complete")
    /\ Announce("PASS", Unbound, "idle")

\* NEEDS_SOL_REVIEW from the reviewer, or a PASS the HIGH risk floor lifts.
ReviewNeedsParent ==
    /\ pc = "reviewed"
    /\ FinishReview("waiting-sol-review")
    /\ Announce("NEEDS_SOL_REVIEW", Bound, "idle")

ReviewNeedsDecision ==
    /\ pc = "reviewed"
    /\ WaitForDecision
    /\ Announce("NEEDS_SOL_DECISION", Unbound, "idle")

ReviewRequiresFix ==
    /\ pc = "reviewed"
    /\ UNCHANGED storeVars
    /\ Goto("fix-required")

NotConverged ==
    /\ pc = "fix-required"
    /\ cp.fixes >= MaxAutoFixRounds
    /\ FinishReview("waiting-sol-review")
    /\ Announce("NEEDS_SOL_REVIEW", Bound, "idle")

AutoFix ==
    /\ pc = "fix-required"
    /\ cp.fixes < MaxAutoFixRounds
    /\ UNCHANGED storeVars
    /\ Proceed("call", NewCheckpoint("auto-fix", "worker-auto-fix", lastDecision,
                                     cp.fixes + 1))

-----------------------------------------------------------------------------
Crash ==
    /\ pc # "idle"
    /\ "crash" \in Faults
    /\ UNCHANGED storeVars
    /\ ProcessEnds

ParentCommand ==
    \/ NewTask \/ DecisionRejected \/ \E d \in Decisions : Decision(d)
    \/ \E milestone \in BOOLEAN : Fix(milestone)
    \/ MilestoneFixRejected \/ Resume \/ ResumeRejected \/ ResubmitReport
    \/ ApproveSurface \/ ApproveSurfaceUnmeasurable
    \/ Accept \/ Complete \/ RuntimeDisposition
    \/ RecoverParentAction \/ RecoverQualitySurfaceReview

ModelCall ==
    \/ PrepareFails \/ SaveCheckpoint \/ ParentFileStops
    \/ InterruptBetweenCalls \/ CallRefused \/ PreCallGuardFails \/ RunnerFails
    \/ AdmitCall \/ ModelAccepted
    \/ \E kind \in TransientStops : ModelStops(kind)
    \/ \E completed \in BOOLEAN : GuardStops(completed)
    \/ ResultFormatStops \/ ModelFails \/ WorkerFormatFails

WorkflowStep ==
    \/ BeginDecision \/ GateFails \/ SearchFails \/ GatePasses
    \/ ResumeSnapshotFails \/ \E kind \in TransientStops : ResumeProbeStops(kind)
    \/ ResumeProbeFails \/ ResumeContextFails \/ ResumeCalls \/ ResumeReusesResult
    \/ SurfaceNeedsApproval \/ SurfaceFailsClosed \/ RuleCorrection
    \/ ConvergenceFails \/ WorkerNeedsDecision \/ WorkerImplemented
    \/ SnapshotFails \/ QualityGateStops \/ QualityViolation
    \/ DispatchGateFails \/ ReviewPreparationFails \/ Review \/ ReviewPasses
    \/ ReviewNeedsParent \/ ReviewNeedsDecision \/ ReviewRequiresFix
    \/ NotConverged \/ AutoFix
    \/ Emit \/ Unwind \/ Rollback

Process == ModelCall \/ WorkflowStep

Init ==
    /\ StoreInit
    /\ pc = "idle"
    /\ cp = NoCheckpoint /\ prev = NoCheckpoint /\ armed = "no"
    /\ rb = NoBegin /\ out = NoPacket /\ producer = "none" /\ rules = 0

Next == ParentCommand \/ Process \/ Crash

Spec == Init /\ [][Next]_vars

\* A process that runs takes its next step: model calls are bounded by their
\* timeouts and waits by their deadlines.  Nothing obliges the parent.
FairSpec == Spec /\ WF_vars(Process)

-----------------------------------------------------------------------------
(* Properties. *)

\* Every file and every process variable keeps its shape; a finished process
\* leaves no memory behind (the process model of glm-worker).
TypeOK ==
    /\ StoreTypeOK
    /\ pc \in Steps
    /\ cp \in Checkpoints \union {NoCheckpoint}
    /\ prev \in Checkpoints \union {NoCheckpoint}
    /\ armed \in {"no", "call", "route"}
    /\ rb \in Begins \union {NoBegin}
    /\ out \in Packets
    /\ producer \in {"none", "worker", "reviewer"}
    /\ rules \in 0..MaxRules

\* A stopped task always has the checkpoint of exactly that stop, in a form the
\* store can load again (EnterStop, RestoreResumeStop, BeginResume), whatever
\* gate rejected a command or wherever a process died in between.
StopIsResumable ==
    status \in StopKinds => resume.stop = status /\ ValidStopState(resume)

\* A task that waits for its parent, or is done, carries no stop: otherwise the
\* plan would refuse every command (waitingReviewActionPlan and its siblings).
WaitCarriesNoStop ==
    status \in {"waiting-decision", "waiting-sol-review",
                "awaiting-parent-completion", "complete"} => ~IsStopped(resume)

\* A task that waits for a decision has the marker the plan and
\* BeginParentDecision ask for.
DecisionWaitHasMarker == status = "waiting-decision" => pending

\* A stop that keeps the marker is a stop the pending decision continues, so
\* that resume is still offered (pendingDecisionContinuesCheckpoint).
PendingStopContinues ==
    status \in StopKinds /\ pending => PendingDecisionContinues(resume)

\* Once a model has been admitted the begin record is gone for the rest of the
\* process, so that no recovery can take back work a model has already done
\* (CommitParentActionBegin).
NoBeginBehindModel ==
    pc = "running" \/ producer # "none" => begin = NoBegin

\* The approval a stopped checkpoint carries has been activated: the branch of
\* the resume that restores a pending approval wait is not needed by tasks that
\* only ever ran this code (prepareQualitySurfaceApprovalResume).
StoppedApprovalIsActivated ==
    status \in StopKinds => resume.approval # "pending"

\* The marker of a decision that is still there when a worker's result is routed
\* belongs to the decision that worker was given, so that failing closed on the
\* quality surface is never refused and the task never stays behind active
\* (verifyPendingDecisionContinuation).
SurfaceReviewNeverRefused ==
    pc \in {"accepted", "gate-repaired"} /\ pending =>
        cp.phase = "worker-decision" /\ lastDecision # NoDecision

\* When no process runs, the files of a task that is not active agree with each
\* other: the parent always has a plan (ParentActionPlan).
PlanConsistent == pc = "idle" /\ status # "active" => LifecycleConsistent

\* A command that a gate rejected can be given again once the cause is repaired:
\* a task that waits for a decision or is stopped keeps offering that command
\* (externalFeasibilityFailClosedResult says so to the parent).
RejectedEntrypointStaysOpen ==
    pc = "idle" =>
        /\ status = "waiting-decision" => Allows("decision")
        /\ status \in StopKinds => Allows("resume") \/ Allows("resubmit-report")

\* When the plan offers fix, the fix can begin (saveParentActionBegin).
AllowedFixBegins == pc = "idle" /\ Allows("fix") => CanBeginFix

\* A task left active by a parent action that never reached a model can be taken
\* back with --recover-parent-action.
BeginIsRecoverable ==
    pc = "idle" /\ status = "active" /\ begin # NoBegin => CanRecoverParentAction

\* A resume that fails goes back to its stop: no stopped checkpoint is left under
\* an active task, where no command of the parent is admitted
\* (handleResumeRunError, RestoreResumeStop, inactiveParentActionPlan).
ActiveCarriesNoStop == pc = "idle" /\ status = "active" => ~IsStopped(resume)

\* The marker of a pending decision is dropped only by the continuation that
\* works on the decision last given, or with the whole task (EnterStop,
\* ContinueAfterWorkerResult, WaitForQualitySurfaceReview).
DecisionIsConsumedOnce ==
    [][pending /\ ~pending' =>
           \/ cp.phase = "worker-decision" /\ cp.decision = lastDecision
              /\ lastDecision # NoDecision
           \/ pc = "idle" /\ status = "user-terminated"]_vars

\* A new task never replaces work the parent still has to answer for: no open
\* review, no pending decision, no stop and no unfinished parent action unless
\* the task was ended on purpose (AdmitNewTask, StartNewTask).
NewTaskDropsNothing ==
    [][pc = "idle" /\ pc' = "gate" /\ cp'.phase = "worker-new" =>
           \/ status = "user-terminated"
           \/ review = NoReview /\ ~pending /\ ~IsStopped(resume) /\ begin = NoBegin]_vars

\* The contract with the parent (module TaskContract) under the mapping of the
\* statuses to turns; the marker file is the open question.
Turn ==
    CASE status = "active" -> "working"
      [] status = "waiting-decision" -> "asking"
      [] status = "waiting-sol-review" -> "handed-over"
      [] status = "awaiting-parent-completion" -> "accepted"
      [] status = "complete" -> "done"
      [] status = "user-terminated" -> "abandoned"
      [] status \in StopKinds -> "stopped"
      [] OTHER -> "none"

Contract == INSTANCE TaskContract WITH phase <- Turn, question <- pending

\* The workflow and the store implement the contract as long as no
\* parent-managed file changes under a call: the turn passes as promised and no
\* question is dropped or left open behind the parent's back.
ImplementsContract == Contract!ContractSpec

\* Every command ends: the loops of corrections, reviews and automatic fixes
\* are bounded and no step waits for the parent.
CommandEnds == pc # "idle" ~> pc = "idle"

-----------------------------------------------------------------------------
(* The inductive invariant behind the safety properties. *)

\* The steps of a process that works on an active task, and those among them that
\* route a result: no call is in flight and no checkpoint is on disk.
RoutingSteps == {"accepted", "gate-repaired", "review", "reviewed", "fix-required"}
ActiveSteps == {"gate", "search", "resume", "call", "saved", "running", "failed"}
               \union RoutingSteps

\* A process that works has the checkpoint of the call in hand.
CallInHand == pc \in ActiveSteps \union {"begin"} => cp \in Checkpoints

\* What a process knows of the files it shares with the next one.
ProcessFollowsStore ==
    /\ pc \in ActiveSteps => status = "active"
    /\ pc \in RoutingSteps => resume = NoCheckpoint
    /\ pc \in {"gate", "search", "rollback"} => ~IsStopped(resume)
    /\ pc = "emit" /\ out.next = "rollback" => ~IsStopped(resume)
    /\ pc \in {"idle", "begin"} => producer = "none"

\* A parent action that began from a decision restores its marker.
BeginKeepsMarker ==
    /\ begin.source = "waiting-decision" => begin.pending
    /\ rb.source = "waiting-decision" => rb.pending

\* A process that emits has the packet the task moved for.
PacketInHand == pc = "emit" => out # NoPacket

TypeInv == TypeOK /\ CallInHand /\ PacketInHand

\* The safety properties together with what makes them inductive: what a process
\* knows of the files agrees with them at every step, also when the process dies
\* there (runModel, executeResume, handleResumeRunError).
SafetyInv ==
    /\ TypeInv
    /\ ProcessFollowsStore
    /\ BeginKeepsMarker
    /\ StopIsResumable
    /\ WaitCarriesNoStop
    /\ DecisionWaitHasMarker
    /\ NoBeginBehindModel

=============================================================================
