--------------------------- MODULE CanonicalMutation ---------------------------
(* The controller's authority over one live execution (internal/controller and
   its callers in internal/workflow): the head with its generation, the leases,
   the admission of a mutating model call as a journalled transition, the
   recording of what the call or the quality gate changed, the staged intent of
   a quality fix, and the controller's fail-closed state.

   The workflow, alone under the workflow lock, runs model calls, the quality
   gate and the recovery of a pending transition. Observers (the continuation
   projection, the authority bootstrap) resolve the live execution without that
   lock, and settle a staged quality fix when they meet one. Whatever writes
   does it under the controller's mutation lock, one file after the other;
   either process can die between two writes. *)
EXTENDS Integers, FiniteSets

CONSTANTS
    Snaps,     \* workspace snapshots
    Base,      \* the snapshot the execution was bootstrapped from
    MaxIds,    \* leases written in a behaviour
    MaxFaults  \* crashes and edits of the workspace by hand

ASSUME MutationAssumption ==
    /\ Base \in Snaps
    /\ MaxIds \in Nat \ {0}
    /\ MaxFaults \in Nat

VARIABLES
    head,    \* head.json
    lease,   \* the lease files
    ids,     \* identities handed out
    muts,    \* the mutation records
    op,      \* the last journalled model-call admission
    phase,   \* its transition state
    intent,  \* the staged quality mutation
    ws,      \* the workspace
    lock,    \* who holds the mutation lock
    pc, kind, adm, new, after,  \* the processes' memory
    faults

files == <<head, lease, ids, muts, op, phase, intent>>
vars == <<files, ws, lock, pc, kind, adm, new, after, faults>>

W == "workflow"
O == "observer"
Procs == {W, O}
Nobody == "nobody"
None == "none"

Ids == 1..MaxIds
Image == Snaps \cup {None}
NoLease == [gen |-> 0, snap |-> None, call |-> FALSE]
Admissions == [gen : Nat, lease : 0..MaxIds, snap : Image]
NoAdmission == [gen |-> 0, lease |-> 0, snap |-> None]
NoIntent == [src |-> NoAdmission, out |-> None]

TypeOK ==
    /\ head \in [gen : Nat, active : BOOLEAN, pending : BOOLEAN, lease : 0..MaxIds]
    /\ lease \in [Ids -> [gen : Nat, snap : Image, call : BOOLEAN]]
    /\ ids \in 0..MaxIds
    /\ muts \subseteq [src : Ids, tgt : Ids, gen : Nat, quality : BOOLEAN, after : Snaps]
    /\ op \in [src : Admissions, tgt : 0..MaxIds]
    /\ phase \in {"none", "prepared", "applied", "committed", "finalizing",
                  "finalized", "failed"}
    /\ intent \in [src : Admissions, out : Image]
    /\ ws \in Snaps
    /\ lock \in Procs \cup {Nobody}
    /\ kind \in {"model", "readonly", "quality", "recover"}
    /\ adm \in [Procs -> Admissions]
    /\ new \in [Procs -> 0..MaxIds]
    /\ after \in [Procs -> Image]
    /\ faults \in 0..MaxFaults

(* bootstrapFreshExecution has made the first attempt, lease and generation. *)
Init ==
    /\ head = [gen |-> 1, active |-> TRUE, pending |-> FALSE, lease |-> 1]
    /\ lease = [i \in Ids |-> IF i = 1
                    THEN [gen |-> 1, snap |-> Base, call |-> FALSE] ELSE NoLease]
    /\ ids = 1
    /\ muts = {}
    /\ op = [src |-> NoAdmission, tgt |-> 0]
    /\ phase = "none"
    /\ intent = NoIntent
    /\ ws = Base
    /\ lock = Nobody
    /\ pc = [p \in Procs |-> "idle"]
    /\ kind = "model"
    /\ adm = [p \in Procs |-> NoAdmission]
    /\ new = [p \in Procs |-> 0]
    /\ after = [p \in Procs |-> None]
    /\ faults = 0

--------------------------------------------------------------------------------
(* The processes' steps. *)

At(p, label) == pc[p] = label
Goto(p, label) == pc' = [pc EXCEPT ![p] = label]

(* The process takes the free mutation lock; it gives it back when it ends. *)
Acquire(p) == lock = Nobody /\ lock' = p
Holds(p) == lock = p
Release(p) == lock' = Nobody

(* A command ends and forgets; the lock is freed if it was held. *)
End(p) ==
    /\ Goto(p, "idle")
    /\ adm' = [adm EXCEPT ![p] = NoAdmission]
    /\ new' = [new EXCEPT ![p] = 0]
    /\ after' = [after EXCEPT ![p] = None]
    /\ lock' = IF lock = p THEN Nobody ELSE lock
    /\ UNCHANGED kind

Fresh == ids < MaxIds
NewId(p) ==
    /\ Fresh
    /\ ids' = ids + 1
    /\ new' = [new EXCEPT ![p] = ids + 1]

(* AdmitMutation: the claim is the head's, and the lease and the snapshot the
   caller captured agree with it. *)
Claims(a) == a.gen = head.gen /\ a.lease = head.lease /\ head.lease # 0
Admits(a) ==
    /\ head.active /\ ~head.pending
    /\ Claims(a)
    /\ lease[a.lease].gen = head.gen
    /\ lease[a.lease].snap = a.snap

(* A command of the workflow begins with the authority of the head and the
   workspace as they are: nobody else moves either while it runs. *)
Begin(k) ==
    /\ At(W, "idle")
    /\ head.lease # 0
    /\ k # "recover"
    /\ kind' = k
    /\ adm' = [adm EXCEPT ![W] = [gen |-> head.gen, lease |-> head.lease, snap |-> ws]]
    /\ Goto(W, "admit")
    /\ UNCHANGED <<files, ws, lock, new, after, faults>>

(* An observer reads the head first and captures the workspace later. *)
Observe ==
    /\ At(O, "idle")
    /\ head.lease # 0
    /\ adm' = [adm EXCEPT ![O] = [gen |-> head.gen, lease |-> head.lease, snap |-> None]]
    /\ Goto(O, "capture")
    /\ UNCHANGED <<files, ws, lock, kind, new, after, faults>>

Capture ==
    /\ At(O, "capture")
    /\ adm' = [adm EXCEPT ![O].snap = ws]
    /\ Goto(O, "admit")
    /\ UNCHANGED <<files, ws, lock, kind, new, after, faults>>

(* An admitted model call is bound to its lease before it runs, unless it is
   read-only; the quality gate stages its intent. *)
AdmittedStep ==
    CASE kind = "model"    -> "bind"
      [] kind = "readonly" -> "read"
      [] OTHER             -> "stage"

Admitted(p) ==
    /\ At(p, "admit")
    /\ Admits(adm[p])
    /\ IF p = O THEN End(O)
       ELSE /\ Goto(W, AdmittedStep)
            /\ UNCHANGED <<lock, kind, adm, new, after>>
    /\ UNCHANGED <<files, ws, faults>>

NotAdmitted(p) ==
    /\ At(p, "admit")
    /\ ~Admits(adm[p])
    /\ Goto(p, "settle")
    /\ UNCHANGED <<files, ws, lock, kind, adm, new, after, faults>>

--------------------------------------------------------------------------------
(* Settling a staged quality fix whose recording was interrupted. *)

Covers(a) ==
    /\ intent # NoIntent /\ intent.out # None
    /\ Claims(a)
    /\ intent.src.lease = head.lease /\ intent.src.gen = head.gen
    /\ intent.out = a.snap

QualityRecords(id) == {m \in muts : m.src = id /\ m.quality}

\* Mutant: the staged output alone tells whose fix the workspace is.
SettlesBySnapshot(a) ==
    intent # NoIntent /\ intent.out # None /\ intent.out = a.snap /\ head.active

\* Mutant: a fix that is already recorded is not settled again.
SettlesUnrecorded(a) ==
    /\ Covers(a)
    /\ Admits(intent.src)
    /\ QualityRecords(intent.src.lease) = {}

(* The intent's admission is replayed, and nothing recorded contradicts it. *)
Settles(a) ==
    /\ Covers(a)
    /\ Admits(intent.src)
    /\ \/ QualityRecords(intent.src.lease) = {}
       \/ \E m \in QualityRecords(intent.src.lease) : m.after = intent.out

(* A record that a dead process left for another fix of the same lease: the
   first record found decides, and the order of the files is arbitrary. *)
Contradicted == \E m \in QualityRecords(intent.src.lease) : m.after # intent.out

(* The record of the mutation is written, or the one a dead process left is
   completed under the identity it names. *)
Settle(p) ==
    /\ At(p, "settle")
    /\ Acquire(p)
    /\ Settles(adm[p])
    /\ after' = [after EXCEPT ![p] = intent.out]
    /\ IF QualityRecords(intent.src.lease) = {}
       THEN /\ NewId(p)
            /\ Goto(p, "settleMutation")
       ELSE /\ \E m \in QualityRecords(intent.src.lease) :
                 m.after = intent.out /\ new' = [new EXCEPT ![p] = m.tgt]
            /\ Goto(p, "settleLease")
            /\ UNCHANGED ids
    /\ UNCHANGED <<head, lease, muts, op, phase, intent, ws, kind, adm, faults>>

(* The workspace is neither what the lease expects nor a staged fix: the
   workflow fails the controller closed, an observer reports an error. *)
Unattributed ==
    /\ head.active
    /\ Claims(adm[W])
    /\ lease[head.lease].snap # adm[W].snap

CannotSettle(p) ==
    /\ At(p, "settle")
    /\ lock = Nobody
    /\ ~Settles(adm[p]) \/ Contradicted
    /\ IF p = W /\ Unattributed
       THEN Goto(W, "failUnattributed") /\ lock' = W /\ UNCHANGED <<kind, adm, new, after>>
       ELSE End(p)
    /\ UNCHANGED <<files, ws, faults>>

(* failClosedLocked: the generation moves on and the lease is dropped. *)
FailHead ==
    /\ head' = [head EXCEPT !.gen = @ + 1, !.active = FALSE, !.lease = 0]
    /\ UNCHANGED <<lease, ids, muts, op, intent>>

FailUnattributed ==
    /\ At(W, "failUnattributed")
    /\ FailHead
    /\ End(W)
    /\ UNCHANGED <<phase, ws, faults>>

--------------------------------------------------------------------------------
(* recordMutationLocked: the record, the next lease, the head. *)

Record(p, quality) ==
    muts' = muts \cup {[src |-> head.lease, tgt |-> new[p], gen |-> head.gen + 1,
                        quality |-> quality, after |-> after[p]]}

WriteMutation(p) ==
    /\ pc[p] \in {"mutation", "settleMutation"}
    /\ Record(p, pc[p] = "settleMutation" \/ kind = "quality")
    /\ Goto(p, IF pc[p] = "mutation" THEN "lease" ELSE "settleLease")
    /\ UNCHANGED <<head, lease, ids, op, phase, intent, ws, lock, kind, adm, new, after,
                   faults>>

WriteLease(p) ==
    /\ pc[p] \in {"lease", "settleLease"}
    /\ lease' = [lease EXCEPT ![new[p]] =
                    [gen |-> head.gen + 1, snap |-> after[p], call |-> FALSE]]
    /\ Goto(p, IF pc[p] = "lease" THEN "head" ELSE "settleHead")
    /\ UNCHANGED <<head, ids, muts, op, phase, intent, ws, lock, kind, adm, new, after,
                   faults>>

(* A recorded fix is cleared next, under a lock of its own; a recorded call is
   the end of the command; a settled fix drops its intent. *)
WriteHead(p) ==
    /\ pc[p] \in {"head", "settleHead"}
    /\ head' = [head EXCEPT !.gen = @ + 1, !.lease = new[p]]
    /\ IF pc[p] = "settleHead"
       THEN Goto(p, "dropIntent") /\ UNCHANGED <<lock, kind, adm, new, after>>
       ELSE IF kind = "quality"
       THEN Goto(p, "clear") /\ Release(p) /\ UNCHANGED <<kind, adm, new, after>>
       ELSE End(p)
    /\ UNCHANGED <<lease, ids, muts, op, phase, intent, ws, faults>>

DropIntent(p) ==
    /\ At(p, "dropIntent")
    /\ intent' = NoIntent
    /\ LET a == [gen |-> head.gen, lease |-> head.lease, snap |-> adm[p].snap]
       IN IF p = W /\ Admits(a)
          THEN /\ adm' = [adm EXCEPT ![W] = a]
               /\ Goto(W, AdmittedStep)
               /\ Release(W)
               /\ UNCHANGED <<kind, new, after>>
          ELSE End(p)
    /\ UNCHANGED <<head, lease, ids, muts, op, phase, ws, faults>>

--------------------------------------------------------------------------------
(* BindModelCall: the admission of a mutating model call, as a transition. *)

Bind ==
    /\ At(W, "bind")
    /\ Acquire(W)
    /\ ~lease[adm[W].lease].call
    /\ Admits(adm[W])
    /\ NewId(W)
    /\ Goto(W, "bindLease")
    /\ UNCHANGED <<head, lease, muts, op, phase, intent, ws, kind, adm, after, faults>>

(* A lease whose call never came back, or a stale admission, ends the command. *)
BindRefused ==
    /\ At(W, "bind")
    /\ lock = Nobody
    /\ lease[adm[W].lease].call \/ ~Admits(adm[W])
    /\ End(W)
    /\ UNCHANGED <<files, ws, faults>>

(* The target lease is written quiescent, then again with the call. *)
BindLease(call) ==
    /\ At(W, IF call THEN "bindCall" ELSE "bindLease")
    /\ lease' = [lease EXCEPT ![new[W]] =
                    [gen |-> head.gen + 3, snap |-> adm[W].snap, call |-> call]]
    /\ Goto(W, IF call THEN "prepare" ELSE "bindCall")
    /\ UNCHANGED <<head, ids, muts, op, phase, intent, ws, lock, kind, adm, new, after,
                   faults>>

(* The operation, its record and its phase, three files that nobody reads
   before the head names the transition. *)
Prepare ==
    /\ At(W, "prepare")
    /\ op' = [src |-> adm[W], tgt |-> new[W]]
    /\ phase' = "prepared"
    /\ Goto(W, "prepareHead")
    /\ UNCHANGED <<head, lease, ids, muts, intent, ws, lock, kind, adm, new, after, faults>>

PrepareHead ==
    /\ At(W, "prepareHead")
    /\ head' = [head EXCEPT !.gen = @ + 1, !.pending = TRUE]
    /\ Goto(W, "apply")
    /\ UNCHANGED <<lease, ids, muts, op, phase, intent, ws, lock, kind, adm, new, after,
                   faults>>

(* The recovery of a transition: the head's generation tells how far it came. *)
Prepared == head.pending /\ head.gen = op.src.gen + 1 /\ head.lease = op.src.lease
CommittedOp ==
    /\ head.lease = op.tgt
    /\ ws = op.src.snap
    /\ \/ head.pending /\ head.gen = op.src.gen + 2
       \/ ~head.pending /\ head.gen = op.src.gen + 3

Recover ==
    /\ At(W, "idle")
    /\ op.tgt # 0
    /\ Acquire(W)
    /\ kind' = "recover"
    /\ IF ~head.active THEN Goto(W, "recovered")
       ELSE IF CommittedOp /\ ~head.pending
            THEN Goto(W, IF phase \in {"committed", "finalizing"} THEN "finalPhase"
                         ELSE "recovered")
       ELSE IF CommittedOp
            THEN Goto(W, IF phase \in {"prepared", "applied"} THEN "commitPhase"
                         ELSE IF phase \in {"committed", "finalizing"} THEN "finalizing"
                         ELSE "recovered")
       ELSE Goto(W, IF Prepared THEN "apply" ELSE "recovered")
    /\ UNCHANGED <<files, ws, adm, new, after, faults>>

(* The workspace must still be the admitted one, else the transition stays. *)
Apply ==
    /\ At(W, "apply")
    /\ IF Prepared /\ ws = op.src.snap /\ phase \in {"prepared", "applied"}
       THEN phase' = "applied" /\ Goto(W, "commitHead") /\ UNCHANGED <<lock, kind, adm, new, after>>
       ELSE End(W) /\ UNCHANGED phase
    /\ UNCHANGED <<head, lease, ids, muts, op, intent, ws, faults>>

CommitHead ==
    /\ At(W, "commitHead")
    /\ head' = [head EXCEPT !.gen = op.src.gen + 2, !.lease = op.tgt]
    /\ Goto(W, "commitPhase")
    /\ UNCHANGED <<lease, ids, muts, op, phase, intent, ws, lock, kind, adm, new, after,
                   faults>>

CommitPhase ==
    /\ At(W, "commitPhase")
    /\ phase' = "committed"
    /\ Goto(W, "finalizing")
    /\ UNCHANGED <<head, lease, ids, muts, op, intent, ws, lock, kind, adm, new, after,
                   faults>>

\* Mutant: the phase is final before the head is.
FinalizingEarly ==
    /\ At(W, "finalizing")
    /\ phase' = "finalized"
    /\ Goto(W, "finalHead")
    /\ UNCHANGED <<head, lease, ids, muts, op, intent, ws, lock, kind, adm, new, after,
                   faults>>

Finalizing ==
    /\ At(W, "finalizing")
    /\ phase' = "finalizing"
    /\ Goto(W, "finalHead")
    /\ UNCHANGED <<head, lease, ids, muts, op, intent, ws, lock, kind, adm, new, after,
                   faults>>

FinalHead ==
    /\ At(W, "finalHead")
    /\ head' = [head EXCEPT !.gen = op.src.gen + 3, !.pending = FALSE]
    /\ Goto(W, "finalPhase")
    /\ UNCHANGED <<lease, ids, muts, op, phase, intent, ws, lock, kind, adm, new, after,
                   faults>>

FinalPhase ==
    /\ At(W, "finalPhase")
    /\ phase' = "finalized"
    /\ Goto(W, "recovered")
    /\ UNCHANGED <<head, lease, ids, muts, op, intent, ws, lock, kind, adm, new, after,
                   faults>>

(* The new authority is admitted once more; a command that only recovers ends. *)
Recovered ==
    /\ At(W, "recovered")
    /\ LET a == [gen |-> head.gen, lease |-> head.lease, snap |-> ws]
       IN IF kind = "model" /\ Admits(a)
          THEN /\ adm' = [adm EXCEPT ![W] = a]
               /\ Goto(W, "run")
               /\ Release(W)
               /\ UNCHANGED <<kind, new, after>>
          ELSE End(W)
    /\ UNCHANGED <<files, ws, faults>>

--------------------------------------------------------------------------------
(* The model call and the quality gate change the workspace. *)

Change(snap) ==
    /\ pc[W] \in {"run", "read", "gate"}
    /\ snap # ws
    /\ ws' = snap
    /\ UNCHANGED <<files, lock, pc, kind, adm, new, after, faults>>

CallReturns ==
    /\ At(W, "run")
    /\ after' = [after EXCEPT ![W] = ws]
    /\ Goto(W, "record")
    /\ UNCHANGED <<files, ws, lock, kind, adm, new, faults>>

(* A read-only call records nothing, and must have changed nothing. *)
ReadReturns ==
    /\ At(W, "read")
    /\ IF ws = adm[W].snap
       THEN End(W)
       ELSE Goto(W, "failCall") /\ UNCHANGED <<lock, kind, adm, new, after>>
    /\ UNCHANGED <<files, ws, faults>>

(* A call that broke the repository's guard is not recorded. *)
CallViolates ==
    /\ pc[W] \in {"run", "read"}
    /\ Goto(W, "failCall")
    /\ UNCHANGED <<files, ws, lock, kind, adm, new, after, faults>>

FailCall ==
    /\ At(W, "failCall")
    /\ lock = Nobody
    /\ IF head.active /\ head.lease = adm[W].lease /\ head.gen = adm[W].gen
       THEN FailHead /\ phase' = IF head.pending THEN "failed" ELSE phase
       ELSE UNCHANGED files
    /\ End(W)
    /\ UNCHANGED <<ws, faults>>

\* Mutant: the lease and the head are written without the record.
StartRecordLeaseFirst ==
    /\ At(W, "record")
    /\ Acquire(W)
    /\ Admits(adm[W])
    /\ NewId(W)
    /\ Goto(W, "lease")
    /\ UNCHANGED <<head, lease, muts, op, phase, intent, ws, kind, adm, after, faults>>

StartRecord ==
    /\ At(W, "record")
    /\ Acquire(W)
    /\ Admits(adm[W])
    /\ NewId(W)
    /\ Goto(W, "mutation")
    /\ UNCHANGED <<head, lease, muts, op, phase, intent, ws, kind, adm, after, faults>>

(* The admission is stale: the error names what is left of the mutation. *)
RecordRefused ==
    /\ At(W, "record")
    /\ lock = Nobody
    /\ ~Admits(adm[W])
    /\ Goto(W, "refused")
    /\ UNCHANGED <<files, ws, lock, kind, adm, new, after, faults>>

ReportRefused ==
    /\ At(W, "refused")
    /\ End(W)
    /\ UNCHANGED <<files, ws, faults>>

(* StageQualityMutation: an intent of the same admission is kept, a settled one
   of another is removed first, an unsettled one is in the way. *)
Settled ==
    \/ head.lease # intent.src.lease
    \/ head.gen # intent.src.gen
    \/ QualityRecords(intent.src.lease) # {}

Stage ==
    /\ At(W, "stage")
    /\ lock = Nobody
    /\ IF intent # NoIntent /\ intent.src = adm[W]
       THEN Goto(W, "gate") /\ UNCHANGED <<intent, lock, kind, adm, new, after>>
       ELSE IF intent = NoIntent
       THEN Goto(W, "stageIntent") /\ lock' = W /\ UNCHANGED <<intent, kind, adm, new, after>>
       ELSE IF Settled
       THEN /\ intent' = NoIntent
            /\ Goto(W, "stageIntent") /\ lock' = W /\ UNCHANGED <<kind, adm, new, after>>
       ELSE End(W) /\ UNCHANGED intent
    /\ UNCHANGED <<head, lease, ids, muts, op, phase, ws, faults>>

StageIntent ==
    /\ At(W, "stageIntent")
    /\ intent' = [src |-> adm[W], out |-> None]
    /\ Release(W)
    /\ Goto(W, "gate")
    /\ UNCHANGED <<head, lease, ids, muts, op, phase, ws, kind, adm, new, after, faults>>

(* The gate reports fixes with their provenance, or none; a change without a
   fix is an error that leaves the intent where it is. *)
GateFixed ==
    /\ At(W, "gate")
    /\ ws # adm[W].snap
    /\ after' = [after EXCEPT ![W] = ws]
    /\ Goto(W, "preserve")
    /\ UNCHANGED <<files, ws, lock, kind, adm, new, faults>>

GateFixedNothing ==
    /\ At(W, "gate")
    /\ IF ws = adm[W].snap
       THEN Goto(W, "clear") /\ UNCHANGED <<lock, kind, adm, new, after>>
       ELSE End(W)
    /\ UNCHANGED <<files, ws, faults>>

Preserve ==
    /\ At(W, "preserve")
    /\ lock = Nobody
    /\ IF intent.src = adm[W] /\ intent.out \in {None, after[W]}
       THEN /\ intent' = [intent EXCEPT !.out = after[W]]
            /\ Goto(W, "record")
            /\ UNCHANGED <<lock, kind, adm, new, after>>
       ELSE End(W) /\ UNCHANGED intent
    /\ UNCHANGED <<head, lease, ids, muts, op, phase, ws, faults>>

ClearIntent ==
    /\ At(W, "clear")
    /\ lock = Nobody
    /\ intent' = IF intent.src = adm[W] THEN NoIntent ELSE intent
    /\ End(W)
    /\ UNCHANGED <<head, lease, ids, muts, op, phase, ws, faults>>

--------------------------------------------------------------------------------
(* The environment: a process dies, somebody edits the workspace. *)

Crash(p) ==
    /\ pc[p] # "idle"
    /\ faults < MaxFaults
    /\ faults' = faults + 1
    /\ End(p)
    /\ UNCHANGED <<files, ws>>

Edit(snap) ==
    /\ At(W, "idle")
    /\ faults < MaxFaults
    /\ faults' = faults + 1
    /\ snap # ws
    /\ ws' = snap
    /\ UNCHANGED <<files, lock, pc, kind, adm, new, after>>

Shared(p) ==
    \/ Admitted(p) \/ NotAdmitted(p) \/ Settle(p) \/ CannotSettle(p)
    \/ WriteMutation(p) \/ WriteLease(p) \/ WriteHead(p) \/ DropIntent(p)

Call ==
    \/ Bind \/ BindRefused \/ BindLease(FALSE) \/ BindLease(TRUE) \/ Prepare
    \/ PrepareHead \/ Apply \/ CommitHead \/ CommitPhase \/ Finalizing \/ FinalHead
    \/ FinalPhase \/ Recovered \/ CallReturns \/ ReadReturns
    \/ CallViolates \/ FailCall

Fix ==
    \/ Stage \/ StageIntent \/ GateFixed \/ GateFixedNothing \/ Preserve \/ ClearIntent

Next ==
    \/ \E k \in {"model", "readonly", "quality"} : Begin(k)
    \/ Recover
    \/ Observe \/ Capture
    \/ \E p \in Procs : Shared(p) \/ Crash(p)
    \/ Call \/ Fix
    \/ FailUnattributed \/ StartRecord \/ RecordRefused \/ ReportRefused
    \/ \E snap \in Snaps : Change(snap) \/ Edit(snap)

Spec == Init /\ [][Next]_vars

--------------------------------------------------------------------------------
(* Properties. *)

(* While a model call runs and until its outcome is recorded, nobody supersedes
   the lease it was admitted with: an observer settling an older fix, a crashed
   process's journal or a stale intent cannot make the recording fail. *)
CallKeepsItsLease ==
    pc[W] \in {"run", "record", "failCall", "mutation", "lease", "head"} /\ kind = "model" =>
        Admits(adm[W])

(* Wherever the workflow died, a pending admission of an unchanged workspace
   can be recovered: the phase file and the head's generation agree. *)
PendingIsRecoverable ==
    head.active /\ head.pending /\ ws = op.src.snap =>
        \/ Prepared /\ phase \in {"prepared", "applied"}
        \/ CommittedOp /\ phase \in {"prepared", "applied", "committed", "finalizing"}

(* The controller never fails closed over a quality fix whose provenance was
   preserved: it is settled instead, however far its recording had come and
   whoever settles it. The one exception the code makes is a record that an
   earlier fix of the same lease left behind, when that fix was reverted by
   hand and its intent cleared. *)
PreservedFixIsSettled ==
    [][At(W, "settle") /\ pc'[W] = "failUnattributed" =>
          ~Covers(adm[W]) \/ Contradicted]_vars

(* The head moves to another lease over the same snapshot, or over the one a
   mutation record on disk attributes to this very step, whoever writes it and
   however often the recording was interrupted and completed. *)
MovesAreAttributed ==
    [][head'.active /\ head'.lease # head.lease =>
          \/ lease[head'.lease].snap = lease[head.lease].snap
          \/ \E m \in muts : /\ m.src = head.lease /\ m.tgt = head'.lease
                             /\ m.gen = head'.gen
                             /\ m.after = lease[head'.lease].snap]_vars

(* What the error of a refused recording says: the preserved provenance stays
   on the staged controller intent. *)
RefusedFixStaysStaged ==
    At(W, "refused") /\ kind = "quality" => intent.src = adm[W]
================================================================================
