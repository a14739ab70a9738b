----------------------------- MODULE Publication -----------------------------
(* The publication of accepted candidates (controller/publication_*.go and
   terminal_*.go): a candidate commit is accepted on the integration tip,
   promoted to the local branch, pushed and its task retired, while anybody may
   push to the same remote branch, pull it, or kill the controller. Each
   operation is a journaled transition: a plan, its git effects, the commit of
   the head, and a recovery that finishes or aborts what a dead process left.

   A commit is the sequence of changes it contains, so that an ancestor is a
   prefix. One controller process runs at a time (the mutation lock). How the
   operation, its phase file and the head are prepared file by file is the
   subject of CanonicalMutation; here preparing is one step. *)
EXTENDS Integers, Sequences, FiniteSets, SequencesExt

CONSTANTS
    MaxExt,     \* commits of others
    MaxCands,   \* candidate commits of the controller
    MaxCrashes  \* crashes of the controller

ASSUME PublicationAssumption == MaxExt \in Nat /\ MaxCands \in Nat /\ MaxCrashes \in Nat

VARIABLES
    head,     \* the controller head
    op,       \* the last operation journaled
    phase,    \* its phase file
    comp,     \* the completion progress in that file
    local,    \* the local branch
    remote,   \* the branch of the configured upstream
    tips,     \* history: the furthest commits the upstream has pointed at
    flights,  \* pushes on their way to the upstream
    acked,    \* history: candidates whose runtime was told they are published
    pc,       \* where the controller process is
    view,     \* the remote tip it observed
    exts, cands, crashes,
    rewritten \* the upstream dropped commits: at most once in a behaviour

journal == <<op, phase, comp>>
bounds == <<exts, cands, crashes, rewritten>>
vars == <<head, journal, local, remote, tips, flights, acked, pc, view, bounds>>

Root == <<>>
Ext(n) == <<"x", n>>
Cand(n) == <<"c", n>>
None == << <<"none", 0>> >>      \* an empty commit id
NoCand == [base |-> None, commit |-> None, promoted |-> FALSE, valid |-> FALSE]
NoFail == [stage |-> "none", remote |-> None]
NoComp == [ready |-> FALSE, intent |-> FALSE, obs |-> None, fail |-> NoFail, abort |-> None]
NoOp == [kind |-> "none", cand |-> NoCand, tip |-> None, remote |-> None,
         old |-> None, new |-> None, owns |-> FALSE]

(* The branch some commit is an ancestor of (git merge-base --is-ancestor). *)
Includes(tip, commit) == IsPrefix(commit, tip)

Public(commit) == \E t \in tips : Includes(t, commit)

Init ==
    /\ head = [at |-> "quiet", active |-> TRUE, exec |-> "live", cand |-> NoCand,
               tip |-> Root, prefix |-> None, seen |-> None]
    /\ op = NoOp /\ phase = "none" /\ comp = NoComp
    /\ local = Root /\ remote = Root /\ tips = {Root}
    /\ flights = {} /\ acked = {}
    /\ pc = "idle" /\ view = None
    /\ exts = 0 /\ cands = 0 /\ crashes = 0 /\ rewritten = FALSE

At(p) == pc = p
Quiet == head.at = "quiet" /\ head.active
Goto(p) == pc' = p
Return == Goto("idle")    \* the process ends; what it journaled stays

(* The immutable prefix: the remote may never leave it. *)
Anchor == IF head.prefix # None THEN head.prefix ELSE head.tip
KeepsPrefix(r) == Includes(r, Anchor)

FailClosed ==
    /\ head' = [head EXCEPT !.active = FALSE,
                            !.exec = IF head.exec = "live" THEN "suspended" ELSE head.exec]
    /\ phase' = IF head.at = "quiet" THEN phase ELSE "failed"
    /\ Return
    /\ UNCHANGED <<op, comp>>

--------------------------------------------------------------------------------
(* Planning. A refusal changes nothing and is left out; what an operation reads
   of the remote branch is the branch at this step. *)

Plan(kind, cand, tip, seen, old, new, owns) ==
    /\ op' = [kind |-> kind, cand |-> cand, tip |-> tip, remote |-> seen,
              old |-> old, new |-> new, owns |-> owns]
    /\ phase' = "prepared"
    /\ comp' = NoComp
    /\ head' = [head EXCEPT !.at = "prepared"]
    /\ Goto("apply")
    /\ UNCHANGED <<local, remote, tips, flights, acked, view, exts, crashes, rewritten>>

NewCommit(base) == Append(base, Cand(cands + 1))

Sealed == head.exec # "live"
Held == head.cand # NoCand /\ Sealed

PlanAccept ==
    /\ Quiet /\ At("idle") /\ cands < MaxCands
    /\ head.exec = "live"
    /\ local = head.tip
    /\ cands' = cands + 1
    /\ LET c == [base |-> head.tip, commit |-> NewCommit(head.tip),
                 promoted |-> FALSE, valid |-> TRUE]
       IN  Plan("accept", c, head.tip, None, None, None, TRUE)

PlanPromote ==
    /\ Quiet /\ At("idle")
    /\ Held /\ head.cand.valid
    /\ local \in {head.cand.base, head.cand.commit}
    /\ KeepsPrefix(remote)
    /\ ~(head.cand.promoted /\ local = head.cand.commit)
    /\ Plan("promote", [head.cand EXCEPT !.promoted = TRUE], head.tip, remote,
            local, head.cand.commit, TRUE)
    /\ UNCHANGED cands

PlanPublish ==
    /\ Quiet /\ At("idle")
    /\ Held /\ head.cand.valid /\ head.cand.promoted
    /\ head.tip = head.seen /\ head.tip = head.cand.base
    /\ local = head.cand.commit
    /\ remote = head.cand.base
    /\ Plan("publish", head.cand, head.cand.commit, remote,
            head.cand.commit, head.cand.commit, TRUE)
    /\ UNCHANGED cands

(* The candidate is put on top of the remote tip again. A promoted one takes
   the local branch along. *)
PlanRebind ==
    /\ Quiet /\ At("idle") /\ cands < MaxCands
    /\ Held
    /\ KeepsPrefix(remote)
    /\ ~Includes(remote, head.cand.commit)
    /\ cands' = cands + 1
    /\ LET took == local = head.cand.commit
           c == [base |-> remote, commit |-> NewCommit(remote),
                 promoted |-> took, valid |-> FALSE]
       IN  /\ took \/ local \in {head.cand.base, remote}
           /\ Plan("rebind", c, remote, remote, local,
                   IF took THEN c.commit ELSE remote, TRUE)

PlanReenter ==
    /\ Quiet /\ At("idle")
    /\ Held
    /\ local \in {head.cand.base, head.cand.commit}
    /\ KeepsPrefix(remote)
    /\ ~Includes(remote, head.cand.commit)
    /\ remote = head.tip
    /\ LET back == local = head.cand.commit
       IN  Plan("reenter", [head.cand EXCEPT !.valid = FALSE], head.tip, remote,
                IF back THEN local ELSE None,
                IF back THEN head.cand.base ELSE None, back)
    /\ UNCHANGED cands

PlanRevalidate ==
    /\ Quiet /\ At("idle")
    /\ Held
    /\ local \in {head.cand.base, head.cand.commit}
    /\ Plan("revalidate", [head.cand EXCEPT !.valid = TRUE], head.tip, head.seen,
            None, None, FALSE)
    /\ UNCHANGED cands

(* ensureTerminalMetadataFinalized: no candidate waits for its publication, and
   the evidence of a retired task is final. *)
TerminalMetadataFinalized ==
    /\ ~head.cand.valid
    /\ head.exec = "retired" => phase = "finalized"

(* validateMaterializationHead: nothing runs, and the remote branch was not seen
   to be ahead of the integration tip. *)
MaterializationHead ==
    /\ Sealed
    /\ head.seen \in {None, head.tip}

(* The suspended execution goes on, or the successor of a retired task starts. *)
PlanMaterialize ==
    /\ Quiet /\ At("idle")
    /\ TerminalMetadataFinalized
    /\ MaterializationHead
    /\ head.exec = "retired" => local = head.tip
    /\ Plan("materialize", NoCand, head.tip, head.seen, None, None, FALSE)
    /\ UNCHANGED cands

PlanAdopt ==
    /\ Quiet /\ At("idle")
    /\ head.cand = NoCand /\ head.exec # "retired"
    /\ remote # head.tip
    /\ KeepsPrefix(remote)
    /\ local \in {head.tip, remote}
    /\ LET moves == local # remote
       IN  Plan("adopt", NoCand, remote, remote,
                IF moves THEN local ELSE None, IF moves THEN remote ELSE None,
                moves \/ head.exec = "live")
    /\ UNCHANGED cands

(* A plan that reads a remote branch without the immutable prefix, or meets a
   conflict when it moves the work onto the new base, seals the controller. *)
PlanFails ==
    /\ Quiet /\ At("idle")
    /\ \/ /\ ~KeepsPrefix(remote)
          /\ Held \/ (head.cand = NoCand /\ head.exec # "retired" /\ remote # head.tip)
       \/ /\ KeepsPrefix(remote)
          /\ \/ Held /\ ~Includes(remote, head.cand.commit)
             \/ head.exec = "live" /\ remote # head.tip
       \/ head.exec = "suspended" /\ TerminalMetadataFinalized /\ MaterializationHead
    /\ FailClosed
    /\ UNCHANGED <<local, remote, tips, flights, acked, view, bounds>>

--------------------------------------------------------------------------------
(* Applying an operation other than publish. *)

GuardsRemote == op.kind \in {"rebind", "reenter", "adopt"}
MovesLocal == op.old # None /\ op.old # op.new

GuardPassed ==
    /\ At("apply") /\ op.kind # "publish"
    /\ GuardsRemote => KeepsPrefix(remote) /\ remote = op.remote
    /\ Goto("local")
    /\ UNCHANGED <<head, journal, local, remote, tips, flights, acked, view, bounds>>

\* Mutant: a race is taken back whatever was done to the local branch.
NeverRacedLocally == FALSE

(* The local effect is already applied when the remote is found raced. *)
RacedLocally == MovesLocal /\ local # op.old

GuardViolated ==
    /\ At("apply") /\ GuardsRemote
    /\ ~KeepsPrefix(remote) \/ (remote # op.remote /\ RacedLocally)
    /\ FailClosed
    /\ UNCHANGED <<local, remote, tips, flights, acked, view, bounds>>

GuardRaced ==
    /\ At("apply") /\ GuardsRemote
    /\ KeepsPrefix(remote) /\ remote # op.remote /\ ~RacedLocally
    /\ IF Includes(remote, op.remote)
       THEN phase' = "aborted" /\ Goto("aborted")
       ELSE Return /\ UNCHANGED phase
    /\ UNCHANGED <<head, op, comp, local, remote, tips, flights, acked, view, bounds>>

(* updatePublicationRef: compare and set, done already is fine. *)
ApplyLocal ==
    /\ At("local")
    /\ IF op.old = None \/ local \in {op.old, op.new}
       THEN /\ local' = IF op.old = None THEN local ELSE op.new
            /\ Goto("commit")
       ELSE Return /\ UNCHANGED local
    /\ UNCHANGED <<head, journal, remote, tips, flights, acked, view, bounds>>

Committed ==
    CASE op.kind = "publish" ->
            [head EXCEPT !.cand = NoCand, !.tip = op.tip, !.prefix = op.tip,
                         !.seen = comp.obs, !.exec = "retired"]
      [] op.kind = "materialize" -> [head EXCEPT !.cand = NoCand, !.exec = "live"]
      [] op.kind = "adopt" ->
            [head EXCEPT !.tip = op.tip, !.seen = op.remote, !.exec = "suspended"]
      [] OTHER ->
            [head EXCEPT !.cand = op.cand, !.tip = op.tip, !.exec = "suspended",
                         !.seen = IF op.kind \in {"rebind", "promote"} THEN op.remote ELSE @,
                         !.prefix = IF op.kind = "promote" /\ @ = None THEN op.cand.base ELSE @]

(* The effects on the local branch are proved again before the head is written. *)
Proved == MovesLocal \/ op.kind = "promote" => local = op.new

CommitHead ==
    /\ At("commit")
    /\ IF Proved
       THEN head' = [Committed EXCEPT !.at = "committed"] /\ Goto("phase")
       ELSE Return /\ UNCHANGED head
    /\ UNCHANGED <<journal, local, remote, tips, flights, acked, view, bounds>>

CommitPhase ==
    /\ At("phase")
    /\ phase' = "committed"
    /\ Goto("final")
    /\ UNCHANGED <<head, op, comp, local, remote, tips, flights, acked, view, bounds>>

FinalHead ==
    /\ At("final")
    /\ head' = [head EXCEPT !.at = "quiet"]
    /\ Goto("finalized")
    /\ UNCHANGED <<journal, local, remote, tips, flights, acked, view, bounds>>

FinalPhase ==
    /\ At("finalized")
    /\ phase' = "finalized"
    /\ Return
    /\ UNCHANGED <<head, op, comp, local, remote, tips, flights, acked, view, bounds>>

AbortHead ==
    /\ At("aborted")
    /\ head' = [head EXCEPT !.at = "quiet"]
    /\ Return
    /\ UNCHANGED <<journal, local, remote, tips, flights, acked, view, bounds>>

--------------------------------------------------------------------------------
(* Publishing: the completion of a promoted candidate. *)

(* applyCandidateCompletion, first run or recovery. *)
ResumeCompletion ==
    /\ At("apply") /\ op.kind = "publish"
    /\ \/ /\ comp.abort # None
          /\ view' = comp.abort /\ Goto("abort") /\ UNCHANGED comp
       \/ /\ comp.abort = None /\ comp.obs # None
          /\ Goto("ack") /\ UNCHANGED <<comp, view>>
       \/ /\ comp.abort = None /\ comp.obs = None
          /\ Includes(remote, op.cand.commit)
          /\ IF comp.ready /\ comp.intent
             THEN comp' = [comp EXCEPT !.obs = remote] /\ Goto("ack")
             ELSE Return /\ UNCHANGED comp
          /\ UNCHANGED view
       \/ /\ comp.abort = None /\ comp.obs = None
          /\ ~Includes(remote, op.cand.commit)
          /\ view' = remote
          /\ Goto(IF comp.fail # NoFail \/ remote # op.cand.base THEN "abort" ELSE "write")
          /\ UNCHANGED comp
    /\ UNCHANGED <<head, op, phase, local, remote, tips, flights, acked, bounds>>

Fails(stage, r) ==
    /\ comp' = [comp EXCEPT !.fail = [stage |-> stage, remote |-> r]]
    /\ view' = r
    /\ Goto("abort")
    /\ UNCHANGED <<head, op, phase, local, remote, tips, acked, bounds>>

PrepareWrite ==
    /\ At("write")
    /\ \/ /\ comp' = [comp EXCEPT !.ready = TRUE]
          /\ Goto("begin")
          /\ UNCHANGED <<head, op, phase, local, remote, tips, acked, view, bounds>>
       \/ Fails("prepare", view)
    /\ UNCHANGED flights

BeginWrite ==
    /\ At("begin")
    /\ \/ /\ comp' = [comp EXCEPT !.intent = TRUE]
          /\ Goto("guard")
          /\ UNCHANGED <<head, op, phase, local, remote, tips, acked, view, bounds>>
       \/ Fails("prepare", remote)
    /\ UNCHANGED flights

(* git push: the client refuses what is no fast-forward of the branch it is
   advertised, the server accepts the update while the branch is still that. *)
Push ==
    /\ At("guard")
    /\ flights' = IF Includes(op.cand.commit, remote) /\ remote # op.cand.commit
                  THEN flights \cup {[commit |-> op.cand.commit, old |-> remote, live |-> TRUE]}
                  ELSE flights
    /\ Goto("push")
    /\ view' = None
    /\ UNCHANGED <<head, journal, local, remote, tips, acked, bounds>>

PushGuarded ==
    /\ At("guard")
    /\ Fails("push-guard", op.cand.base)
    /\ UNCHANGED flights

Mine(f) == f.live
Orphaned == {[f EXCEPT !.live = FALSE] : f \in flights}

\* Mutant: git push is believed without looking at the remote.
PushTrusted ==
    /\ At("push")
    /\ comp' = [comp EXCEPT !.obs = remote]
    /\ flights' = Orphaned
    /\ Goto("ack")
    /\ view' = None
    /\ UNCHANGED <<head, op, phase, local, remote, tips, acked, bounds>>

\* Mutant: the observation is not journaled before the runtime is told.
PushObservedUnsaved ==
    /\ At("push")
    /\ Includes(remote, op.cand.commit)
    /\ flights' = Orphaned
    /\ Goto("ack")
    /\ view' = None
    /\ UNCHANGED <<head, journal, local, remote, tips, acked, bounds>>

PushObserved ==
    /\ At("push")
    /\ Includes(remote, op.cand.commit)
    /\ comp' = [comp EXCEPT !.obs = remote]
    /\ flights' = Orphaned
    /\ Goto("ack")
    /\ view' = None
    /\ UNCHANGED <<head, op, phase, local, remote, tips, acked, bounds>>

PushRejected ==
    /\ At("push")
    /\ ~Includes(remote, op.cand.commit)
    /\ flights' = {f \in flights : ~Mine(f)}
    /\ Fails("push-rejected", remote)

PushUnresolved ==
    /\ At("push")
    /\ ~Includes(remote, op.cand.commit)
    /\ flights' = Orphaned
    /\ Return
    /\ view' = None
    /\ UNCHANGED <<head, journal, local, remote, tips, acked, bounds>>

(* The runtime of the task is told, then the head is committed. *)
Acknowledge ==
    /\ At("ack")
    /\ acked' = acked \cup {op.cand.commit}
    /\ Goto("commit")
    /\ UNCHANGED <<head, journal, local, remote, tips, flights, view, bounds>>

(* completionFailureProvesNoWrite, over a remote that still has what the failure saw. *)
ProvesNoWrite ==
    /\ comp.fail # NoFail
    /\ Includes(view, comp.fail.remote)
    /\ comp.fail.stage \in IF comp.intent THEN {"push-guard", "push-rejected"} ELSE {"prepare"}

\* Mutant: a write that was never begun has to be proved away as well.
ProofIsAlwaysNeeded == TRUE

NeedsProof == comp.intent \/ view = head.tip

AbortRefused ==
    /\ At("abort")
    /\ \/ comp.obs # None
       \/ NeedsProof /\ ~ProvesNoWrite
       \/ KeepsPrefix(view) /\ ~Includes(view, op.cand.base)
    /\ Return
    /\ view' = None
    /\ UNCHANGED <<head, journal, local, remote, tips, flights, acked, bounds>>

AbortViolated ==
    /\ At("abort")
    /\ comp.obs = None /\ (NeedsProof => ProvesNoWrite)
    /\ ~KeepsPrefix(view)
    /\ FailClosed
    /\ view' = None
    /\ UNCHANGED <<local, remote, tips, flights, acked, bounds>>

AbortCompletion ==
    /\ At("abort")
    /\ comp.obs = None /\ (NeedsProof => ProvesNoWrite)
    /\ KeepsPrefix(view) /\ Includes(view, op.cand.base)
    /\ comp' = [comp EXCEPT !.abort = view]
    /\ Goto("restore")
    /\ view' = None
    /\ UNCHANGED <<head, op, phase, local, remote, tips, flights, acked, bounds>>

RestoreCompletion ==
    /\ At("restore")
    /\ IF local = op.cand.commit
       THEN phase' = "aborted" /\ Goto("aborted")
       ELSE Return /\ UNCHANGED phase
    /\ UNCHANGED <<head, op, comp, local, remote, tips, flights, acked, view, bounds>>

--------------------------------------------------------------------------------
(* recoverExecutionOperationLocked on behalf of a process that ended. *)

Verified ==
    CASE op.kind = "adopt" -> TRUE
      [] op.kind = "publish" -> local = op.new
      [] OTHER -> Proved

Recover ==
    /\ At("idle") /\ head.active
    /\ \/ head.at = "prepared" /\ phase = "aborted" /\ Goto("aborted")
       \/ head.at = "prepared" /\ phase = "prepared" /\ Goto("apply")
       \/ head.at = "committed" /\ Verified /\ Goto("phase")
       \/ head.at = "quiet" /\ phase = "committed" /\ Verified /\ Goto("finalized")
    /\ UNCHANGED <<head, journal, local, remote, tips, flights, acked, view, bounds>>

--------------------------------------------------------------------------------
(* The environment. *)

Crash ==
    /\ ~At("idle") /\ crashes < MaxCrashes
    /\ crashes' = crashes + 1
    /\ flights' = Orphaned
    /\ Return
    /\ view' = None
    /\ UNCHANGED <<head, journal, local, remote, tips, acked, exts, cands, rewritten>>

Advance(tip) ==
    /\ remote' = tip
    /\ tips' = IF Public(tip) THEN tips
               ELSE {t \in tips : ~Includes(tip, t)} \cup {tip}

ExternalPush ==
    /\ exts < MaxExt
    /\ exts' = exts + 1
    /\ Advance(Append(remote, Ext(exts + 1)))
    /\ UNCHANGED <<head, journal, local, flights, acked, pc, view, cands, crashes, rewritten>>

Rewrite ==
    /\ ~rewritten
    /\ rewritten' = TRUE
    /\ \E n \in 0 .. Len(remote) - 1 : Advance(SubSeq(remote, 1, n))
    /\ UNCHANGED <<head, journal, local, flights, acked, pc, view, exts, cands, crashes>>

(* A push that never arrives is one that never lands. *)
Land(f) ==
    /\ remote = f.old
    /\ Advance(f.commit)
    /\ flights' = flights \ {f}
    /\ UNCHANGED <<head, journal, local, acked, pc, view, bounds>>

(* GuardPublicationRefUpdate, the reference-transaction hook: while a
   transition is pending only the update it planned is let through, unless it
   owns no git effect. *)
HookAllows(old, new) ==
    \/ head.at = "quiet"
    \/ /\ head.active /\ head.at = "prepared" /\ phase = "prepared"
       /\ ~op.owns \/ (op.old = old /\ op.new = new)

Pull ==
    /\ local # remote /\ Includes(remote, local)
    /\ HookAllows(local, remote)
    /\ local' = remote
    /\ UNCHANGED <<head, journal, remote, tips, flights, acked, pc, view, bounds>>

--------------------------------------------------------------------------------
Start ==
    \/ PlanAccept \/ PlanPromote \/ PlanPublish \/ PlanRebind \/ PlanReenter
    \/ PlanRevalidate \/ PlanMaterialize \/ PlanAdopt \/ PlanFails

Step ==
    \/ GuardPassed \/ GuardViolated \/ GuardRaced \/ ApplyLocal
    \/ CommitHead \/ CommitPhase \/ FinalHead \/ FinalPhase \/ AbortHead
    \/ ResumeCompletion \/ PrepareWrite \/ BeginWrite \/ Push \/ PushGuarded
    \/ PushObserved \/ PushRejected \/ PushUnresolved \/ Acknowledge
    \/ AbortRefused \/ AbortViolated \/ AbortCompletion \/ RestoreCompletion
    \/ Recover

Environment ==
    \/ Crash \/ ExternalPush \/ Rewrite \/ Pull
    \/ \E f \in flights : Land(f)

Next == Start \/ Step \/ Environment

Spec == Init /\ [][Next]_vars

(* A started command runs on, and a pending transition is recovered. *)
FairSpec == Spec /\ WF_vars(Step)

--------------------------------------------------------------------------------
(* Properties. *)

(* What the controller calls published was public: the integration tip, the
   immutable prefix under it, and every candidate whose runtime was told so. *)
PublicHistory ==
    /\ \A c \in acked \cup {head.tip} : Public(c)
    /\ head.prefix # None => Includes(head.tip, head.prefix)

(* A runtime that was told its candidate is published belongs to a task the
   head retires: whatever dies, whatever the remote does meanwhile, the
   completion is neither aborted nor forgotten. *)
AcknowledgedIsRetired ==
    \A c \in acked :
        \/ Includes(head.tip, c)
        \/ /\ op.kind = "publish" /\ op.cand.commit = c
           /\ head.at = "prepared" /\ phase = "prepared" /\ comp.abort = None

(* Between operations a candidate sits on the integration tip, and the local
   branch holds no unpublished commit but the candidate's: no operation that
   was aborted or interrupted leaves its own commit there. *)
CandidateOwnsLocal ==
    Quiet /\ head.cand # NoCand =>
        head.cand.base = head.tip /\ (local = head.cand.commit \/ Public(local))

(* Every pending operation is finished or aborted, or seals the controller,
   when its commands are rerun, but for a push whose outcome is unknown (its own,
   or one of an aborted attempt that arrives late) and a remote branch that was
   rewritten. *)
PendingSettles ==
    head.at # "quiet" ~>
        \/ head.at = "quiet" \/ ~head.active \/ rewritten
        \/ op.kind = "publish" /\ (comp.intent \/ Includes(remote, op.cand.commit))

(* What the refusal of an acceptance says of a primary beyond the execution's
   source: it is an external advancement, to be adopted. *)
AdvancedPrimaryIsAdoptable ==
    Quiet /\ head.exec = "live" /\ local # head.tip /\ Includes(local, head.tip) =>
        Public(local)
================================================================================
