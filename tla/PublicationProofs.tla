--------------------------- MODULE PublicationProofs ---------------------------
(* The publication of candidates, proved for every number of candidates, of
   commits of others and of crashes: what the controller calls published was
   public, an acknowledged completion is retired, and the local branch holds no
   unpublished commit but the candidate's. *)
EXTENDS Publication, SequenceTheorems, TLAPS

Changes == {"x", "c"} \X Nat
Commits == Seq(Changes)
Commit == Commits \cup {None}    \* or an empty commit id
Candidates == [base : Commits, commit : Commits, promoted : BOOLEAN, valid : BOOLEAN]

(* The operations that leave a candidate in the head. *)
Carrying == {"accept", "promote", "rebind", "reenter", "revalidate"}
Kinds == Carrying \cup {"none", "publish", "materialize", "adopt"}

Completing == {"write", "begin", "guard", "push", "ack", "abort", "restore"}
Applying == {"apply", "local", "commit"} \cup Completing
Positions == {"idle", "aborted", "phase", "final", "finalized"} \cup Applying

Heads == [at : {"quiet", "prepared", "committed"}, active : BOOLEAN,
          exec : {"live", "suspended", "retired"}, cand : Candidates \cup {NoCand},
          tip : Commits, prefix : Commit, seen : Commit]
Operations == [kind : Kinds, cand : Candidates \cup {NoCand}, tip : Commit, remote : Commit,
               old : Commit, new : Commit, owns : BOOLEAN]
Completions == [ready : BOOLEAN, intent : BOOLEAN, obs : Commit, abort : Commit,
                fail : [stage : {"none", "prepare", "push-guard", "push-rejected"},
                        remote : Commit]]
Phases == {"none", "prepared", "committed", "finalized", "aborted", "failed"}

Typed ==
    /\ head \in Heads
    /\ op \in Operations /\ phase \in Phases /\ comp \in Completions
    /\ local \in Commits /\ remote \in Commits /\ tips \subseteq Commits
    /\ flights \subseteq [commit : Commits, old : Commits, live : BOOLEAN]
    /\ acked \subseteq Commits
    /\ pc \in Positions /\ view \in Commit

(* The inductive invariant. *)

(* Where the process is, the head and the phase file are. *)
Placed ==
    /\ pc \in Applying => head.active /\ head.at = "prepared" /\ phase = "prepared"
    /\ pc = "aborted" => head.active /\ head.at = "prepared" /\ phase = "aborted"
    /\ pc \in {"phase", "final"} => head.active /\ head.at = "committed"
    /\ pc = "finalized" => head.active /\ head.at = "quiet"
    /\ pc = "local" => op.kind # "publish"
    /\ pc \in Completing => op.kind = "publish"
    /\ pc \in {"write", "begin", "guard", "push"} => comp.abort = None
    /\ pc = "ack" \/ (pc = "commit" /\ op.kind = "publish") => comp.obs # None
    /\ pc = "restore" => comp.abort # None
    /\ pc \in {"write", "abort"} => view # None

(* What was public stays public. *)
Known ==
    /\ Public(remote) /\ Public(head.tip)
    /\ \A c \in acked : Public(c)

(* A candidate contains its base, which is the integration tip. *)
Based ==
    /\ head.cand # NoCand =>
        head.cand.base = head.tip /\ Includes(head.cand.commit, head.cand.base)
    /\ head.prefix # None => Includes(head.tip, head.prefix)

(* The local branch is the candidate's or was public. *)
Owned(cand) == cand # NoCand => local = cand.commit \/ Public(local)

(* The pending operation, as it was planned from the head. *)
PlannedTip ==
    IF op.kind = "publish"
    THEN op.cand = head.cand /\ head.cand # NoCand /\ op.tip = op.cand.commit
    ELSE Public(op.tip) /\ op.tip # None
         /\ (head.prefix # None => Includes(op.tip, head.prefix))

PlannedCandidate ==
    /\ op.kind # "none"
    /\ op.old # None => op.new # None
    /\ op.kind \in Carrying =>
        /\ op.cand # NoCand /\ op.cand.base = op.tip
        /\ Includes(op.cand.commit, op.cand.base)
        /\ op.new # None => op.new = op.cand.commit \/ Public(op.new)
    /\ op.kind = "adopt" => head.cand = NoCand
    /\ op.kind = "promote" => op.new = op.cand.commit
    /\ op.kind \in {"promote", "rebind"} => op.old # None
    /\ op.kind \in {"reenter", "revalidate"} =>
        head.cand # NoCand /\ op.cand.commit = head.cand.commit
    /\ op.kind = "publish" => op.old = op.cand.commit /\ op.new = op.cand.commit

(* The local branch is the one of the plan, the planned one, or was public. *)
PlannedLocal ==
    /\ op.old # None =>
        /\ local \in {op.old, op.new} \/ Public(local)
        /\ head.cand # NoCand => op.old = head.cand.commit \/ Public(op.old)
    /\ op.old = None => Owned(head.cand)
    /\ op.kind = "accept" => op.old = None /\ Public(local)

Planned ==
    head.active /\ head.at = "prepared" =>
        /\ PlannedTip /\ PlannedCandidate /\ PlannedLocal
        /\ phase \in {"prepared", "aborted"}
        /\ phase = "aborted" => Owned(head.cand)

Settled == head.active /\ head.at # "prepared" => Owned(head.cand)

(* An observation is final, and what was acknowledged is in the immutable
   prefix or in the operation that will put it there. *)
Observed ==
    /\ comp.obs # None =>
        /\ op.kind = "publish" /\ op.cand # NoCand /\ Public(op.cand.commit)
        /\ comp.abort = None
    /\ \A c \in acked :
        \/ head.prefix # None /\ Includes(head.prefix, c)
        \/ /\ op.kind = "publish" /\ op.cand.commit = c /\ comp.obs # None
           /\ head.at = "prepared" /\ phase = "prepared"

(* The commits made so far are numbered. *)
Counted == exts \in Nat /\ cands \in Nat

IInv == Typed /\ Placed /\ Known /\ Based /\ Planned /\ Settled /\ Observed

--------------------------------------------------------------------------------
(* Commits and their ancestors. *)

LEMMA NoneIsNoCommit == None \notin Commits /\ NoCand \notin Candidates
<1>1. None \notin Commits
  <2> SUFFICES ASSUME None \in Commits PROVE FALSE
    OBVIOUS
  <2>1. Len(None) = 1 /\ None[1] = <<"none", 0>>
    BY DEF None
  <2>2. None[1] \in Changes
    BY <2>1 DEF Commits
  <2> QED
    BY <2>1, <2>2 DEF Changes
<1> QED
  BY <1>1 DEF NoCand, Candidates

(* An ancestor, change by change. *)
LEMMA PointwiseAncestor ==
    ASSUME NEW s \in Commits, NEW t \in Commits
    PROVE  Includes(t, s) <=> Len(s) <= Len(t) /\ \A i \in 1..Len(s) : s[i] = t[i]
<1>1. Len(s) \in Nat /\ Len(t) \in Nat
  BY DEF Commits
<1>2. /\ Len(SubSeq(s, 1, Len(s))) = Len(s)
      /\ \A i \in 1..Len(s) : SubSeq(s, 1, Len(s))[i] = s[i]
  BY <1>1 DEF Commits
<1>3. Len(s) <= Len(t) =>
        /\ SubSeq(t, 1, Len(s)) \in Seq(Changes) /\ Len(SubSeq(t, 1, Len(s))) = Len(s)
        /\ \A i \in 1..Len(s) : SubSeq(t, 1, Len(s))[i] = t[i]
  BY <1>1 DEF Commits
<1>4. SubSeq(s, 1, Len(s)) \in Seq(Changes)
  BY <1>1 DEF Commits
<1>5. ASSUME Len(s) <= Len(t), \A i \in 1..Len(s) : s[i] = t[i]
      PROVE  SubSeq(s, 1, Len(s)) = SubSeq(t, 1, Len(s))
  BY <1>1, <1>2, <1>3, <1>4, <1>5, SeqEqual
<1> QED
  BY <1>1, <1>2, <1>3, <1>5 DEF Includes, IsPrefix

LEMMA AncestorOfItself == ASSUME NEW s \in Commits PROVE Includes(s, s)
  BY PointwiseAncestor DEF Commits

LEMMA AncestorOfAncestor ==
    ASSUME NEW s \in Commits, NEW t \in Commits, NEW u \in Commits, Includes(t, s), Includes(u, t)
    PROVE  Includes(u, s)
<1>1. Len(s) \in Nat /\ Len(t) \in Nat /\ Len(u) \in Nat
  BY DEF Commits
<1>2. Len(s) <= Len(t) /\ \A i \in 1..Len(s) : s[i] = t[i]
  BY PointwiseAncestor
<1>3. Len(t) <= Len(u) /\ \A i \in 1..Len(t) : t[i] = u[i]
  BY PointwiseAncestor
<1>4. Len(s) <= Len(u) /\ \A i \in 1..Len(s) : s[i] = u[i]
  BY <1>1, <1>2, <1>3
<1> QED
  BY <1>4, PointwiseAncestor

(* A new commit contains the one it is put on. *)
LEMMA NewCommitContains ==
    ASSUME NEW s \in Commits, NEW e \in Changes
    PROVE  Append(s, e) \in Commits /\ Includes(Append(s, e), s)
<1>1. /\ Append(s, e) \in Commits /\ Len(s) \in Nat /\ Len(Append(s, e)) = Len(s) + 1
      /\ \A i \in 1..Len(s) : Append(s, e)[i] = s[i]
  BY DEF Commits
<1>2. Len(s) <= Len(Append(s, e)) /\ \A i \in 1..Len(s) : s[i] = Append(s, e)[i]
  BY <1>1
<1>3. \A t \in Commits :
        Includes(t, s) <=> Len(s) <= Len(t) /\ \A i \in 1..Len(s) : s[i] = t[i]
  BY PointwiseAncestor
<1> QED
  BY <1>1, <1>2, <1>3

(* Whatever the branch moves to, what was public stays public. *)
LEMMA PublicGrows ==
    ASSUME tips \subseteq Commits, NEW tip \in Commits, Advance(tip)
    PROVE  /\ tips' \subseteq Commits /\ remote' = tip
           /\ \E t \in tips' : Includes(t, tip)
           /\ \A c \in Commits : Public(c) => \E t \in tips' : Includes(t, c)
<1>1. remote' = tip /\ tips' = IF Public(tip) THEN tips ELSE {t \in tips : ~Includes(tip, t)} \cup {tip}
  BY DEF Advance
<1>2. CASE Public(tip)
  BY <1>1, <1>2 DEF Public
<1>3. CASE ~Public(tip)
  <2>1. tip \in tips' /\ tips' \subseteq Commits /\ Includes(tip, tip)
    BY <1>1, <1>3, AncestorOfItself
  <2>2. ASSUME NEW c \in Commits, NEW t \in tips, Includes(t, c) PROVE \E u \in tips' : Includes(u, c)
    <3>1. CASE Includes(tip, t)
      BY <2>1, <2>2, <3>1, AncestorOfAncestor
    <3>2. CASE ~Includes(tip, t)
      BY <1>1, <1>3, <2>2, <3>2
    <3> QED
      BY <3>1, <3>2
  <2> QED
    BY <1>1, <2>1, <2>2 DEF Public
<1> QED
  BY <1>2, <1>3

--------------------------------------------------------------------------------
(* What others do. *)

LEMMA AdvanceKeeps ==
    ASSUME IInv, NEW tip \in Commits, Advance(tip),
           UNCHANGED <<head, journal, local, acked, pc, view>>,
           flights' \subseteq flights
    PROVE  IInv'
<1> USE DEF journal
<1>1. /\ tips' \subseteq Commits /\ remote' = tip
      /\ \E t \in tips' : Includes(t, tip)
      /\ \A c \in Commits : Public(c) => \E t \in tips' : Includes(t, c)
  BY PublicGrows DEF IInv, Typed
<1>2. Typed'
  BY <1>1 DEF IInv, Typed
<1>3. Placed'
  BY DEF IInv, Placed
<1>4. head.tip \in Commits /\ acked \subseteq Commits /\ local \in Commits
      /\ op.tip \in Commit /\ op.new \in Commit /\ op.old \in Commit
      /\ op.cand \in Candidates \cup {NoCand}
  BY DEF IInv, Typed, Heads, Operations
<1>5. op.cand # NoCand => op.cand.commit \in Commits
  BY <1>4 DEF Candidates
<1>6. Known'
  BY <1>1, <1>4 DEF IInv, Known, Public
<1>7. Based'
  BY DEF IInv, Based
<1>8. Owned(head.cand) => Owned(head.cand)'
  BY <1>1, <1>4 DEF Owned, Public
<1>9. Settled'
  BY <1>8 DEF IInv, Settled
<1>11. Planned'
  <2> SUFFICES ASSUME head.active, head.at = "prepared"
               PROVE  /\ PlannedTip' /\ PlannedCandidate' /\ PlannedLocal'
                      /\ phase \in {"prepared", "aborted"}
                      /\ phase = "aborted" => Owned(head.cand)'
    BY DEF Planned
  <2>1. /\ PlannedTip /\ PlannedCandidate /\ PlannedLocal
        /\ phase \in {"prepared", "aborted"}
        /\ phase = "aborted" => Owned(head.cand)
    BY DEF IInv, Planned
  <2>2. PlannedTip'
    BY <1>1, <1>4, <2>1 DEF PlannedTip, Public, Commit
  <2>3. PlannedCandidate'
    BY <1>1, <1>4, <2>1 DEF PlannedCandidate, Public, Commit
  <2>4. PlannedLocal'
    BY <1>1, <1>4, <2>1 DEF PlannedLocal, Owned, Public, Commit
  <2> QED
    BY <1>8, <2>1, <2>2, <2>3, <2>4
<1>12. Observed'
  <2>1. comp.obs # None =>
          /\ op.kind = "publish" /\ op.cand # NoCand /\ Public(op.cand.commit)
          /\ comp.abort = None
    BY DEF IInv, Observed
  <2>2. comp.obs # None => \E t \in tips' : Includes(t, op.cand.commit)
    BY <1>1, <1>5, <2>1
  <2> QED
    BY <2>1, <2>2 DEF IInv, Observed, Public
<1> QED
  BY <1>2, <1>3, <1>6, <1>7, <1>9, <1>11, <1>12 DEF IInv

LEMMA OthersKeep ==
    ASSUME IInv, Counted, ExternalPush \/ Rewrite \/ \E f \in flights : Land(f) PROVE IInv'
<1>1. remote \in Commits /\ flights \subseteq [commit : Commits, old : Commits, live : BOOLEAN]
  BY DEF IInv, Typed
<1>2. CASE ExternalPush
  <2>1. UNCHANGED <<head, journal, local, acked, pc, view>> /\ flights' = flights
    BY <1>2 DEF ExternalPush
  <2>2. Ext(exts + 1) \in Changes
    BY DEF Counted, Ext, Changes
  <2> QED
    BY <1>1, <1>2, <2>1, <2>2, NewCommitContains, AdvanceKeeps DEF ExternalPush
<1>3. CASE Rewrite
  <2>1. UNCHANGED <<head, journal, local, acked, pc, view>> /\ flights' = flights
    BY <1>3 DEF Rewrite
  <2>2. PICK n \in 0 .. Len(remote) - 1 : Advance(SubSeq(remote, 1, n))
    BY <1>3 DEF Rewrite
  <2>3. SubSeq(remote, 1, n) \in Commits
    <3>1. Len(remote) \in Nat /\ n \in Nat /\ n <= Len(remote)
      BY <1>1 DEF Commits
    <3> QED
      BY <1>1, <3>1 DEF Commits
  <2> QED
    BY <2>1, <2>2, <2>3, AdvanceKeeps
<1>4. CASE \E f \in flights : Land(f)
  <2>1. PICK f \in flights : Land(f)
    BY <1>4
  <2>2. /\ UNCHANGED <<head, journal, local, acked, pc, view>> /\ flights' \subseteq flights
        /\ Advance(f.commit) /\ f.commit \in Commits
    BY <1>1, <2>1 DEF Land
  <2> QED
    BY <2>2, AdvanceKeeps
<1> QED
  BY <1>2, <1>3, <1>4

(* Nobody takes the local branch to a commit that was not public. *)
LEMMA PullKeeps == ASSUME IInv, Pull PROVE IInv'
<1> USE DEF journal
<1>1. local' = remote /\ UNCHANGED <<head, journal, remote, tips, flights, acked, pc, view>>
  BY DEF Pull
<1>2. Public(remote)
  BY DEF IInv, Known
<1>3. Typed'
  BY <1>1 DEF IInv, Typed
<1>4. Placed' /\ Known' /\ Based' /\ Observed'
  BY <1>1 DEF IInv, Placed, Known, Based, Observed, Public
<1>5. Settled'
  BY <1>1, <1>2 DEF Settled, Owned, Public
<1>6. Planned'
  BY <1>1, <1>2 DEF IInv, Planned, PlannedTip, PlannedCandidate, PlannedLocal, Owned, Public
<1> QED
  BY <1>3, <1>4, <1>5, <1>6 DEF IInv

--------------------------------------------------------------------------------
(* Steps of the process that leave the head and the branches alone. *)

LEMMA JournalKeeps ==
    ASSUME IInv, UNCHANGED <<head, op, phase, local, remote, tips, acked>>,
           Typed', Placed',
           \/ comp'.obs = comp.obs /\ (comp.obs = None \/ comp'.abort = comp.abort)
           \/ /\ op.kind = "publish" /\ op.cand # NoCand /\ Public(op.cand.commit)
              /\ comp'.abort = None /\ comp'.obs # None
    PROVE  IInv'
<1>1. Known' /\ Based' /\ Settled'
  BY DEF IInv, Known, Based, Settled, Owned, Public
<1>2. Planned'
  BY DEF IInv, Planned, PlannedTip, PlannedCandidate, PlannedLocal, Owned, Public
<1>3. Observed'
  BY DEF IInv, Observed, Public
<1> QED
  BY <1>1, <1>2, <1>3 DEF IInv

LEMMA OrphansTyped ==
    ASSUME Typed PROVE Orphaned \subseteq [commit : Commits, old : Commits, live : BOOLEAN]
<1> SUFFICES ASSUME NEW f \in flights
             PROVE  [f EXCEPT !.live = FALSE] \in [commit : Commits, old : Commits, live : BOOLEAN]
  BY DEF Orphaned
<1>1. f \in [commit : Commits, old : Commits, live : BOOLEAN]
  BY DEF Typed
<1> QED
  BY <1>1, Zenon

(* The process moves, and the file of the operation stays. *)
LEMMA MoveKeeps ==
    ASSUME IInv, NEW label \in Positions, pc' = label,
           UNCHANGED <<head, journal, local, remote, tips, acked>>,
           flights' \subseteq [commit : Commits, old : Commits, live : BOOLEAN],
           view' \in Commit,
           label = "idle" \/ Placed'
    PROVE  IInv'
<1> USE DEF journal
<1>1. Typed'
  BY DEF IInv, Typed
<1>2. Placed'
  BY DEF Placed, Applying, Completing
<1> QED
  BY <1>1, <1>2, JournalKeeps

LEMMA CrashKeeps == ASSUME IInv, Crash \/ PushUnresolved \/ AbortRefused PROVE IInv'
<1>1. /\ pc' = "idle" /\ view' = None /\ flights' \in {flights, Orphaned}
      /\ UNCHANGED <<head, journal, local, remote, tips, acked>>
  BY DEF Crash, PushUnresolved, AbortRefused, Return, Goto
<1>2. flights' \subseteq [commit : Commits, old : Commits, live : BOOLEAN]
  BY <1>1, OrphansTyped DEF IInv, Typed
<1>3. None \in Commit /\ "idle" \in Positions
  BY DEF Commit, Positions
<1> QED
  BY <1>1, <1>2, <1>3, MoveKeeps

LEMMA RecoverKeeps == ASSUME IInv, Recover \/ GuardPassed PROVE IInv'
<1>1. UNCHANGED <<head, journal, local, remote, tips, acked, flights, view>>
  BY DEF Recover, GuardPassed
<1>2. PICK label \in {"aborted", "apply", "phase", "finalized", "local"} :
        /\ pc' = label
        /\ label = "aborted" => head.active /\ head.at = "prepared" /\ phase = "aborted"
        /\ label = "apply" => head.active /\ head.at = "prepared" /\ phase = "prepared"
        /\ label = "phase" => head.active /\ head.at = "committed"
        /\ label = "finalized" => head.active /\ head.at = "quiet"
        /\ label = "local" => pc = "apply" /\ op.kind # "publish"
  BY DEF Recover, GuardPassed, Goto, At
<1>3. Placed'
  BY <1>1, <1>2 DEF IInv, Placed, Applying, Completing, journal
<1>4. view \in Commit /\ flights \subseteq [commit : Commits, old : Commits, live : BOOLEAN]
  BY DEF IInv, Typed
<1>5. label \in Positions
  BY <1>2 DEF Positions, Applying
<1> QED
  BY <1>1, <1>2, <1>3, <1>4, <1>5, MoveKeeps

(* The controller is sealed: nothing pending is finished any more. *)
LEMMA FailClosedKeeps ==
    ASSUME IInv, FailClosed, UNCHANGED <<local, remote, tips, flights, acked>>, view' \in Commit,
           head.at = "quiet" \/ comp.obs = None \/ op.kind # "publish"
    PROVE  IInv'
<1> DEFINE e == IF head.exec = "live" THEN "suspended" ELSE head.exec
<1>1. /\ head' = [head EXCEPT !.active = FALSE, !.exec = e] /\ pc' = "idle" /\ UNCHANGED <<op, comp>>
      /\ phase' = IF head.at = "quiet" THEN phase ELSE "failed"
  BY DEF FailClosed, Return, Goto
<1>2. head \in Heads
  BY DEF IInv, Typed
<1>3. e \in {"live", "suspended", "retired"}
  BY <1>2 DEF Heads
<1> HIDE DEF e
<1>4. head' \in Heads
  BY <1>1, <1>2, <1>3, Zenon DEF Heads
<1>5. head'.active = FALSE
  BY <1>1, <1>2, Zenon DEF Heads
<1>6. /\ head'.at = head.at /\ head'.cand = head.cand /\ head'.tip = head.tip
      /\ head'.prefix = head.prefix
  BY <1>1, <1>2 DEF Heads
<1>7. Typed'
  BY <1>1, <1>4 DEF IInv, Typed, Phases, Positions
<1>8. Placed'
  BY <1>1 DEF Placed, Applying, Completing
<1>9. Known' /\ Based'
  BY <1>6 DEF IInv, Known, Based, Public
<1>10. Planned' /\ Settled'
  BY <1>5 DEF Planned, Settled
<1>11. Observed'
  BY <1>1, <1>6 DEF IInv, Observed, Public
<1> QED
  BY <1>7, <1>8, <1>9, <1>10, <1>11 DEF IInv

LEMMA FailuresKeep == ASSUME IInv, PlanFails \/ GuardViolated \/ AbortViolated PROVE IInv'
<1>1. CASE PlanFails
  BY <1>1, FailClosedKeeps DEF PlanFails, Quiet, IInv, Typed
<1>2. CASE GuardViolated
  BY <1>2, FailClosedKeeps DEF GuardViolated, GuardsRemote, IInv, Typed
<1>3. CASE AbortViolated
  BY <1>3, FailClosedKeeps DEF AbortViolated, Commit
<1> QED
  BY <1>1, <1>2, <1>3

--------------------------------------------------------------------------------
(* Planning an operation. *)

LEMMA PlanKeeps ==
    ASSUME IInv, Quiet,
           NEW kind \in Kinds \ {"none"}, NEW cand \in Candidates \cup {NoCand}, NEW tip \in Commits,
           NEW seen \in Commit, NEW old \in Commit, NEW new \in Commit, NEW owns \in BOOLEAN,
           Plan(kind, cand, tip, seen, old, new, owns),
           IF kind = "publish"
           THEN cand = head.cand /\ cand # NoCand /\ tip = cand.commit /\ old = tip /\ new = tip
           ELSE Public(tip) /\ (head.prefix # None => Includes(tip, head.prefix)),
           kind \in Carrying =>
               /\ cand # NoCand /\ cand.base = tip /\ Includes(cand.commit, cand.base)
               /\ new # None => new = cand.commit \/ Public(new),
           kind = "adopt" => head.cand = NoCand,
           kind = "promote" => new = cand.commit,
           kind \in {"promote", "rebind"} => old # None,
           kind \in {"reenter", "revalidate"} => head.cand # NoCand /\ cand.commit = head.cand.commit,
           kind = "accept" => old = None /\ Public(local),
           old # None => local = old /\ new # None
    PROVE  IInv'
<1>1. /\ op' = [kind |-> kind, cand |-> cand, tip |-> tip, remote |-> seen,
                old |-> old, new |-> new, owns |-> owns]
      /\ phase' = "prepared" /\ comp' = NoComp /\ head' = [head EXCEPT !.at = "prepared"]
      /\ pc' = "apply" /\ UNCHANGED <<local, remote, tips, flights, acked, view>>
  BY DEF Plan, Goto
<1>2. head \in Heads /\ head.at = "quiet" /\ head.active
  BY DEF IInv, Typed, Quiet
<1>3. head' \in Heads
  BY <1>1, <1>2, Zenon DEF Heads
<1>4. head'.active = head.active
  BY <1>1, <1>2, Zenon DEF Heads
<1>5. /\ head'.at = "prepared" /\ head'.cand = head.cand /\ head'.tip = head.tip
      /\ head'.prefix = head.prefix
  BY <1>1, <1>2 DEF Heads
<1>6. op' \in Operations
  BY <1>1, Zenon DEF Operations, Commit
<1>7. comp' \in Completions /\ comp'.obs = None /\ comp'.abort = None
  BY <1>1 DEF NoComp, NoFail, Completions, Commit
<1>8. /\ op'.kind = kind /\ op'.cand = cand /\ op'.tip = tip /\ op'.old = old /\ op'.new = new
  BY <1>1
<1>9. Typed'
  BY <1>1, <1>3, <1>6, <1>7 DEF IInv, Typed, Phases, Positions, Applying
<1>10. Placed'
  BY <1>1, <1>2, <1>4, <1>5 DEF Placed, Applying, Completing
<1>11. Known' /\ Based'
  BY <1>1, <1>5 DEF IInv, Known, Based, Public
<1>12. Settled'
  BY <1>5 DEF Settled
<1>13. Owned(head.cand)
  BY <1>2 DEF IInv, Settled
<1>14. tip # None
  BY NoneIsNoCommit
<1>15. PlannedTip'
  BY <1>1, <1>5, <1>8, <1>14 DEF PlannedTip, Public
<1>16. PlannedCandidate'
  BY <1>1, <1>5, <1>8 DEF PlannedCandidate, Public
<1>17. PlannedLocal'
  BY <1>1, <1>5, <1>8, <1>13 DEF PlannedLocal, Owned, Public
<1>18. Planned'
  BY <1>1, <1>15, <1>16, <1>17 DEF Planned
<1>19. Observed'
  BY <1>1, <1>2, <1>5, <1>7 DEF IInv, Observed
<1> QED
  BY <1>9, <1>10, <1>11, <1>12, <1>18, <1>19 DEF IInv

(* What a quiet controller that holds a candidate knows. *)
LEMMA Holding ==
    ASSUME IInv, Held
    PROVE  /\ head.cand \in Candidates /\ head.cand # NoCand
           /\ head.cand.base \in Commits /\ head.cand.commit \in Commits
           /\ head.cand.base = head.tip /\ Includes(head.cand.commit, head.cand.base)
           /\ head.prefix # None => Includes(head.tip, head.prefix)
           /\ Public(head.tip)
<1>1. head.cand \in Candidates \cup {NoCand} /\ head.cand # NoCand
  BY DEF IInv, Typed, Heads, Held
<1> QED
  BY <1>1 DEF IInv, Based, Known, Candidates

LEMMA QuietTypes ==
    ASSUME IInv
    PROVE  /\ head.tip \in Commits /\ local \in Commits /\ remote \in Commits
           /\ head.prefix \in Commit /\ head.seen \in Commit /\ local \in Commit /\ remote \in Commit
           /\ head.tip \in Commit /\ None \in Commit
           /\ local # None /\ Public(remote) /\ Public(head.tip)
           /\ head.prefix # None => Includes(head.tip, head.prefix)
           /\ KeepsPrefix(remote) => (head.prefix # None => Includes(remote, head.prefix))
  BY NoneIsNoCommit DEF IInv, Typed, Heads, Commit, Known, Based, KeepsPrefix, Anchor

LEMMA PlanAcceptKeeps == ASSUME IInv, Counted, PlanAccept PROVE IInv'
<1> DEFINE c == [base |-> head.tip, commit |-> NewCommit(head.tip), promoted |-> FALSE, valid |-> TRUE]
<1>1. /\ Quiet /\ local = head.tip /\ Plan("accept", c, head.tip, None, None, None, TRUE)
  BY DEF PlanAccept
<1>2. Cand(cands + 1) \in Changes
  BY DEF Counted, Cand, Changes
<1>3. NewCommit(head.tip) \in Commits /\ Includes(NewCommit(head.tip), head.tip)
  BY <1>2, QuietTypes, NewCommitContains DEF NewCommit
<1>4. c \in Candidates /\ c.base = head.tip /\ c.commit = NewCommit(head.tip)
  BY <1>3, QuietTypes DEF Candidates
<1>5. c # NoCand
  BY <1>4, NoneIsNoCommit
<1> HIDE DEF c
<1> QED
  BY <1>1, <1>3, <1>4, <1>5, QuietTypes, PlanKeeps DEF Kinds, Carrying

LEMMA PlanPromoteKeeps == ASSUME IInv, PlanPromote PROVE IInv'
<1> DEFINE c == [head.cand EXCEPT !.promoted = TRUE]
<1>1. /\ Quiet /\ Held
      /\ Plan("promote", c, head.tip, remote, local, head.cand.commit, TRUE)
  BY DEF PlanPromote
<1>2. /\ head.cand \in Candidates /\ head.cand.commit \in Commits /\ head.cand.base = head.tip
      /\ Includes(head.cand.commit, head.cand.base)
  BY <1>1, Holding
<1>3. c \in Candidates
  BY <1>2, Zenon DEF Candidates
<1>4. c.base = head.tip /\ c.commit = head.cand.commit
  BY <1>2 DEF Candidates
<1>5. c # NoCand
  BY <1>3, NoneIsNoCommit
<1> HIDE DEF c
<1> QED
  BY <1>1, <1>2, <1>3, <1>4, <1>5, NoneIsNoCommit, QuietTypes, PlanKeeps DEF Kinds, Carrying, Commit

LEMMA PlanPublishKeeps == ASSUME IInv, PlanPublish PROVE IInv'
<1>1. /\ Quiet /\ Held /\ local = head.cand.commit
      /\ Plan("publish", head.cand, head.cand.commit, remote, head.cand.commit, head.cand.commit, TRUE)
  BY DEF PlanPublish
<1>2. head.cand \in Candidates /\ head.cand # NoCand /\ head.cand.commit \in Commits
  BY <1>1, Holding
<1> QED
  BY <1>1, <1>2, NoneIsNoCommit, QuietTypes, PlanKeeps DEF Kinds, Carrying, Commit

LEMMA PlanRebindKeeps == ASSUME IInv, Counted, PlanRebind PROVE IInv'
<1> DEFINE took == local = head.cand.commit
           c == [base |-> remote, commit |-> NewCommit(remote), promoted |-> took, valid |-> FALSE]
           new == IF took THEN c.commit ELSE remote
<1>1. Quiet /\ KeepsPrefix(remote) /\ Plan("rebind", c, remote, remote, local, new, TRUE)
  BY DEF PlanRebind
<1>2. Cand(cands + 1) \in Changes
  BY DEF Counted, Cand, Changes
<1>3. NewCommit(remote) \in Commits /\ Includes(NewCommit(remote), remote)
  BY <1>2, QuietTypes, NewCommitContains DEF NewCommit
<1>4. c.base = remote /\ c.commit = NewCommit(remote)
  OBVIOUS
<1>5. c \in Candidates
  <2>1. took \in BOOLEAN /\ FALSE \in BOOLEAN /\ remote \in Commits
    BY QuietTypes
  <2> QED
    BY <1>3, <2>1, Zenon DEF Candidates
<1>6. c # NoCand
  BY <1>5, NoneIsNoCommit
<1>7. new \in Commits /\ (new = c.commit \/ Public(new))
  BY <1>3, <1>4, QuietTypes
<1> HIDE DEF c, new
<1> QED
  BY <1>1, <1>3, <1>4, <1>5, <1>6, <1>7, NoneIsNoCommit, QuietTypes, PlanKeeps DEF Kinds, Carrying, Commit

LEMMA PlanReenterKeeps == ASSUME IInv, PlanReenter PROVE IInv'
<1> DEFINE c == [head.cand EXCEPT !.valid = FALSE]
           back == local = head.cand.commit
           old == IF back THEN local ELSE None
           new == IF back THEN head.cand.base ELSE None
<1>1. Quiet /\ Held /\ Plan("reenter", c, head.tip, remote, old, new, back)
  BY DEF PlanReenter
<1>2. /\ head.cand \in Candidates /\ head.cand # NoCand /\ head.cand.base = head.tip
      /\ Includes(head.cand.commit, head.cand.base)
  BY <1>1, Holding
<1>3. c \in Candidates
  BY <1>2, Zenon DEF Candidates
<1>4. c.base = head.tip /\ c.commit = head.cand.commit
  BY <1>2 DEF Candidates
<1>5. c # NoCand
  BY <1>3, NoneIsNoCommit
<1>6. old \in Commit /\ new \in Commit /\ (new # None => Public(new))
      /\ (old # None => local = old /\ new # None)
  BY <1>2, QuietTypes, NoneIsNoCommit
<1>7. back \in BOOLEAN
  OBVIOUS
<1> HIDE DEF c, back, old, new
<1> QED
  BY <1>1, <1>2, <1>3, <1>4, <1>5, <1>6, <1>7, QuietTypes, PlanKeeps DEF Kinds, Carrying

LEMMA PlanRevalidateKeeps == ASSUME IInv, PlanRevalidate PROVE IInv'
<1> DEFINE c == [head.cand EXCEPT !.valid = TRUE]
<1>1. Quiet /\ Held /\ Plan("revalidate", c, head.tip, head.seen, None, None, FALSE)
  BY DEF PlanRevalidate
<1>2. /\ head.cand \in Candidates /\ head.cand # NoCand /\ head.cand.base = head.tip
      /\ Includes(head.cand.commit, head.cand.base)
  BY <1>1, Holding
<1>3. c \in Candidates
  BY <1>2, Zenon DEF Candidates
<1>4. c.base = head.tip /\ c.commit = head.cand.commit
  BY <1>2 DEF Candidates
<1>5. c # NoCand
  BY <1>3, NoneIsNoCommit
<1> HIDE DEF c
<1> QED
  BY <1>1, <1>2, <1>3, <1>4, <1>5, QuietTypes, PlanKeeps DEF Kinds, Carrying

LEMMA PlanMaterializeKeeps == ASSUME IInv, PlanMaterialize PROVE IInv'
<1>1. Quiet /\ Plan("materialize", NoCand, head.tip, head.seen, None, None, FALSE)
  BY DEF PlanMaterialize
<1> QED
  BY <1>1, QuietTypes, PlanKeeps DEF Kinds, Carrying

LEMMA PlanAdoptKeeps == ASSUME IInv, PlanAdopt PROVE IInv'
<1> DEFINE moves == local # remote
           owns == moves \/ head.exec = "live"
           old == IF moves THEN local ELSE None
           new == IF moves THEN remote ELSE None
<1>1. Quiet /\ head.cand = NoCand /\ KeepsPrefix(remote)
      /\ Plan("adopt", NoCand, remote, remote, old, new, owns)
  BY DEF PlanAdopt
<1>2. old \in Commit /\ new \in Commit /\ (old # None => local = old /\ new # None)
  BY QuietTypes, NoneIsNoCommit
<1>3. owns \in BOOLEAN
  OBVIOUS
<1> HIDE DEF owns, old, new
<1> QED
  BY <1>1, <1>2, <1>3, QuietTypes, PlanKeeps DEF Kinds, Carrying

--------------------------------------------------------------------------------
(* Applying and committing an operation. *)

(* What is known of the operation that is pending. *)
LEMMA Pending ==
    ASSUME IInv, head.active, head.at = "prepared"
    PROVE  /\ PlannedTip /\ PlannedCandidate /\ PlannedLocal
           /\ phase \in {"prepared", "aborted"}
           /\ phase = "aborted" => Owned(head.cand)
           /\ head.cand \in Candidates \cup {NoCand} /\ op.cand \in Candidates \cup {NoCand}
           /\ op.cand # NoCand => op.cand.commit \in Commits /\ op.cand.base \in Commits
           /\ op.tip \in Commit /\ op.old \in Commit /\ op.new \in Commit /\ op.remote \in Commit
           /\ op.kind \in Kinds
           /\ local \in Commits /\ remote \in Commits /\ head.tip \in Commits
           /\ head.prefix \in Commit
  BY DEF IInv, Planned, Typed, Heads, Operations, Candidates

LEMMA ApplyLocalKeeps == ASSUME IInv, ApplyLocal PROVE IInv'
<1> USE DEF journal
<1>1. pc = "local" /\ UNCHANGED <<head, journal, remote, tips, flights, acked, view>>
  BY DEF ApplyLocal, At
<1>2. head.active /\ head.at = "prepared" /\ phase = "prepared" /\ op.kind # "publish"
  BY <1>1 DEF IInv, Placed, Applying
<1>3. view \in Commit /\ flights \subseteq [commit : Commits, old : Commits, live : BOOLEAN]
  BY DEF IInv, Typed
<1>4. CASE pc' = "idle" /\ UNCHANGED local
  BY <1>1, <1>3, <1>4, MoveKeeps DEF Positions
<1>5. CASE /\ op.old = None \/ local \in {op.old, op.new}
           /\ local' = (IF op.old = None THEN local ELSE op.new) /\ pc' = "commit"
  <2>1. PlannedTip /\ PlannedCandidate /\ PlannedLocal /\ op.new \in Commit /\ local \in Commits
    BY <1>2, Pending
  <2>2. local' \in Commits
    BY <1>5, <2>1 DEF PlannedCandidate, Commit
  <2>3. Typed'
    BY <1>1, <1>5, <2>2 DEF IInv, Typed, Positions, Applying
  <2>4. Placed'
    BY <1>1, <1>2, <1>5 DEF Placed, Applying, Completing
  <2>5. Known' /\ Based' /\ Observed'
    BY <1>1 DEF IInv, Known, Based, Observed, Public
  <2>6. PlannedLocal'
    BY <1>1, <1>5, <2>1 DEF PlannedLocal, Owned, Public
  <2>7. Planned'
    BY <1>1, <1>2, <2>1, <2>6 DEF Planned, PlannedTip, PlannedCandidate, Public
  <2>8. Settled'
    BY <1>1, <1>2 DEF Settled
  <2> QED
    BY <2>3, <2>4, <2>5, <2>7, <2>8 DEF IInv
<1> QED
  BY <1>4, <1>5 DEF ApplyLocal, Return, Goto

(* The head that is committed: its tip was public, its candidate is based on
   it, the immutable prefix only grows, and the local branch is in order. *)
LEMMA CommittedHead ==
    ASSUME IInv, pc = "commit", Proved
    PROVE  /\ Committed \in Heads /\ Committed.active = head.active
           /\ Public(Committed.tip)
           /\ Committed.cand # NoCand =>
                /\ Committed.cand.base = Committed.tip
                /\ Includes(Committed.cand.commit, Committed.cand.base)
                /\ local = Committed.cand.commit \/ Public(local)
           /\ Committed.prefix # None => Includes(Committed.tip, Committed.prefix)
           /\ head.prefix # None =>
                Committed.prefix # None /\ Includes(Committed.prefix, head.prefix)
           /\ op.kind = "publish" => Committed.prefix = op.cand.commit
<1>1. head.active /\ head.at = "prepared"
  BY DEF IInv, Placed, Applying
<1>2. /\ PlannedTip /\ PlannedCandidate /\ PlannedLocal
      /\ head.cand \in Candidates \cup {NoCand} /\ op.cand \in Candidates \cup {NoCand}
      /\ op.cand # NoCand => op.cand.commit \in Commits /\ op.cand.base \in Commits
      /\ op.tip \in Commit /\ op.remote \in Commit /\ op.old \in Commit /\ op.new \in Commit
      /\ op.kind \in Kinds
      /\ local \in Commits /\ head.tip \in Commits /\ head.prefix \in Commit
  BY <1>1, Pending
<1>3. head \in Heads /\ comp.obs \in Commit /\ head.seen \in Commit
  BY DEF IInv, Typed, Completions, Heads
<1>4. /\ Public(head.tip) /\ (head.prefix # None => Includes(head.tip, head.prefix))
      /\ head.prefix # None => head.prefix \in Commits /\ Includes(head.prefix, head.prefix)
  BY <1>2, AncestorOfItself DEF IInv, Known, Based, Commit
<1>5. CASE op.kind = "publish"
  <2>1. /\ op.cand = head.cand /\ head.cand # NoCand /\ op.tip = op.cand.commit
        /\ op.cand.commit \in Commits
    BY <1>2, <1>5 DEF PlannedTip
  <2>2. comp.obs # None /\ Public(op.cand.commit)
    BY <1>5 DEF IInv, Placed, Observed
  <2>3. head.cand.base = head.tip /\ Includes(head.cand.commit, head.cand.base)
    BY <2>1 DEF IInv, Based
  <2>4. Committed = [head EXCEPT !.cand = NoCand, !.tip = op.tip, !.prefix = op.tip,
                                 !.seen = comp.obs, !.exec = "retired"]
    BY <1>5 DEF Committed
  <2>5. Committed \in Heads
    <3>1. op.tip \in Commits /\ op.tip \in Commit
      BY <1>2, <2>1
    <3> QED
      BY <1>3, <2>4, <3>1, Zenon DEF Heads
  <2>6. Committed.active = head.active
    BY <1>3, <2>4, Zenon DEF Heads
  <2>7. Committed.cand = NoCand /\ Committed.tip = op.tip /\ Committed.prefix = op.tip
    BY <1>3, <2>4 DEF Heads
  <2>8. Includes(op.tip, op.tip) /\ op.tip # None
    BY <2>1, AncestorOfItself, NoneIsNoCommit
  <2>9. head.prefix # None => Includes(op.tip, head.prefix)
    BY <1>2, <1>4, <2>1, <2>3, AncestorOfAncestor
  <2> QED
    BY <2>1, <2>2, <2>5, <2>6, <2>7, <2>8, <2>9
<1>6. ASSUME op.kind # "publish"
      PROVE  /\ Public(op.tip) /\ op.tip # None /\ op.tip \in Commits
             /\ head.prefix # None => Includes(op.tip, head.prefix)
  BY <1>2, <1>6 DEF PlannedTip, Commit
<1>7. CASE op.kind = "materialize"
  <2>1. Committed = [head EXCEPT !.cand = NoCand, !.exec = "live"]
    BY <1>7 DEF Committed
  <2>2. Committed \in Heads
    BY <1>3, <2>1, Zenon DEF Heads
  <2>3. Committed.active = head.active
    BY <1>3, <2>1, Zenon DEF Heads
  <2>4. Committed.cand = NoCand /\ Committed.tip = head.tip /\ Committed.prefix = head.prefix
    BY <1>3, <2>1 DEF Heads
  <2> QED
    BY <1>4, <1>7, <2>2, <2>3, <2>4
<1>8. CASE op.kind = "adopt"
  <2>1. Committed = [head EXCEPT !.tip = op.tip, !.seen = op.remote, !.exec = "suspended"]
    BY <1>8 DEF Committed
  <2>2. op.tip \in Commits
    BY <1>6, <1>8
  <2>3. Committed \in Heads
    BY <1>2, <1>3, <2>1, <2>2, Zenon DEF Heads
  <2>4. Committed.active = head.active
    BY <1>3, <2>1, Zenon DEF Heads
  <2>5. /\ Committed.cand = head.cand /\ Committed.tip = op.tip /\ Committed.prefix = head.prefix
        /\ head.cand = NoCand
    BY <1>2, <1>3, <1>8, <2>1 DEF Heads, PlannedCandidate
  <2> QED
    BY <1>4, <1>6, <1>8, <2>3, <2>4, <2>5
<1>9. CASE op.kind \in Carrying
  <2> DEFINE s == IF op.kind \in {"rebind", "promote"} THEN op.remote ELSE head.seen
             p == IF op.kind = "promote" /\ head.prefix = None THEN op.cand.base ELSE head.prefix
  <2>1. op.kind \notin {"publish", "materialize", "adopt"}
    BY <1>9 DEF Carrying
  <2>2. Committed = [head EXCEPT !.cand = op.cand, !.tip = op.tip, !.exec = "suspended",
                                 !.seen = s, !.prefix = p]
    BY <2>1 DEF Committed
  <2>3. /\ op.cand # NoCand /\ op.cand.base = op.tip /\ Includes(op.cand.commit, op.cand.base)
        /\ op.new # None => op.new = op.cand.commit \/ Public(op.new)
        /\ op.tip \in Commits /\ op.cand \in Candidates
    BY <1>2, <1>6, <1>9, <2>1 DEF PlannedCandidate
  <2>4. s \in Commit /\ p \in Commit
    BY <1>2, <1>3, <2>3 DEF Commit
  <2>5. /\ p # None => Includes(op.tip, p)
        /\ head.prefix # None => p = head.prefix
    BY <1>6, <2>1, <2>3, AncestorOfItself
  <2> HIDE DEF s, p
  <2>6. Committed \in Heads
    BY <1>2, <1>3, <2>2, <2>3, <2>4, Zenon DEF Heads
  <2>7. Committed.active = head.active
    BY <1>3, <2>2, Zenon DEF Heads
  <2>8. Committed.cand = op.cand /\ Committed.tip = op.tip /\ Committed.prefix = p
    BY <1>3, <2>2 DEF Heads
  <2>9. local = op.cand.commit \/ Public(local)
    <3>1. CASE op.old = None
      <4>1. op.kind \in {"accept", "reenter", "revalidate"}
        BY <1>2, <1>9, <3>1 DEF PlannedCandidate, Carrying
      <4>2. CASE op.kind = "accept"
        BY <1>2, <4>2 DEF PlannedLocal
      <4>3. CASE op.kind \in {"reenter", "revalidate"}
        BY <1>2, <3>1, <4>3 DEF PlannedLocal, PlannedCandidate, Owned
      <4> QED
        BY <4>1, <4>2, <4>3
    <3>2. CASE op.old # None
      <4>1. local = op.new \/ Public(local)
        BY <1>2, <3>2 DEF PlannedLocal, Proved, MovesLocal
      <4>2. op.new # None
        BY <1>2, <3>2 DEF PlannedCandidate
      <4> QED
        BY <2>3, <4>1, <4>2
    <3> QED
      BY <3>1, <3>2
  <2> QED
    BY <1>4, <1>6, <2>1, <2>3, <2>5, <2>6, <2>7, <2>8, <2>9
<1> QED
  BY <1>2, <1>5, <1>7, <1>8, <1>9 DEF Kinds, PlannedCandidate

LEMMA CommitHeadKeeps == ASSUME IInv, CommitHead PROVE IInv'
<1> USE DEF journal
<1>1. pc = "commit" /\ UNCHANGED <<journal, local, remote, tips, flights, acked, view>>
  BY DEF CommitHead, At
<1>2. CASE pc' = "idle" /\ UNCHANGED head
  BY <1>1, <1>2, MoveKeeps DEF Positions, IInv, Typed
<1>3. CASE Proved /\ head' = [Committed EXCEPT !.at = "committed"] /\ pc' = "phase"
  <2>1. /\ Committed \in Heads /\ Committed.active = head.active
        /\ Public(Committed.tip)
        /\ Committed.cand # NoCand =>
             /\ Committed.cand.base = Committed.tip
             /\ Includes(Committed.cand.commit, Committed.cand.base)
             /\ local = Committed.cand.commit \/ Public(local)
        /\ Committed.prefix # None => Includes(Committed.tip, Committed.prefix)
        /\ head.prefix # None =>
             Committed.prefix # None /\ Includes(Committed.prefix, head.prefix)
        /\ op.kind = "publish" => Committed.prefix = op.cand.commit
    BY <1>1, <1>3, CommittedHead
  <2>2. head' \in Heads
    BY <1>3, <2>1, Zenon DEF Heads
  <2>3. head'.active = head.active
    BY <1>3, <2>1, Zenon DEF Heads
  <2>4. /\ head'.at = "committed" /\ head'.cand = Committed.cand /\ head'.tip = Committed.tip
        /\ head'.prefix = Committed.prefix
    BY <1>3, <2>1 DEF Heads
  <2>5. head.active /\ head.at = "prepared" /\ acked \subseteq Commits
    BY <1>1 DEF IInv, Placed, Applying, Typed
  <2>6. Typed'
    BY <1>1, <1>3, <2>2 DEF IInv, Typed, Positions
  <2>7. Placed'
    BY <1>3, <2>3, <2>4, <2>5 DEF Placed, Applying, Completing
  <2>8. Known' /\ Based'
    BY <1>1, <2>1, <2>4 DEF IInv, Known, Based, Public
  <2>9. Planned' /\ Settled'
    BY <1>1, <2>1, <2>4 DEF Planned, Settled, Owned, Public
  <2>10. Observed'
    <3>1. ASSUME NEW c \in acked PROVE head'.prefix # None /\ Includes(head'.prefix, c)
      <4>1. c \in Commits /\ head.prefix \in Commit /\ Committed.prefix \in Commit
        BY <2>1, <2>5, <3>1 DEF IInv, Typed, Heads
      <4>2. CASE head.prefix # None /\ Includes(head.prefix, c)
        <5>1. head.prefix \in Commits /\ Committed.prefix \in Commits
          BY <2>1, <4>1, <4>2 DEF Commit
        <5> QED
          BY <2>1, <2>4, <4>1, <4>2, <5>1, AncestorOfAncestor
      <4>3. CASE op.kind = "publish" /\ op.cand.commit = c
        BY <2>1, <2>4, <4>1, <4>3, AncestorOfItself, NoneIsNoCommit
      <4> QED
        BY <3>1, <4>2, <4>3 DEF IInv, Observed
    <3> QED
      BY <1>1, <3>1 DEF IInv, Observed, Public
  <2> QED
    BY <2>6, <2>7, <2>8, <2>9, <2>10 DEF IInv
<1> QED
  BY <1>2, <1>3 DEF CommitHead, Return, Goto

(* The head says how far the transition is, and nothing else of it changes. *)
LEMMA HeadAtTyped ==
    ASSUME Typed, NEW a \in {"quiet", "prepared", "committed"}, head' = [head EXCEPT !.at = a]
    PROVE  /\ head' \in Heads /\ head'.at = a /\ head'.cand = head.cand /\ head'.tip = head.tip
           /\ head'.prefix = head.prefix /\ head'.active = head.active
<1>1. head \in Heads
  BY DEF Typed
<1>2. head' \in Heads
  BY <1>1, Zenon DEF Heads
<1>3. head'.active = head.active
  BY <1>1, Zenon DEF Heads
<1>4. head'.at = a /\ head'.cand = head.cand /\ head'.tip = head.tip /\ head'.prefix = head.prefix
  BY <1>1 DEF Heads
<1> QED
  BY <1>2, <1>3, <1>4

LEMMA QuietsKeep == ASSUME IInv, FinalHead \/ AbortHead PROVE IInv'
<1> USE DEF journal
<1>1. /\ pc \in {"final", "aborted"} /\ head' = [head EXCEPT !.at = "quiet"]
      /\ pc' = (IF pc = "final" THEN "finalized" ELSE "idle")
      /\ UNCHANGED <<journal, local, remote, tips, flights, acked, view>>
  BY DEF FinalHead, AbortHead, At, Goto, Return
<1>2. /\ head' \in Heads /\ head'.at = "quiet" /\ head'.cand = head.cand /\ head'.tip = head.tip
      /\ head'.prefix = head.prefix /\ head'.active = head.active
  BY <1>1, HeadAtTyped DEF IInv
<1>3. /\ head.active
      /\ pc = "final" => head.at = "committed"
      /\ pc = "aborted" => head.at = "prepared" /\ phase = "aborted"
  BY <1>1 DEF IInv, Placed
<1>4. Owned(head.cand)
  BY <1>1, <1>3 DEF IInv, Planned, Settled
<1>5. Typed'
  BY <1>1, <1>2 DEF IInv, Typed, Positions
<1>6. Placed'
  BY <1>1, <1>2, <1>3 DEF Placed, Applying, Completing
<1>7. Known' /\ Based'
  BY <1>1, <1>2 DEF IInv, Known, Based, Public
<1>8. Planned' /\ Settled'
  BY <1>1, <1>2, <1>4 DEF Planned, Settled, Owned, Public
<1>9. Observed'
  BY <1>1, <1>2, <1>3 DEF IInv, Observed, Public
<1> QED
  BY <1>5, <1>6, <1>7, <1>8, <1>9 DEF IInv

LEMMA PhasesKeep == ASSUME IInv, CommitPhase \/ FinalPhase PROVE IInv'
<1>1. /\ pc \in {"phase", "finalized"} /\ phase' \in {"committed", "finalized"}
      /\ pc' = (IF pc = "phase" THEN "final" ELSE "idle")
      /\ UNCHANGED <<head, op, comp, local, remote, tips, flights, acked, view>>
  BY DEF CommitPhase, FinalPhase, At, Goto, Return
<1>2. /\ head.active /\ head.at # "prepared"
      /\ pc = "phase" => head.at = "committed"
  BY <1>1 DEF IInv, Placed
<1>3. Typed'
  BY <1>1 DEF IInv, Typed, Positions, Phases
<1>4. Placed'
  BY <1>1, <1>2 DEF Placed, Applying, Completing
<1>5. Known' /\ Based' /\ Planned' /\ Settled' /\ Observed'
  BY <1>1, <1>2 DEF IInv, Known, Based, Planned, Settled, Observed, Owned, Public
<1> QED
  BY <1>3, <1>4, <1>5 DEF IInv

(* An operation is given up when the local branch is back where it was. *)
LEMMA AbortKeeps ==
    ASSUME IInv, pc \in Applying, phase' = "aborted", pc' = "aborted", Owned(head.cand),
           op.kind # "publish" \/ comp.obs = None,
           UNCHANGED <<head, op, comp, local, remote, tips, flights, acked, view>>
    PROVE  IInv'
<1>1. head.active /\ head.at = "prepared"
  BY DEF IInv, Placed
<1>2. Typed'
  BY DEF IInv, Typed, Positions, Phases
<1>3. Placed'
  BY <1>1 DEF Placed, Applying, Completing
<1>4. Known' /\ Based' /\ Settled' /\ Observed'
  BY <1>1 DEF IInv, Known, Based, Settled, Observed, Public
<1>5. PlannedTip /\ PlannedCandidate /\ PlannedLocal
  BY <1>1, Pending
<1>6. Planned'
  BY <1>1, <1>5 DEF Planned, PlannedTip, PlannedCandidate, PlannedLocal, Owned, Public
<1> QED
  BY <1>2, <1>3, <1>4, <1>6 DEF IInv

LEMMA RacesKeep == ASSUME IInv, GuardRaced \/ RestoreCompletion PROVE IInv'
<1> USE DEF journal
<1>1. /\ pc \in {"apply", "restore"} /\ pc \in Applying
      /\ UNCHANGED <<head, op, comp, local, remote, tips, flights, acked, view>>
  BY DEF GuardRaced, RestoreCompletion, At, Applying, Completing
<1>2. head.active /\ head.at = "prepared"
  BY <1>1 DEF IInv, Placed
<1>3. /\ PlannedTip /\ PlannedCandidate /\ PlannedLocal
  BY <1>2, Pending
<1>4. CASE pc' = "idle" /\ UNCHANGED phase
  BY <1>1, <1>4, MoveKeeps DEF Positions, IInv, Typed
<1>5. CASE GuardRaced /\ phase' = "aborted" /\ pc' = "aborted"
  <2>1. op.kind # "publish" /\ ~RacedLocally
    BY <1>5 DEF GuardRaced, GuardsRemote
  <2>2. Owned(head.cand)
    BY <1>3, <2>1 DEF RacedLocally, MovesLocal, PlannedLocal, Owned
  <2> QED
    BY <1>1, <1>5, <2>1, <2>2, AbortKeeps
<1>6. CASE RestoreCompletion /\ phase' = "aborted" /\ pc' = "aborted"
  <2>1. pc = "restore" /\ op.kind = "publish" /\ comp.abort # None
    BY <1>6 DEF RestoreCompletion, At, IInv, Placed, Completing
  <2>2. comp.obs = None
    BY <2>1 DEF IInv, Observed
  <2>3. local = op.cand.commit
    BY <1>6 DEF RestoreCompletion, Return, Goto
  <2>4. Owned(head.cand)
    BY <1>3, <2>1, <2>3 DEF Owned, PlannedTip
  <2> QED
    BY <1>1, <1>6, <2>2, <2>4, AbortKeeps
<1> QED
  BY <1>4, <1>5, <1>6 DEF GuardRaced, RestoreCompletion, Return, Goto

--------------------------------------------------------------------------------
(* Publishing. *)

(* What the completion of a pending publication knows. *)
LEMMA Publishing ==
    ASSUME IInv, pc \in Completing \/ (pc = "apply" /\ op.kind = "publish")
    PROVE  /\ head.active /\ head.at = "prepared" /\ phase = "prepared" /\ op.kind = "publish"
           /\ op.cand \in Candidates /\ op.cand # NoCand /\ op.cand.commit \in Commits
           /\ op.cand.base \in Commits
           /\ remote \in Commits /\ comp \in Completions /\ view \in Commit
           /\ flights \subseteq [commit : Commits, old : Commits, live : BOOLEAN]
<1>1. head.active /\ head.at = "prepared" /\ phase = "prepared" /\ op.kind = "publish"
  BY DEF IInv, Placed, Applying
<1> QED
  BY <1>1, Pending DEF PlannedTip, IInv, Typed

(* The candidate is seen in the remote branch. *)
LEMMA SeenIsPublic ==
    ASSUME IInv, op.cand.commit \in Commits, Includes(remote, op.cand.commit)
    PROVE  Public(op.cand.commit)
<1>1. remote \in Commits /\ tips \subseteq Commits
  BY DEF IInv, Typed
<1>2. PICK t \in tips : Includes(t, remote)
  BY DEF IInv, Known, Public
<1> QED
  BY <1>1, <1>2, AncestorOfAncestor DEF Public

(* A step of the completion: its file, its position and the flights change. *)
LEMMA CompletionKeeps ==
    ASSUME IInv, pc \in Completing \/ (pc = "apply" /\ op.kind = "publish"),
           UNCHANGED <<head, op, phase, local, remote, tips, acked>>,
           comp' \in Completions, pc' \in Completing, view' \in Commit,
           flights' \subseteq [commit : Commits, old : Commits, live : BOOLEAN],
           pc' \in {"write", "begin", "guard", "push"} => comp'.abort = None,
           pc' = "ack" => comp'.obs # None,
           pc' = "restore" => comp'.abort # None,
           pc' \in {"write", "abort"} => view' # None,
           \/ comp'.obs = comp.obs /\ (comp.obs = None \/ comp'.abort = comp.abort)
           \/ Public(op.cand.commit) /\ comp'.abort = None /\ comp'.obs # None
    PROVE  IInv'
<1>1. /\ head.active /\ head.at = "prepared" /\ phase = "prepared" /\ op.kind = "publish"
      /\ op.cand # NoCand
  BY Publishing
<1>2. Typed'
  BY DEF IInv, Typed, Positions, Applying
<1>3. pc' \in Applying /\ pc' \notin {"aborted", "phase", "final", "finalized", "local", "commit"}
  BY DEF Applying, Completing
<1>4. Placed'
  BY <1>1, <1>3 DEF Placed
<1> QED
  BY <1>1, <1>2, <1>4, JournalKeeps

LEMMA ResumeKeeps == ASSUME IInv, ResumeCompletion PROVE IInv'
<1> USE DEF journal
<1>1. /\ pc = "apply" /\ op.kind = "publish"
      /\ UNCHANGED <<head, op, phase, local, remote, tips, flights, acked>>
  BY DEF ResumeCompletion, At
<1>2. /\ op.cand # NoCand /\ op.cand.commit \in Commits /\ remote \in Commits
      /\ comp \in Completions /\ view \in Commit
      /\ flights \subseteq [commit : Commits, old : Commits, live : BOOLEAN]
  BY <1>1, Publishing
<1>3. CASE comp.abort # None /\ view' = comp.abort /\ pc' = "abort" /\ UNCHANGED comp
  BY <1>1, <1>2, <1>3, CompletionKeeps DEF Completing, Completions
<1>4. CASE comp.abort = None /\ comp.obs # None /\ pc' = "ack" /\ UNCHANGED <<comp, view>>
  BY <1>1, <1>2, <1>4, CompletionKeeps DEF Completing
<1>5. CASE /\ comp.abort = None /\ Includes(remote, op.cand.commit)
           /\ comp' = [comp EXCEPT !.obs = remote] /\ pc' = "ack" /\ UNCHANGED view
  <2>1. remote \in Commit /\ remote # None
    BY <1>2, NoneIsNoCommit DEF Commit
  <2>2. comp' \in Completions
    BY <1>2, <1>5, <2>1, Zenon DEF Completions
  <2>3. comp'.obs = remote /\ comp'.abort = comp.abort
    BY <1>2, <1>5 DEF Completions
  <2>4. Public(op.cand.commit)
    BY <1>2, <1>5, SeenIsPublic
  <2> QED
    BY <1>1, <1>2, <1>5, <2>1, <2>2, <2>3, <2>4, CompletionKeeps DEF Completing
<1>6. CASE pc' = "idle" /\ UNCHANGED <<comp, view>>
  BY <1>1, <1>2, <1>6, MoveKeeps DEF Positions
<1>7. CASE comp.abort = None /\ view' = remote /\ pc' \in {"abort", "write"} /\ UNCHANGED comp
  BY <1>1, <1>2, <1>7, NoneIsNoCommit, CompletionKeeps DEF Completing, Commit
<1> QED
  BY <1>3, <1>4, <1>5, <1>6, <1>7 DEF ResumeCompletion, Goto, Return

(* A failure is noted with the remote tip it saw. *)
LEMMA FailsKeeps ==
    ASSUME IInv, pc \in {"write", "begin", "guard", "push"},
           NEW stage \in {"prepare", "push-guard", "push-rejected"}, NEW r \in Commits,
           Fails(stage, r), flights' \subseteq flights
    PROVE  IInv'
<1>1. /\ comp' = [comp EXCEPT !.fail = [stage |-> stage, remote |-> r]] /\ view' = r
      /\ pc' = "abort" /\ UNCHANGED <<head, op, phase, local, remote, tips, acked>>
  BY DEF Fails, Goto
<1>2. comp \in Completions /\ flights \subseteq [commit : Commits, old : Commits, live : BOOLEAN]
  BY Publishing DEF Completing
<1>3. r \in Commit /\ r # None
  BY NoneIsNoCommit DEF Commit
<1>4. [stage |-> stage, remote |-> r] \in
        [stage : {"none", "prepare", "push-guard", "push-rejected"}, remote : Commit]
  BY <1>3
<1>5. comp' \in Completions
  BY <1>1, <1>2, <1>4, Zenon DEF Completions
<1>6. comp'.obs = comp.obs /\ comp'.abort = comp.abort
  BY <1>1, <1>2 DEF Completions
<1> QED
  BY <1>1, <1>2, <1>3, <1>5, <1>6, CompletionKeeps DEF Completing

LEMMA WriteKeeps == ASSUME IInv, PrepareWrite \/ BeginWrite PROVE IInv'
<1>1. pc \in {"write", "begin"} /\ flights' = flights
  BY DEF PrepareWrite, BeginWrite, At
<1>2. /\ comp \in Completions /\ remote \in Commits /\ view \in Commit
      /\ flights \subseteq [commit : Commits, old : Commits, live : BOOLEAN]
  BY <1>1, Publishing DEF Completing
<1>3. comp.abort = None /\ (pc = "write" => view \in Commits)
  BY <1>1, <1>2 DEF IInv, Placed, Commit
<1>4. CASE \/ pc = "write" /\ Fails("prepare", view)
           \/ Fails("prepare", remote)
  BY <1>1, <1>2, <1>3, <1>4, FailsKeeps
<1>5. CASE /\ \/ comp' = [comp EXCEPT !.ready = TRUE] /\ pc' = "begin"
              \/ comp' = [comp EXCEPT !.intent = TRUE] /\ pc' = "guard"
           /\ UNCHANGED <<head, op, phase, local, remote, tips, acked, view>>
  <2>1. comp' \in Completions
    BY <1>2, <1>5, Zenon DEF Completions
  <2>2. comp'.obs = comp.obs /\ comp'.abort = comp.abort
    BY <1>2, <1>5 DEF Completions
  <2> QED
    BY <1>1, <1>2, <1>3, <1>5, <2>1, <2>2, CompletionKeeps DEF Completing
<1> QED
  BY <1>4, <1>5 DEF PrepareWrite, BeginWrite, At, Goto

LEMMA PushKeeps ==
    ASSUME IInv, Push \/ PushGuarded \/ PushObserved \/ PushRejected PROVE IInv'
<1> USE DEF journal
<1>1. pc \in {"guard", "push"}
  BY DEF Push, PushGuarded, PushObserved, PushRejected, At
<1>2. /\ comp \in Completions /\ remote \in Commits
      /\ op.cand # NoCand /\ op.cand.commit \in Commits /\ op.cand.base \in Commits
      /\ flights \subseteq [commit : Commits, old : Commits, live : BOOLEAN]
  BY <1>1, Publishing DEF Completing
<1>3. comp.abort = None
  BY <1>1 DEF IInv, Placed
<1>4. None \in Commit
  BY DEF Commit
<1>5. CASE Push
  <2> DEFINE f == [commit |-> op.cand.commit, old |-> remote, live |-> TRUE]
  <2>1. f \in [commit : Commits, old : Commits, live : BOOLEAN]
    BY <1>2
  <2> HIDE DEF f
  <2>2. /\ flights' \subseteq flights \cup {f} /\ pc' = "push" /\ view' = None
        /\ UNCHANGED <<head, journal, local, remote, tips, acked>>
    BY <1>5 DEF Push, Goto, f
  <2> QED
    BY <1>1, <1>2, <1>3, <1>4, <2>1, <2>2, CompletionKeeps DEF Completing
<1>6. CASE PushGuarded
  BY <1>1, <1>2, <1>6, FailsKeeps DEF PushGuarded
<1>7. CASE PushRejected
  BY <1>1, <1>2, <1>7, FailsKeeps DEF PushRejected
<1>8. CASE PushObserved
  <2>1. /\ comp' = [comp EXCEPT !.obs = remote] /\ flights' = Orphaned /\ pc' = "ack" /\ view' = None
        /\ Includes(remote, op.cand.commit)
        /\ UNCHANGED <<head, op, phase, local, remote, tips, acked>>
    BY <1>8 DEF PushObserved, Goto
  <2>2. remote \in Commit /\ remote # None
    BY <1>2, NoneIsNoCommit DEF Commit
  <2>3. comp' \in Completions
    BY <1>2, <2>1, <2>2, Zenon DEF Completions
  <2>4. comp'.obs = remote /\ comp'.abort = comp.abort
    BY <1>2, <2>1 DEF Completions
  <2>5. Public(op.cand.commit)
    BY <1>2, <2>1, SeenIsPublic
  <2>6. flights' \subseteq [commit : Commits, old : Commits, live : BOOLEAN]
    BY <2>1, OrphansTyped DEF IInv
  <2> QED
    BY <1>1, <1>3, <1>4, <2>1, <2>2, <2>3, <2>4, <2>5, <2>6, CompletionKeeps DEF Completing
<1> QED
  BY <1>5, <1>6, <1>7, <1>8

LEMMA AcknowledgeKeeps == ASSUME IInv, Acknowledge PROVE IInv'
<1> USE DEF journal
<1>1. /\ pc = "ack" /\ acked' = acked \cup {op.cand.commit} /\ pc' = "commit"
      /\ UNCHANGED <<head, journal, local, remote, tips, flights, view>>
  BY DEF Acknowledge, At, Goto
<1>2. /\ head.active /\ head.at = "prepared" /\ phase = "prepared" /\ op.kind = "publish"
      /\ op.cand.commit \in Commits
  BY <1>1, Publishing DEF Completing
<1>3. comp.obs # None /\ Public(op.cand.commit)
  BY <1>1 DEF IInv, Placed, Observed
<1>4. Typed'
  BY <1>1, <1>2 DEF IInv, Typed, Positions, Applying
<1>5. Placed'
  BY <1>1, <1>2, <1>3 DEF Placed, Applying, Completing
<1>6. Known' /\ Based' /\ Settled'
  BY <1>1, <1>3 DEF IInv, Known, Based, Settled, Owned, Public
<1>7. Planned'
  BY <1>1 DEF IInv, Planned, PlannedTip, PlannedCandidate, PlannedLocal, Owned, Public
<1>8. Observed'
  BY <1>1, <1>2, <1>3 DEF IInv, Observed, Public
<1> QED
  BY <1>4, <1>5, <1>6, <1>7, <1>8 DEF IInv

LEMMA AbortCompletionKeeps == ASSUME IInv, AbortCompletion PROVE IInv'
<1>1. /\ pc = "abort" /\ comp.obs = None /\ comp' = [comp EXCEPT !.abort = view] /\ pc' = "restore"
      /\ view' = None
      /\ UNCHANGED <<head, op, phase, local, remote, tips, flights, acked>>
  BY DEF AbortCompletion, At, Goto
<1>2. /\ comp \in Completions /\ view \in Commit
      /\ flights \subseteq [commit : Commits, old : Commits, live : BOOLEAN]
  BY <1>1, Publishing DEF Completing
<1>3. view # None /\ None \in Commit
  BY <1>1 DEF IInv, Placed, Commit
<1>4. comp' \in Completions
  BY <1>1, <1>2, Zenon DEF Completions
<1>5. comp'.obs = comp.obs /\ comp'.abort = view
  BY <1>1, <1>2 DEF Completions
<1> QED
  BY <1>1, <1>2, <1>3, <1>4, <1>5, CompletionKeeps DEF Completing

--------------------------------------------------------------------------------
(* The invariant. *)

LEMMA InitHolds == Init => IInv /\ Counted
<1> SUFFICES ASSUME Init PROVE IInv /\ Counted
  OBVIOUS
<1>1. Root \in Commits /\ None \in Commit
  BY DEF Root, Commits, Commit
<1>2. head \in Heads /\ op \in Operations /\ comp \in Completions
  BY <1>1 DEF Init, Heads, Operations, Completions, NoOp, NoComp, NoFail, Kinds, Commit
<1>3. Typed
  BY <1>1, <1>2 DEF Init, Typed, Phases, Positions
<1>4. /\ head.at = "quiet" /\ head.cand = NoCand /\ head.tip = Root /\ head.prefix = None
      /\ comp.obs = None
  BY DEF Init, NoComp
<1>5. Placed
  BY DEF Init, Placed, Applying, Completing
<1>6. Known
  BY <1>1, <1>4, AncestorOfItself DEF Init, Known, Public
<1>7. Based /\ Planned /\ Settled /\ Observed
  BY <1>4 DEF Init, Based, Planned, Settled, Observed, Owned
<1> QED
  BY <1>3, <1>5, <1>6, <1>7 DEF IInv, Init, Counted

LEMMA StepKeeps == IInv /\ Counted /\ [Next]_vars => IInv' /\ Counted'
<1> SUFFICES ASSUME IInv, Counted, [Next]_vars PROVE IInv' /\ Counted'
  OBVIOUS
<1>1. CASE UNCHANGED vars
  <2>1. IInv'
    BY <1>1, MoveKeeps DEF vars, IInv, Typed, Placed, journal
  <2> QED
    BY <1>1, <2>1 DEF vars, bounds, Counted
<1>2. CASE Start
  <2>1. IInv'
    BY <1>2, PlanAcceptKeeps, PlanPromoteKeeps, PlanPublishKeeps, PlanRebindKeeps, PlanReenterKeeps,
       PlanRevalidateKeeps, PlanMaterializeKeeps, PlanAdoptKeeps, FailuresKeep DEF Start
  <2>2. exts' = exts /\ cands' \in {cands, cands + 1}
    BY <1>2 DEF Start, PlanAccept, PlanPromote, PlanPublish, PlanRebind, PlanReenter, PlanRevalidate,
       PlanMaterialize, PlanAdopt, PlanFails, Plan, bounds
  <2> QED
    BY <2>1, <2>2 DEF Counted
<1>3. CASE Step
  <2>1. IInv'
    BY <1>3, RecoverKeeps, FailuresKeep, RacesKeep, ApplyLocalKeeps, CommitHeadKeeps, PhasesKeep,
       QuietsKeep, ResumeKeeps, WriteKeeps, PushKeeps, CrashKeeps, AcknowledgeKeeps,
       AbortCompletionKeeps DEF Step
  <2>2. exts' = exts /\ cands' = cands
    BY <1>3 DEF Step, GuardPassed, GuardViolated, GuardRaced, ApplyLocal, CommitHead, CommitPhase,
       FinalHead, FinalPhase, AbortHead, ResumeCompletion, PrepareWrite, BeginWrite, Push,
       PushGuarded, PushObserved, PushRejected, PushUnresolved, Acknowledge, AbortRefused,
       AbortViolated, AbortCompletion, RestoreCompletion, Recover, Fails, bounds
  <2> QED
    BY <2>1, <2>2 DEF Counted
<1>4. CASE Environment
  <2>1. IInv'
    BY <1>4, CrashKeeps, OthersKeep, PullKeeps DEF Environment
  <2>2. exts' \in {exts, exts + 1} /\ cands' = cands
    BY <1>4 DEF Environment, Crash, ExternalPush, Rewrite, Pull, Land, bounds
  <2> QED
    BY <2>1, <2>2 DEF Counted
<1> QED
  BY <1>1, <1>2, <1>3, <1>4 DEF Next

(* Wherever the controller died and whatever was pushed or rewritten, the head,
   the journal, the local branch and the history of the upstream fit. *)
THEOREM PublicationInvariant == Spec => []IInv
  BY InitHolds, StepKeeps, PTL DEF Spec

(* The integration tip, the immutable prefix and every acknowledged candidate
   were public (applyCandidateCompletion and the plans that read the remote). *)
THEOREM PublishedWasPublic == Spec => []PublicHistory
<1>1. IInv => PublicHistory
  BY DEF IInv, Known, Based, PublicHistory
<1> QED
  BY <1>1, PublicationInvariant, PTL

(* An acknowledged completion is in the integration tip or is the pending
   operation, observed and not aborted. *)
THEOREM AcknowledgedRetires == Spec => []AcknowledgedIsRetired
<1>1. IInv => AcknowledgedIsRetired
  <2> SUFFICES ASSUME IInv, NEW c \in acked
               PROVE  \/ Includes(head.tip, c)
                      \/ /\ op.kind = "publish" /\ op.cand.commit = c
                         /\ head.at = "prepared" /\ phase = "prepared" /\ comp.abort = None
    BY DEF AcknowledgedIsRetired
  <2>1. c \in Commits /\ head.tip \in Commits /\ head.prefix \in Commit
    BY DEF IInv, Typed, Heads
  <2>2. CASE head.prefix # None /\ Includes(head.prefix, c)
    BY <2>1, <2>2, AncestorOfAncestor DEF IInv, Based, Commit
  <2> QED
    BY <2>2 DEF IInv, Observed
<1> QED
  BY <1>1, PublicationInvariant, PTL

(* Between operations a candidate is based on the integration tip and the local
   branch is its commit or was public. *)
THEOREM CandidatesOwnLocal == Spec => []CandidateOwnsLocal
<1>1. IInv => CandidateOwnsLocal
  BY DEF IInv, Based, Settled, Owned, Quiet, CandidateOwnsLocal
<1> QED
  BY <1>1, PublicationInvariant, PTL
================================================================================
