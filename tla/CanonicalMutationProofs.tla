------------------------ MODULE CanonicalMutationProofs ------------------------
(* The controller's authority, proved for every number of leases, of workspace
   snapshots and of faults: a running call keeps its lease, a pending admission
   can be recovered, a preserved fix is settled, and the head moves only over a
   change that a record attributes to somebody. *)
EXTENDS CanonicalMutation, TLAPS

(* Positions of a process that writes under the mutation lock. *)
Settling == {"settleMutation", "settleLease", "settleHead"}
Recording == {"mutation", "lease", "head"}
Binding == {"bindLease", "bindCall", "prepare", "prepareHead"}
Writing == Settling \cup Recording \cup Binding
Transition == {"apply", "commitHead", "commitPhase", "finalizing", "finalHead",
               "finalPhase", "recovered"}
Locked == Writing \cup Transition \cup {"dropIntent", "failUnattributed", "stageIntent"}

ObserverAt == {"idle", "capture", "admit", "settle", "dropIntent"} \cup Settling
WorkflowAt == {"idle", "admit", "settle", "bind", "stage", "gate", "preserve", "record",
               "refused", "clear", "run", "read", "failCall"} \cup Locked

Typed ==
    /\ TypeOK
    /\ pc \in [Procs -> WorkflowAt \cup ObserverAt]
    /\ pc[O] \in ObserverAt
    /\ pc[W] \in WorkflowAt

(* The inductive invariant: of the files, of either process, of the workflow. *)

(* An admission that was granted stands, or the head has moved on since. *)
Standing(a) == Admits(a) \/ a.gen < head.gen

(* The mutation records follow the leases. *)
Records ==
    \A m \in muts :
        /\ m.src < m.tgt /\ m.tgt <= ids
        /\ head.active => m.src <= head.lease
        /\ lease[m.src].gen + 1 = m.gen

(* The journalled admission: how far it came is written in the head. *)
AtSource == head.gen = op.src.gen + 1 /\ head.lease = op.src.lease
AtTarget == head.gen = op.src.gen + 2 /\ head.lease = op.tgt

Journalled ==
    head.active /\ head.pending =>
        /\ op.tgt <= ids
        /\ \/ /\ AtSource /\ phase \in {"prepared", "applied"}
              /\ op.src.lease < op.tgt
              /\ lease[op.tgt].snap = lease[op.src.lease].snap
           \/ AtTarget /\ phase \in {"prepared", "applied", "committed", "finalizing"}

Disk ==
    /\ head.gen >= 1
    /\ head.active => head.lease # 0
    /\ head.lease <= ids
    /\ Standing(intent.src)
    /\ Records
    /\ Journalled

(* Who writes a lease does it for the head's next identity, while the head is
   quiescent and agrees with its own lease. The record and then the lease are
   on disk before the head names them. *)
Process(p) ==
    /\ pc[p] \in Locked => lock = p
    /\ adm[p].gen <= head.gen /\ new[p] <= ids
    /\ pc[p] \in Writing =>
        /\ head.active /\ ~head.pending
        /\ lease[head.lease].gen = head.gen
        /\ head.lease < new[p]
    /\ pc[p] \in Settling \cup Recording => after[p] \in Snaps
    /\ pc[p] \in {"lease", "head", "settleLease", "settleHead"} =>
        \E m \in muts : /\ m.src = head.lease /\ m.tgt = new[p]
                        /\ m.gen = head.gen + 1 /\ m.after = after[p]
    /\ pc[p] \in {"head", "settleHead"} => lease[new[p]].snap = after[p]

(* The workflow's admissions, and its transition as far as it came. *)
Admission ==
    /\ pc[W] \in {"bind", "run"} \cup Binding => kind = "model"
    /\ pc[W] \in {"read", "stage", "stageIntent", "gate", "preserve"} => kind # "model"
    /\ pc[W] \in {"record", "preserve"} => after[W] \in Snaps
    /\ pc[W] \in {"stage", "stageIntent"} => Standing(adm[W])
    /\ pc[W] \in Recording \cup Binding => Admits(adm[W])
    /\ pc[W] \in {"prepare", "prepareHead"} => lease[new[W]].snap = adm[W].snap
    /\ pc[W] = "prepareHead" =>
        op.src = adm[W] /\ op.tgt = new[W] /\ phase = "prepared"

Transit ==
    /\ pc[W] \in {"apply", "commitHead", "commitPhase", "finalizing", "finalHead"} => head.active
    /\ pc[W] = "commitHead" => head.pending /\ AtSource
    /\ pc[W] \in {"commitPhase", "finalizing", "finalHead"} => head.pending /\ AtTarget
    /\ pc[W] = "finalHead" => phase = "finalizing"
    /\ pc[W] = "finalPhase" => ~head.pending

(* No staged fix can be settled under the lease of a call. *)
Calling == {"run", "failCall", "record"} \cup Recording
CallIsAlone ==
    /\ pc[W] \in Calling /\ kind = "model" => Admits(adm[W]) /\ pc[O] \notin Settling
    /\ pc[W] \in Calling \cup Transition /\ kind = "model" => intent.src.gen < head.gen

Workflow == Admission /\ Transit /\ CallIsAlone

IInv == Typed /\ Disk /\ Process(W) /\ Process(O) /\ Workflow

--------------------------------------------------------------------------------
(* Types. *)

LEMMA TwoProcesses == W \in Procs /\ O \in Procs /\ W # O /\ \A p \in Procs : p = W \/ p = O
  BY DEF Procs, W, O

(* The positions, spelled out. *)
LEMMA PositionSets ==
    /\ Settling \subseteq Writing /\ Recording \subseteq Writing /\ Binding \subseteq Writing
    /\ Writing \subseteq Locked /\ Transition \subseteq Locked /\ Locked \subseteq WorkflowAt
    /\ "idle" \notin Locked /\ "idle" \in WorkflowAt /\ "idle" \in ObserverAt
  BY DEF Settling, Recording, Binding, Writing, Transition, Locked, WorkflowAt, ObserverAt

(* What a process remembers, the lock and the kind of the command. *)
Memory ==
    /\ pc \in [Procs -> WorkflowAt \cup ObserverAt]
    /\ pc[O] \in ObserverAt /\ pc[W] \in WorkflowAt
    /\ lock \in Procs \cup {Nobody}
    /\ kind \in {"model", "readonly", "quality", "recover"}
    /\ adm \in [Procs -> Admissions]
    /\ new \in [Procs -> 0..MaxIds]
    /\ after \in [Procs -> Image]

(* The controller's files. *)
Stored ==
    /\ head \in [gen : Nat, active : BOOLEAN, pending : BOOLEAN, lease : 0..MaxIds]
    /\ lease \in [Ids -> [gen : Nat, snap : Image, call : BOOLEAN]]
    /\ ids \in 0..MaxIds
    /\ muts \subseteq [src : Ids, tgt : Ids, gen : Nat, quality : BOOLEAN, after : Snaps]
    /\ op \in [src : Admissions, tgt : 0..MaxIds]
    /\ phase \in {"none", "prepared", "applied", "committed", "finalizing",
                  "finalized", "failed"}
    /\ intent \in [src : Admissions, out : Image]

LEMMA TypedParts == Typed <=> Memory /\ Stored /\ ws \in Snaps /\ faults \in 0..MaxFaults
  BY DEF Typed, TypeOK, Memory, Stored

LEMMA TypedPartsNext ==
    Typed' <=> Memory' /\ Stored' /\ (ws \in Snaps)' /\ (faults \in 0..MaxFaults)'
  BY TypedParts, PTL

LEMMA NothingTyped == NoAdmission \in Admissions /\ NoIntent \in [src : Admissions, out : Image]
  BY MutationAssumption DEF NoAdmission, NoIntent, Admissions, Image

(* A process moves to a position of its own. *)
LEMMA GotoTyped ==
    ASSUME Memory, NEW p \in Procs, NEW label, Goto(p, label),
           label \in IF p = W THEN WorkflowAt ELSE ObserverAt
    PROVE  /\ pc' \in [Procs -> WorkflowAt \cup ObserverAt]
           /\ pc'[O] \in ObserverAt /\ pc'[W] \in WorkflowAt
           /\ pc'[p] = label /\ \A q \in Procs : q # p => pc'[q] = pc[q]
  BY TwoProcesses DEF Memory, Goto

(* The command of a process ends. *)
LEMMA EndTyped ==
    ASSUME Memory, NEW p \in Procs, End(p)
    PROVE  /\ Memory'
           /\ pc'[p] = "idle" /\ adm'[p] = NoAdmission /\ new'[p] = 0 /\ after'[p] = None
           /\ \A q \in Procs : q # p =>
                /\ pc'[q] = pc[q] /\ adm'[q] = adm[q] /\ new'[q] = new[q] /\ after'[q] = after[q]
                /\ lock = q <=> lock' = q
<1>1. Goto(p, "idle")
  BY DEF End
<1>2. /\ pc' \in [Procs -> WorkflowAt \cup ObserverAt] /\ pc'[O] \in ObserverAt
      /\ pc'[W] \in WorkflowAt /\ pc'[p] = "idle" /\ \A q \in Procs : q # p => pc'[q] = pc[q]
  BY <1>1, GotoTyped, PositionSets
<1>3. adm' \in [Procs -> Admissions] /\ adm'[p] = NoAdmission /\ \A q \in Procs : q # p => adm'[q] = adm[q]
  BY NothingTyped DEF End, Memory
<1>4. new' \in [Procs -> 0..MaxIds] /\ new'[p] = 0 /\ \A q \in Procs : q # p => new'[q] = new[q]
  BY MutationAssumption DEF End, Memory
<1>5. after' \in [Procs -> Image] /\ after'[p] = None /\ \A q \in Procs : q # p => after'[q] = after[q]
  BY DEF End, Memory, Image
<1>6. lock' \in Procs \cup {Nobody} /\ kind' \in {"model", "readonly", "quality", "recover"}
  BY DEF End, Memory
<1>7. \A q \in Procs : q # p => (lock = q <=> lock' = q)
  BY DEF End, Nobody, Procs, W, O
<1> QED
  BY <1>2, <1>3, <1>4, <1>5, <1>6, <1>7 DEF Memory

--------------------------------------------------------------------------------
(* What one process does leaves the other alone. *)

(* A process that does not act keeps its part of the invariant, if whoever acts
   writes only under a lock this process does not hold. *)
LEMMA OtherProcess ==
    ASSUME NEW q \in Procs, Typed, Typed', Process(q),
           pc'[q] = pc[q], adm'[q] = adm[q], new'[q] = new[q], after'[q] = after[q],
           lock = q => UNCHANGED <<head, lease, muts, lock>>,
           ids <= ids', head.gen <= head'.gen
    PROVE  Process(q)'
<1>1. /\ adm[q].gen \in Nat /\ new[q] \in Nat /\ ids \in Nat /\ ids' \in Nat
      /\ head.gen \in Nat /\ head'.gen \in Nat
  BY MutationAssumption DEF Typed, TypeOK, Admissions
<1>2. CASE lock # q
  <2>1. pc[q] \notin Locked
    BY <1>2 DEF Process
  <2>2. pc'[q] \notin Locked \cup Writing \cup Settling \cup Recording
                  \cup {"lease", "head", "settleLease", "settleHead"}
    BY <2>1 DEF Locked, Writing, Settling, Recording
  <2> QED
    BY <1>1, <2>2 DEF Process
<1>3. CASE lock = q
  BY <1>1, <1>3 DEF Process
<1> QED
  BY <1>2, <1>3

(* A granted admission stands while the head and its lease stay, and is
   outdated for good by a later head. *)
LEMMA StandingKept ==
    ASSUME Typed, Typed',
           \/ head' = head /\ (head.lease # 0 => lease'[head.lease] = lease[head.lease])
           \/ head'.gen > head.gen
    PROVE  \A a \in Admissions : Standing(a) => Standing(a)'
  BY DEF Typed, TypeOK, Admissions, Standing, Admits, Claims

(* The files are the invariant's when no file changes. *)
LEMMA DiskUnchanged == ASSUME Disk, UNCHANGED files PROVE Disk'
  BY DEF Disk, files, Standing, Admits, Claims, Records, Journalled, AtSource, AtTarget

(* A command that ends without a write keeps the invariant. *)
LEMMA EndKeeps ==
    ASSUME IInv, NEW p \in Procs, End(p), UNCHANGED files, ws' \in Snaps, faults' \in 0..MaxFaults
    PROVE  IInv'
<1>1. /\ Memory'
      /\ pc'[p] = "idle" /\ adm'[p] = NoAdmission /\ new'[p] = 0 /\ after'[p] = None
      /\ \A q \in Procs : q # p =>
            /\ pc'[q] = pc[q] /\ adm'[q] = adm[q] /\ new'[q] = new[q] /\ after'[q] = after[q]
            /\ lock = q <=> lock' = q
  BY EndTyped, TypedParts DEF IInv
<1>2. Stored'
  BY TypedParts DEF IInv, Stored, files
<1>3. Typed'
  BY <1>1, <1>2, TypedPartsNext
<1>4. Process(p)'
  BY <1>1, <1>3, PositionSets DEF Process, NoAdmission, IInv, Typed, TypeOK, files, Settling, Recording
<1>5. head.gen <= head'.gen /\ ids <= ids'
  BY MutationAssumption DEF files, IInv, Typed, TypeOK
<1>6. \A q \in Procs : q # p => Process(q)'
  BY <1>1, <1>3, <1>5, OtherProcess, TwoProcesses DEF IInv, files
<1>7. Workflow'
  <2>1. CASE p = W
    BY <1>1, <2>1 DEF Workflow, Admission, Transit, CallIsAlone, Calling, Recording, Binding, Transition
  <2>2. CASE p = O
    BY <1>1, <2>2, TwoProcesses DEF Workflow, Admission, Transit, CallIsAlone, IInv, files, End,
       Standing, Admits, Claims, AtSource, AtTarget, Settling
  <2> QED
    BY <2>1, <2>2, TwoProcesses
<1> QED
  BY <1>3, <1>4, <1>6, <1>7, DiskUnchanged, TwoProcesses DEF IInv

(* A step of the workflow that writes no file. *)
LEMMA WorkflowMoves ==
    ASSUME IInv, UNCHANGED files, Memory', ws' \in Snaps, faults' \in 0..MaxFaults,
           pc'[O] = pc[O], adm'[O] = adm[O], new'[O] = new[O], after'[O] = after[O],
           lock = O => lock' = O, Process(W)', Workflow'
    PROVE  IInv'
<1>1. Stored'
  BY TypedParts DEF IInv, Stored, files
<1>2. Typed'
  BY <1>1, TypedPartsNext
<1>3. head.gen <= head'.gen /\ ids <= ids'
  BY MutationAssumption DEF files, IInv, Typed, TypeOK
<1>4. Process(O)'
  BY <1>2, <1>3, OtherProcess, TwoProcesses DEF IInv, files
<1> QED
  BY <1>2, <1>4, DiskUnchanged DEF IInv

(* The memory of the other process, and the types, after a move alone. *)
LEMMA MoveTyped ==
    ASSUME Memory, NEW p \in Procs, NEW label, Goto(p, label),
           label \in IF p = W THEN WorkflowAt ELSE ObserverAt,
           UNCHANGED <<kind, adm, new, after>>, lock' \in Procs \cup {Nobody}
    PROVE  Memory' /\ pc'[p] = label /\ \A q \in Procs : q # p => pc'[q] = pc[q]
<1>1. /\ pc' \in [Procs -> WorkflowAt \cup ObserverAt]
      /\ pc'[O] \in ObserverAt /\ pc'[W] \in WorkflowAt
      /\ pc'[p] = label /\ \A q \in Procs : q # p => pc'[q] = pc[q]
  BY GotoTyped
<1> QED
  BY <1>1 DEF Memory

--------------------------------------------------------------------------------
(* Beginning a command, being admitted or not. *)

LEMMA BeginKeeps == ASSUME IInv, NEW k \in {"model", "readonly", "quality"}, Begin(k) PROVE IInv'
<1>1. Memory /\ Goto(W, "admit") /\ head.gen \in Nat /\ head.lease \in 0..MaxIds
  BY TypedParts DEF Begin, IInv, Stored
<1>2. /\ pc' \in [Procs -> WorkflowAt \cup ObserverAt]
      /\ pc'[O] \in ObserverAt /\ pc'[W] \in WorkflowAt
      /\ pc'[W] = "admit" /\ pc'[O] = pc[O]
  BY <1>1, GotoTyped, TwoProcesses DEF WorkflowAt
<1>3. /\ adm' \in [Procs -> Admissions] /\ adm'[O] = adm[O]
      /\ adm'[W] = [gen |-> head.gen, lease |-> head.lease, snap |-> ws]
  BY <1>1, TwoProcesses, TypedParts DEF Begin, Memory, Admissions, IInv, Image
<1>4. Memory' /\ UNCHANGED <<files, ws, faults, lock, new, after>>
  BY <1>1, <1>2, <1>3 DEF Begin, Memory
<1>5. Process(W)'
  BY <1>1, <1>2, <1>3, <1>4 DEF Process, IInv, files, Locked, Writing, Settling, Recording,
     Binding, Transition
<1>6. Workflow'
  BY <1>2 DEF Workflow, Admission, Transit, CallIsAlone, Calling, Recording, Binding, Transition
<1> QED
  BY <1>2, <1>3, <1>4, <1>5, <1>6, WorkflowMoves, TypedParts DEF IInv

(* A step of the observer that writes no file and does not settle. *)
LEMMA ObserverMoves ==
    ASSUME IInv, UNCHANGED <<files, ws, faults, lock, kind>>, Memory',
           pc'[W] = pc[W], adm'[W] = adm[W], new'[W] = new[W], after'[W] = after[W],
           pc'[O] \in {"capture", "admit", "settle"},
           adm'[O].gen <= head.gen, new'[O] = new[O]
    PROVE  IInv'
<1>1. Typed'
  BY TypedParts, TypedPartsNext DEF IInv, Stored, files
<1>2. head.gen <= head'.gen /\ ids <= ids'
  BY MutationAssumption DEF files, IInv, Typed, TypeOK
<1>3. Process(W)'
  BY <1>1, <1>2, OtherProcess, TwoProcesses DEF IInv, files
<1>4. Process(O)'
  BY DEF Process, IInv, files, Locked, Writing, Settling, Recording, Binding, Transition
<1>5. Workflow'
  BY DEF Workflow, Admission, Transit, CallIsAlone, IInv, files, Standing, Admits, Claims,
     AtSource, AtTarget, Settling
<1> QED
  BY <1>1, <1>3, <1>4, <1>5, DiskUnchanged DEF IInv

LEMMA ObserveKeeps == ASSUME IInv, Observe \/ Capture PROVE IInv'
<1>1. Memory /\ head.gen \in Nat /\ head.lease \in 0..MaxIds /\ ws \in Snaps
  BY TypedParts DEF IInv, Stored
<1>2. PICK label \in {"capture", "admit"} : Goto(O, label)
  BY DEF Observe, Capture
<1>3. /\ pc' \in [Procs -> WorkflowAt \cup ObserverAt]
      /\ pc'[O] \in ObserverAt /\ pc'[W] \in WorkflowAt
      /\ pc'[O] = label /\ pc'[W] = pc[W]
  BY <1>1, <1>2, GotoTyped, TwoProcesses DEF ObserverAt
<1>4. adm' \in [Procs -> Admissions] /\ adm'[W] = adm[W] /\ adm'[O].gen <= head.gen
  <2>1. CASE Observe
    BY <1>1, <2>1, TwoProcesses DEF Observe, Memory, Admissions, Image
  <2>2. CASE Capture
    BY <1>1, <2>2, TwoProcesses DEF Capture, Memory, Admissions, Image, IInv, Process
  <2> QED
    BY <2>1, <2>2
<1>5. UNCHANGED <<files, ws, faults, lock, kind, new, after>>
  BY DEF Observe, Capture
<1>6. Memory'
  BY <1>1, <1>3, <1>4, <1>5 DEF Memory
<1> QED
  BY <1>3, <1>4, <1>5, <1>6, ObserverMoves

(* What an admission leads to follows from the kind of the command. *)
LEMMA AdmittedSteps ==
    /\ AdmittedStep \in {"bind", "read", "stage"}
    /\ AdmittedStep = "bind" <=> kind = "model"
  BY DEF AdmittedStep

LEMMA AdmitKeeps == ASSUME IInv, NEW p \in Procs, Admitted(p) \/ NotAdmitted(p) PROVE IInv'
<1> USE DEF files
<1>1. Memory /\ ws \in Snaps /\ faults \in 0..MaxFaults
  BY TypedParts DEF IInv
<1>2. UNCHANGED <<files, ws, faults>>
  BY DEF Admitted, NotAdmitted
<1>3. CASE End(p)
  BY <1>1, <1>2, <1>3, EndKeeps
<1>4. ASSUME NEW label \in {"bind", "read", "stage", "settle"}, Goto(p, label),
             UNCHANGED <<lock, kind, adm, new, after>>,
             label # "settle" => p = W /\ Admits(adm[W]),
             label = "bind" => kind = "model",
             label \in {"read", "stage"} => kind # "model"
      PROVE  IInv'
  <2>1. Memory' /\ pc'[p] = label /\ \A q \in Procs : q # p => pc'[q] = pc[q]
    BY <1>1, <1>4, MoveTyped, TwoProcesses DEF WorkflowAt, ObserverAt, Memory
  <2>2. CASE p = O
    BY <1>2, <1>4, <2>1, <2>2, ObserverMoves, TwoProcesses DEF IInv, Process
  <2>3. CASE p = W
    <3>1. Process(W)'
      BY <1>2, <1>4, <2>1, <2>3 DEF Process, IInv, Locked, Writing, Settling, Recording,
         Binding, Transition
    <3>2. Workflow'
      BY <1>2, <1>4, <2>1, <2>3 DEF Workflow, Admission, Transit, CallIsAlone, Calling, Recording,
         Binding, Transition, Standing, Admits, Claims
    <3> QED
      BY <1>1, <1>2, <1>4, <2>1, <2>3, <3>1, <3>2, WorkflowMoves, TwoProcesses
  <2> QED
    BY <2>2, <2>3, TwoProcesses
<1>5. CASE Admitted(p) /\ p = W
  BY <1>4, <1>5, AdmittedSteps, TwoProcesses DEF Admitted
<1>6. CASE NotAdmitted(p)
  BY <1>4, <1>6 DEF NotAdmitted
<1>7. CASE Admitted(p) /\ p = O
  BY <1>3, <1>7 DEF Admitted
<1> QED
  BY <1>5, <1>6, <1>7, TwoProcesses

(* Failing closed: the head moves on without a lease, and the command ends. *)
LEMMA FailClosedKeeps ==
    ASSUME IInv, FailHead, End(W), lock # O, UNCHANGED <<ws, faults>>,
           phase' \in {phase, "failed"}
    PROVE  IInv'
<1>1. /\ Memory'
      /\ pc'[W] = "idle" /\ adm'[W] = NoAdmission /\ new'[W] = 0
      /\ pc'[O] = pc[O] /\ adm'[O] = adm[O] /\ new'[O] = new[O] /\ after'[O] = after[O]
  BY EndTyped, TypedParts, TwoProcesses DEF IInv
<1>2. head.gen \in Nat /\ head.pending \in BOOLEAN /\ ids \in Nat
  BY TypedParts, MutationAssumption DEF IInv, Stored
<1>3. /\ head' \in [gen : Nat, active : BOOLEAN, pending : BOOLEAN, lease : 0..MaxIds]
      /\ head'.gen = head.gen + 1 /\ head'.lease = 0 /\ ~head'.active
      /\ UNCHANGED <<lease, ids, muts, op, intent>>
  <2>1. head \in [gen : Nat, active : BOOLEAN, pending : BOOLEAN, lease : 0..MaxIds]
    BY TypedParts DEF IInv, Stored
  <2>2. /\ head' = [head EXCEPT !.gen = head.gen + 1, !.active = FALSE, !.lease = 0]
        /\ UNCHANGED <<lease, ids, muts, op, intent>>
    BY DEF FailHead
  <2>3. /\ head'.gen = head.gen + 1 /\ head'.lease = 0 /\ head'.active = FALSE
    BY <2>1, <2>2
  <2>4. head.gen + 1 \in Nat /\ 0 \in 0..MaxIds /\ FALSE \in BOOLEAN
    BY <1>2, MutationAssumption
  <2>5. head' \in [gen : Nat, active : BOOLEAN, pending : BOOLEAN, lease : 0..MaxIds]
    BY <2>1, <2>2, <2>4, Zenon
  <2> QED
    BY <2>2, <2>3, <2>5
<1>4. Typed'
  BY <1>1, <1>3, TypedParts, TypedPartsNext DEF IInv, Stored
<1>5. intent.src \in Admissions /\ Standing(intent.src)
  BY TypedParts DEF IInv, Stored, Disk
<1>6. Standing(intent.src)'
  <2>1. head'.gen > head.gen
    BY <1>2, <1>3
  <2>2. \A a \in Admissions : Standing(a) => Standing(a)'
    BY <1>4, <2>1, StandingKept DEF IInv
  <2> QED
    BY <1>2, <1>3, <1>5 DEF Standing, Admits, Claims, Admissions
<1>7. Disk'
  BY <1>2, <1>3, <1>6 DEF Disk, Records, Journalled, IInv
<1>8. Process(W)'
  BY <1>1, <1>2, <1>3, PositionSets DEF Process, NoAdmission, Settling, Recording
<1>9. Process(O)'
  BY <1>1, <1>2, <1>3, <1>4, OtherProcess, TwoProcesses DEF IInv
<1>10. Workflow'
  BY <1>1 DEF Workflow, Admission, Transit, CallIsAlone, Calling, Recording, Binding, Transition
<1> QED
  BY <1>4, <1>7, <1>8, <1>9, <1>10 DEF IInv

LEMMA CannotSettleKeeps ==
    ASSUME IInv, (\E p \in Procs : CannotSettle(p)) \/ FailUnattributed PROVE IInv'
<1>1. Memory /\ ws \in Snaps /\ faults \in 0..MaxFaults
  BY TypedParts DEF IInv
<1>2. ASSUME NEW p \in Procs, CannotSettle(p) PROVE IInv'
  <2>1. UNCHANGED <<files, ws, faults>>
    BY <1>2 DEF CannotSettle
  <2>2. CASE End(p)
    BY <1>1, <2>1, <2>2, EndKeeps
  <2>3. CASE p = W /\ lock = Nobody /\ Goto(W, "failUnattributed") /\ lock' = W
             /\ UNCHANGED <<kind, adm, new, after>>
    <3>1. Memory' /\ pc'[W] = "failUnattributed" /\ pc'[O] = pc[O]
      BY <1>1, <2>3, MoveTyped, TwoProcesses DEF WorkflowAt, Locked
    <3>2. Process(W)'
      BY <2>1, <2>3, <3>1 DEF Process, IInv, files, Writing, Settling, Recording, Binding
    <3>3. Workflow'
      BY <3>1 DEF Workflow, Admission, Transit, CallIsAlone, Calling, Recording, Binding, Transition
    <3> QED
      BY <1>1, <2>1, <2>3, <3>1, <3>2, <3>3, WorkflowMoves, TwoProcesses DEF Nobody, O
  <2> QED
    BY <1>2, <2>2, <2>3 DEF CannotSettle
<1>3. CASE FailUnattributed
  <2>1. lock # O
    BY <1>3, TwoProcesses DEF FailUnattributed, At, IInv, Process, Locked
  <2> QED
    BY <1>3, <2>1, FailClosedKeeps DEF FailUnattributed
<1> QED
  BY <1>2, <1>3

--------------------------------------------------------------------------------
(* Settling and recording a mutation. *)

(* The next identity is beyond everything handed out. *)
LEMMA NewIdTyped ==
    ASSUME Typed, NEW p \in Procs, NewId(p)
    PROVE  /\ ids' \in 0..MaxIds /\ ids' = ids + 1 /\ ids \in Nat
           /\ new' \in [Procs -> 0..MaxIds] /\ new'[p] = ids + 1
           /\ \A q \in Procs : q # p => new'[q] = new[q]
  BY MutationAssumption DEF Typed, TypeOK, NewId, Fresh

(* A step under the lock after which the files are the same but for a new
   identity. *)
LEMMA SettleKeeps == ASSUME IInv, NEW p \in Procs, Settle(p) PROVE IInv'
<1>1. Memory /\ Stored /\ Typed /\ ws \in Snaps
  BY TypedParts DEF IInv
<1>2. /\ lock = Nobody /\ lock' = p /\ Settles(adm[p]) /\ pc[p] = "settle"
      /\ UNCHANGED <<head, lease, muts, op, phase, intent, ws, kind, adm, faults>>
  BY DEF Settle, Acquire, At
<1>3. /\ intent.out \in Snaps /\ Admits(intent.src) /\ intent.src.gen = head.gen
      /\ intent.src.lease = head.lease
  BY <1>1, <1>2 DEF Settles, Covers, Stored, Image
<1>4. /\ head.active /\ ~head.pending /\ lease[head.lease].gen = head.gen /\ head.lease \in Ids
  BY <1>1, <1>3 DEF Admits, Claims, Stored, Ids
<1>5. after' \in [Procs -> Image] /\ after'[p] = intent.out /\ \A q \in Procs : q # p => after'[q] = after[q]
  BY <1>1, <1>3 DEF Settle, Memory, Image
<1>6. /\ pc'[p] \in {"settleMutation", "settleLease"}
      /\ new' \in [Procs -> 0..MaxIds] /\ \A q \in Procs : q # p => new'[q] = new[q]
      /\ ids' \in 0..MaxIds /\ ids <= ids' /\ head.lease < new'[p] /\ new'[p] <= ids'
      /\ pc'[p] = "settleLease" =>
            \E m \in muts : /\ m.src = head.lease /\ m.tgt = new'[p]
                            /\ m.gen = head.gen + 1 /\ m.after = after'[p]
  <2>1. CASE QualityRecords(intent.src.lease) = {}
    BY <1>1, <1>4, <2>1, NewIdTyped DEF Settle, Goto, Memory, Stored, IInv, Disk, Ids
  <2>2. CASE QualityRecords(intent.src.lease) # {}
    <3>1. PICK m \in QualityRecords(intent.src.lease) :
            m.after = intent.out /\ new' = [new EXCEPT ![p] = m.tgt]
      BY <2>2 DEF Settle
    <3>2. m \in muts /\ m.src = head.lease /\ m.tgt \in 0..MaxIds
      BY <1>1, <1>3, <3>1, MutationAssumption DEF QualityRecords, Stored, Ids
    <3>3. m.src < m.tgt /\ m.tgt <= ids /\ m.gen = head.gen + 1
      BY <1>4, <3>2 DEF IInv, Disk, Records
    <3>4. new' \in [Procs -> 0..MaxIds] /\ new'[p] = m.tgt /\ \A q \in Procs : q # p => new'[q] = new[q]
      BY <1>1, <3>1, <3>2 DEF Memory
    <3>5. pc'[p] = "settleLease" /\ ids' = ids
      BY <1>1, <2>2 DEF Settle, Goto, Memory
    <3> QED
      BY <1>1, <1>5, <3>1, <3>2, <3>3, <3>4, <3>5, MutationAssumption DEF Stored
  <2> QED
    BY <2>1, <2>2
<1>7. /\ pc' \in [Procs -> WorkflowAt \cup ObserverAt]
      /\ pc'[O] \in ObserverAt /\ pc'[W] \in WorkflowAt
      /\ \A q \in Procs : q # p => pc'[q] = pc[q]
  <2>1. PICK label \in {"settleMutation", "settleLease"} : Goto(p, label)
    BY DEF Settle
  <2> QED
    BY <1>1, <2>1, GotoTyped DEF WorkflowAt, ObserverAt, Locked, Writing, Settling
<1>8. Typed'
  BY <1>1, <1>2, <1>5, <1>6, <1>7, TypedParts, TypedPartsNext DEF Memory, Stored, IInv
<1>9. Process(p)'
  BY <1>2, <1>3, <1>4, <1>5, <1>6, TwoProcesses DEF Process, IInv
<1>10. \A q \in Procs : q # p => Process(q)'
  <2> SUFFICES ASSUME NEW q \in Procs, q # p PROVE Process(q)'
    OBVIOUS
  <2>1. lock # q /\ head.gen <= head'.gen /\ Process(q)
    BY <1>1, <1>2, TwoProcesses DEF Nobody, Procs, W, O, Stored, IInv
  <2> QED
    BY <1>1, <1>2, <1>5, <1>6, <1>7, <1>8, <2>1, OtherProcess
<1>11. Disk'
  BY <1>1, <1>2, <1>6 DEF IInv, Disk, Standing, Admits, Claims, Records, Journalled, AtSource,
     AtTarget, Stored, Ids
<1>12. Workflow'
  <2>1. CASE p = W
    BY <1>6, <2>1 DEF Workflow, Admission, Transit, CallIsAlone, Calling, Recording, Binding, Transition
  <2>2. CASE p = O
    <3>1. pc'[W] = pc[W] /\ new'[W] = new[W] /\ after'[W] = after[W] /\ pc[W] \notin Locked
      BY <1>2, <1>5, <1>6, <1>7, <2>2, TwoProcesses DEF IInv, Process, Nobody, W
    <3>2. ~(pc[W] \in Calling /\ kind = "model")
      BY <1>1, <1>3 DEF IInv, Workflow, CallIsAlone, Stored, Admissions
    <3> QED
      BY <1>2, <3>1, <3>2 DEF IInv, Workflow, Admission, Transit, CallIsAlone, Standing, Admits, Claims,
         Locked, Writing, Recording, Binding, Transition
  <2> QED
    BY <2>1, <2>2, TwoProcesses
<1> QED
  BY <1>8, <1>9, <1>10, <1>11, <1>12, TwoProcesses DEF IInv

(* The workflow's part while the observer writes: it holds the lock, so the
   workflow does not, and nothing is settled under the lease of a call. *)
LEMMA ObserverWrites ==
    ASSUME IInv, Typed', lock = O,
           pc'[W] = pc[W], adm'[W] = adm[W], after'[W] = after[W], kind' = kind,
           \/ head' = head /\ (head.lease # 0 => lease'[head.lease] = lease[head.lease])
           \/ head'.gen > head.gen,
           \/ pc[O] \in Settling
           \/ UNCHANGED <<head, lease>> /\ pc'[O] \notin Settling /\ intent'.src.gen < head.gen
    PROVE  Workflow'
<1>1. pc[W] \notin Locked
  BY TwoProcesses DEF IInv, Process
<1>2. pc[W] \notin Recording \cup Binding \cup Transition \cup {"prepare", "prepareHead", "stageIntent"}
  BY <1>1 DEF Locked, Writing, Binding
<1>3. adm[W] \in Admissions
  BY TwoProcesses DEF IInv, Typed, TypeOK
<1>4. Standing(adm[W]) => Standing(adm[W])'
  <2>1. \A a \in Admissions : Standing(a) => Standing(a)'
    BY StandingKept DEF IInv
  <2> QED
    BY <1>3, <2>1 DEF Standing, Admits, Claims
<1>5. Admission'
  BY <1>2, <1>4 DEF IInv, Workflow, Admission
<1>6. Transit'
  BY <1>2 DEF Transit, Transition
<1>7. CallIsAlone'
  BY <1>2 DEF IInv, Workflow, CallIsAlone, Calling, Admits, Claims
<1> QED
  BY <1>5, <1>6, <1>7 DEF Workflow

(* What a process that is about to write knows. *)
LEMMA Writer ==
    ASSUME IInv, NEW p \in Procs, pc[p] \in Writing
    PROVE  /\ lock = p /\ head.active /\ ~head.pending /\ lease[head.lease].gen = head.gen
           /\ head.lease \in Ids /\ new[p] \in Ids /\ head.lease < new[p] /\ new[p] <= ids
           /\ head.gen \in Nat /\ ids \in Nat
           /\ pc[p] \in Settling \cup Recording => after[p] \in Snaps
           /\ p = O => pc[p] \in Settling
<1>1. Process(p) /\ head.active => head.lease # 0
  BY TwoProcesses DEF IInv, Disk
<1>2. head.lease \in 0..MaxIds /\ new[p] \in 0..MaxIds /\ head.gen \in Nat /\ ids \in 0..MaxIds
  BY DEF IInv, Typed, TypeOK
<1>3. lock = p
  BY <1>1, PositionSets, TwoProcesses DEF IInv, Process
<1>4. p = O => pc[p] \in Settling
  BY DEF IInv, Typed, ObserverAt, Writing, Settling, Recording, Binding
<1> QED
  BY <1>1, <1>2, <1>3, <1>4, TwoProcesses, MutationAssumption DEF IInv, Process, Ids

LEMMA WriteMutationKeeps == ASSUME IInv, NEW p \in Procs, WriteMutation(p) PROVE IInv'
<1> DEFINE next == IF pc[p] = "mutation" THEN "lease" ELSE "settleLease"
           r == [src |-> head.lease, tgt |-> new[p], gen |-> head.gen + 1,
                 quality |-> (pc[p] = "settleMutation" \/ kind = "quality"), after |-> after[p]]
<1>1. /\ pc[p] \in {"mutation", "settleMutation"} /\ muts' = muts \cup {r} /\ Goto(p, next)
      /\ UNCHANGED <<head, lease, ids, op, phase, intent, ws, lock, kind, adm, new, after, faults>>
  BY DEF WriteMutation, Record
<1>2. pc[p] \in Writing /\ pc[p] \in Settling \cup Recording /\ Memory /\ Stored /\ Typed
  BY <1>1, TypedParts DEF Writing, Settling, Recording, IInv
<1>3. /\ lock = p /\ head.active /\ ~head.pending /\ lease[head.lease].gen = head.gen
      /\ head.lease \in Ids /\ new[p] \in Ids /\ head.lease < new[p] /\ new[p] <= ids
      /\ head.gen \in Nat /\ ids \in Nat /\ after[p] \in Snaps
      /\ p = O => pc[p] \in Settling
  BY <1>2, Writer
<1>4. next \in IF p = W THEN WorkflowAt ELSE ObserverAt
  BY <1>1, <1>3, TwoProcesses DEF WorkflowAt, ObserverAt, Locked, Writing, Settling, Recording
<1>5. Memory' /\ pc'[p] = next /\ \A q \in Procs : q # p => pc'[q] = pc[q]
  BY <1>1, <1>2, <1>4, MoveTyped DEF Memory
<1>6. Stored'
  <2>1. r \in [src : Ids, tgt : Ids, gen : Nat, quality : BOOLEAN, after : Snaps]
    <3>1. head.gen + 1 \in Nat /\ (pc[p] = "settleMutation" \/ kind = "quality") \in BOOLEAN
      BY <1>3
    <3> QED
      BY <1>3, <3>1, Zenon
  <2> HIDE DEF r
  <2> QED
    BY <1>1, <1>2, <2>1 DEF Stored
<1>7. Typed'
  BY <1>1, <1>2, <1>5, <1>6, TypedParts, TypedPartsNext DEF IInv
<1>8. r \in muts' /\ r.src = head.lease /\ r.tgt = new[p] /\ r.gen = head.gen + 1 /\ r.after = after[p]
  BY <1>1
<1> HIDE DEF r
<1>9. Disk'
  <2>1. Records'
    BY <1>1, <1>2, <1>3, <1>8 DEF IInv, Disk, Records, Stored, Ids
  <2> QED
    BY <1>1, <2>1 DEF IInv, Disk, Standing, Admits, Claims, Journalled, AtSource, AtTarget
<1>10. Process(p)'
  <2>1. pc'[p] \in {"lease", "settleLease"}
    BY <1>5
  <2>2. adm[p].gen <= head.gen
    BY TwoProcesses DEF IInv, Process
  <2> HIDE DEF next
  <2> QED
    BY <1>1, <1>3, <1>8, <2>1, <2>2 DEF Process
<1>11. \A q \in Procs : q # p => Process(q)'
  BY <1>1, <1>3, <1>5, <1>7, OtherProcess, TwoProcesses DEF IInv
<1>12. Workflow'
  <2>1. CASE p = O
    BY <1>1, <1>3, <1>5, <1>7, <2>1, ObserverWrites, TwoProcesses
  <2>2. CASE p = W /\ pc[W] = "mutation"
    BY <1>1, <1>5, <2>2, TwoProcesses DEF IInv, Workflow, Admission, Transit, CallIsAlone,
       Calling, Recording, Binding, Transition, Admits, Claims
  <2>3. CASE p = W /\ pc[W] = "settleMutation"
    BY <1>5, <2>3 DEF Workflow, Admission, Transit, CallIsAlone, Calling, Recording, Binding, Transition
  <2> QED
    BY <1>1, <2>1, <2>2, <2>3, TwoProcesses
<1> QED
  BY <1>7, <1>9, <1>10, <1>11, <1>12, TwoProcesses DEF IInv

LEMMA WriteLeaseKeeps == ASSUME IInv, NEW p \in Procs, WriteLease(p) PROVE IInv'
<1> DEFINE next == IF pc[p] = "lease" THEN "head" ELSE "settleHead"
           r == [gen |-> head.gen + 1, snap |-> after[p], call |-> FALSE]
<1>1. /\ pc[p] \in {"lease", "settleLease"} /\ lease' = [lease EXCEPT ![new[p]] = r] /\ Goto(p, next)
      /\ UNCHANGED <<head, ids, muts, op, phase, intent, ws, lock, kind, adm, new, after, faults>>
  BY DEF WriteLease
<1>2. pc[p] \in Writing /\ pc[p] \in Settling \cup Recording /\ Memory /\ Stored /\ Typed
  BY <1>1, TypedParts DEF Writing, Settling, Recording, IInv
<1>3. /\ lock = p /\ head.active /\ ~head.pending /\ lease[head.lease].gen = head.gen
      /\ head.lease \in Ids /\ new[p] \in Ids /\ head.lease < new[p] /\ new[p] <= ids
      /\ head.gen \in Nat /\ ids \in Nat /\ after[p] \in Snaps
      /\ p = O => pc[p] \in Settling
  BY <1>2, Writer
<1>4. next \in IF p = W THEN WorkflowAt ELSE ObserverAt
  BY <1>1, <1>3, TwoProcesses DEF WorkflowAt, ObserverAt, Locked, Writing, Settling, Recording
<1>5. Memory' /\ pc'[p] = next /\ \A q \in Procs : q # p => pc'[q] = pc[q]
  BY <1>1, <1>2, <1>4, MoveTyped DEF Memory
<1>6. r \in [gen : Nat, snap : Image, call : BOOLEAN] /\ r.snap = after[p]
  BY <1>3 DEF Image
<1> HIDE DEF r
<1>7. /\ lease' \in [Ids -> [gen : Nat, snap : Image, call : BOOLEAN]]
      /\ lease'[new[p]] = r /\ \A i \in Ids : i # new[p] => lease'[i] = lease[i]
  BY <1>1, <1>2, <1>3, <1>6 DEF Stored
<1>8. Typed'
  BY <1>1, <1>2, <1>5, <1>7, TypedParts, TypedPartsNext DEF IInv, Stored
<1>9. lease'[head.lease] = lease[head.lease]
  BY <1>3, <1>7 DEF Ids
<1>10. Disk'
  <2>1. Records'
    BY <1>1, <1>2, <1>3, <1>7 DEF IInv, Disk, Records, Stored, Ids
  <2>2. intent.src \in Admissions
    BY <1>2 DEF Stored
  <2>3. Standing(intent.src)'
    BY <1>1, <1>9, <2>2 DEF IInv, Disk, Standing, Admits, Claims
  <2> QED
    BY <1>1, <1>3, <2>1, <2>3 DEF IInv, Disk, Journalled
<1>11. Process(p)'
  <2>1. pc'[p] \in {"head", "settleHead"}
    BY <1>5
  <2>2. adm[p].gen <= head.gen
    BY TwoProcesses DEF IInv, Process
  <2>3. \E m \in muts : /\ m.src = head.lease /\ m.tgt = new[p]
                        /\ m.gen = head.gen + 1 /\ m.after = after[p]
    BY <1>1, TwoProcesses DEF IInv, Process
  <2> HIDE DEF next
  <2> QED
    BY <1>1, <1>3, <1>6, <1>7, <1>9, <2>1, <2>2, <2>3 DEF Process
<1>12. \A q \in Procs : q # p => Process(q)'
  BY <1>1, <1>3, <1>5, <1>8, OtherProcess, TwoProcesses DEF IInv
<1>13. Workflow'
  <2>1. CASE p = O
    BY <1>1, <1>3, <1>5, <1>8, <1>9, <2>1, ObserverWrites, TwoProcesses
  <2>2. CASE p = W /\ pc[W] = "lease"
    BY <1>1, <1>5, <1>9, <2>2, TwoProcesses DEF IInv, Workflow, Admission, Transit, CallIsAlone,
       Calling, Recording, Binding, Transition, Admits, Claims
  <2>3. CASE p = W /\ pc[W] = "settleLease"
    BY <1>5, <2>3 DEF Workflow, Admission, Transit, CallIsAlone, Calling, Recording, Binding, Transition
  <2> QED
    BY <1>1, <2>1, <2>2, <2>3, TwoProcesses
<1> QED
  BY <1>8, <1>10, <1>11, <1>12, <1>13, TwoProcesses DEF IInv

(* The workflow is at none of the positions its part of the invariant is about. *)
LEMMA WorkflowAway ==
    ASSUME pc'[W] \in {"idle", "admit", "settle", "refused", "clear", "dropIntent",
                       "failUnattributed"} \cup Settling
    PROVE  Workflow'
  BY DEF Workflow, Admission, Transit, CallIsAlone, Calling, Recording, Binding, Transition,
     Settling

(* The head after a move to another lease. *)
LEMMA HeadTyped ==
    ASSUME Typed, NEW g \in Nat, NEW i \in 0..MaxIds, NEW b \in BOOLEAN,
           head' = [head EXCEPT !.gen = g, !.pending = b, !.lease = i]
    PROVE  /\ head' \in [gen : Nat, active : BOOLEAN, pending : BOOLEAN, lease : 0..MaxIds]
           /\ head'.gen = g /\ head'.pending = b /\ head'.lease = i /\ head'.active = head.active
<1>1. head \in [gen : Nat, active : BOOLEAN, pending : BOOLEAN, lease : 0..MaxIds]
  BY DEF Typed, TypeOK
<1>2. head' \in [gen : Nat, active : BOOLEAN, pending : BOOLEAN, lease : 0..MaxIds]
  BY <1>1, Zenon
<1>3. head'.gen = g /\ head'.lease = i
  BY <1>1
<1>4. head'.pending = b /\ head'.active = head.active
  BY <1>1, Zenon
<1> QED
  BY <1>2, <1>3, <1>4

LEMMA WriteHeadKeeps == ASSUME IInv, NEW p \in Procs, WriteHead(p) PROVE IInv'
<1>1. /\ pc[p] \in {"head", "settleHead"}
      /\ UNCHANGED <<lease, ids, muts, op, phase, intent, ws, faults>>
  BY DEF WriteHead
<1>2. pc[p] \in Writing /\ pc[p] \in Settling \cup Recording /\ Memory /\ Stored /\ Typed
  BY <1>1, TypedParts DEF Writing, Settling, Recording, IInv
<1>3. /\ lock = p /\ head.active /\ ~head.pending
      /\ head.lease \in Ids /\ new[p] \in Ids /\ head.lease < new[p] /\ new[p] <= ids
      /\ head.gen \in Nat /\ ids \in Nat
      /\ p = O => pc[p] \in Settling
  BY <1>2, Writer
<1>4. /\ head' \in [gen : Nat, active : BOOLEAN, pending : BOOLEAN, lease : 0..MaxIds]
      /\ head'.gen = head.gen + 1 /\ head'.lease = new[p]
      /\ head'.pending = head.pending
  <2>1. head \in [gen : Nat, active : BOOLEAN, pending : BOOLEAN, lease : 0..MaxIds]
        /\ head' = [head EXCEPT !.gen = head.gen + 1, !.lease = new[p]]
    BY <1>2 DEF Stored, WriteHead
  <2>2. head.gen + 1 \in Nat /\ new[p] \in 0..MaxIds
    BY <1>3, MutationAssumption DEF Ids
  <2>3. head' \in [gen : Nat, active : BOOLEAN, pending : BOOLEAN, lease : 0..MaxIds]
    BY <2>1, <2>2, Zenon
  <2>4. head'.gen = head.gen + 1 /\ head'.lease = new[p]
    BY <2>1
  <2>5. head'.pending = head.pending
    BY <2>1, Zenon
  <2> QED
    BY <2>3, <2>4, <2>5
<1>5. /\ Memory' /\ kind' = kind
      /\ \/ pc'[p] = "dropIntent" /\ lock' = p
         \/ pc'[p] \in {"idle", "clear"}
      /\ adm'[p] \in {adm[p], NoAdmission} /\ new'[p] \in {new[p], 0}
      /\ \A q \in Procs : q # p =>
            /\ pc'[q] = pc[q] /\ adm'[q] = adm[q] /\ new'[q] = new[q] /\ after'[q] = after[q]
  <2>1. CASE End(p)
    BY <1>2, <2>1, EndTyped DEF End
  <2>2. CASE Goto(p, "dropIntent") /\ UNCHANGED <<lock, kind, adm, new, after>>
    <3>1. Memory' /\ pc'[p] = "dropIntent" /\ \A q \in Procs : q # p => pc'[q] = pc[q]
      BY <1>2, <2>2, MoveTyped, TwoProcesses DEF WorkflowAt, ObserverAt, Locked, Memory
    <3> QED
      BY <1>3, <2>2, <3>1
  <2>3. CASE pc[p] = "head" /\ Goto(p, "clear") /\ Release(p) /\ UNCHANGED <<kind, adm, new, after>>
    <3>1. p = W
      BY <1>2, <1>3, <2>3, TwoProcesses DEF Settling
    <3>2. Memory' /\ pc'[p] = "clear" /\ \A q \in Procs : q # p => pc'[q] = pc[q]
      BY <1>2, <2>3, <3>1, MoveTyped, TwoProcesses DEF WorkflowAt, Release
    <3> QED
      BY <2>3, <3>2
  <2> QED
    BY <1>1, <2>1, <2>2, <2>3 DEF WriteHead
<1>6. Typed'
  BY <1>1, <1>2, <1>4, <1>5, TypedParts, TypedPartsNext DEF IInv, Stored
<1>7. intent.src \in Admissions /\ head'.gen > head.gen /\ head.gen <= head'.gen
  BY <1>2, <1>3, <1>4 DEF Stored
<1>8. Disk'
  <2>1. Standing(intent.src)'
    <3>1. \A a \in Admissions : Standing(a) => Standing(a)'
      BY <1>2, <1>6, <1>7, StandingKept
    <3> QED
      BY <1>1, <1>7, <3>1 DEF Standing, Admits, Claims, IInv, Disk
  <2>2. Records'
    BY <1>1, <1>2, <1>3, <1>4 DEF IInv, Disk, Records, Stored, Ids
  <2> QED
    BY <1>1, <1>3, <1>4, <2>1, <2>2 DEF IInv, Disk, Journalled, Ids
<1>9. Process(p)'
  <2>1. adm[p].gen <= head.gen /\ adm[p].gen \in Nat
    BY <1>2, TwoProcesses DEF IInv, Process, Memory, Admissions
  <2>2. pc'[p] \notin Writing \cup Settling \cup Recording \cup
                       {"lease", "head", "settleLease", "settleHead"}
    BY <1>5 DEF Writing, Settling, Recording, Binding
  <2>3. pc'[p] \in Locked => lock' = p
    BY <1>5 DEF Locked, Writing, Settling, Recording, Binding, Transition
  <2> QED
    BY <1>1, <1>3, <1>4, <1>5, <2>1, <2>2, <2>3 DEF Process, NoAdmission
<1>10. \A q \in Procs : q # p => Process(q)'
  BY <1>1, <1>3, <1>5, <1>6, <1>7, OtherProcess, TwoProcesses DEF IInv
<1>11. Workflow'
  <2>1. CASE p = O
    BY <1>1, <1>3, <1>5, <1>6, <1>7, <2>1, ObserverWrites, TwoProcesses
  <2>2. CASE p = W
    BY <1>5, <2>2, WorkflowAway
  <2> QED
    BY <2>1, <2>2, TwoProcesses
<1> QED
  BY <1>6, <1>8, <1>9, <1>10, <1>11, TwoProcesses DEF IInv

LEMMA DropIntentKeeps == ASSUME IInv, NEW p \in Procs, DropIntent(p) PROVE IInv'
<1>1. /\ pc[p] = "dropIntent" /\ intent' = NoIntent
      /\ UNCHANGED <<head, lease, ids, muts, op, phase, ws, faults>>
  BY DEF DropIntent, At
<1>2. Memory /\ Stored /\ Typed
  BY TypedParts DEF IInv
<1>3. lock = p /\ head.gen \in Nat /\ head.lease \in 0..MaxIds /\ ids \in Nat /\ head.gen >= 1
      /\ adm[p] \in Admissions /\ adm[p].gen \in Nat
  BY <1>1, <1>2, TwoProcesses, MutationAssumption DEF IInv, Process, Locked, Memory, Stored, Disk,
     Admissions
<1>4. /\ Memory' /\ kind' = kind
      /\ \/ pc'[p] = "idle"
         \/ /\ p = W /\ pc'[p] = AdmittedStep
            /\ Admits(adm'[p])
      /\ adm'[p].gen <= head.gen /\ new'[p] \in {new[p], 0}
      /\ \A q \in Procs : q # p =>
            /\ pc'[q] = pc[q] /\ adm'[q] = adm[q] /\ new'[q] = new[q] /\ after'[q] = after[q]
  <2>1. CASE End(p)
    <3>1. NoAdmission.gen = 0 /\ kind' = kind
      BY <2>1 DEF NoAdmission, End
    <3>2. /\ Memory' /\ pc'[p] = "idle" /\ adm'[p] = NoAdmission /\ new'[p] = 0
          /\ \A q \in Procs : q # p =>
               /\ pc'[q] = pc[q] /\ adm'[q] = adm[q] /\ new'[q] = new[q] /\ after'[q] = after[q]
      BY <1>2, <2>1, EndTyped
    <3> QED
      BY <1>3, <3>1, <3>2
  <2> DEFINE a == [gen |-> head.gen, lease |-> head.lease, snap |-> adm[p].snap]
  <2>2. CASE /\ p = W /\ Admits(a) /\ adm' = [adm EXCEPT ![W] = a]
             /\ Goto(W, AdmittedStep) /\ Release(W) /\ UNCHANGED <<kind, new, after>>
    <3>1. a \in Admissions /\ a.gen = head.gen
      BY <1>3 DEF Admissions
    <3>2. /\ adm' \in [Procs -> Admissions] /\ adm'[p] = a
          /\ \A q \in Procs : q # p => adm'[q] = adm[q]
      BY <1>2, <2>2, <3>1, TwoProcesses DEF Memory
    <3> HIDE DEF a
    <3>3. /\ pc' \in [Procs -> WorkflowAt \cup ObserverAt]
          /\ pc'[O] \in ObserverAt /\ pc'[W] \in WorkflowAt
          /\ pc'[W] = AdmittedStep /\ \A q \in Procs : q # W => pc'[q] = pc[q]
      BY <1>2, <2>2, AdmittedSteps, GotoTyped, TwoProcesses DEF WorkflowAt
    <3> QED
      BY <1>2, <1>3, <2>2, <3>1, <3>2, <3>3 DEF Memory, Release
  <2> QED
    BY <2>1, <2>2 DEF DropIntent
<1>5. Typed'
  BY <1>1, <1>2, <1>4, TypedParts, TypedPartsNext, NothingTyped DEF IInv, Stored
<1>6. intent'.src.gen = 0
  BY <1>1 DEF NoIntent, NoAdmission
<1>7. Disk'
  BY <1>1, <1>3, <1>6 DEF IInv, Disk, Standing, Records, Journalled, AtSource, AtTarget
<1>8. Process(p)'
  <2>1. pc'[p] \notin Locked \cup Writing \cup Settling \cup Recording \cup
                       {"lease", "head", "settleLease", "settleHead"}
    BY <1>4, AdmittedSteps DEF Locked, Writing, Settling, Recording, Binding, Transition
  <2>2. new[p] <= ids
    BY TwoProcesses DEF IInv, Process
  <2> QED
    BY <1>1, <1>3, <1>4, <2>1, <2>2 DEF Process
<1>9. \A q \in Procs : q # p => Process(q)'
  BY <1>1, <1>3, <1>4, <1>5, OtherProcess, TwoProcesses DEF IInv
<1>10. Workflow'
  <2>1. CASE p = O
    <3>1. pc'[O] \notin Settling /\ intent'.src.gen < head.gen
      BY <1>3, <1>4, <1>6, <2>1, TwoProcesses DEF Settling
    <3> QED
      BY <1>1, <1>3, <1>4, <1>5, <2>1, <3>1, ObserverWrites, TwoProcesses
  <2>2. CASE p = W /\ pc'[p] = "idle"
    BY <2>2, WorkflowAway
  <2>3. CASE p = W /\ pc'[p] = AdmittedStep /\ Admits(adm'[p])
    BY <1>1, <1>4, <2>3, AdmittedSteps DEF Workflow, Admission, Transit, CallIsAlone, Calling,
       Recording, Binding, Transition, Standing, Admits, Claims
  <2> QED
    BY <1>4, <2>1, <2>2, <2>3, TwoProcesses
<1> QED
  BY <1>5, <1>7, <1>8, <1>9, <1>10, TwoProcesses DEF IInv

--------------------------------------------------------------------------------
(* The journalled admission of a model call. *)

(* A step of the workflow that writes when the observer does not. *)
LEMMA WorkflowWrites ==
    ASSUME IInv, Typed', Disk', Process(W)', Workflow', lock # O,
           pc'[O] = pc[O], adm'[O] = adm[O], new'[O] = new[O], after'[O] = after[O],
           ids <= ids', head.gen <= head'.gen
    PROVE  IInv'
<1>1. Process(O)'
  BY OtherProcess, TwoProcesses DEF IInv
<1> QED
  BY <1>1 DEF IInv

(* What the workflow knows of its memory and of the files. *)
LEMMA WorkflowKnows ==
    ASSUME IInv
    PROVE  /\ Memory /\ Stored /\ Typed /\ ws \in Snaps /\ faults \in 0..MaxFaults
           /\ head.gen \in Nat /\ head.gen >= 1 /\ head.lease \in 0..MaxIds
           /\ ids \in Nat /\ ids \in 0..MaxIds /\ head.lease <= ids
           /\ adm[W] \in Admissions /\ adm[W].gen \in Nat /\ adm[W].gen <= head.gen
           /\ adm[W].snap \in Image
           /\ new[W] \in 0..MaxIds /\ new[W] <= ids
           /\ pc[W] \in Locked => lock = W /\ lock # O
           /\ intent.src \in Admissions /\ intent.src.gen \in Nat /\ Standing(intent.src)
           /\ intent.src.gen <= head.gen
           /\ op.src \in Admissions /\ op.src.gen \in Nat /\ op.tgt \in 0..MaxIds
<1>1. Memory /\ Stored /\ Typed /\ ws \in Snaps /\ faults \in 0..MaxFaults
  BY TypedParts DEF IInv
<1>2. /\ adm[W] \in Admissions /\ new[W] \in 0..MaxIds /\ intent.src \in Admissions
      /\ op.src \in Admissions /\ op.tgt \in 0..MaxIds
      /\ head.gen \in Nat /\ head.lease \in 0..MaxIds /\ ids \in 0..MaxIds
  BY <1>1, TwoProcesses DEF Memory, Stored
<1>3. adm[W].gen \in Nat /\ adm[W].snap \in Image /\ intent.src.gen \in Nat /\ op.src.gen \in Nat /\ ids \in Nat
  BY <1>2, MutationAssumption DEF Admissions
<1>4. Standing(intent.src) /\ head.gen >= 1 /\ head.lease <= ids
  BY DEF IInv, Disk
<1>5. intent.src.gen <= head.gen
  BY <1>2, <1>3, <1>4 DEF Standing, Admits, Claims
<1> QED
  BY <1>1, <1>2, <1>3, <1>4, <1>5, TwoProcesses DEF IInv, Process

(* Taking the lock and the next identity, to write. *)
LEMMA TakeKeeps ==
    ASSUME IInv, pc[W] \in {"bind", "record"}, Acquire(W), Admits(adm[W]), NewId(W),
           NEW label, Goto(W, label),
           \/ pc[W] = "bind" /\ label = "bindLease"
           \/ pc[W] = "record" /\ label = "mutation",
           UNCHANGED <<head, lease, muts, op, phase, intent, ws, kind, adm, after, faults>>
    PROVE  IInv'
<1>1. /\ Memory /\ Stored /\ Typed /\ head.lease <= ids /\ adm[W].gen <= head.gen
      /\ head.gen \in Nat /\ head.lease \in 0..MaxIds
  BY WorkflowKnows
<1>2. /\ ids' \in 0..MaxIds /\ ids' = ids + 1 /\ ids \in Nat
      /\ new' \in [Procs -> 0..MaxIds] /\ new'[W] = ids + 1 /\ new'[O] = new[O]
  BY <1>1, NewIdTyped, TwoProcesses
<1>3. /\ pc' \in [Procs -> WorkflowAt \cup ObserverAt]
      /\ pc'[O] \in ObserverAt /\ pc'[W] \in WorkflowAt
      /\ pc'[W] = label /\ pc'[O] = pc[O]
  BY <1>1, GotoTyped, TwoProcesses DEF WorkflowAt, Locked, Writing, Recording, Binding
<1>4. Memory' /\ lock' = W /\ lock # O
  BY <1>1, <1>2, <1>3, TwoProcesses DEF Memory, Acquire, Nobody, O
<1>5. Typed'
  BY <1>1, <1>2, <1>4, TypedParts, TypedPartsNext DEF Stored, IInv
<1>6. Disk'
  BY <1>1, <1>2 DEF IInv, Disk, Standing, Admits, Claims, Records, Journalled, AtSource, AtTarget,
     Stored, Ids
<1>7. Process(W)'
  <2>1. head.active /\ ~head.pending /\ lease[head.lease].gen = head.gen
    BY DEF Admits, Claims
  <2>2. label = "mutation" => after[W] \in Snaps
    BY DEF IInv, Workflow, Admission
  <2> QED
    BY <1>1, <1>2, <1>3, <1>4, <2>1, <2>2 DEF Process, Settling, Recording
<1>8. Workflow'
  BY <1>3 DEF IInv, Workflow, Admission, Transit, CallIsAlone, Calling, Recording, Binding,
     Transition, Admits, Claims
<1> QED
  BY <1>1, <1>2, <1>3, <1>4, <1>5, <1>6, <1>7, <1>8, WorkflowWrites, TwoProcesses

LEMMA BindKeeps == ASSUME IInv, Bind \/ BindRefused \/ StartRecord PROVE IInv'
<1>1. CASE Bind
  BY <1>1, TakeKeeps DEF Bind, At
<1>2. CASE BindRefused
  BY <1>2, EndKeeps, WorkflowKnows, TwoProcesses DEF BindRefused
<1>3. CASE StartRecord
  BY <1>3, TakeKeeps DEF StartRecord, At
<1> QED
  BY <1>1, <1>2, <1>3

LEMMA BindLeaseKeeps == ASSUME IInv, NEW call \in BOOLEAN, BindLease(call) PROVE IInv'
<1> DEFINE next == IF call THEN "prepare" ELSE "bindCall"
           r == [gen |-> head.gen + 3, snap |-> adm[W].snap, call |-> call]
<1>1. /\ pc[W] \in {"bindLease", "bindCall"} /\ lease' = [lease EXCEPT ![new[W]] = r]
      /\ Goto(W, next)
      /\ UNCHANGED <<head, ids, muts, op, phase, intent, ws, lock, kind, adm, new, after, faults>>
  BY DEF BindLease, At
<1>2. /\ Memory /\ Stored /\ Typed /\ adm[W].gen <= head.gen /\ adm[W].snap \in Image
  BY WorkflowKnows
<1>3. /\ lock = W /\ head.active /\ ~head.pending /\ lease[head.lease].gen = head.gen
      /\ head.lease \in Ids /\ new[W] \in Ids /\ head.lease < new[W] /\ new[W] <= ids
      /\ head.gen \in Nat /\ ids \in Nat /\ lock # O
  BY <1>1, Writer, TwoProcesses DEF Writing, Binding
<1>4. Memory' /\ pc'[W] = next /\ pc'[O] = pc[O]
  BY <1>1, <1>2, MoveTyped, TwoProcesses DEF Memory, WorkflowAt, Locked, Writing, Binding
<1>5. r \in [gen : Nat, snap : Image, call : BOOLEAN] /\ r.snap = adm[W].snap
  <2>1. head.gen + 3 \in Nat
    BY <1>3
  <2> QED
    BY <1>2, <2>1, Zenon
<1> HIDE DEF r
<1>6. /\ lease' \in [Ids -> [gen : Nat, snap : Image, call : BOOLEAN]]
      /\ lease'[new[W]] = r /\ \A i \in Ids : i # new[W] => lease'[i] = lease[i]
  BY <1>1, <1>2, <1>3, <1>5 DEF Stored
<1>7. Typed'
  BY <1>1, <1>2, <1>4, <1>6, TypedParts, TypedPartsNext DEF IInv, Stored
<1>8. lease'[head.lease] = lease[head.lease]
  BY <1>3, <1>6 DEF Ids
<1>9. Disk'
  <2>1. Records'
    BY <1>1, <1>2, <1>3, <1>6 DEF IInv, Disk, Records, Stored, Ids
  <2>2. Standing(intent.src)'
    BY <1>1, <1>8 DEF IInv, Disk, Standing, Admits, Claims
  <2> QED
    BY <1>1, <1>3, <2>1, <2>2 DEF IInv, Disk, Journalled
<1>10. pc'[W] \in {"prepare", "bindCall"}
  BY <1>4
<1> HIDE DEF next
<1>11. Process(W)'
  BY <1>1, <1>2, <1>3, <1>8, <1>10 DEF Process, Settling, Recording
<1>12. Workflow'
  <2>1. kind = "model" /\ Admits(adm[W])
    BY <1>1 DEF IInv, Workflow, Admission, Binding
  <2>2. Admits(adm[W])'
    BY <1>1, <1>8, <2>1 DEF Admits, Claims
  <2> QED
    BY <1>1, <1>5, <1>6, <1>10, <2>1, <2>2 DEF Workflow, Admission, Transit, CallIsAlone, Calling,
       Recording, Binding, Transition
<1> QED
  BY <1>1, <1>3, <1>4, <1>7, <1>9, <1>11, <1>12, WorkflowWrites, TwoProcesses

LEMMA PrepareKeeps == ASSUME IInv, Prepare PROVE IInv'
<1>1. /\ pc[W] = "prepare" /\ op' = [src |-> adm[W], tgt |-> new[W]] /\ phase' = "prepared"
      /\ Goto(W, "prepareHead")
      /\ UNCHANGED <<head, lease, ids, muts, intent, ws, lock, kind, adm, new, after, faults>>
  BY DEF Prepare, At
<1>2. /\ Memory /\ Stored /\ Typed /\ adm[W] \in Admissions /\ new[W] \in 0..MaxIds
      /\ adm[W].gen <= head.gen
  BY WorkflowKnows
<1>3. /\ lock = W /\ head.active /\ ~head.pending /\ lease[head.lease].gen = head.gen
      /\ head.lease < new[W] /\ new[W] <= ids /\ head.gen \in Nat /\ ids \in Nat /\ lock # O
  BY <1>1, Writer, TwoProcesses DEF Writing, Binding
<1>4. Memory' /\ pc'[W] = "prepareHead" /\ pc'[O] = pc[O]
  BY <1>1, <1>2, MoveTyped, TwoProcesses DEF Memory, WorkflowAt, Locked, Writing, Binding
<1>5. Typed'
  BY <1>1, <1>2, <1>4, TypedParts, TypedPartsNext DEF IInv, Stored
<1>6. Disk'
  BY <1>1, <1>3 DEF IInv, Disk, Standing, Admits, Claims, Records, Journalled
<1>7. Process(W)'
  BY <1>1, <1>2, <1>3, <1>4 DEF Process, Settling, Recording
<1>8. Workflow'
  <2>1. op'.src = adm[W] /\ op'.tgt = new[W]
    BY <1>1
  <2>2. /\ kind = "model" /\ Admits(adm[W]) /\ lease[new[W]].snap = adm[W].snap
    BY <1>1 DEF IInv, Workflow, Admission, Binding
  <2> QED
    BY <1>1, <1>4, <2>1, <2>2 DEF Workflow, Admission, Transit, CallIsAlone, Calling,
       Recording, Binding, Transition, Admits, Claims
<1> QED
  BY <1>1, <1>3, <1>4, <1>5, <1>6, <1>7, <1>8, WorkflowWrites, TwoProcesses

(* The head takes the pending transition up, moves to the target lease, and is
   quiescent again: three moves, each a generation. *)
LEMMA HeadMoves ==
    ASSUME IInv, pc[W] \in {"prepareHead", "commitHead", "finalHead"}, NEW label, Goto(W, label),
           label \in WorkflowAt,
           NEW b \in BOOLEAN, NEW i \in Ids,
           head' = [head EXCEPT !.gen = head.gen + 1, !.pending = b, !.lease = i],
           head.lease <= i, i <= ids,
           UNCHANGED <<lease, ids, muts, op, phase, intent, ws, lock, kind, adm, new, after,
                       faults>>
    PROVE  /\ Typed' /\ pc'[W] = label /\ pc'[O] = pc[O] /\ lock = W /\ lock # O
           /\ head'.gen = head.gen + 1 /\ head'.pending = b /\ head'.lease = i
           /\ head'.active = head.active /\ head.gen <= head'.gen
           /\ intent.src.gen < head'.gen
           /\ Journalled' => Disk'
<1>1. /\ Memory /\ Stored /\ Typed /\ head.gen \in Nat /\ ids \in Nat /\ intent.src.gen \in Nat
      /\ intent.src.gen <= head.gen
      /\ pc[W] \in Locked => lock = W /\ lock # O
      /\ intent.src \in Admissions /\ Standing(intent.src)
  BY WorkflowKnows
<1>2. lock = W /\ lock # O
  BY <1>1 DEF Locked, Writing, Binding, Transition
<1>3. i \in 0..MaxIds /\ i \in Nat /\ head.gen + 1 \in Nat /\ head.lease \in Nat
  BY <1>1, MutationAssumption DEF Ids, Stored
<1>4. /\ head' \in [gen : Nat, active : BOOLEAN, pending : BOOLEAN, lease : 0..MaxIds]
      /\ head'.gen = head.gen + 1 /\ head'.pending = b /\ head'.lease = i
      /\ head'.active = head.active
  BY <1>1, <1>3, HeadTyped
<1>5. Memory' /\ pc'[W] = label /\ pc'[O] = pc[O]
  BY <1>1, MoveTyped, TwoProcesses DEF Memory
<1>6. Typed'
  BY <1>1, <1>4, <1>5, TypedParts, TypedPartsNext DEF IInv, Stored
<1>7. Standing(intent.src)'
  BY <1>1, <1>4 DEF Standing
<1>8. Records'
  BY <1>1, <1>3, <1>4 DEF IInv, Disk, Records, Stored, Ids
<1>9. head.gen <= head'.gen /\ intent.src.gen < head'.gen /\ head'.gen >= 1 /\ head'.lease # 0
  BY <1>1, <1>3, <1>4 DEF Ids
<1>10. Journalled' => Disk'
  BY <1>3, <1>4, <1>7, <1>8, <1>9 DEF Disk
<1> QED
  BY <1>2, <1>4, <1>5, <1>6, <1>9, <1>10

LEMMA PrepareHeadKeeps == ASSUME IInv, PrepareHead PROVE IInv'
<1>1. /\ pc[W] = "prepareHead" /\ Goto(W, "apply")
      /\ head' = [head EXCEPT !.gen = head.gen + 1, !.pending = TRUE]
      /\ UNCHANGED <<lease, ids, muts, op, phase, intent, ws, lock, kind, adm, new, after, faults>>
  BY DEF PrepareHead, At
<1>2. /\ head.active /\ head.lease \in Ids /\ head.lease < new[W] /\ new[W] <= ids /\ ids \in Nat
      /\ head.gen \in Nat /\ new[W] \in Ids
  BY <1>1, Writer, TwoProcesses DEF Writing, Binding
<1>3. /\ kind = "model" /\ Admits(adm[W]) /\ lease[new[W]].snap = adm[W].snap
      /\ op.src = adm[W] /\ op.tgt = new[W] /\ phase = "prepared"
  BY <1>1 DEF IInv, Workflow, Admission, Binding
<1>4. head' = [head EXCEPT !.gen = head.gen + 1, !.pending = TRUE, !.lease = head.lease]
  <2>1. head \in [gen : Nat, active : BOOLEAN, pending : BOOLEAN, lease : 0..MaxIds]
    BY DEF IInv, Typed, TypeOK
  <2> QED
    BY <1>1, <2>1
<1>5. /\ Typed' /\ pc'[W] = "apply" /\ pc'[O] = pc[O] /\ lock = W /\ lock # O
      /\ head'.gen = head.gen + 1 /\ head'.pending = TRUE /\ head'.lease = head.lease
      /\ head'.active = head.active /\ head.gen <= head'.gen
      /\ intent.src.gen < head'.gen
      /\ Journalled' => Disk'
  <2>1. "apply" \in WorkflowAt /\ head.lease <= head.lease /\ head.lease <= ids
    BY <1>2 DEF WorkflowAt, Locked, Transition, Ids
  <2> QED
    BY <1>1, <1>2, <1>4, <2>1, HeadMoves
<1>6. Journalled'
  BY <1>1, <1>2, <1>3, <1>5 DEF Journalled, AtSource, Admits, Claims
<1>7. adm[W].gen <= head'.gen /\ new[W] <= ids
  BY <1>2, <1>3, <1>5 DEF Admits, Claims
<1>8. Process(W)'
  BY <1>1, <1>5, <1>7 DEF Process, Writing, Settling, Recording, Binding
<1>9. Workflow'
  BY <1>1, <1>2, <1>5 DEF Workflow, Admission, Transit, CallIsAlone, Calling,
     Recording, Binding, Transition
<1> QED
  BY <1>1, <1>2, <1>5, <1>6, <1>8, <1>9, WorkflowWrites, TwoProcesses

(* A position inside the transition: the lock is the workflow's, and what it
   remembers is older than the head. *)
LEMMA InTransition ==
    ASSUME IInv, Typed', pc'[W] \in Transition, lock' = W, adm' = adm, new' = new, ids' = ids,
           head.gen <= head'.gen
    PROVE  Process(W)'
<1>1. adm[W].gen <= head.gen /\ new[W] <= ids /\ adm[W].gen \in Nat /\ head.gen \in Nat
  BY WorkflowKnows
<1>2. head'.gen \in Nat
  BY DEF Typed, TypeOK
<1> QED
  BY <1>1, <1>2 DEF Process, Transition, Writing, Settling, Recording, Binding

LEMMA RecoverKeeps == ASSUME IInv, Recover PROVE IInv'
<1>1. /\ lock = Nobody /\ lock' = W /\ kind' = "recover" /\ op.tgt # 0
      /\ UNCHANGED <<files, ws, adm, new, after, faults>>
  BY DEF Recover, Acquire
<1>2. Memory /\ ws \in Snaps /\ faults \in 0..MaxFaults /\ head.gen \in Nat
  BY WorkflowKnows
<1>3. PICK label \in {"apply", "commitPhase", "finalizing", "finalPhase", "recovered"} :
        /\ Goto(W, label)
        /\ label = "apply" => head.active
        /\ label \in {"commitPhase", "finalizing"} => head.active /\ head.pending /\ CommittedOp
        /\ label = "finalPhase" => ~head.pending
  BY DEF Recover
<1>4. /\ pc' \in [Procs -> WorkflowAt \cup ObserverAt]
      /\ pc'[O] \in ObserverAt /\ pc'[W] \in WorkflowAt
      /\ pc'[W] = label /\ pc'[O] = pc[O]
  BY <1>2, <1>3, GotoTyped, TwoProcesses DEF WorkflowAt, Locked, Transition
<1>5. Memory'
  BY <1>1, <1>2, <1>4, TwoProcesses DEF Memory
<1>6. Process(W)'
  <2>1. Typed' /\ ids' = ids /\ head.gen <= head'.gen
    BY <1>1, <1>2, <1>5, TypedParts, TypedPartsNext DEF IInv, Stored, files
  <2> QED
    BY <1>1, <1>4, <2>1, InTransition DEF Transition
<1>7. Workflow'
  <2>1. label \in {"commitPhase", "finalizing"} => AtTarget
    BY <1>3 DEF CommittedOp, AtTarget
  <2> QED
    BY <1>1, <1>3, <1>4, <2>1 DEF Workflow, Admission, Transit, CallIsAlone, Calling,
       Recording, Binding, Transition, AtTarget, files
<1> QED
  BY <1>1, <1>2, <1>4, <1>5, <1>6, <1>7, WorkflowMoves, TwoProcesses DEF Nobody, O

(* A step of the transition that writes the phase alone. *)
LEMMA PhaseKeeps ==
    ASSUME IInv, pc[W] \in Transition, NEW label \in Transition, Goto(W, label),
           phase' \in {"applied", "committed", "finalizing", "finalized"},
           UNCHANGED <<head, lease, ids, muts, op, intent, ws, lock, kind, adm, new, after, faults>>,
           Journalled', Transit'
    PROVE  IInv'
<1>1. Memory /\ Stored /\ head.gen \in Nat /\ lock = W /\ lock # O /\ ids \in Nat
  BY WorkflowKnows, PositionSets
<1>2. Memory' /\ pc'[W] = label /\ pc'[O] = pc[O]
  BY <1>1, MoveTyped, PositionSets, TwoProcesses DEF Memory
<1>3. Typed'
  BY <1>1, <1>2, TypedParts, TypedPartsNext DEF IInv, Stored
<1>4. Disk'
  BY DEF IInv, Disk, Standing, Admits, Claims, Records
<1>5. Process(W)'
  BY <1>1, <1>2, <1>3, InTransition
<1>6. Workflow'
  BY <1>2 DEF IInv, Workflow, Admission, CallIsAlone, Calling, Recording, Binding, Transition
<1> QED
  BY <1>1, <1>2, <1>3, <1>4, <1>5, <1>6, WorkflowWrites

LEMMA PhasesKeep == ASSUME IInv, CommitPhase \/ Finalizing \/ FinalPhase PROVE IInv'
<1>1. Memory
  BY WorkflowKnows
<1>2. CASE CommitPhase
  <2>1. pc'[W] = "finalizing"
    BY <1>1, <1>2, TwoProcesses DEF CommitPhase, Goto, Memory
  <2>2. Journalled' /\ Transit'
    BY <1>2, <2>1 DEF IInv, Disk, Workflow, Transit, Journalled, AtSource, AtTarget, CommitPhase, At
  <2> QED
    BY <1>2, <2>2, PhaseKeeps DEF CommitPhase, At, Transition
<1>3. CASE Finalizing
  <2>1. pc'[W] = "finalHead"
    BY <1>1, <1>3, TwoProcesses DEF Finalizing, Goto, Memory
  <2>2. Journalled' /\ Transit'
    BY <1>3, <2>1 DEF IInv, Disk, Workflow, Transit, Journalled, AtSource, AtTarget, Finalizing, At
  <2> QED
    BY <1>3, <2>2, PhaseKeeps DEF Finalizing, At, Transition
<1>4. CASE FinalPhase
  <2>1. pc'[W] = "recovered"
    BY <1>1, <1>4, TwoProcesses DEF FinalPhase, Goto, Memory
  <2>2. Journalled' /\ Transit'
    BY <1>4, <2>1 DEF IInv, Disk, Workflow, Transit, Journalled, FinalPhase, At
  <2> QED
    BY <1>4, <2>2, PhaseKeeps DEF FinalPhase, At, Transition
<1> QED
  BY <1>2, <1>3, <1>4

LEMMA ApplyKeeps == ASSUME IInv, Apply PROVE IInv'
<1>1. /\ pc[W] = "apply" /\ UNCHANGED <<head, lease, ids, muts, op, intent, ws, faults>>
  BY DEF Apply, At
<1>2. Memory /\ ws \in Snaps /\ faults \in 0..MaxFaults
  BY WorkflowKnows
<1>3. CASE End(W) /\ UNCHANGED phase
  BY <1>1, <1>2, <1>3, EndKeeps, TwoProcesses DEF files
<1>4. CASE /\ Prepared /\ phase \in {"prepared", "applied"}
           /\ phase' = "applied" /\ Goto(W, "commitHead") /\ UNCHANGED <<lock, kind, adm, new, after>>
  <2>1. pc'[W] = "commitHead"
    BY <1>2, <1>4, TwoProcesses DEF Goto, Memory
  <2>2. Journalled' /\ Transit'
    BY <1>1, <1>4, <2>1 DEF IInv, Disk, Workflow, Transit, Journalled, AtSource, AtTarget, Prepared
  <2> QED
    BY <1>1, <1>4, <2>2, PhaseKeeps DEF Transition
<1> QED
  BY <1>3, <1>4 DEF Apply

LEMMA CommitHeadKeeps == ASSUME IInv, CommitHead PROVE IInv'
<1>1. /\ pc[W] = "commitHead" /\ Goto(W, "commitPhase")
      /\ head' = [head EXCEPT !.gen = op.src.gen + 2, !.lease = op.tgt]
      /\ UNCHANGED <<lease, ids, muts, op, phase, intent, ws, lock, kind, adm, new, after, faults>>
  BY DEF CommitHead, At
<1>2. /\ op.src.gen \in Nat /\ op.tgt \in 0..MaxIds /\ head.gen \in Nat /\ ids \in Nat
      /\ head.lease \in 0..MaxIds
  BY WorkflowKnows
<1>3. head.active /\ head.pending /\ AtSource
  BY <1>1 DEF IInv, Workflow, Transit
<1>4. op.tgt <= ids /\ phase \in {"prepared", "applied"} /\ op.src.lease < op.tgt
  BY <1>2, <1>3 DEF IInv, Disk, Journalled, AtSource, AtTarget
<1>5. head.gen + 1 = op.src.gen + 2 /\ op.tgt \in Ids /\ head.lease <= op.tgt
  BY <1>2, <1>3, <1>4, MutationAssumption DEF AtSource, Ids
<1>6. head' = [head EXCEPT !.gen = head.gen + 1, !.pending = TRUE, !.lease = op.tgt]
  <2>1. head \in [gen : Nat, active : BOOLEAN, pending : BOOLEAN, lease : 0..MaxIds]
    BY DEF IInv, Typed, TypeOK
  <2>2. head.pending = TRUE
    BY <1>3, <2>1
  <2> QED
    BY <1>1, <1>5, <2>1, <2>2
<1>7. /\ Typed' /\ pc'[W] = "commitPhase" /\ pc'[O] = pc[O] /\ lock = W /\ lock # O
      /\ head'.gen = head.gen + 1 /\ head'.pending = TRUE /\ head'.lease = op.tgt
      /\ head'.active = head.active /\ head.gen <= head'.gen
      /\ intent.src.gen < head'.gen
      /\ Journalled' => Disk'
  BY <1>1, <1>4, <1>5, <1>6, HeadMoves DEF WorkflowAt, Locked, Transition
<1>8. AtTarget' /\ Journalled'
  BY <1>1, <1>4, <1>5, <1>7 DEF Journalled, AtTarget
<1>9. Process(W)'
  BY <1>1, <1>7, InTransition DEF Transition
<1>10. Workflow'
  BY <1>1, <1>3, <1>7, <1>8 DEF Workflow, Admission, Transit, CallIsAlone, Calling,
     Recording, Binding, Transition
<1> QED
  BY <1>1, <1>2, <1>7, <1>8, <1>9, <1>10, WorkflowWrites, TwoProcesses

LEMMA FinalHeadKeeps == ASSUME IInv, FinalHead PROVE IInv'
<1>1. /\ pc[W] = "finalHead" /\ Goto(W, "finalPhase")
      /\ head' = [head EXCEPT !.gen = op.src.gen + 3, !.pending = FALSE]
      /\ UNCHANGED <<lease, ids, muts, op, phase, intent, ws, lock, kind, adm, new, after, faults>>
  BY DEF FinalHead, At
<1>2. /\ op.src.gen \in Nat /\ head.gen \in Nat /\ ids \in Nat /\ head.lease \in 0..MaxIds
      /\ head.lease <= ids
  BY WorkflowKnows
<1>3. head.active /\ AtTarget
  BY <1>1 DEF IInv, Workflow, Transit
<1>4. head.gen + 1 = op.src.gen + 3 /\ head.lease \in Ids /\ head.lease <= head.lease
  BY <1>2, <1>3, MutationAssumption DEF AtTarget, Ids, IInv, Disk
<1>5. head' = [head EXCEPT !.gen = head.gen + 1, !.pending = FALSE, !.lease = head.lease]
  <2>1. head \in [gen : Nat, active : BOOLEAN, pending : BOOLEAN, lease : 0..MaxIds]
    BY DEF IInv, Typed, TypeOK
  <2> QED
    BY <1>1, <1>4, <2>1
<1>6. /\ Typed' /\ pc'[W] = "finalPhase" /\ pc'[O] = pc[O] /\ lock = W /\ lock # O
      /\ head'.gen = head.gen + 1 /\ head'.pending = FALSE /\ head'.lease = head.lease
      /\ head'.active = head.active /\ head.gen <= head'.gen
      /\ intent.src.gen < head'.gen
      /\ Journalled' => Disk'
  BY <1>1, <1>2, <1>4, <1>5, HeadMoves DEF WorkflowAt, Locked, Transition
<1>7. Journalled'
  BY <1>6 DEF Journalled
<1>8. Process(W)'
  BY <1>1, <1>6, InTransition DEF Transition
<1>9. Workflow'
  BY <1>1, <1>6 DEF Workflow, Admission, Transit, CallIsAlone, Calling,
     Recording, Binding, Transition
<1> QED
  BY <1>1, <1>2, <1>6, <1>7, <1>8, <1>9, WorkflowWrites, TwoProcesses

(* A call runs under a lease that no observer settles under: whoever settles
   holds the lock, and the staged intent is older than the transition. *)
LEMMA RecoveredKeeps == ASSUME IInv, Recovered PROVE IInv'
<1>1. pc[W] = "recovered" /\ UNCHANGED <<files, ws, faults>>
  BY DEF Recovered, At
<1>2. /\ Memory /\ ws \in Snaps /\ faults \in 0..MaxFaults /\ head.gen \in Nat
      /\ head.lease \in 0..MaxIds /\ lock = W /\ lock # O /\ new[W] <= ids
  BY <1>1, WorkflowKnows DEF Locked, Transition
<1>3. CASE End(W)
  BY <1>1, <1>2, <1>3, EndKeeps, TwoProcesses
<1> DEFINE a == [gen |-> head.gen, lease |-> head.lease, snap |-> ws]
<1>4. CASE /\ kind = "model" /\ Admits(a) /\ adm' = [adm EXCEPT ![W] = a]
           /\ Goto(W, "run") /\ Release(W) /\ UNCHANGED <<kind, new, after>>
  <2>1. a \in Admissions /\ a.gen = head.gen
    BY <1>2 DEF Admissions, Image
  <2>2. adm' \in [Procs -> Admissions] /\ adm'[W] = a /\ adm'[O] = adm[O]
    BY <1>2, <1>4, <2>1, TwoProcesses DEF Memory
  <2> HIDE DEF a
  <2>3. /\ pc' \in [Procs -> WorkflowAt \cup ObserverAt]
        /\ pc'[O] \in ObserverAt /\ pc'[W] \in WorkflowAt
        /\ pc'[W] = "run" /\ pc'[O] = pc[O]
    BY <1>2, <1>4, GotoTyped, TwoProcesses DEF WorkflowAt
  <2>4. Memory'
    BY <1>2, <1>4, <2>2, <2>3 DEF Memory, Release
  <2>5. Process(W)'
    BY <1>1, <1>2, <1>4, <2>1, <2>2, <2>3 DEF Process, files, Locked, Writing, Settling, Recording,
       Binding, Transition
  <2>6. pc[O] \notin Settling /\ intent.src.gen < head.gen
    BY <1>1, <1>2, <1>4, PositionSets DEF IInv, Process, Workflow, CallIsAlone, Transition
  <2>7. Admits(adm[W])'
    BY <1>1, <1>4, <2>2 DEF Admits, Claims, files
  <2>8. Workflow'
    BY <1>1, <1>4, <2>3, <2>6, <2>7 DEF Workflow, Admission, Transit, CallIsAlone, Calling,
       Recording, Binding, Transition, files
  <2> QED
    BY <1>1, <1>2, <1>4, <2>2, <2>3, <2>4, <2>5, <2>8, WorkflowMoves, TwoProcesses
<1> QED
  BY <1>3, <1>4 DEF Recovered

--------------------------------------------------------------------------------
(* The model call and the quality gate. *)

(* The workspace is in nobody's files. *)
LEMMA WorkspaceKeeps ==
    ASSUME IInv, ws' \in Snaps, faults' \in 0..MaxFaults,
           UNCHANGED <<files, lock, pc, kind, adm, new, after>>
    PROVE  IInv'
<1>1. Typed'
  BY DEF IInv, Typed, TypeOK, files
<1>2. Process(W)' /\ Process(O)'
  BY DEF IInv, Process, files
<1>3. Workflow'
  BY DEF IInv, Workflow, Admission, Transit, CallIsAlone, Standing, Admits, Claims, AtSource,
     AtTarget, files
<1> QED
  BY <1>1, <1>2, <1>3, DiskUnchanged DEF IInv

(* The workflow moves to a position without the lock. *)
LEMMA Unlocked ==
    ASSUME IInv, Memory', UNCHANGED <<files, new>>, pc'[W] \notin Locked, adm'[W] = adm[W]
    PROVE  Process(W)'
<1>1. adm[W].gen <= head.gen /\ new[W] <= ids
  BY WorkflowKnows
<1>2. pc'[W] \notin Locked \cup Writing \cup Settling \cup Recording \cup
                     {"lease", "head", "settleLease", "settleHead"}
  BY DEF Locked, Writing, Settling, Recording
<1> QED
  BY <1>1, <1>2 DEF Process, files

LEMMA CallKeeps ==
    ASSUME IInv, CallReturns \/ ReadReturns \/ CallViolates \/ RecordRefused \/ ReportRefused
                 \/ GateFixed \/ GateFixedNothing
    PROVE  IInv'
<1>1. UNCHANGED <<files, ws, faults>>
  BY DEF CallReturns, ReadReturns, CallViolates, RecordRefused, ReportRefused, GateFixed,
     GateFixedNothing
<1>2. Memory /\ ws \in Snaps /\ faults \in 0..MaxFaults
  BY WorkflowKnows
<1>3. CASE End(W)
  BY <1>1, <1>2, <1>3, EndKeeps, TwoProcesses
<1>4. ASSUME NEW label \in {"record", "failCall", "refused", "preserve", "clear"}, Goto(W, label),
             UNCHANGED <<lock, kind, adm, new>>,
             \/ UNCHANGED after /\ label \notin {"record", "preserve"}
             \/ after' = [after EXCEPT ![W] = ws],
             label = "failCall" => pc[W] \in {"run", "read"},
             label = "record" => pc[W] = "run",
             label = "preserve" => pc[W] = "gate"
      PROVE  IInv'
  <2>1. /\ pc' \in [Procs -> WorkflowAt \cup ObserverAt]
        /\ pc'[O] \in ObserverAt /\ pc'[W] \in WorkflowAt
        /\ pc'[W] = label /\ pc'[O] = pc[O]
    BY <1>2, <1>4, GotoTyped, TwoProcesses DEF WorkflowAt
  <2>2. /\ after' \in [Procs -> Image] /\ after'[O] = after[O]
        /\ label \in {"record", "preserve"} => after'[W] \in Snaps
    BY <1>2, <1>4, TwoProcesses DEF Memory, Image
  <2>3. Memory'
    BY <1>2, <1>4, <2>1, <2>2 DEF Memory
  <2>4. Process(W)'
    BY <1>1, <1>4, <2>1, <2>3, Unlocked DEF Locked, Writing, Settling, Recording, Binding, Transition
  <2>5. Workflow'
    BY <1>1, <1>4, <2>1, <2>2 DEF IInv, Workflow, Admission, Transit, CallIsAlone, Calling,
       Recording, Binding, Transition, Admits, Claims, files
  <2> QED
    BY <1>1, <1>2, <1>4, <2>1, <2>2, <2>3, <2>4, <2>5, WorkflowMoves
<1>5. CASE CallReturns
  BY <1>4, <1>5 DEF CallReturns, At
<1>6. CASE CallViolates
  BY <1>4, <1>6 DEF CallViolates, At
<1>7. CASE RecordRefused
  BY <1>4, <1>7 DEF RecordRefused, At
<1>8. CASE GateFixed
  BY <1>4, <1>8 DEF GateFixed, At
<1>9. CASE GateFixedNothing
  BY <1>3, <1>4, <1>9 DEF GateFixedNothing, At
<1>10. CASE ReportRefused
  BY <1>3, <1>10 DEF ReportRefused
<1>11. CASE ReadReturns
  BY <1>3, <1>4, <1>11 DEF ReadReturns, At
<1> QED
  BY <1>5, <1>6, <1>7, <1>8, <1>9, <1>10, <1>11

LEMMA FailCallKeeps == ASSUME IInv, FailCall PROVE IInv'
<1>1. lock = Nobody /\ End(W) /\ UNCHANGED <<ws, faults>>
  BY DEF FailCall
<1>2. lock # O /\ ws \in Snaps /\ faults \in 0..MaxFaults
  BY <1>1, WorkflowKnows DEF Nobody, O
<1>3. CASE UNCHANGED files
  BY <1>1, <1>2, <1>3, EndKeeps, TwoProcesses
<1>4. CASE FailHead /\ phase' = IF head.pending THEN "failed" ELSE phase
  BY <1>1, <1>2, <1>4, FailClosedKeeps
<1> QED
  BY <1>3, <1>4 DEF FailCall

--------------------------------------------------------------------------------
(* The staged intent of a quality fix. *)

(* A step that changes the intent alone, to one whose admission stands. *)
LEMMA IntentKeeps ==
    ASSUME IInv, Memory', intent' \in [src : Admissions, out : Image],
           UNCHANGED <<head, lease, ids, muts, op, phase, ws, faults>>,
           Standing(intent'.src), lock # O,
           pc'[O] = pc[O], adm'[O] = adm[O], new'[O] = new[O], after'[O] = after[O],
           Process(W)', Workflow'
    PROVE  IInv'
<1>1. Stored /\ ws \in Snaps /\ faults \in 0..MaxFaults /\ head.gen \in Nat /\ ids \in Nat
  BY WorkflowKnows
<1>2. Typed'
  BY <1>1, TypedPartsNext DEF Stored
<1>3. Disk'
  <2>1. Standing(intent.src)'
    BY DEF Standing, Admits, Claims
  <2> QED
    BY <2>1 DEF IInv, Disk, Records, Journalled, AtSource, AtTarget
<1> QED
  BY <1>1, <1>2, <1>3, WorkflowWrites

LEMMA NoIntentStands == ASSUME IInv PROVE Standing(NoIntent.src) /\ NoIntent.src.gen < head.gen
<1>1. head.gen \in Nat /\ head.gen >= 1 /\ NoIntent.src.gen = 0
  BY WorkflowKnows DEF NoIntent, NoAdmission
<1> QED
  BY <1>1 DEF Standing

(* The command of the workflow ends and the intent with it, or stays. *)
LEMMA EndIntentKeeps ==
    ASSUME IInv, End(W), lock # O, intent' \in {NoIntent, intent},
           UNCHANGED <<head, lease, ids, muts, op, phase, ws, faults>>
    PROVE  IInv'
<1>1. /\ Memory /\ Stored /\ Standing(intent.src) /\ ids \in Nat /\ head.gen \in Nat
  BY WorkflowKnows
<1>2. /\ Memory'
      /\ pc'[W] = "idle" /\ adm'[W] = NoAdmission /\ new'[W] = 0
      /\ pc'[O] = pc[O] /\ adm'[O] = adm[O] /\ new'[O] = new[O] /\ after'[O] = after[O]
  BY <1>1, EndTyped, TwoProcesses
<1>3. intent' \in [src : Admissions, out : Image] /\ Standing(intent'.src)
  BY <1>1, NothingTyped, NoIntentStands DEF Stored
<1>4. Process(W)'
  BY <1>1, <1>2, PositionSets DEF Process, NoAdmission, Settling, Recording
<1>5. Workflow'
  BY <1>2, WorkflowAway
<1> QED
  BY <1>2, <1>3, <1>4, <1>5, IntentKeeps

(* The workflow moves on over the intent it leaves. *)
LEMMA MoveIntentKeeps ==
    ASSUME IInv, NEW label \in {"gate", "stageIntent", "record"}, Goto(W, label), lock # O,
           intent' \in [src : Admissions, out : Image], Standing(intent'.src),
           UNCHANGED <<head, lease, ids, muts, op, phase, ws, faults, kind, adm, new, after>>,
           lock' = IF label = "stageIntent" THEN W ELSE Nobody,
           kind # "model",
           label = "stageIntent" => Standing(adm[W]),
           label = "record" => after[W] \in Snaps
    PROVE  IInv'
<1>1. /\ Memory /\ adm[W].gen <= head.gen /\ new[W] <= ids
  BY WorkflowKnows
<1>2. Memory' /\ pc'[W] = label /\ pc'[O] = pc[O]
  BY <1>1, MoveTyped, TwoProcesses DEF WorkflowAt, Locked
<1>3. Process(W)'
  BY <1>1, <1>2 DEF Process, Locked, Writing, Settling, Recording, Binding, Transition
<1>4. Workflow'
  BY <1>2 DEF Workflow, Admission, Transit, CallIsAlone, Calling, Recording, Binding,
     Transition, Standing, Admits, Claims
<1> QED
  BY <1>2, <1>3, <1>4, IntentKeeps

LEMMA FixKeeps == ASSUME IInv, Stage \/ StageIntent \/ Preserve \/ ClearIntent PROVE IInv'
<1>1. /\ Memory /\ adm[W] \in Admissions /\ intent \in [src : Admissions, out : Image]
      /\ Standing(intent.src) /\ after[W] \in Image
      /\ pc[W] \in Locked => lock = W /\ lock # O
  BY WorkflowKnows, TwoProcesses DEF Stored, Memory
<1>2. Nobody # O
  BY DEF Nobody, O
<1>3. CASE Stage
  <2>1. /\ pc[W] = "stage" /\ lock = Nobody
        /\ UNCHANGED <<head, lease, ids, muts, op, phase, ws, faults>>
    BY <1>3 DEF Stage, At
  <2>2. kind # "model" /\ Standing(adm[W])
    BY <2>1 DEF IInv, Workflow, Admission
  <2>3. CASE End(W) /\ UNCHANGED intent
    BY <1>2, <2>1, <2>3, EndIntentKeeps
  <2>4. CASE Goto(W, "gate") /\ UNCHANGED <<intent, lock, kind, adm, new, after>>
    BY <1>1, <1>2, <2>1, <2>2, <2>4, MoveIntentKeeps
  <2>5. CASE /\ Goto(W, "stageIntent") /\ lock' = W /\ UNCHANGED <<kind, adm, new, after>>
             /\ intent' \in {intent, NoIntent}
    <3>1. intent' \in [src : Admissions, out : Image] /\ Standing(intent'.src)
      BY <1>1, <2>5, NothingTyped, NoIntentStands
    <3> QED
      BY <1>2, <2>1, <2>2, <2>5, <3>1, MoveIntentKeeps
  <2> QED
    BY <1>3, <2>3, <2>4, <2>5 DEF Stage
<1>4. CASE StageIntent
  <2>1. pc[W] = "stageIntent"
    BY <1>4 DEF StageIntent, At
  <2>2. kind # "model" /\ Standing(adm[W]) /\ lock # O
    BY <1>1, <2>1 DEF IInv, Workflow, Admission, Locked
  <2>3. intent' = [src |-> adm[W], out |-> None]
    BY <1>4 DEF StageIntent
  <2>4. intent' \in [src : Admissions, out : Image] /\ intent'.src = adm[W]
    BY <1>1, <2>3 DEF Image
  <2> QED
    BY <1>4, <2>2, <2>4, MoveIntentKeeps DEF StageIntent, Release
<1>5. CASE Preserve
  <2>1. /\ pc[W] = "preserve" /\ lock = Nobody
        /\ UNCHANGED <<head, lease, ids, muts, op, phase, ws, faults>>
    BY <1>5 DEF Preserve, At
  <2>2. kind # "model" /\ after[W] \in Snaps
    BY <2>1 DEF IInv, Workflow, Admission
  <2>3. CASE End(W) /\ UNCHANGED intent
    BY <1>2, <2>1, <2>3, EndIntentKeeps
  <2>4. CASE /\ intent' = [intent EXCEPT !.out = after[W]] /\ Goto(W, "record")
             /\ UNCHANGED <<lock, kind, adm, new, after>>
    <3>1. intent' \in [src : Admissions, out : Image] /\ intent'.src = intent.src
      BY <1>1, <2>4
    <3> QED
      BY <1>1, <1>2, <2>1, <2>2, <2>4, <3>1, MoveIntentKeeps
  <2> QED
    BY <1>5, <2>3, <2>4 DEF Preserve
<1>6. CASE ClearIntent
  BY <1>2, <1>6, EndIntentKeeps DEF ClearIntent
<1> QED
  BY <1>3, <1>4, <1>5, <1>6

--------------------------------------------------------------------------------
(* The invariant. *)

LEMMA InitHolds == Init => IInv
<1> SUFFICES ASSUME Init PROVE IInv
  OBVIOUS
<1>1. 1 \in Ids /\ 1 \in 0..MaxIds /\ 0 \in 0..MaxIds /\ 0 \in 0..MaxFaults
  BY MutationAssumption DEF Ids
<1>2. pc[W] = "idle" /\ pc[O] = "idle" /\ adm[W] = NoAdmission /\ adm[O] = NoAdmission
      /\ new[W] = 0 /\ new[O] = 0 /\ after[W] = None /\ after[O] = None
  BY TwoProcesses DEF Init
<1>3. Memory
  <2>1. pc \in [Procs -> WorkflowAt \cup ObserverAt] /\ pc[O] \in ObserverAt /\ pc[W] \in WorkflowAt
    BY <1>2, PositionSets DEF Init
  <2>2. adm \in [Procs -> Admissions] /\ new \in [Procs -> 0..MaxIds] /\ after \in [Procs -> Image]
    BY <1>1, NothingTyped DEF Init, Image
  <2> QED
    BY <2>1, <2>2 DEF Init, Memory
<1>4. Stored
  <2>1. head \in [gen : Nat, active : BOOLEAN, pending : BOOLEAN, lease : 0..MaxIds]
    BY <1>1 DEF Init
  <2>2. lease \in [Ids -> [gen : Nat, snap : Image, call : BOOLEAN]]
    BY <1>1, MutationAssumption DEF Init, NoLease, Image
  <2>3. op \in [src : Admissions, tgt : 0..MaxIds] /\ intent \in [src : Admissions, out : Image]
    BY <1>1, NothingTyped DEF Init
  <2> QED
    BY <1>1, <2>1, <2>2, <2>3 DEF Init, Stored
<1>5. Typed
  BY <1>1, <1>3, <1>4, TypedParts, MutationAssumption DEF Init
<1>6. Disk
  BY DEF Init, Disk, Standing, NoIntent, NoAdmission, Records, Journalled
<1>7. Process(W) /\ Process(O)
  BY <1>2, PositionSets DEF Init, Process, NoAdmission, Settling, Recording
<1>8. Workflow
  BY <1>2 DEF Workflow, Admission, Transit, CallIsAlone, Calling, Recording, Binding, Transition
<1> QED
  BY <1>5, <1>6, <1>7, <1>8 DEF IInv

LEMMA StepKeeps == IInv /\ [Next]_vars => IInv'
<1> SUFFICES ASSUME IInv, [Next]_vars PROVE IInv'
  OBVIOUS
<1>1. ws \in Snaps /\ faults \in 0..MaxFaults
  BY WorkflowKnows
<1>2. CASE UNCHANGED vars
  BY <1>1, <1>2, WorkspaceKeeps DEF vars
<1>3. ASSUME NEW p \in Procs, Shared(p) \/ Crash(p) PROVE IInv'
  <2>1. CASE Crash(p)
    <3>1. faults' \in 0..MaxFaults
      BY <1>1, <2>1, MutationAssumption DEF Crash
    <3> QED
      BY <1>1, <2>1, <3>1, EndKeeps DEF Crash
  <2>2. CASE Shared(p)
    BY <2>2, AdmitKeeps, SettleKeeps, CannotSettleKeeps, WriteMutationKeeps, WriteLeaseKeeps,
       WriteHeadKeeps, DropIntentKeeps DEF Shared
  <2> QED
    BY <1>3, <2>1, <2>2
<1>4. ASSUME NEW snap \in Snaps, Change(snap) \/ Edit(snap) PROVE IInv'
  <2>1. faults' \in 0..MaxFaults
    BY <1>1, <1>4, MutationAssumption DEF Change, Edit
  <2> QED
    BY <1>4, <2>1, WorkspaceKeeps DEF Change, Edit
<1>5. CASE Call
  BY <1>5, BindKeeps, BindLeaseKeeps, PrepareKeeps, PrepareHeadKeeps, ApplyKeeps, CommitHeadKeeps,
     PhasesKeep, FinalHeadKeeps, RecoveredKeeps, CallKeeps, FailCallKeeps DEF Call
<1>6. CASE Fix
  BY <1>6, FixKeeps, CallKeeps DEF Fix
<1>7. CASE (\E k \in {"model", "readonly", "quality"} : Begin(k)) \/ Recover \/ Observe \/ Capture
  BY <1>7, BeginKeeps, RecoverKeeps, ObserveKeeps
<1>8. CASE FailUnattributed \/ StartRecord \/ RecordRefused \/ ReportRefused
  BY <1>8, CannotSettleKeeps, BindKeeps, CallKeeps
<1> QED
  BY <1>2, <1>3, <1>4, <1>5, <1>6, <1>7, <1>8 DEF Next

(* The files, the processes' memory and the journal agree in every state,
   whoever died and wherever: the first record, lease and head of a mutation
   and the phases of an admission are never out of step. *)
THEOREM MutationInvariant == Spec => []IInv
  BY InitHolds, StepKeeps, PTL DEF Spec

(* A running call is never deprived of its lease (BindModelCall and
   completeStagedQualityMutationLocked). *)
THEOREM CallsKeepTheirLease == Spec => []CallKeepsItsLease
<1>1. IInv => CallKeepsItsLease
  BY DEF IInv, Workflow, CallIsAlone, CallKeepsItsLease, Calling, Recording
<1> QED
  BY <1>1, MutationInvariant, PTL

(* A pending admission over an unchanged workspace is recoverable, however far
   RunTransition came before the process died. *)
THEOREM AdmissionsRecover == Spec => []PendingIsRecoverable
<1>1. IInv => PendingIsRecoverable
  BY DEF IInv, Disk, Journalled, AtSource, AtTarget, PendingIsRecoverable, Prepared, CommittedOp
<1> QED
  BY <1>1, MutationInvariant, PTL

(* The workflow never fails the controller closed over a preserved fix, unless
   a record of the same lease contradicts it. *)
THEOREM PreservedFixesSettle == Spec => PreservedFixIsSettled
<1>1. ASSUME IInv, [Next]_vars
      PROVE  [At(W, "settle") /\ pc'[W] = "failUnattributed" => ~Covers(adm[W]) \/ Contradicted]_vars
  <2> SUFFICES ASSUME Next, pc[W] = "settle", pc'[W] = "failUnattributed", Covers(adm[W]), ~Contradicted
      PROVE  FALSE
    BY <1>1 DEF At, vars
  <2>1. Memory /\ Stored /\ Standing(intent.src) /\ head.gen \in Nat
    BY <1>1, WorkflowKnows
  <2>2. Settles(adm[W])
    <3>1. Admits(intent.src)
      BY <2>1 DEF Covers, Standing
    <3> QED
      BY <3>1 DEF Settles, Contradicted
  <2>3. CannotSettle(W)
    <3> USE <2>1, TwoProcesses DEF Memory, Goto, End, At, W, O
    <3>1. \A k \in {"model", "readonly", "quality"} : ~Begin(k)
      BY DEF Begin
    <3>2. ~Recover /\ ~Observe /\ ~Capture
      BY DEF Recover, Observe, Capture
    <3>3. \A p \in Procs : ~Crash(p)
      BY DEF Crash
    <3>4. \A p \in Procs : ~Admitted(p) /\ ~NotAdmitted(p) /\ ~Settle(p)
      BY DEF Admitted, NotAdmitted, Settle
    <3>5. \A p \in Procs : ~WriteMutation(p) /\ ~WriteLease(p) /\ ~WriteHead(p) /\ ~DropIntent(p)
      BY DEF WriteMutation, WriteLease, WriteHead, DropIntent
    <3>6. ~CannotSettle(O)
      BY DEF CannotSettle
    <3>7. ~Call
      BY DEF Call, Bind, BindRefused, BindLease, Prepare, PrepareHead, Apply, CommitHead, CommitPhase,
         Finalizing, FinalHead, FinalPhase, Recovered, CallReturns, ReadReturns,
         CallViolates, FailCall
    <3>8. ~Fix
      BY DEF Fix, Stage, StageIntent, GateFixed, GateFixedNothing, Preserve, ClearIntent
    <3>9. ~FailUnattributed /\ ~StartRecord /\ ~RecordRefused /\ ~ReportRefused
      BY DEF FailUnattributed, StartRecord, RecordRefused, ReportRefused
    <3>10. \A snap \in Snaps : ~Change(snap) /\ ~Edit(snap)
      BY DEF Change, Edit
    <3> QED
      BY <3>1, <3>2, <3>3, <3>4, <3>5, <3>6, <3>7, <3>8, <3>9, <3>10 DEF Next, Shared
  <2> QED
    BY <2>2, <2>3 DEF CannotSettle
<1> QED
  BY <1>1, MutationInvariant, PTL DEF Spec, PreservedFixIsSettled

(* The head moves to another lease over the same snapshot or over one that a
   record on disk attributes to this very step. *)
THEOREM MovesHaveRecords == Spec => MovesAreAttributed
<1> DEFINE Attributed ==
      head'.active /\ head'.lease # head.lease =>
          \/ lease[head'.lease].snap = lease[head.lease].snap
          \/ \E m \in muts : /\ m.src = head.lease /\ m.tgt = head'.lease
                             /\ m.gen = head'.gen
                             /\ m.after = lease[head'.lease].snap
<1>1. ASSUME IInv, [Next]_vars PROVE [Attributed]_vars
  <2>1. /\ head \in [gen : Nat, active : BOOLEAN, pending : BOOLEAN, lease : 0..MaxIds]
        /\ op.src.gen \in Nat /\ op.tgt \in 0..MaxIds
    BY <1>1, WorkflowKnows DEF Stored
  <2>2. CASE UNCHANGED head
    BY <2>2
  <2>3. CASE FailHead
    <3>1. head'.active = FALSE
      BY <2>1, <2>3 DEF FailHead
    <3> QED
      BY <3>1
  <2>4. ASSUME NEW p \in Procs, WriteHead(p) PROVE Attributed
    <3>1. pc[p] \in {"head", "settleHead"} /\ head' = [head EXCEPT !.gen = head.gen + 1, !.lease = new[p]]
      BY <2>4 DEF WriteHead
    <3>2. head'.gen = head.gen + 1 /\ head'.lease = new[p]
      BY <2>1, <3>1
    <3>3. /\ lease[new[p]].snap = after[p]
          /\ \E m \in muts : /\ m.src = head.lease /\ m.tgt = new[p]
                             /\ m.gen = head.gen + 1 /\ m.after = after[p]
      BY <1>1, <3>1, TwoProcesses DEF IInv, Process
    <3> QED
      BY <3>2, <3>3
  <2>5. CASE CommitHead
    <3>1. head.active /\ head.pending /\ AtSource
      BY <1>1, <2>5 DEF IInv, Workflow, Transit, CommitHead, At
    <3>2. lease[op.tgt].snap = lease[op.src.lease].snap
      BY <1>1, <2>1, <3>1 DEF IInv, Disk, Journalled, AtSource, AtTarget
    <3>3. head'.lease = op.tgt
      BY <2>1, <2>5 DEF CommitHead
    <3> QED
      BY <3>1, <3>2, <3>3 DEF AtSource
  <2>6. CASE PrepareHead \/ FinalHead
    <3>1. head'.lease = head.lease
      BY <2>1, <2>6 DEF PrepareHead, FinalHead
    <3> QED
      BY <3>1
  <2>7. \/ UNCHANGED head \/ FailHead \/ (\E p \in Procs : WriteHead(p)) \/ CommitHead
        \/ PrepareHead \/ FinalHead
    <3> USE DEF files
    <3>1. ASSUME NEW p \in Procs, Shared(p) \/ Crash(p) PROVE UNCHANGED head \/ WriteHead(p)
      BY <3>1 DEF Shared, Crash, Admitted, NotAdmitted, Settle, CannotSettle, WriteMutation, WriteLease,
         DropIntent
    <3>2. CASE Call
      BY <3>2 DEF Call, Bind, BindRefused, BindLease, Prepare, Apply, CommitPhase,
         Finalizing, FinalPhase, Recovered, CallReturns, ReadReturns,
         CallViolates, FailCall
    <3>3. CASE Fix
      BY <3>3 DEF Fix, Stage, StageIntent, GateFixed, GateFixedNothing, Preserve, ClearIntent
    <3>4. CASE FailUnattributed \/ StartRecord \/ RecordRefused \/ ReportRefused
      BY <3>4 DEF FailUnattributed, StartRecord, RecordRefused, ReportRefused
    <3>5. CASE (\E k \in {"model", "readonly", "quality"} : Begin(k)) \/ Recover \/ Observe \/ Capture
      BY <3>5 DEF Begin, Recover, Observe, Capture
    <3>6. CASE \E snap \in Snaps : Change(snap) \/ Edit(snap)
      BY <3>6 DEF Change, Edit
    <3> QED
      BY <1>1, <3>1, <3>2, <3>3, <3>4, <3>5, <3>6 DEF Next, vars
  <2> QED
    BY <2>2, <2>3, <2>4, <2>5, <2>6, <2>7
<1> QED
  BY <1>1, MutationInvariant, PTL DEF Spec, MovesAreAttributed
================================================================================
