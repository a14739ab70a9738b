------------------------------ MODULE ParentWait ------------------------------
(* The parent-wait lease and the recovery waiter (parentactioncmd/parent_wait.go
   over repolock): an action that runs a worker holds the owner lock, and
   rotates the owner epoch, while the worker it spawned holds the repository
   lock; `glm-parent-action wait` queues for both and reports the task.

   A process that dies frees its locks. The worker is a process of its own: it
   outlives the action that spawned it. *)
EXTENDS Integers, FiniteSets

CONSTANTS
    Owners,     \* processes of actions that hold the lease
    Waiters,    \* processes of the wait action
    MaxEpochs,  \* leases taken in a behaviour
    MaxFaults   \* processes that die

ASSUME WaitAssumption ==
    /\ IsFiniteSet(Owners) /\ IsFiniteSet(Waiters)
    /\ Owners \cap Waiters = {}
    /\ "nobody" \notin Owners \cup Waiters
    /\ MaxEpochs \in Nat \ {0}
    /\ MaxFaults \in Nat

VARIABLES
    owner, recovery, worker,  \* who holds parent-wait.lock, its recovery lock, the repository lock
    epoch,   \* parent-wait-owner.epoch; 0 before the first lease
    task,    \* the task's status: a worker leaves it active until it ends
    ran,     \* the epoch of the action whose worker wrote the task last
    action,  \* where each action is
    child,   \* the worker of each action, and the epoch it was spawned in
    waiter,  \* where each wait action is
    bound,   \* the epoch it read first
    faults

locks == <<owner, recovery, worker>>
taskVars == <<task, ran>>
actionVars == <<action, child>>
waiterVars == <<waiter, bound>>
vars == <<locks, epoch, taskVars, actionVars, waiterVars, faults>>

Nobody == "nobody"
Epochs == 0..MaxEpochs
NoChild == [at |-> "none", of |-> 0]

TypeOK ==
    /\ owner \in Owners \cup Waiters \cup {Nobody}
    /\ recovery \in Waiters \cup {Nobody}
    /\ worker \in Owners \cup Waiters \cup {Nobody}
    /\ epoch \in Epochs
    /\ task \in {"active", "stopped"}
    /\ ran \in Epochs
    /\ action \in [Owners -> {"idle", "leased", "body", "spawned"}]
    /\ child \in [Owners -> [at : {"none", "starting", "running"}, of : Epochs]]
    /\ waiter \in [Waiters -> {"idle", "bound", "owner", "checkOwner", "worker",
                               "checkWorker", "handoff", "released"}]
    /\ bound \in [Waiters -> Epochs]
    /\ faults \in 0..MaxFaults

Init ==
    /\ owner = Nobody /\ recovery = Nobody /\ worker = Nobody
    /\ epoch = 0
    /\ task = "stopped" /\ ran = 0
    /\ action = [o \in Owners |-> "idle"]
    /\ child = [o \in Owners |-> NoChild]
    /\ waiter = [w \in Waiters |-> "idle"]
    /\ bound = [w \in Waiters |-> 0]
    /\ faults = 0

--------------------------------------------------------------------------------
(* withParentWaitLease around an action that runs workers. A lease that is held
   refuses the action, which changes nothing. *)

Lease(o) ==
    /\ action[o] = "idle" /\ child[o] = NoChild
    /\ epoch < MaxEpochs
    /\ owner = Nobody
    /\ owner' = o
    /\ action' = [action EXCEPT ![o] = "leased"]
    /\ UNCHANGED <<recovery, worker, epoch, taskVars, child, waiterVars, faults>>

\* Mutant: the epoch is rotated before the lease is taken.
RotateUnleased(o) ==
    /\ action[o] \in {"idle", "leased"}
    /\ epoch < MaxEpochs
    /\ epoch' = epoch + 1
    /\ action' = [action EXCEPT ![o] = IF @ = "idle" THEN "idle" ELSE "body"]
    /\ UNCHANGED <<locks, taskVars, child, waiterVars, faults>>

Rotate(o) ==
    /\ action[o] = "leased"
    /\ epoch' = epoch + 1
    /\ action' = [action EXCEPT ![o] = "body"]
    /\ UNCHANGED <<locks, taskVars, child, waiterVars, faults>>

(* runWorker: the action waits for the worker it starts. *)
Spawn(o) ==
    /\ action[o] = "body"
    /\ action' = [action EXCEPT ![o] = "spawned"]
    /\ child' = [child EXCEPT ![o] = [at |-> "starting", of |-> epoch]]
    /\ UNCHANGED <<locks, epoch, taskVars, waiterVars, faults>>

WorkerStarts(o) ==
    /\ child[o].at = "starting"
    /\ worker = Nobody
    /\ worker' = o
    /\ child' = [child EXCEPT ![o] = [at |-> "running", of |-> @.of]]
    /\ task' = "active" /\ ran' = child[o].of
    /\ UNCHANGED <<owner, recovery, epoch, action, waiterVars, faults>>

(* The repository lock is tried once. *)
WorkerRefused(o) ==
    /\ child[o].at = "starting"
    /\ worker # Nobody
    /\ child' = [child EXCEPT ![o] = NoChild]
    /\ UNCHANGED <<locks, epoch, taskVars, action, waiterVars, faults>>

WorkerEnds(o) ==
    /\ child[o].at = "running"
    /\ task' = "stopped"
    /\ child' = [child EXCEPT ![o] = NoChild]
    /\ worker' = Nobody
    /\ UNCHANGED <<owner, recovery, epoch, ran, action, waiterVars, faults>>

Return(o) ==
    /\ action[o] = "spawned" /\ child[o] = NoChild
    /\ action' = [action EXCEPT ![o] = "idle"]
    /\ owner' = Nobody
    /\ UNCHANGED <<recovery, worker, epoch, taskVars, child, waiterVars, faults>>

--------------------------------------------------------------------------------
(* executeParentWait. *)

At(w, label) == waiter[w] = label
Goto(w, label) == waiter' = [waiter EXCEPT ![w] = label]

\* Mutant: the owner lock is not closed.
EndKeepsOwner(w) ==
    /\ Goto(w, "idle")
    /\ recovery' = IF recovery = w THEN Nobody ELSE recovery
    /\ worker' = IF worker = w THEN Nobody ELSE worker
    /\ UNCHANGED <<owner, epoch, taskVars, actionVars, bound>>

(* The deferred closes. *)
End(w) ==
    /\ Goto(w, "idle")
    /\ owner' = IF owner = w THEN Nobody ELSE owner
    /\ recovery' = IF recovery = w THEN Nobody ELSE recovery
    /\ worker' = IF worker = w THEN Nobody ELSE worker
    /\ UNCHANGED <<epoch, taskVars, actionVars, bound>>

Bind(w) ==
    /\ At(w, "idle")
    /\ epoch # 0
    /\ bound' = [bound EXCEPT ![w] = epoch]
    /\ Goto(w, "bound")
    /\ UNCHANGED <<locks, epoch, taskVars, actionVars, faults>>

(* One waiter at a time: another is refused at once. *)
TakeRecovery(w) ==
    /\ At(w, "bound")
    /\ recovery = Nobody
    /\ recovery' = w
    /\ Goto(w, "owner")
    /\ UNCHANGED <<owner, worker, epoch, taskVars, actionVars, bound, faults>>

RecoveryHeld(w) ==
    /\ At(w, "bound")
    /\ recovery # Nobody
    /\ End(w)
    /\ UNCHANGED faults

TakeOwner(w) ==
    /\ At(w, "owner")
    /\ owner = Nobody
    /\ owner' = w
    /\ Goto(w, "checkOwner")
    /\ UNCHANGED <<recovery, worker, epoch, taskVars, actionVars, bound, faults>>

CheckOwner(w) ==
    /\ At(w, "checkOwner")
    /\ IF epoch = bound[w]
       THEN Goto(w, "worker") /\ UNCHANGED <<locks, epoch, taskVars, actionVars, bound>>
       ELSE End(w)
    /\ UNCHANGED faults

\* Mutant: the worker that outlived its action is not waited for.
TakeWorkerUnwaited(w) ==
    /\ At(w, "worker")
    /\ worker' = IF worker = Nobody THEN w ELSE worker
    /\ Goto(w, "checkWorker")
    /\ UNCHANGED <<owner, recovery, epoch, taskVars, actionVars, bound, faults>>

TakeWorker(w) ==
    /\ At(w, "worker")
    /\ worker = Nobody
    /\ worker' = w
    /\ Goto(w, "checkWorker")
    /\ UNCHANGED <<owner, recovery, epoch, taskVars, actionVars, bound, faults>>

CheckWorker(w) ==
    /\ At(w, "checkWorker")
    /\ IF epoch = bound[w]
       THEN Goto(w, "handoff") /\ UNCHANGED <<locks, epoch, taskVars, actionVars, bound>>
       ELSE End(w)
    /\ UNCHANGED faults

(* parentWaitHandoff reads the recovery handoff, then the status is read. *)
Handoff(w) ==
    /\ At(w, "handoff")
    /\ Goto(w, "released")
    /\ UNCHANGED <<locks, epoch, taskVars, actionVars, bound, faults>>

HandoffFails(w) ==
    /\ At(w, "handoff")
    /\ End(w)
    /\ UNCHANGED faults

Released(w) ==
    /\ At(w, "released")
    /\ End(w)
    /\ UNCHANGED faults

--------------------------------------------------------------------------------
(* Processes die. *)

Fault == faults < MaxFaults /\ faults' = faults + 1

ActionDies(o) ==
    /\ action[o] # "idle"
    /\ Fault
    /\ action' = [action EXCEPT ![o] = "idle"]
    /\ owner' = Nobody
    /\ UNCHANGED <<recovery, worker, epoch, taskVars, child, waiterVars>>

WorkerDies(o) ==
    /\ child[o] # NoChild
    /\ Fault
    /\ child' = [child EXCEPT ![o] = NoChild]
    /\ worker' = IF worker = o THEN Nobody ELSE worker
    /\ UNCHANGED <<owner, recovery, epoch, taskVars, action, waiterVars>>

WaiterDies(w) ==
    /\ waiter[w] # "idle"
    /\ Fault
    /\ End(w)

OwnerStep(o) ==
    \/ Rotate(o) \/ Spawn(o) \/ WorkerStarts(o) \/ WorkerRefused(o) \/ WorkerEnds(o)
    \/ Return(o)

WaiterStep(w) ==
    \/ TakeRecovery(w) \/ RecoveryHeld(w) \/ TakeOwner(w) \/ CheckOwner(w)
    \/ TakeWorker(w) \/ CheckWorker(w) \/ Handoff(w) \/ HandoffFails(w) \/ Released(w)

Next ==
    \/ \E o \in Owners : Lease(o) \/ OwnerStep(o) \/ ActionDies(o) \/ WorkerDies(o)
    \/ \E w \in Waiters : Bind(w) \/ WaiterStep(w) \/ WaiterDies(w)

(* A process that can step does: the actions wait only for their worker, a
   worker's model calls have deadlines, and flock wakes who waits for it. The
   number of leases is bounded, so nobody overtakes a waiter for ever. *)
Fairness ==
    /\ \A o \in Owners : WF_vars(OwnerStep(o))
    /\ \A w \in Waiters : WF_vars(WaiterStep(w))

Spec == Init /\ [][Next]_vars
FairSpec == Spec /\ Fairness

--------------------------------------------------------------------------------
(* Properties. *)

(* What a waiter reports is the end of the lease it was started for: no action
   holds the lease, no worker runs, no later lease was taken since the waiter
   read the epoch, and a task it calls active was left by a worker of that
   lease or of an earlier one that died, and not by one still running. *)
ReportIsOfTheLease ==
    \A w \in Waiters : At(w, "released") =>
        /\ \A o \in Owners : action[o] = "idle" /\ child[o].at # "running"
        /\ epoch = bound[w]
        /\ ran <= bound[w]

(* Why: every lock is held exactly by the process that is where it needs it, and
   the epoch a waiter compared under the owner lock stays the epoch while it
   queues for the worker, whoever dies: the comparison repeated after the worker
   lock cannot fail. *)
LockInv ==
    /\ TypeOK
    /\ \A o \in Owners :
        /\ action[o] # "idle" <=> owner = o
        /\ action[o] = "leased" => epoch < MaxEpochs
        /\ action[o] \in {"leased", "body"} => child[o] = NoChild
        /\ child[o].at = "running" <=> worker = o
        /\ child[o].of <= epoch
    /\ \A w \in Waiters :
        /\ waiter[w] \notin {"idle", "bound"} <=> recovery = w
        /\ waiter[w] \notin {"idle", "bound", "owner"} <=> owner = w
        /\ waiter[w] \in {"checkWorker", "handoff", "released"} <=> worker = w
        /\ waiter[w] \in {"worker", "checkWorker", "handoff", "released"} => epoch = bound[w]
    /\ ran <= epoch

(* A waiter that is queued gets its answer: nobody waits on everybody, whoever
   dies. *)
WaitersAreAnswered ==
    \A w \in Waiters : At(w, "owner") ~> At(w, "idle")
================================================================================
