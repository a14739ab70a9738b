--------------------------- MODULE ParentWaitProofs ---------------------------
(* The locks of the parent-wait lease, for any number of actions and waiters. *)
EXTENDS ParentWait, TLAPS

LEMMA InitLocks == Init => LockInv
  BY WaitAssumption DEF Init, LockInv, TypeOK, Epochs, NoChild, Nobody

(* Every step of an action, of its worker and their deaths keeps the locks. *)
LEMMA ActionLocks ==
    ASSUME LockInv, NEW o \in Owners, Lease(o) \/ OwnerStep(o) \/ ActionDies(o) \/ WorkerDies(o)
    PROVE  LockInv'
<1> USE WaitAssumption DEF LockInv, TypeOK, Epochs, NoChild, Nobody
<1>1. CASE Lease(o)
  BY <1>1 DEF Lease, taskVars, waiterVars
<1>2. CASE Rotate(o)
  BY <1>2 DEF Rotate, locks, taskVars, waiterVars
<1>3. CASE Spawn(o)
  BY <1>3 DEF Spawn, locks, taskVars, waiterVars
<1>4. CASE WorkerStarts(o)
  BY <1>4 DEF WorkerStarts, waiterVars
<1>5. CASE WorkerRefused(o)
  BY <1>5 DEF WorkerRefused, locks, taskVars, waiterVars
<1>6. CASE WorkerEnds(o)
  BY <1>6 DEF WorkerEnds, waiterVars
<1>7. CASE Return(o)
  BY <1>7 DEF Return, taskVars, waiterVars
<1>8. CASE ActionDies(o)
  BY <1>8 DEF ActionDies, Fault, taskVars, waiterVars
<1>9. CASE WorkerDies(o)
  BY <1>9 DEF WorkerDies, Fault, taskVars, waiterVars
<1> QED
  BY <1>1, <1>2, <1>3, <1>4, <1>5, <1>6, <1>7, <1>8, <1>9 DEF OwnerStep

(* The deferred closes free what the waiter held. *)
LEMMA EndLocks ==
    ASSUME LockInv, NEW w \in Waiters, End(w), faults' \in 0..MaxFaults
    PROVE  LockInv'
  BY WaitAssumption DEF End, Goto, LockInv, TypeOK, Epochs, NoChild, Nobody, taskVars, actionVars

(* Every step of a waiter and its death keeps the locks. *)
LEMMA WaiterLocks ==
    ASSUME LockInv, NEW w \in Waiters, Bind(w) \/ WaiterStep(w) \/ WaiterDies(w)
    PROVE  LockInv'
<1>1. CASE Bind(w)
  BY <1>1, WaitAssumption DEF Bind, At, Goto, LockInv, TypeOK, Epochs, Nobody, locks, taskVars, actionVars
<1>2. CASE TakeRecovery(w)
  BY <1>2, WaitAssumption DEF TakeRecovery, At, Goto, LockInv, TypeOK, Epochs, Nobody, taskVars, actionVars
<1>3. CASE TakeOwner(w)
  BY <1>3, WaitAssumption DEF TakeOwner, At, Goto, LockInv, TypeOK, Epochs, Nobody, taskVars, actionVars
<1>4. CASE TakeWorker(w)
  BY <1>4, WaitAssumption DEF TakeWorker, At, Goto, LockInv, TypeOK, Epochs, Nobody, taskVars, actionVars
<1>5. CASE CheckOwner(w) /\ epoch = bound[w]
  BY <1>5, WaitAssumption DEF CheckOwner, At, Goto, LockInv, TypeOK, Epochs, Nobody, locks, taskVars, actionVars
<1>6. CASE CheckWorker(w) /\ epoch = bound[w]
  BY <1>6, WaitAssumption DEF CheckWorker, At, Goto, LockInv, TypeOK, Epochs, Nobody, locks, taskVars, actionVars
<1>7. CASE Handoff(w)
  BY <1>7, WaitAssumption DEF Handoff, At, Goto, LockInv, TypeOK, Epochs, Nobody, locks, taskVars, actionVars
<1>8. CASE End(w) /\ UNCHANGED faults
  BY <1>8, EndLocks DEF LockInv, TypeOK
<1>9. CASE WaiterDies(w)
  BY <1>9, EndLocks, WaitAssumption DEF WaiterDies, Fault, LockInv, TypeOK
<1> QED
  BY <1>1, <1>2, <1>3, <1>4, <1>5, <1>6, <1>7, <1>8, <1>9
     DEF WaiterStep, CheckOwner, CheckWorker, RecoveryHeld, HandoffFails, Released

(* The locks are held by the processes that need them, and the epoch a waiter
   compared stays while it queues (parent_wait.go), for all owners and waiters. *)
THEOREM LocksAreExclusive == Spec => []LockInv
<1>1. LockInv /\ [Next]_vars => LockInv'
  <2> SUFFICES ASSUME LockInv, [Next]_vars PROVE LockInv'
    OBVIOUS
  <2>1. CASE UNCHANGED vars
    BY <2>1 DEF vars, LockInv, TypeOK, locks, taskVars, actionVars, waiterVars
  <2> QED
    BY <2>1, ActionLocks, WaiterLocks DEF Next
<1> QED
  BY <1>1, InitLocks, PTL DEF Spec

(* A released waiter reports the lease it was started for, when neither that
   lease's action nor any worker runs (executeParentWait). *)
THEOREM ReportsAreOfTheLease == Spec => []ReportIsOfTheLease
<1>1. LockInv => ReportIsOfTheLease
  BY WaitAssumption DEF LockInv, TypeOK, ReportIsOfTheLease, At, Epochs, Nobody
<1> QED
  BY <1>1, LocksAreExclusive, PTL
===============================================================================
