--------------------------- MODULE TransientRecovery ---------------------------
(***************************************************************************)
(* What a call does when the provider is away: recoveryLoop of the         *)
(* workflow, the probe of the runner and the stop request of the user.     *)
(*                                                                         *)
(* The loop waits, probes the provider and runs the call again once a      *)
(* probe is answered.  It gives up after MaxProbes probes or at a deadline *)
(* and leaves one stop on disk, whatever it meets on the way.  A resume of *)
(* a provider-unavailable task uses the same loop as a gate: its first     *)
(* probe is immediate and an answered probe ends it.                       *)
(***************************************************************************)
EXTENDS Naturals, Sequences

CONSTANTS
    Schedule,       \* transientBackoffSchedule, the waits between the probes
    Deadline,       \* providerUnavailableDeadline, counted from the first failure
    MaxProbes,      \* maxTransientProbes
    MaxLateness,    \* bound: how late a timer or a killed process returns
    RunTimes        \* bound: how long the resumed call can take

ASSUME ScheduleAssumption == Schedule \in Seq(Nat \ {0})
ASSUME ScheduleCoversProbes == Len(Schedule) >= MaxProbes
ASSUME DeadlineAssumption == Deadline \in Nat \ {0}
ASSUME MaxProbesAssumption == MaxProbes \in Nat
ASSUME MaxLatenessAssumption == MaxLateness \in Nat
ASSUME RunTimesAssumption == RunTimes \subseteq Nat

VARIABLES
    pc,             \* where the loop is
    gate,           \* firstProbeImmediate: the loop gates a resume
    clock,          \* time since recoveryStart
    probes, sleeps, \* the loop's counters
    wait,           \* the wait the loop sleeps for
    stop,           \* whether the user has asked the worker to stop
    saved,          \* the stops EnterStop has written, in order
    ioFailed,       \* whether the store has failed to write
    lateStarts      \* history: processes started after the stop request

vars == <<pc, gate, clock, probes, sleeps, wait, stop, saved, ioFailed, lateStarts>>

\* The ends of the loop: the call is recovered, the task stops, it fails closed on
\* a parent-managed file, or the error goes back to the command.
Ends == {"recovered", "stopped", "parent-file", "failed"}

Steps == {"mark-ready", "loop", "sleeping", "probe", "probe-ready", "probing",
          "run", "run-ready", "running",
          "exhausted", "returned", "interrupted", "fatal"} \union Ends

RunStopKinds == {"rate-limited", "provider-unavailable", "guard-recoverable"}
Stops == {"provider-unavailable", "rate-limited", "interrupted", "guard-recoverable"}

Goto(step) == pc' = step

\* EnterStop; what becomes of the error that says which stop it was, is step.
Save(kind, step) ==
    /\ saved' = Append(saved, kind)
    /\ Goto(step)
    /\ UNCHANGED ioFailed

\* The store cannot write: its error takes the place of the stop.
StoreFails(step) ==
    /\ ioFailed' = TRUE
    /\ Goto(step)
    /\ UNCHANGED saved

-----------------------------------------------------------------------------
(* The loop. *)

Init ==
    /\ gate \in BOOLEAN
    /\ pc = IF gate THEN "loop" ELSE "mark-ready"
    /\ clock = 0 /\ probes = 0 /\ sleeps = 0 /\ wait = 0
    /\ stop = FALSE
    /\ saved = <<>>
    /\ ioFailed = FALSE
    /\ lateStarts = 0

\* recoverTransient marks the session ready before the loop starts.
MarkReady ==
    /\ pc = "mark-ready"
    /\ \/ Goto("loop") /\ UNCHANGED <<saved, ioFailed>>
       \/ StoreFails("fatal")
    /\ UNCHANGED <<gate, clock, probes, sleeps, wait, stop, lateStarts>>

ProbesExhausted ==
    /\ pc = "loop"
    /\ probes >= MaxProbes
    /\ Goto("exhausted")
    /\ UNCHANGED <<gate, clock, probes, sleeps, wait, stop, saved, ioFailed, lateStarts>>

FirstProbeImmediate == gate /\ probes = 0

ProbeAtOnce ==
    /\ pc = "loop"
    /\ probes < MaxProbes
    /\ FirstProbeImmediate
    /\ Goto("probe")
    /\ UNCHANGED <<gate, clock, probes, sleeps, wait, stop, saved, ioFailed, lateStarts>>

\* boundedBackoffJitter adds up to a quarter.
Jittered(base) == {base + extra : extra \in 0..(base \div 4)}

\* Mutant: the last wait of the schedule is never used.
CanWaitShort == sleeps + 1 < Len(Schedule) /\ clock < Deadline

\* backoffWait: there is a wait left, and time left to wait for.
CanWait == sleeps < Len(Schedule) /\ clock < Deadline

NoTimeToWait ==
    /\ pc = "loop"
    /\ probes < MaxProbes /\ ~FirstProbeImmediate
    /\ ~CanWait
    /\ Goto("exhausted")
    /\ UNCHANGED <<gate, clock, probes, sleeps, wait, stop, saved, ioFailed, lateStarts>>

StartWait ==
    /\ pc = "loop"
    /\ probes < MaxProbes /\ ~FirstProbeImmediate
    /\ CanWait
    /\ \E w \in Jittered(Schedule[sleeps + 1]) :
           wait' = IF w > Deadline - clock THEN Deadline - clock ELSE w
    /\ Goto("sleeping")
    /\ UNCHANGED <<gate, clock, probes, sleeps, stop, saved, ioFailed, lateStarts>>

\* Mutant: the deadline is not looked at after the sleep.
SleepEndsUnchecked ==
    /\ pc = "sleeping"
    /\ \E late \in 0..MaxLateness : clock' = clock + wait + late
    /\ sleeps' = sleeps + 1
    /\ Goto("probe")
    /\ UNCHANGED <<gate, probes, wait, stop, saved, ioFailed, lateStarts>>

SleepEnds ==
    /\ pc = "sleeping"
    /\ \E late \in 0..MaxLateness : clock' = clock + wait + late
    /\ sleeps' = sleeps + 1
    /\ Goto(IF clock' > Deadline THEN "exhausted" ELSE "probe")
    /\ UNCHANGED <<gate, probes, wait, stop, saved, ioFailed, lateStarts>>

\* sleepInterruptible: the select may also pick the timer when both are ready.
SleepInterrupted ==
    /\ pc = "sleeping"
    /\ stop
    /\ \E slept \in 0..wait : clock' = clock + slept
    /\ Goto("interrupted")
    /\ UNCHANGED <<gate, probes, sleeps, wait, stop, saved, ioFailed, lateStarts>>

-----------------------------------------------------------------------------
(* One probe. *)

ProbeSetupFails ==
    /\ pc = "probe"
    /\ probes' = probes + 1
    /\ Goto("fatal")
    /\ UNCHANGED <<gate, clock, sleeps, wait, stop, saved, ioFailed, lateStarts>>

\* Mutant: a probe is not counted.
ProbePreflightUncounted ==
    /\ pc = "probe"
    /\ Goto(IF stop THEN "interrupted"
            ELSE IF clock >= Deadline THEN "exhausted"
            ELSE "probe-ready")
    /\ UNCHANGED <<gate, clock, probes, sleeps, wait, stop, saved, ioFailed, lateStarts>>

\* probeCommandPreflight: no process for a stopped worker or a past deadline.
ProbePreflight ==
    /\ pc = "probe"
    /\ probes' = probes + 1
    /\ Goto(IF stop THEN "interrupted"
            ELSE IF clock >= Deadline THEN "exhausted"
            ELSE "probe-ready")
    /\ UNCHANGED <<gate, clock, sleeps, wait, stop, saved, ioFailed, lateStarts>>

\* A process is started, whatever has been requested since the preflight.
StartProcess == lateStarts' = IF stop THEN lateStarts + 1 ELSE lateStarts

\* runProbeCommand starts the process; a stop request is not looked at again.
ProbeStarts ==
    /\ pc = "probe-ready"
    /\ StartProcess
    /\ Goto("probing")
    /\ UNCHANGED <<gate, clock, probes, sleeps, wait, stop, saved, ioFailed>>

\* Mutant: a probe has a timeout of its own instead of the recovery's deadline.
ProbeTakesItsOwnTime == clock' \in clock..(clock + Deadline)

\* The probe's process is killed at the deadline.
ProbeTakesTime == clock' \in clock..(Deadline + MaxLateness)

ProbeDeadlineExceeded ==
    /\ pc = "probing"
    /\ ProbeTakesTime /\ clock' >= Deadline
    /\ Goto("exhausted")
    /\ UNCHANGED <<gate, probes, sleeps, wait, stop, saved, ioFailed, lateStarts>>

ProbeInterrupted ==
    /\ pc = "probing"
    /\ stop
    /\ ProbeTakesTime
    /\ Goto("interrupted")
    /\ UNCHANGED <<gate, probes, sleeps, wait, stop, saved, ioFailed, lateStarts>>

\* An answer: a gate is passed, otherwise the call runs again.
ProbeAnswered ==
    /\ pc = "probing"
    /\ ProbeTakesTime
    /\ Goto(IF gate THEN "recovered" ELSE "run")
    /\ UNCHANGED <<gate, probes, sleeps, wait, stop, saved, ioFailed, lateStarts>>

\* A transient failure, of the start as well, or an answer that breaks the probe's
\* contract.
ProbeFails ==
    /\ pc \in {"probe-ready", "probing"}
    /\ ProbeTakesTime
    /\ Goto("loop")
    /\ UNCHANGED <<gate, probes, sleeps, wait, stop, saved, ioFailed, lateStarts>>

\* The five-hour limit, or a failure class that waiting does not cure.
ProbeStops(kind) ==
    /\ pc = "probing"
    /\ ProbeTakesTime
    /\ Save(kind, "returned") \/ StoreFails("fatal")
    /\ UNCHANGED <<gate, probes, sleeps, wait, stop, lateStarts>>

ProbeFatal ==
    /\ pc \in {"probe-ready", "probing"}
    /\ ProbeTakesTime
    /\ Goto("fatal")
    /\ UNCHANGED <<gate, probes, sleeps, wait, stop, saved, ioFailed, lateStarts>>

-----------------------------------------------------------------------------
(* runResumedTask: the call again. *)

RunTakesTime == \E t \in RunTimes : clock' = clock + t

\* Mutant: Run does not ask for a stop request.
RunPreflightUnasked ==
    /\ pc = "run"
    /\ Goto("parent-file") \/ Goto("run-ready")
    /\ UNCHANGED <<gate, clock, probes, sleeps, wait, stop, saved, ioFailed, lateStarts>>

\* The parent-file guard is captured before the call, Run refuses a stopped worker.
RunPreflight ==
    /\ pc = "run"
    /\ Goto("parent-file") \/ Goto(IF stop THEN "interrupted" ELSE "run-ready")
    /\ UNCHANGED <<gate, clock, probes, sleeps, wait, stop, saved, ioFailed, lateStarts>>

\* runCommand starts the process once the session, the prompt and the arguments
\* are prepared; a stop request is not looked at again.
RunStarts ==
    /\ pc = "run-ready"
    /\ StartProcess
    /\ Goto("running")
    /\ UNCHANGED <<gate, clock, probes, sleeps, wait, stop, saved, ioFailed>>

RunAnswered ==
    /\ pc = "running"
    /\ RunTakesTime
    /\ Goto("recovered")
    /\ UNCHANGED <<gate, probes, sleeps, wait, stop, saved, ioFailed, lateStarts>>

\* Run has returned an error: a guard's before it prepared anything, one of the
\* preparation, or one of the process.
RunFailed == pc \in {"run", "run-ready", "running"} /\ RunTakesTime

\* The call fails for good, or the parent-managed files changed under it.
RunFatal ==
    /\ RunFailed
    /\ Goto("parent-file") \/ Goto("fatal")
    /\ UNCHANGED <<gate, probes, sleeps, wait, stop, saved, ioFailed, lateStarts>>

RunInterrupted ==
    /\ pc = "running"
    /\ stop
    /\ RunTakesTime
    /\ Goto("interrupted")
    /\ UNCHANGED <<gate, probes, sleeps, wait, stop, saved, ioFailed, lateStarts>>

RunStops(kind) ==
    /\ RunFailed
    /\ Save(kind, "returned") \/ StoreFails("fatal")
    /\ UNCHANGED <<gate, probes, sleeps, wait, stop, lateStarts>>

\* The output is classified as transient, that of an earlier attempt when the call
\* was not started.
RunFailsAgain ==
    /\ RunFailed
    /\ Goto("loop")
    /\ UNCHANGED <<gate, probes, sleeps, wait, stop, saved, ioFailed, lateStarts>>

-----------------------------------------------------------------------------
(* After the loop. *)

SaveProviderUnavailable ==
    /\ pc = "exhausted"
    /\ Save("provider-unavailable", "returned") \/ StoreFails("fatal")
    /\ UNCHANGED <<gate, clock, probes, sleeps, wait, stop, lateStarts>>

\* Mutant: a five-hour limit is not recognised as a stop that is already saved.
StopErrorsWithoutLimit == {"provider-unavailable"} \union (IF gate THEN {} ELSE {"guard-recoverable"})

\* The errors by which the caller of the loop knows that a stop is already saved.
StopErrors ==
    {"provider-unavailable", "rate-limited"}
        \union (IF gate THEN {} ELSE {"guard-recoverable"})

\* The loop has returned the error of the stop it saved; an error that its caller
\* does not know is a failure of the call.
ReturnStop ==
    /\ pc = "returned"
    /\ Goto(IF saved[Len(saved)] \in StopErrors THEN "stopped" ELSE "fatal")
    /\ UNCHANGED <<gate, clock, probes, sleeps, wait, stop, saved, ioFailed, lateStarts>>

PersistInterruptedStop ==
    /\ pc = "interrupted"
    /\ Save("interrupted", "stopped") \/ StoreFails("failed")
    /\ UNCHANGED <<gate, clock, probes, sleeps, wait, stop, lateStarts>>

\* Mutant: the gate's error is returned without going back to the stop.
FailedWithoutRestore ==
    /\ pc = "fatal"
    /\ Goto("failed")
    /\ UNCHANGED <<gate, clock, probes, sleeps, wait, stop, saved, ioFailed, lateStarts>>

\* A gate goes back to the stop it came from (handleResumeProbeError); a call
\* clears its checkpoint and reports the error (finalizeModelCallState).
Failed ==
    /\ pc = "fatal"
    /\ \/ gate /\ (Save("provider-unavailable", "stopped") \/ StoreFails("failed"))
       \/ ~gate /\ Goto("failed") /\ UNCHANGED <<saved, ioFailed>>
    /\ UNCHANGED <<gate, clock, probes, sleeps, wait, stop, lateStarts>>

StopRequest ==
    /\ pc \notin Ends
    /\ ~stop
    /\ stop' = TRUE
    /\ UNCHANGED <<pc, gate, clock, probes, sleeps, wait, saved, ioFailed, lateStarts>>
-----------------------------------------------------------------------------
Recovery ==
    \/ MarkReady \/ ProbesExhausted \/ ProbeAtOnce \/ NoTimeToWait
    \/ StartWait \/ SleepEnds \/ SleepInterrupted
    \/ ProbeSetupFails \/ ProbePreflight \/ ProbeStarts
    \/ ProbeDeadlineExceeded \/ ProbeInterrupted
    \/ ProbeAnswered \/ ProbeFails
    \/ \E kind \in {"rate-limited", "provider-unavailable"} : ProbeStops(kind)
    \/ ProbeFatal
    \/ RunPreflight \/ RunStarts \/ RunAnswered \/ RunFatal \/ RunInterrupted
    \/ \E kind \in RunStopKinds : RunStops(kind)
    \/ RunFailsAgain
    \/ SaveProviderUnavailable \/ ReturnStop \/ PersistInterruptedStop \/ Failed

Next == Recovery \/ StopRequest

Spec == Init /\ [][Next]_vars

\* Timers fire, and a probe or a call ends: the first is killed at the deadline,
\* the second by its own timeouts.
FairSpec == Spec /\ WF_vars(Recovery)

-----------------------------------------------------------------------------
(* Properties. *)

\* The shape of the loop's state (recoveryLoop).
TypeOK ==
    /\ pc \in Steps
    /\ gate \in BOOLEAN
    /\ clock \in Nat
    /\ probes \in 0..MaxProbes
    /\ sleeps \in 0..MaxProbes
    /\ wait \in Nat
    /\ stop \in BOOLEAN
    /\ saved \in Seq(Stops)
    /\ ioFailed \in BOOLEAN
    /\ lateStarts \in Nat

\* The call is never run again after the deadline, however long an earlier run
\* took and however late a timer fired: a run can only follow a probe that was
\* started before the deadline and is killed at it (recoveryLoop, runProbeCommand).
RetryStartsInTime == pc \in {"run-ready", "running"} => clock <= Deadline + MaxLateness

\* A recovery that gives up before the deadline has made every probe: the schedule
\* does not run out of waits first (backoffWait, maxTransientProbes).
GivesUpAfterAllProbes == pc = "exhausted" /\ clock < Deadline => probes = MaxProbes

\* A recovery leaves at most one stop, and exactly one when it says that the task
\* stopped: a stop that one level has saved is not saved again, replaced or cleared
\* by the level that handles its error (saveProviderUnavailable and its siblings,
\* resolveTransientModelFailure, handleResumeProbeError).
OneStopPerRecovery ==
    IF pc \in {"returned", "stopped"} THEN Len(saved) = 1 ELSE saved = <<>>

\* A resume that is gated on a probe passes the gate or leaves the task stopped,
\* as long as the store can write (handleResumeProbeError).
GateLeavesAStop ==
    gate /\ pc \in Ends /\ ~ioFailed => pc \in {"recovered", "stopped"}

\* The user's stop request lets at most one more process start: the probe or the
\* call whose preflight had passed when it arrived.  Whatever that process answers,
\* also when its answer wins against the request, neither the call nor another
\* probe follows it (probeCommandPreflight, prepareRunSession, runCommand).
AtMostOneLateStart == lateStarts <= 1

\* The recovery ends.
RecoveryEnds == <>(pc \in Ends)

-----------------------------------------------------------------------------
(* The inductive invariant behind the safety properties. *)

\* Inside the loop the waits stay behind the probes and both within their limits.
CountersInStep ==
    /\ pc \in {"mark-ready", "loop", "sleeping", "probe-ready", "probing",
              "run", "run-ready", "running"} => sleeps <= probes
    /\ pc \in {"sleeping", "probe"} => probes < MaxProbes
    /\ pc = "probe" => sleeps <= probes + 1

\* A wait ends at the deadline, a probe starts before it.
WithinDeadline ==
    /\ pc = "sleeping" => clock + wait <= Deadline
    /\ pc = "probe" => clock <= Deadline
    /\ pc \in {"probe-ready", "probing"} => clock < Deadline
    /\ pc = "run" => clock <= Deadline + MaxLateness
    /\ pc = "loop" /\ FirstProbeImmediate => clock = 0

\* A gate never runs the call, and only a probe leads to a run.
RunsFollowProbes ==
    /\ pc \in {"mark-ready", "run", "run-ready", "running"} => ~gate
    /\ pc \in {"probe-ready", "probing", "run", "run-ready", "running"} => probes > 0

\* The loop returns only errors of stops that its caller knows.
StopsAreKnown == pc = "returned" => saved[Len(saved)] \in StopErrors

\* Nothing is late before the request, and what is ready to start is the first.
LateStartsFollowStop ==
    lateStarts > 0 => stop /\ pc \notin {"probe-ready", "run-ready"}

\* The loop's counters stay in step, its waits and probes within the deadline, and
\* the safety properties hold (recoveryLoop, waitForRecoveryProbe).
RecoveryInv ==
    /\ TypeOK
    /\ CountersInStep
    /\ WithinDeadline
    /\ RunsFollowProbes
    /\ RetryStartsInTime
    /\ GivesUpAfterAllProbes
    /\ OneStopPerRecovery
    /\ StopsAreKnown
    /\ GateLeavesAStop
    /\ LateStartsFollowStop
    /\ AtMostOneLateStart

=============================================================================
