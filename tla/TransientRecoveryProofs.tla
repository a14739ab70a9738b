------------------------ MODULE TransientRecoveryProofs ------------------------
(***************************************************************************)
(* Proofs about TransientRecovery, for any schedule that has a wait for    *)
(* every probe, any deadline, any lateness of timers and any duration of   *)
(* the calls.                                                              *)
(***************************************************************************)
EXTENDS TransientRecovery, TLAPS

LEMMA InitRecovery == Init => RecoveryInv
<1> SUFFICES ASSUME Init PROVE RecoveryInv
    OBVIOUS
<1>1. pc \in Steps /\ saved \in Seq(Stops)
    BY DEF Init, Steps
<1>2. probes \in 0..MaxProbes /\ sleeps \in 0..MaxProbes /\ clock \in Nat /\ wait \in Nat
    BY MaxProbesAssumption DEF Init
<1>3. gate \in BOOLEAN /\ stop \in BOOLEAN /\ ioFailed \in BOOLEAN /\ lateStarts \in Nat
    BY DEF Init
<1>4. TypeOK
    BY <1>1, <1>2, <1>3 DEF TypeOK
<1> QED
    BY <1>4, DeadlineAssumption, MaxProbesAssumption
    DEF Init, RecoveryInv, CountersInStep, WithinDeadline, RunsFollowProbes,
        FirstProbeImmediate, RetryStartsInTime, GivesUpAfterAllProbes, OneStopPerRecovery, GateLeavesAStop,
        StopsAreKnown, LateStartsFollowStop, AtMostOneLateStart, Ends

\* A saved stop is the only one.
LEMMA SaveOnce ==
    ASSUME saved = <<>>, NEW kind \in Stops, NEW step, Save(kind, step)
    PROVE  saved' \in Seq(Stops) /\ Len(saved') = 1 /\ saved'[Len(saved')] = kind
BY DEF Save

\* Waiting and counting.
LEMMA LoopStep ==
    ASSUME RecoveryInv,
           \/ MarkReady \/ ProbesExhausted \/ ProbeAtOnce \/ NoTimeToWait
           \/ StartWait \/ SleepEnds \/ SleepInterrupted \/ StopRequest
    PROVE  RecoveryInv'
<1> USE DeadlineAssumption, MaxProbesAssumption, MaxLatenessAssumption
    DEF RecoveryInv, TypeOK, CountersInStep, WithinDeadline, RunsFollowProbes,
        FirstProbeImmediate, RetryStartsInTime, GivesUpAfterAllProbes, OneStopPerRecovery, GateLeavesAStop,
        StopsAreKnown, LateStartsFollowStop, AtMostOneLateStart, Steps, Ends, Goto
<1>1. CASE MarkReady
    BY <1>1 DEF MarkReady, StoreFails
<1>2. CASE ProbesExhausted
    BY <1>2 DEF ProbesExhausted
<1>3. CASE ProbeAtOnce
    BY <1>3 DEF ProbeAtOnce
<1>4. CASE NoTimeToWait
    BY <1>4, ScheduleAssumption, ScheduleCoversProbes DEF NoTimeToWait, CanWait
<1>5. CASE StartWait
  <2>1. Schedule[sleeps + 1] \in Nat
    BY <1>5, ScheduleAssumption DEF StartWait, CanWait
  <2>2. PICK w \in Jittered(Schedule[sleeps + 1]) :
            wait' = IF w > Deadline - clock THEN Deadline - clock ELSE w
    BY <1>5 DEF StartWait
  <2>w. w \in Nat
    BY <2>1 DEF Jittered
  <2>3. wait' \in Nat /\ clock + wait' <= Deadline
    BY <1>5, <2>2, <2>w DEF StartWait, CanWait
  <2> QED
    BY <1>5, <2>3 DEF StartWait
<1>6. CASE SleepEnds
    BY <1>6 DEF SleepEnds
<1>7. CASE SleepInterrupted
    BY <1>7 DEF SleepInterrupted
<1>8. CASE StopRequest
    BY <1>8 DEF StopRequest, StopErrors
<1> QED
    BY <1>1, <1>2, <1>3, <1>4, <1>5, <1>6, <1>7, <1>8

\* Probes.
LEMMA ProbeStep ==
    ASSUME RecoveryInv,
           \/ ProbeSetupFails \/ ProbePreflight \/ ProbeStarts \/ ProbeDeadlineExceeded
           \/ ProbeInterrupted \/ ProbeAnswered \/ ProbeFails \/ ProbeFatal
           \/ \E kind \in {"rate-limited", "provider-unavailable"} : ProbeStops(kind)
    PROVE  RecoveryInv'
<1> USE DeadlineAssumption, MaxProbesAssumption, MaxLatenessAssumption
    DEF RecoveryInv, TypeOK, CountersInStep, WithinDeadline, RunsFollowProbes,
        FirstProbeImmediate, RetryStartsInTime, GivesUpAfterAllProbes, OneStopPerRecovery, GateLeavesAStop,
        StopsAreKnown, LateStartsFollowStop, AtMostOneLateStart, Steps, Ends, Goto
<1>1. CASE ProbeSetupFails
    BY <1>1 DEF ProbeSetupFails
<1>0. CASE ProbePreflight
    BY <1>0 DEF ProbePreflight
<1>2. CASE ProbeStarts
    BY <1>2 DEF ProbeStarts, StartProcess
<1>3. CASE ProbeDeadlineExceeded
    BY <1>3 DEF ProbeDeadlineExceeded, ProbeTakesTime
<1>4. CASE ProbeInterrupted
    BY <1>4 DEF ProbeInterrupted, ProbeTakesTime
<1>5. CASE ProbeAnswered
    BY <1>5 DEF ProbeAnswered, ProbeTakesTime
<1>6. CASE ProbeFails
    BY <1>6 DEF ProbeFails, ProbeTakesTime
<1>7. CASE ProbeFatal
    BY <1>7 DEF ProbeFatal, ProbeTakesTime
<1>8. ASSUME NEW kind \in {"rate-limited", "provider-unavailable"}, ProbeStops(kind)
      PROVE  RecoveryInv'
  <2>1. CASE Save(kind, "returned")
    BY <1>8, <2>1, SaveOnce DEF ProbeStops, ProbeTakesTime, Stops, StopErrors, Save
  <2>2. CASE StoreFails("fatal")
    BY <1>8, <2>2 DEF ProbeStops, ProbeTakesTime, StoreFails
  <2> QED
    BY <1>8, <2>1, <2>2 DEF ProbeStops
<1> QED
    BY <1>0, <1>1, <1>2, <1>3, <1>4, <1>5, <1>6, <1>7, <1>8

\* The call again.
LEMMA RunStep ==
    ASSUME RecoveryInv,
           \/ RunPreflight \/ RunStarts \/ RunAnswered \/ RunFatal
           \/ RunInterrupted \/ RunFailsAgain
           \/ \E kind \in RunStopKinds : RunStops(kind)
    PROVE  RecoveryInv'
<1> USE DeadlineAssumption, MaxProbesAssumption, MaxLatenessAssumption
    DEF RecoveryInv, TypeOK, CountersInStep, WithinDeadline, RunsFollowProbes,
        FirstProbeImmediate, RetryStartsInTime, GivesUpAfterAllProbes, OneStopPerRecovery, GateLeavesAStop,
        StopsAreKnown, LateStartsFollowStop, AtMostOneLateStart, Steps, Ends, Goto
<1>0. RunTakesTime => clock' \in Nat
    BY RunTimesAssumption DEF RunTakesTime
<1>1. CASE RunPreflight
  <2>1. pc' \in {"parent-file", "interrupted", "run-ready"}
    BY <1>1 DEF RunPreflight
  <2> QED
    BY <1>1, <2>1 DEF RunPreflight
<1>2. CASE RunStarts
    BY <1>2 DEF RunStarts, StartProcess
<1>6. CASE RunAnswered
    BY <1>0, <1>6 DEF RunAnswered
<1>7. CASE RunFatal
  <2>1. pc' \in {"parent-file", "fatal"}
    BY <1>7 DEF RunFatal
  <2> QED
    BY <1>0, <1>7, <2>1 DEF RunFatal, RunFailed
<1>3. CASE RunInterrupted
    BY <1>0, <1>3 DEF RunInterrupted
<1>4. CASE RunFailsAgain
    BY <1>0, <1>4 DEF RunFailsAgain, RunFailed
<1>5. ASSUME NEW kind \in RunStopKinds, RunStops(kind) PROVE RecoveryInv'
  <2>1. CASE Save(kind, "returned")
    BY <1>0, <1>5, <2>1, SaveOnce DEF RunStops, RunFailed, RunStopKinds, Stops, StopErrors, Save
  <2>2. CASE StoreFails("fatal")
    BY <1>0, <1>5, <2>2 DEF RunStops, RunFailed, StoreFails
  <2> QED
    BY <1>5, <2>1, <2>2 DEF RunStops
<1> QED
    BY <1>1, <1>2, <1>3, <1>4, <1>5, <1>6, <1>7

\* After the loop.
LEMMA EndStep ==
    ASSUME RecoveryInv, SaveProviderUnavailable \/ ReturnStop \/ PersistInterruptedStop \/ Failed
    PROVE  RecoveryInv'
<1> USE DeadlineAssumption, MaxProbesAssumption, MaxLatenessAssumption
    DEF RecoveryInv, TypeOK, CountersInStep, WithinDeadline, RunsFollowProbes,
        FirstProbeImmediate, RetryStartsInTime, GivesUpAfterAllProbes, OneStopPerRecovery, GateLeavesAStop,
        StopsAreKnown, LateStartsFollowStop, AtMostOneLateStart, Steps, Ends, Goto
<1>1. CASE SaveProviderUnavailable /\ Save("provider-unavailable", "returned")
    BY <1>1, SaveOnce DEF SaveProviderUnavailable, Save, Stops, StopErrors
<1>2. ASSUME NEW kind \in Stops, Save(kind, "stopped"),
             PersistInterruptedStop \/ Failed
      PROVE  RecoveryInv'
    BY <1>2, SaveOnce DEF PersistInterruptedStop, Failed, Save
<1>3. ASSUME NEW step \in {"fatal", "failed"}, StoreFails(step),
             SaveProviderUnavailable \/ PersistInterruptedStop \/ Failed
      PROVE  RecoveryInv'
    BY <1>3 DEF SaveProviderUnavailable, PersistInterruptedStop, Failed, StoreFails
<1>4. CASE ~gate /\ Failed /\ Goto("failed") /\ UNCHANGED <<saved, ioFailed>>
    BY <1>4 DEF Failed
<1>5. CASE ReturnStop
  <2>1. pc' = "stopped"
    BY <1>5 DEF ReturnStop
  <2> QED
    BY <1>5, <2>1 DEF ReturnStop
<1> QED
    BY <1>1, <1>2, <1>3, <1>4, <1>5
    DEF SaveProviderUnavailable, PersistInterruptedStop, Failed, Stops

LEMMA NextRecovery ==
    ASSUME RecoveryInv, [Next]_vars PROVE RecoveryInv'
<1>1. CASE UNCHANGED vars
    BY <1>1 DEF vars, RecoveryInv, TypeOK, CountersInStep, WithinDeadline,
                RunsFollowProbes, FirstProbeImmediate, RetryStartsInTime, GivesUpAfterAllProbes, OneStopPerRecovery,
                GateLeavesAStop, StopsAreKnown, StopErrors, LateStartsFollowStop, AtMostOneLateStart
<1> QED
    BY <1>1, LoopStep, ProbeStep, RunStep, EndStep DEF Next, Recovery

\* The inductive invariant of the recovery loop: its counters stay in step and its
\* waits and probes within the deadline.
THEOREM RecoveryInvariant == Spec => []RecoveryInv
BY InitRecovery, NextRecovery, PTL DEF Spec

\* The call is never run again after the deadline, whatever the schedule and
\* however long earlier runs took (recoveryLoop, runProbeCommand).
THEOREM RetriesStartInTime == Spec => []RetryStartsInTime
<1>1. RecoveryInv => RetryStartsInTime
    BY DEF RecoveryInv
<1> QED
    BY <1>1, RecoveryInvariant, PTL

\* With a wait for every probe, a recovery that gives up early has made every
\* probe (backoffWait, maxTransientProbes).
THEOREM AllProbesAreMade == Spec => []GivesUpAfterAllProbes
<1>1. RecoveryInv => GivesUpAfterAllProbes
    BY DEF RecoveryInv
<1> QED
    BY <1>1, RecoveryInvariant, PTL

\* A recovery leaves one stop when the task stops and none otherwise
\* (saveProviderUnavailable and its siblings).
THEOREM OneStopIsLeft == Spec => []OneStopPerRecovery
<1>1. RecoveryInv => OneStopPerRecovery
    BY DEF RecoveryInv
<1> QED
    BY <1>1, RecoveryInvariant, PTL

\* A resume that is gated on a probe passes the gate or leaves the task stopped, as
\* long as the store can write (handleResumeProbeError).
THEOREM GatesLeaveAStop == Spec => []GateLeavesAStop
<1>1. RecoveryInv => GateLeavesAStop
    BY DEF RecoveryInv
<1> QED
    BY <1>1, RecoveryInvariant, PTL

\* A stop request of the user lets at most one more process start, the one whose
\* preflight had passed (probeCommandPreflight, prepareRunSession, runCommand).
THEOREM OneLateStart == Spec => []AtMostOneLateStart
<1>1. RecoveryInv => AtMostOneLateStart
    BY DEF RecoveryInv
<1> QED
    BY <1>1, RecoveryInvariant, PTL

=============================================================================
