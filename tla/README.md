# Verification of codex-worker-orchestrator

TLA+ models, TLC configurations and TLAPS proofs for the core of
codex-worker-orchestrator: how one delegated task moves between its parent
(Codex), the worker and the reviewer model, how the controller attributes every
change of the workspace and publishes accepted work to a branch others push to, how
a parent that lost its session waits for the worker, and how the programs are
installed; and how the files of each survive rejected commands, failing calls, races and
crashes.

## The system

A parent agent delegates work by running `glm-worker` once per command: `new`,
`--decision`, `--fix`, `--resume`, `--approve-surface`, accept, complete. A
repository lock admits one process at a time. The process drives a worker and a
reviewer model and exits; all that lasts is a directory of small files. The parent
then reads a *plan* computed from those files and picks its next command.

| component | state | operations | how it interacts |
|---|---|---|---|
| state store (`internal/state`) | `task.status`, `pending-decision`, `parent-review-state.json`, `resume-state.json`, `parent-action-begin.json`, `last-decision` | lifecycle transitions, each several file writes with a rollback | called by the workflow, the app and the runner |
| parent action plan (`state/parent_action.go`, `app/parent_admission.go`) | none | is the state consistent, which actions are allowed | guards every command |
| task workflow (`internal/workflow`) | one process's memory: checkpoint in hand, what to restore, who produced the last result | commands, gates, model calls, review loop, stops | calls the store and the runner, emits packets |
| model call and recovery (`workflow/model_call.go`, `runner`) | checkpoint, probe and sleep counters, deadline | save, admit, run, classify, wait, probe, run again, stop | commits the begin record at admission |
| controller: canonical mutations (`internal/controller`, `workflow/controller_model_guard.go`, `quality_mutation.go`) | the head (generation, status, pending transition, live lease), leases, mutation records, the transition journal and its phase, the staged quality intent | admit, bind a model call, record, stage / preserve / settle a fix, recover, fail closed | the workflow runs its calls and gates under it; observers (continuation, bootstrap) read it without the repository lock and may settle a fix |
| controller: publication (`controller/publication_*.go`, `terminal_*.go`, `execution_lane.go`) | candidate, integration tip, immutable prefix, observed remote, completion progress; the local and the remote branch | accept, promote, publish, rebind, reenter, revalidate, materialize, adopt | each a journaled transition with git effects, against a remote that others push to |
| parent wait (`parentactioncmd/parent_wait.go`, `repolock`) | three file locks, the owner epoch | lease, rotate, spawn a worker, queue as recovery waiter | the action and its worker die independently |
| installer (`internal/cliinstall`) | programs, ownership state, transaction journal, staged files | install, retire, recover | people edit the same directory |
| autoresume, continuation, evidence | none of their own | project and verify | read the files above |
| quality gate, linters, packets, reports, settings | none that the lifecycle reads | verdicts and formatting | a choice of the environment |

What is hard here: no single file says what state a task is in. A command is
admitted from one combination of files, changes some, calls a model for an hour,
and may die or fail at any point; the next process sees only the files. Most
transitions are written for the state their author had in mind, and the questions
worth asking are about sequences: a decision given, a resume that fails, a gate
that rejects, a fix begun from an approval wait. `PROJECT.json` lists the hazards
line by line.

## Modules

| module | models | 
|---|---|
| `TaskStore` | the six files and the store's transitions, one action each (`state/lifecycle_transition.go`, `resume.go`, `parent_action_begin.go`, ...) |
| `ParentPlan` | `ParentActionPlan`: consistency per status, allowed actions, admission of a new task |
| `TaskLifecycle` | the workflow over that store: the parent's commands, gates, `runModel`, routing of results, `reviewUntilStable`, stops, unwinding and crashes |
| `TaskContract` | the abstract promise to the parent: whose turn it is and whether a question is open |
| `MCTaskLifecycle` | symmetry of the decisions for TLC |
| `ParentActionBegin` | begin, rollback, commit and recovery of a parent action, one file write per step, with crashes and failing writes between them |
| `TransientRecovery` | `recoveryLoop`: backoff, probes with a deadline, the retried call, the user's stop request (asked for, and acted on, in two steps), the stop that is saved by the level that may save it |
| `MCTransientRecovery` | the code's schedule in five-minute units |
| `CanonicalMutation` | the controller's admission, model-call transition, mutation records and staged quality fixes, one file per step; the workflow and one lock-free observer |
| `Publication` | the life of a candidate from acceptance to the retired task, with the remote branch, pushes in flight and the ref hook |
| `ParentWait` | the parent-wait lease, its worker and the recovery waiters over three locks and an epoch |
| `CLIInstall` | install, retire and recovery of the programs, one file operation per step |
| `AtomicInstall` | the abstract promise of the installer: all programs and the ownership state at once, or nothing |
| `TaskLifecycleProofs`, `TaskParentProofs` | theorems of the lifecycle: the state of the files; what the parent is promised |
| `ParentActionBeginProofs`, `TransientRecoveryProofs`, `ParentWaitProofs`, `CanonicalMutationProofs`, `PublicationProofs`, `CLIInstallProofs` | theorems of the other components |

`TaskLifecycle` extends `ParentPlan` extends `TaskStore`. The variables of
`TaskStore` are files; those of `TaskLifecycle` are the memory of the one process,
reset by `ProcessEnds`. `pc` names the code about to run: `gate`
(resolveAndPinActiveTask, the feasibility gate), `search` (the search context of a milestone's
fix, whose gates ran before it began), `call` and `saved` (runModel before
and after the checkpoint is written), `running` (the model), `accepted`,
`gate-repaired`, `review`, `reviewed`, `fix-required` (routing), `emit` (recordSolResult,
which opens the review after the state has moved), `failed` (an error on its way to
the command), `rollback`. `armed` says how long a resume still restores its stop:
during its call or through the routing of a reused result. `rb` is the
ParentActionRollback the workflow keeps until the call is admitted.

A checkpoint keeps its stage, phase, decision, round counter, stop kind, approval and
whether it carries a result; prompts, snapshots and digests are dropped, and a gate that
compares them is a choice. A review is its label and who produced it.
Environment faults are the constant `Faults`, so that a run can say which ones
it allows: a crash, a decision rejected for its task, a wrong ACTIVE task, a
failing feasibility gate, a changed parent-managed file, a resume whose context cannot be
prepared.

`TransientRecovery` stands alone. Where `TaskLifecycle` says that a call stops
(`ModelStops`, `ResumeProbeStops`), it shows how the loop comes to that, and
`OneStopPerRecovery` is what justifies taking it as one step there. Likewise
`ParentActionBegin` shows what justifies taking `BeginParentAction`,
`RollbackParentAction` and `RecoverParentActionBegin` as single steps in `TaskStore`, and
`CanonicalMutation` what stands behind `TaskLifecycle`'s `CallRefused`.

`CanonicalMutation`. `head`, `lease`, `muts`, `op`, `phase` and `intent` are files; `ws` is
the workspace as the snapshot a capture of it would give. `pc` says where the workflow
(`W`) and an observer (`O`) are; each takes the mutation lock where the code does and may
die at any step. An identity (lease, attempt) is a number never used twice. The workflow
reads head and workspace in one step, because the repository lock keeps other workflows
away; the observer reads them in two. A read-only call of a request is admitted like a
mutating one but not bound to a lease of its own: it records nothing, and a change of the
workspace behind it fails the controller closed. Writing the three files of a prepared transition is
one step: nothing reads them before the head names them.

`Publication`. A commit is the sequence of changes it contains, so that `git merge-base
--is-ancestor` is a prefix test and a rebase onto another tip is another commit. `tips`
keeps the furthest commits the upstream ever had, `flights` the pushes on their way: a
flight may land at any time while the branch is what the client was told, also after
its attempt was given up, and a lost push is one that never lands. Planning and preparing are one step (what
`CanonicalMutation` shows for model calls) and a refusal, which changes nothing, is left
out. `PlanFails` is every reason for which planning seals the controller: a branch
without the immutable prefix, or work that does not apply to the new base. The local branch
moves only by the controller, by a pull and never by a commit of the user; the primary
working tree is always the one the plan saw.

`ParentWait`. A lock is who holds it; a dead process holds nothing. The worker is a
process of its own that outlives its action and tries the repository lock once. The
comparison of epochs after the worker lock can never fail (part of `LockInv`): it is a
second line of defence.

`CLIInstall`. A file is its content: a build, something edited, or nothing. `todo` and `at`
are the loop over the names; the checks before the journal is written, before a rename is undone
and before a transaction is closed are those of the code, error returns included. `tainted` remembers that somebody edited a program of the open
journal. The command holds the install lock throughout, and people edit only between
commands.

## Runs

| run | faults | checks |
|---|---|---|
| `lifecycle_faults` | all | stops stay resumable, waits carry no stop, decisions keep their marker and are consumed once, no begin record behind a model, approvals of stopped tasks are activated, failing closed on the surface is never refused, a new task drops nothing; the inductive invariant itself |
| `lifecycle_contract` | all but parent-file | the refinement of `TaskContract` and that every command ends |
| `lifecycle_plan` | crash | the parent always has a consistent plan and an offered fix can begin |
| `parent_action` | crash or failing write, four times | every intermediate state of a parent action is recoverable to exactly the wait it left, and the recovery completes |
| `provider_recovery` | any outcome of a probe or call, failing writes, stop request at any time | deadline, all probes, one stop, at most one process started after a stop request, termination |
| `canonical_mutation` | two deaths of the workflow or observer, or edits | a running call keeps its lease, a pending transition is recoverable, a preserved fix is settled and never fails the controller closed (unless a record left by an earlier fix of the same lease, reverted by hand, contradicts it), the lease moves only over an attributed change |
| `publication` | one crash, one rewrite of the branch, two foreign pushes, lost and late pushes, pulls | what is called published was public, an acknowledged completion is retired, no aborted operation leaves its commit on the local branch, pending operations settle |
| `parent_wait` | two deaths of an action, worker or waiter | a report is of the lease the waiter was bound to, the locks are where the steps need them, a queued waiter is answered |
| `cli_install` | three crashes, failed file operations or edits | every interrupted install can be finished or undone, the journal goes only when its files are settled, nothing edited is overwritten, recovery finishes, and the installer implements `AtomicInstall` |

`InstallIsAtomic` maps the programs and the state of an open transaction to their images
before it until the last rename of the commit, and to the images after it from then on: what
a crash leaves in between is not visible to anybody who lets the next command recover.

Three runs show a disagreement between the code and what the repository says of it
(`findings` in `PROJECT.json` quotes both sides):

* `finding_feasibility`: a rejected decision or resume cannot be repeated, because the
  rejection's own packet opened a review.
* `finding_staged_intent`: the error of a refused quality record says that the fix is still
  staged; a concurrent observer may have settled it.
* `finding_rebound_primary`: promote, rebind and materialize leave an unpublished commit on
  the local branch; acceptance asks for it to be adopted as an external advancement, which is
  refused.

Four more disagreements follow from definitions of `TaskLifecycle`; each shows up when
`Faults` of `lifecycle_plan` is replaced by the set named here and the definition is the invariant:

* `PlanConsistent` with `{"parent-file"}`: failing closed on a parent-managed file under a
  decision (`workflow/planfile.go:338`) keeps the marker in a review wait, which no command
  can leave; the tests call such a state a dead end
  (`workflow/quality_gate_recovery_test.go:247`).
* `AllowedFixBegins` with `{"crash", "active-task"}` or `{"crash", "feasibility"}`: a process that
  dies between the gate that rejected its fix and the rollback leaves its begin record in the review
  wait. The plan offers the fix, whose begin is refused (`state/parent_action_begin.go:41`) until
  somebody gives `--recover-parent-action`, although the offered actions are what the parent is told to
  go by (`codex/instructions/glm-execution.md:26`). With `{"parent-file"}` failing closed leaves the
  record behind in the same way.
* `BeginIsRecoverable` with `{"crash"}`: a fix begun from an approval wait is not recoverable
  when it dies before its own checkpoint is saved (`state/parent_action_begin.go:275`).
* `ActiveCarriesNoStop` with `{"resume-context"}`: a resume that cannot prepare its context
  does not restore its stop (`workflow/resume_flow.go:127`). With the gates and the parent
  file as faults, and no crash, it holds.

The other runs leave out exactly the fault that breaks their property, so that they still
say what holds without it. Deadlock is checked except where the system may stop: a
recovery that has ended (`provider_recovery`), a controller that failed closed
(`canonical_mutation`, `publication`). In the lifecycle the parent can always give up a task
(`RuntimeDisposition`) and start another.

### Bounds

* two decisions: enough for a decision to be confused with an earlier one;
* `MaxAutoFixRounds = 2`: a first, an intermediate and an exhausted round, also across resumes;
* `MaxRules = 1`: a result with and without a missing contract. The code bounds the loop by
  the contracts that exist; the constant stands for that number;
* `MaxFailures = 4`: a failure of the action, of its recovery, of the recovery after that and one to spare;
* the real schedule (5, 15, 45, 90 minutes), deadline (3 h) and four probes. Jitter makes the
  sum of the waits exceed the deadline, so the truncated wait happens; `MaxLateness` is one
  unit, and a call takes nothing, two units or longer than the deadline.
* two programs, two builds, three faults: the second name is reached before and after the first
  is renamed, an upgrade differs from a repair, and a recovery may be interrupted twice. Names
  are handled independently and in order;
* three snapshots, four identities, two faults: a base, a fix and an edit; a call, its record and
  a settlement by the observer each take an identity;
* two owners, two waiters, three epochs, two deaths: a lease taken over by another while one
  waiter queues and a second is refused. Two deaths are an action and its worker;
* two foreign commits, two candidates, one crash and one rewrite: a race before and after the
  local effect, a rebind and its successor, a late push behind an aborted attempt. A
  rewrite drops any number of commits, once.

### Fairness

`FairSpec` of the lifecycle is weak fairness of the process's own steps: model calls have
timeouts and waits have deadlines, so a process that runs goes on. Nothing is assumed of the
parent, of a crash or of a particular outcome. For the parent action the recovery command is
also assumed to be given again, which is what the parent is told to do. For the provider
recovery, timers fire and a call or probe ends. For the installer, a started command runs on,
since it waits for nobody. For the parent wait, whoever can step does: a model call has a
deadline and flock wakes its waiters; leases are bounded, so that no waiter is overtaken for
ever, which flock alone would not promise. For the publication, a started command runs on and a
pending transition is recovered by rerunning its command; nothing is assumed of the remote, of
git or of the choice of the next operation. `canonical_mutation` checks safety only.

## Proofs

TLAPS checks the theorems for all values of the constants. The named assumptions on them are
types, the distinctness of `None`, `NoDecision` and the like from real values, and the schedule
of the recovery. Every safety property, every action property and both refinements that a passing
run checks are proved; where a promise holds only without some fault, the theorem has the absence of
that fault as its hypothesis. Each inductive invariant was checked by TLC on the instance of its
run before it was proved.

* `TaskLifecycleProofs`, for any set of faults. `SafetyInv` is inductive. Beside the four
  properties it needs what the process knows of the files: a process at an active step works on an
  active task; while a result is routed no checkpoint is on disk (so that a wait entered there
  carries no stop); a fix passes its gates only over an unstopped checkpoint (so that its rollback
  does not bring a stop into a wait); a begin record taken from a decision wait remembers the marker;
  an emitted packet exists. Types come first (`TypeCorrect`), with a lemma per way a process ends:
  quietly, by stopping, by going back to a stop. Each group of actions (commands, model call,
  workflow) has one type and one safety lemma with a step per action.
* `TaskParentProofs` builds three invariants on that one.
  `MarkerInv` holds for any faults: while the marker of a decision is there, the checkpoint in hand,
  the stop on disk and the stop a failing resume goes back to all belong to the decision last
  given, and the wait a parent action goes back to has the marker as it is now. From it follow
  `PendingStopContinues`, `StoppedApprovalIsActivated`, `SurfaceReviewNeverRefused`, the action
  properties `DecisionIsConsumedOnce` and `NewTaskDropsNothing`, and, without the parent-file
  fault, the refinement of `TaskContract`: the initial state is the contract's and each action
  passes the turn as the contract allows or leaves it.
  `PlanInv` says that the open packet is the one its wait is for, on disk, in the hands of the process
  and in what a parent action goes back to. It needs `NoMisplacedPacket`, the absence of the
  three faults whose packet lands in another wait (decision-task, feasibility, parent-file), and gives
  `PlanConsistent` with crashes, a wrong ACTIVE task and failing resumes, which is more than
  `lifecycle_plan` allows.
  `BeginInv` says that a begin record means that no model was admitted since. It needs
  `NoStrandedBegin`: no parent-file fault, and no crash together with a rejecting gate. It gives
  `AllowedFixBegins`.
* `ParentActionBeginProofs`. `IInv` relates the files to the wait the action began from
  (`origin`, a history variable) write by write; both properties follow from it.
* `TransientRecoveryProofs`. `RecoveryInv` keeps the waits behind the probes and the clock
  behind the deadline at each step of the loop. The one assumption beyond the types is
  `ScheduleCoversProbes`: the schedule has a wait for every probe. That a gated resume leaves a stop
  follows from the same invariant. The code asks for a stop request before it starts a process and
  not again (`runner/runner.go:374` and `605`, `runner/probe.go:95` and `98`), so a request between the two
  is followed by one more start; `OneLateStart` shows that there is never a second, and `LateStartsFollowStop`
  is the part of the invariant that counts it.
* `ParentWaitProofs`. `LockInv` says for each step of an action, worker and waiter which lock its
  process holds and that the epoch compared under the owner lock is still the epoch; it is
  inductive as it stands, for any finite sets of processes and any number of deaths, and
  `ReportIsOfTheLease` follows from it: a waiter at `released` holds all three locks.
* `CanonicalMutationProofs`. `IInv` speaks of the files (`Disk`: records point forward and follow
  the generations of their leases; the head says how far a pending admission came), of each process
  (`Process`: who writes holds the lock, the head is quiescent, and the record and then the lease are on
  disk before the head names them) and of the workflow (`Workflow`: its admission still stands, and
  no staged fix is old enough to be settled under the lease of a call). The last part is why an
  observer cannot take the lease from a running call. The attempt to prove
  `PreservedFixIsSettled` without its exception failed for a good reason, a record that a reverted fix
  left behind; the model and the property now say so (`Contradicted`).
* `PublicationProofs`. `IInv` says which head and phase file each step has (`Placed`), that what was
  public stays public and is under every tip and acknowledged commit (`Known`), that a
  candidate contains its base (`Based`), what a pending operation may assume of the head and the local
  branch it was planned from (`Planned`), who owns the local branch otherwise (`Settled`), and that
  an observed push is final (`Observed`). Commits are sequences of any length; that `Includes` is a
  preorder is a lemma.
* `CLIInstallProofs`, for any number of programs, builds and faults. `IInv` says, step by step of the
  loop over the names, which programs are renamed and which staged and backup files still exist
  (`Staged`, `Running`, `Renaming`, `Restoring`). `Recoverable` is its heart: the state is the one
  before, or all is as after, and the evidence for the way back exists; `Settled` says that evidence is
  removed only when it is not needed. In the refinement
  of `AtomicInstall` a whole install is the step that makes its transaction committed: the last rename,
  or the death or failed rollback of a command whose files were all in place.

Only model-checked: liveness (`CommandEnds`, `RecoveryCompletes`, `RecoveryEnds`, `RecoveryFinishes`,
`WaitersAreAnswered`, `PendingSettles`), which is out of the prover's reach, and the three runs that
show a disagreement.

## Not modelled

* Crashes between the writes of store transitions other than a parent action's begin:
  `EnterStop` and its siblings are atomic here (see the hazards).
* Observation (PoC) stages, park, reentry, reopen and no-go of the lifecycle; the
  result-correction loop and its one-time resubmission authorisation; the recovery of
  files written by an older version.
* Of the stop checkpoints, those of a recovered summary (`SummaryRecovered` in
  `state/resume.go:239`, `277` and `326`), which belong to that loop: `ValidStopState` has no such state.
* Of the parent's plan: the binding of a registered defect, the repair of a reentered review, the
  reopening of a completion that a finding invalidates, and the refusal of a resume before the reset
  of a rate limit (`state/parent_action.go:99`, `151`, `195`, `252`). `Allows` offers a resume of a
  rate-limited task at any time, so the lifecycle runs check more resumes than the code admits; a
  property that says an action is offered says nothing about a task with a registered defect.
* Failing reads of the store. `TransientRecovery` lets every write of a stop fail, but the task's
  identity and its checkpoint can be read.
* Session rotation: `CompleteParentAwaiting` is only ever called with a nil evaluator
  (`controller/publication_completion_runtime.go:46`), so that its protocol is not reached.
* Controller: episodes, findings, evidence exports, parent amendments, cleanup of lanes, adoption
  by a retired task, and everything about the contents of trees, bundles and metadata. The
  observed candidates of older heads are never the head's candidate and are left out.
* Edits that race a running installer (between plan and rename), what becomes of temporary files in the
  binary directory that a crash leaves before the journal exists (nothing collects them), and a
  stray journal file that keeps the state directory from being removed.
* A worker whose action died before it took the repository lock: it may start after a waiter
  reported the release.
* Autoresume plans a wake as a signed token and verifies it; the write is the Codex
  application's. `codexinstall`, settings merges, packets, reports and linters transform text.

## Plan

1. Open `EnterStop`, `DiscardResumeAndWaitForSolReview` and the approval transitions write by
   write, as `ParentActionBegin` does, and show that this implements `TaskStore` up to crashes.
2. Proofs: `BeginIsRecoverable` and `ActiveCarriesNoStop` under the faults for which they hold.
3. The result-correction loop and report resubmission; the start of a new task and its
   initialization recovery; park and reentry.
4. Lanes and their cleanup, and parent amendments, on top of `Publication`.
