------------------------------ MODULE CLIInstall ------------------------------
(* The installer of the repository's command line programs
   (internal/cliinstall): install and retire, the ownership state, and the
   transaction journal from which the next command finishes or undoes an
   install that was interrupted.

   A file is its content: a Version for a program this repository built, Edited
   for anything else somebody put there (other content, another mode or a path
   that is no regular file), None for an absent file. A file with another
   content has another digest. One command runs at a time, under the install
   lock that dies with the process; people edit the binary directory only while
   no command runs. *)
EXTENDS Integers, FiniteSets

CONSTANTS
    N,          \* how many managed names there are; they are handled in order
    Versions,   \* the builds of a program
    Edited, None,
    MaxFaults   \* crashes, failed file operations and edits in a behaviour

ASSUME InstallAssumption ==
    /\ N \in Nat
    /\ MaxFaults \in Nat
    /\ Edited \notin Versions
    /\ None \notin Versions \cup {Edited}

VARIABLES
    bin,      \* the programs in the binary directory
    state,    \* the ownership state file; Empty when there is none
    journal,  \* the transaction journal file; NoJournal when there is none
    repl,     \* staged replacements, one temporary file per name
    back,     \* staged copies of the programs to be replaced
    temp,     \* the staged ownership state; Empty when there is none
    pc, op, build, next, todo, at,  \* the running command's memory
    recovering,                     \* it still works on an older journal
    tainted,  \* a name of the open journal was edited
    faults

files == <<bin, state, journal, repl, back, temp>>
memory == <<pc, op, build, next, todo, at, recovering>>
environment == <<tainted, faults>>
vars == <<files, memory, environment>>

Names == 1..N
Built == [Names -> Versions]
Owned == [Names -> Versions \cup {None}]
Files == [Names -> Versions \cup {Edited, None}]
AllNone == [n \in Names |-> None]

(* installState: the digests of the programs the installer owns, and of the
   ones it expects to find. A missing file loads as the empty state. *)
States == [own : Owned, exp : Owned]
Empty == [own |-> AllNone, exp |-> AllNone]

(* The journal: the names the transaction changes, and the images of their
   files and of the ownership state before and after. *)
Journals == [items : SUBSET Names, pre : Files, post : Files,
             statePre : States, statePost : States]
NoJournal == [items |-> {}, pre |-> AllNone, post |-> AllNone,
              statePre |-> Empty, statePost |-> Empty]
Open == journal.items # {}

TypeOK ==
    /\ bin \in Files
    /\ repl \in Files
    /\ back \in Files
    /\ state \in States
    /\ temp \in States
    /\ journal \in Journals
    /\ pc \in {"idle", "recover", "restore", "cleanRepl", "cleanBack",
               "cleanTemp", "cleanJournal", "plan", "stageState", "stageRepl",
               "stageBack", "journal", "commit", "commitState", "rollback",
               "failed", "committed", "remove", "removeState"}
    /\ op \in {"install", "retire"}
    /\ build \in Built
    /\ next \in States
    /\ todo \subseteq Names
    /\ at \in 0..(N + 1)
    /\ recovering \in BOOLEAN
    /\ tainted \in BOOLEAN
    /\ faults \in 0..MaxFaults

Init ==
    /\ bin \in [Names -> {None, Edited}]
    /\ repl = AllNone /\ back = AllNone
    /\ state = Empty /\ temp = Empty
    /\ journal = NoJournal
    /\ pc = "idle" /\ op = "install"
    /\ build \in Built
    /\ next = Empty /\ todo = {} /\ at = 0
    /\ recovering = FALSE
    /\ tainted = FALSE
    /\ faults = 0

Goto(label) == pc' = label

(* The command ends, with or without an error, and frees its memory. *)
Return ==
    /\ pc' = "idle"
    /\ next' = Empty /\ todo' = {} /\ at' = 0
    /\ recovering' = FALSE
    /\ UNCHANGED <<op, build>>

(* A file operation of the running command fails: the command returns. *)
Fault == faults < MaxFaults /\ faults' = faults + 1

--------------------------------------------------------------------------------
(* Observing the journal's files. *)

MatchesPre(n) == bin[n] = journal.pre[n]
MatchesPost(n) == bin[n] = journal.post[n]
StatePre == state = journal.statePre
StatePost == state = journal.statePost
AllPre == \A n \in journal.items : MatchesPre(n)
AllPost == \A n \in journal.items : MatchesPost(n)

(* Observing fails on a program that is neither image. *)
Observable == \A n \in journal.items : MatchesPre(n) \/ MatchesPost(n)

(* A staged file that still exists must be the recorded image, and the copy of
   a replaced program must exist while the program may have to be restored. *)
Evidence ==
    /\ temp \in {Empty, journal.statePost}
    /\ \A n \in journal.items :
        /\ repl[n] \in {None, journal.post[n]}
        /\ journal.pre[n] # None =>
            /\ back[n] \in {None, journal.pre[n]}
            /\ MatchesPost(n) /\ StatePre => back[n] # None

(* What recovery does with the open journal. *)
Finishable == Observable /\ Evidence /\ StatePost /\ AllPost
Revertible == Observable /\ Evidence /\ StatePre /\ ~(StatePost /\ AllPost)

--------------------------------------------------------------------------------
(* Install and Retire take the lock and recover what an earlier command left. *)

Start(what, b) ==
    /\ pc = "idle"
    /\ op' = what
    /\ build' = b
    /\ Goto("recover")
    /\ UNCHANGED <<files, next, todo, at, recovering, environment>>

NothingToRecover ==
    /\ pc = "recover"
    /\ ~Open
    /\ Goto("plan")
    /\ UNCHANGED <<files, op, build, next, todo, at, recovering, environment>>

RecoverRefused ==
    /\ pc = "recover"
    /\ Open
    /\ ~Finishable /\ ~Revertible
    /\ Return
    /\ UNCHANGED <<files, environment>>

\* Mutant: the ownership state alone tells that the install was committed.
RecoverCommittedByState ==
    /\ pc = "recover"
    /\ Open
    /\ Observable /\ Evidence /\ StatePost
    /\ recovering' = TRUE
    /\ at' = 1
    /\ Goto("cleanRepl")
    /\ UNCHANGED <<files, op, build, next, todo, environment>>

RecoverCommitted ==
    /\ pc = "recover"
    /\ Open
    /\ Finishable
    /\ recovering' = TRUE
    /\ at' = 1
    /\ Goto("cleanRepl")
    /\ UNCHANGED <<files, op, build, next, todo, environment>>

RecoverRollback ==
    /\ pc = "recover"
    /\ Open
    /\ Revertible
    /\ recovering' = TRUE
    /\ todo' = {n \in journal.items : MatchesPost(n)}
    /\ at' = N
    /\ Goto("restore")
    /\ UNCHANGED <<files, op, build, next, environment>>

(* One program back to its image before the transaction: the copy is renamed
   over it, or it is removed where there was none. Both the recovery and the
   rollback of a failed commit go through the names in reverse. *)
PutBack(n) ==
    /\ bin' = [bin EXCEPT ![n] = IF journal.pre[n] = None THEN None ELSE back[n]]
    /\ back' = [back EXCEPT ![n] = None]

Restore ==
    /\ pc = "restore"
    /\ at > 0
    /\ at' = at - 1
    /\ IF at \in todo THEN PutBack(at) ELSE UNCHANGED <<bin, back>>
    /\ UNCHANGED <<state, journal, repl, temp, pc, op, build, next, todo,
                   recovering, tainted, faults>>

RestoreFails ==
    /\ pc = "restore"
    /\ at > 0 /\ at \in todo
    /\ Fault
    /\ Return
    /\ UNCHANGED <<files, tainted>>

(* The restored programs are looked at again before the evidence goes. *)
Restored ==
    /\ pc = "restore"
    /\ at = 0
    /\ IF Observable /\ StatePre /\ AllPre
       THEN /\ at' = 1 /\ Goto("cleanRepl")
            /\ UNCHANGED <<op, build, next, todo, recovering>>
       ELSE Return
    /\ UNCHANGED <<files, environment>>

--------------------------------------------------------------------------------
(* Cleaning up the evidence; the journal goes last. *)

CleanRepl ==
    /\ pc = "cleanRepl"
    /\ IF at <= N
       THEN /\ repl' = IF at \in journal.items THEN [repl EXCEPT ![at] = None] ELSE repl
            /\ Goto("cleanBack")
       ELSE Goto("cleanTemp") /\ UNCHANGED repl
    /\ UNCHANGED <<bin, state, journal, back, temp, op, build, next, todo,
                   at, recovering, environment>>

CleanBack ==
    /\ pc = "cleanBack"
    /\ back' = IF at \in journal.items THEN [back EXCEPT ![at] = None] ELSE back
    /\ at' = at + 1
    /\ Goto("cleanRepl")
    /\ UNCHANGED <<bin, state, journal, repl, temp, op, build, next, todo,
                   recovering, environment>>

\* Mutant: the journal is left behind the evidence.
CleanTempLast ==
    /\ pc = "cleanTemp"
    /\ temp' = Empty
    /\ Return
    /\ UNCHANGED <<bin, state, journal, repl, back, environment>>

CleanTemp ==
    /\ pc = "cleanTemp"
    /\ temp' = Empty
    /\ Goto("cleanJournal")
    /\ UNCHANGED <<bin, state, journal, repl, back, op, build, next, todo,
                   at, recovering, environment>>

(* The journal is removed: a recovering command goes on with its own work. *)
CleanJournal ==
    /\ pc = "cleanJournal"
    /\ journal' = NoJournal
    /\ tainted' = FALSE
    /\ IF recovering
       THEN /\ Goto("plan")
            /\ recovering' = FALSE /\ todo' = {} /\ at' = 0
            /\ UNCHANGED <<op, build, next>>
       ELSE Return
    /\ UNCHANGED <<bin, state, repl, back, temp, faults>>

CleanFails ==
    /\ pc \in {"cleanRepl", "cleanBack", "cleanTemp", "cleanJournal"}
    /\ Fault
    /\ Return
    /\ UNCHANGED <<files, tainted>>

--------------------------------------------------------------------------------
(* Planning an install. *)

\* Mutant: an owned program is the installer's to replace, whatever it became.
CollisionUnowned(n) ==
    /\ bin[n] # None
    /\ state.own[n] = None /\ bin[n] # build[n]

(* A name collides when an owned program was changed, or an unowned one that is
   not the program to install is in the way. *)
Collision(n) ==
    /\ bin[n] # None
    /\ IF state.own[n] # None THEN bin[n] # state.own[n] ELSE bin[n] # build[n]

Changes(n) ==
    \/ bin[n] = None
    \/ state.own[n] # None /\ state.own[n] # build[n]

(* The installer owns what it writes and what it owned; a program that was
   already there with the right content stays its user's. *)
NextState ==
    [own |-> [n \in Names |->
                IF state.own[n] # None \/ bin[n] = None THEN build[n] ELSE None],
     exp |-> build]

PlanCollides ==
    /\ pc = "plan" /\ op = "install"
    /\ \E n \in Names : Collision(n)
    /\ Return
    /\ UNCHANGED <<files, environment>>

PlanInstall ==
    /\ pc = "plan" /\ op = "install"
    /\ \A n \in Names : ~Collision(n)
    /\ next' = NextState
    /\ todo' = {n \in Names : Changes(n)}
    /\ Goto("stageState")
    /\ UNCHANGED <<files, op, build, at, recovering, environment>>

(* Staging writes files of the command's own; a failure removes them again. *)
StageState ==
    /\ pc = "stageState"
    /\ temp' = next
    /\ at' = 1
    /\ Goto(IF todo = {} THEN "commitState" ELSE "stageRepl")
    /\ UNCHANGED <<bin, state, journal, repl, back, op, build, next, todo,
                   recovering, environment>>

StageRepl ==
    /\ pc = "stageRepl"
    /\ IF at <= N
       THEN /\ repl' = IF at \in todo THEN [repl EXCEPT ![at] = build[at]] ELSE repl
            /\ Goto("stageBack")
       ELSE Goto("journal") /\ UNCHANGED repl
    /\ UNCHANGED <<bin, state, journal, back, temp, op, build, next, todo,
                   at, recovering, environment>>

StageBack ==
    /\ pc = "stageBack"
    /\ back' = IF at \in todo THEN [back EXCEPT ![at] = bin[at]] ELSE back
    /\ at' = at + 1
    /\ Goto("stageRepl")
    /\ UNCHANGED <<bin, state, journal, repl, temp, op, build, next, todo,
                   recovering, environment>>

DropStaged ==
    /\ repl' = AllNone /\ back' = AllNone /\ temp' = Empty

StagingFails ==
    /\ pc \in {"stageState", "stageRepl", "stageBack", "journal"}
    /\ Fault
    /\ DropStaged
    /\ Return
    /\ UNCHANGED <<bin, state, journal, tainted>>

(* newCLIInstallTransactionBinary asks again whether the replacements are the
   planned programs and the copies those they replace. *)
StagedFits == \A n \in todo : repl[n] = build[n] /\ back[n] = bin[n]

WriteJournal ==
    /\ journal' = [items |-> todo, pre |-> bin,
                   post |-> [n \in Names |-> IF n \in todo THEN repl[n] ELSE bin[n]],
                   statePre |-> state, statePost |-> temp]
    /\ at' = 1
    /\ Goto("commit")
    /\ UNCHANGED <<bin, state, repl, back, temp, op, build, next, todo, recovering>>

SaveJournal ==
    /\ pc = "journal"
    /\ IF StagedFits
       THEN WriteJournal
       ELSE DropStaged /\ Return /\ UNCHANGED <<bin, state, journal>>
    /\ UNCHANGED environment

--------------------------------------------------------------------------------
(* Committing: the programs one by one, then the ownership state. *)

CommitBinary ==
    /\ pc = "commit"
    /\ IF at <= N
       THEN /\ at' = at + 1
            /\ IF at \in todo
               THEN /\ bin' = [bin EXCEPT ![at] = repl[at]]
                    /\ repl' = [repl EXCEPT ![at] = None]
               ELSE UNCHANGED <<bin, repl>>
            /\ UNCHANGED pc
       ELSE Goto("commitState") /\ UNCHANGED <<at, bin, repl>>
    /\ UNCHANGED <<state, journal, back, temp, op, build, next, todo,
                   recovering, tainted, faults>>

(* A rename fails: the programs renamed so far are put back. *)
CommitBinaryFails ==
    /\ pc = "commit"
    /\ at \in todo
    /\ Fault
    /\ at' = at - 1
    /\ Goto("rollback")
    /\ UNCHANGED <<files, op, build, next, todo, recovering, tainted>>

CommitState ==
    /\ pc = "commitState"
    /\ state' = temp
    /\ temp' = Empty
    /\ IF Open
       THEN Goto("committed") /\ UNCHANGED <<next, todo, at, recovering, op, build>>
       ELSE Return
    /\ UNCHANGED <<bin, journal, repl, back, environment>>

CommitStateFails ==
    /\ pc = "commitState"
    /\ Fault
    /\ IF Open
       THEN /\ at' = N
            /\ Goto("rollback")
            /\ UNCHANGED <<temp, op, build, next, todo, recovering>>
       ELSE temp' = Empty /\ Return
    /\ UNCHANGED <<bin, state, journal, repl, back, tainted>>

(* The rollback goes on past a program it cannot put back. *)
Rollback ==
    /\ pc = "rollback"
    /\ IF at > 0
       THEN /\ at' = at - 1
            /\ IF at \in todo THEN PutBack(at) ELSE UNCHANGED <<bin, back>>
            /\ UNCHANGED pc
       ELSE Goto("failed") /\ UNCHANGED <<at, bin, back>>
    /\ UNCHANGED <<state, journal, repl, temp, op, build, next, todo,
                   recovering, tainted, faults>>

RollbackFails ==
    /\ pc = "rollback"
    /\ at > 0 /\ at \in todo
    /\ Fault
    /\ at' = at - 1
    /\ UNCHANGED <<files, pc, op, build, next, todo, recovering, tainted>>

\* Mutant: the failed install cleans up without looking at what it restored.
FinishFailedBlindly ==
    /\ pc = "failed"
    /\ at' = 1 /\ Goto("cleanRepl")
    /\ UNCHANGED <<files, op, build, next, todo, recovering, environment>>

\* Mutant: a failed install takes its staged files along, whatever it restored.
FinishFailedDropsStaged ==
    /\ pc = "failed"
    /\ IF Observable /\ StatePre /\ AllPre /\ Evidence
       THEN /\ at' = 1 /\ Goto("cleanRepl")
            /\ UNCHANGED <<repl, back, temp, op, build, next, todo, recovering>>
       ELSE DropStaged /\ Return
    /\ UNCHANGED <<bin, state, journal, environment>>

(* A complete rollback is cleaned up; an incomplete one is left to recovery. *)
FinishFailed ==
    /\ pc = "failed"
    /\ IF Observable /\ StatePre /\ AllPre /\ Evidence
       THEN /\ at' = 1 /\ Goto("cleanRepl")
            /\ UNCHANGED <<op, build, next, todo, recovering>>
       ELSE Return
    /\ UNCHANGED <<files, environment>>

(* The commit is verified before its evidence goes. *)
FinishCommitted ==
    /\ pc = "committed"
    /\ IF Observable /\ StatePost /\ AllPost /\ Evidence
       THEN /\ at' = 1 /\ Goto("cleanRepl")
            /\ UNCHANGED <<op, build, next, todo, recovering>>
       ELSE Return
    /\ UNCHANGED <<files, environment>>

--------------------------------------------------------------------------------
(* Retiring removes the owned programs that are unchanged, then the state. *)

PlanRetire ==
    /\ pc = "plan" /\ op = "retire"
    /\ IF state = Empty
       THEN Return
       ELSE /\ todo' = {n \in Names : state.own[n] # None /\ bin[n] = state.own[n]}
            /\ at' = 1
            /\ Goto("remove")
            /\ UNCHANGED <<op, build, next, recovering>>
    /\ UNCHANGED <<files, environment>>

RemoveBinary ==
    /\ pc = "remove"
    /\ IF at <= N
       THEN /\ at' = at + 1
            /\ IF at \in todo
               THEN bin' = [bin EXCEPT ![at] = None]
               ELSE UNCHANGED bin
            /\ UNCHANGED pc
       ELSE Goto("removeState") /\ UNCHANGED <<at, bin>>
    /\ UNCHANGED <<state, journal, repl, back, temp, op, build, next, todo,
                   recovering, tainted, faults>>

(* The state file goes last. What is left of the state directory, temporary
   files of dead commands included, is removed where possible; no command reads
   it and the command ends either way. *)
RemoveState ==
    /\ pc = "removeState"
    /\ state' = Empty
    /\ Return
    /\ UNCHANGED <<bin, journal, repl, back, temp, environment>>

RetireFails ==
    /\ pc \in {"remove", "removeState"}
    /\ Fault
    /\ Return
    /\ UNCHANGED <<files, tainted>>

--------------------------------------------------------------------------------
(* The environment. *)

(* The process dies and the lock with it. Files that no journal names are
   nobody's any more: no command reads them. *)
Crash ==
    /\ pc # "idle"
    /\ Fault
    /\ Return
    /\ IF Open
       THEN UNCHANGED <<repl, back, temp>>
       ELSE DropStaged
    /\ UNCHANGED <<bin, state, journal, tainted>>

(* Somebody edits, replaces or removes a program while no command runs. *)
Edit(n, content) ==
    /\ pc = "idle"
    /\ Fault
    /\ bin[n] # content
    /\ bin' = [bin EXCEPT ![n] = content]
    /\ tainted' = (tainted \/ n \in journal.items)
    /\ UNCHANGED <<state, journal, repl, back, temp, memory>>

Step ==
    \/ NothingToRecover \/ RecoverRefused \/ RecoverCommitted \/ RecoverRollback
    \/ Restore \/ Restored
    \/ CleanRepl \/ CleanBack \/ CleanTemp \/ CleanJournal
    \/ PlanCollides \/ PlanInstall
    \/ StageState \/ StageRepl \/ StageBack \/ SaveJournal
    \/ CommitBinary \/ CommitState \/ Rollback \/ FinishFailed \/ FinishCommitted
    \/ PlanRetire \/ RemoveBinary \/ RemoveState

Failure ==
    \/ RestoreFails \/ CleanFails \/ StagingFails
    \/ CommitBinaryFails \/ CommitStateFails \/ RollbackFails \/ RetireFails

Command == Step \/ Failure \/ Crash

Next ==
    \/ \E what \in {"install", "retire"}, b \in Built : Start(what, b)
    \/ Command
    \/ \E n \in Names, content \in Versions \cup {Edited, None} : Edit(n, content)

Spec == Init /\ [][Next]_vars

(* A command that was started goes on: its steps wait for nobody. *)
FairSpec == Spec /\ WF_vars(Step)

--------------------------------------------------------------------------------
(* Properties. *)

(* The journal is removed only when its programs and the ownership state are
   all as before the transaction or all as after it
   (cleanupCLIInstallTransaction, reached from four places). *)
JournalGoesWhenSettled ==
    [][Open /\ journal' = NoJournal =>
          \/ StatePre /\ AllPre
          \/ StatePost /\ AllPost]_vars

(* Wherever a command stopped, and whatever failed on the way, the next one can
   finish or undo its transaction unless somebody edited one of its programs:
   recoverInterruptedCLIInstall finds the images and the evidence it asks for. *)
InterruptedIsRecoverable ==
    Open /\ ~tainted => Finishable \/ Revertible

(* What a reader may rely on: the programs and the state before an open
   transaction until the last rename of its commit, and after it from then on. *)
Committed ==
    /\ StatePost /\ AllPost
    /\ pc \notin {"commit", "commitState", "rollback", "failed"}
SettledBin ==
    [n \in Names |-> IF n \notin journal.items THEN bin[n]
                     ELSE IF Committed THEN journal.post[n] ELSE journal.pre[n]]
SettledState ==
    IF ~Open THEN state
    ELSE IF Committed THEN journal.statePost ELSE journal.statePre

Atomic == INSTANCE AtomicInstall
            WITH file <- SettledBin, owner <- SettledState,
                 running <- pc # "idle", disturbed <- tainted

(* The installer implements the atomic one: a transaction that a crash or a
   failed rename cuts anywhere is, to whoever waits for its recovery, one step
   or none, and a retirement takes nothing but the installer's own programs. *)
InstallIsAtomic == Atomic!Spec

(* No command replaces or removes a program somebody edited, neither by
   installing over it nor by recovering an older transaction. *)
EditedIsKept ==
    [][Command => \A n \in Names : bin[n] = Edited => bin'[n] = Edited]_vars

(* A command that meets no further failure ends, and with it the transaction
   it found open. *)
RecoveryFinishes ==
    (pc = "recover" /\ ~tainted /\ faults = MaxFaults) ~> (pc = "idle" /\ ~Open)
================================================================================
