---------------------------- MODULE CLIInstallProofs ----------------------------
(* The installer's transaction, proved for every number of programs, every set
   of builds and every number of faults: an interrupted install can always be
   finished or undone, its journal goes only when it is settled, no command
   touches an edited program, and the whole is one atomic step. *)
EXTENDS CLIInstall, TLAPS

(* The inductive invariant, by the part of a command it is about. *)

(* Positions at which no transaction can be open, and at which one must be. *)
Outside == {"plan", "stageState", "stageRepl", "stageBack", "journal", "remove",
            "removeState"}
Cleaning == {"cleanRepl", "cleanBack", "cleanTemp", "cleanJournal"}
Inside == {"restore", "commit", "rollback", "failed", "committed"} \cup Cleaning
Committing == {"commit", "commitState", "rollback", "failed"}

Placed ==
    /\ journal.items = {} => journal = NoJournal /\ ~tainted
    /\ pc \in Outside => ~Open
    /\ pc \in Inside => Open

(* What an open journal records: the programs it replaces are the installer's
   own builds or absent, each changes, and a program that existed before cannot
   be part of a transaction that leaves the ownership state as it is. *)
Recorded ==
    \A n \in journal.items :
        /\ journal.post[n] \in Versions
        /\ journal.pre[n] \in Versions \cup {None}
        /\ journal.pre[n] # journal.post[n]
        /\ journal.pre[n] # None => journal.statePre # journal.statePost

(* The files say which way recovery goes; an edit can only come between
   commands, and recovery looks at the files before it changes one. *)
Recoverable ==
    Open /\ (~tainted \/ pc \notin {"idle", "recover"}) =>
        /\ Observable /\ Evidence
        /\ StatePre \/ (StatePost /\ AllPost)

(* The evidence is taken away from a settled transaction only. *)
Settled ==
    pc \in Cleaning => \/ StatePre /\ AllPre
                       \/ StatePost /\ AllPost

(* Recovery puts back exactly the programs that were renamed. *)
Restoring ==
    pc = "restore" =>
        /\ StatePre /\ ~(StatePost /\ AllPost)
        /\ todo \subseteq journal.items
        /\ \A n \in journal.items :
            IF n \in todo /\ n <= at THEN MatchesPost(n) ELSE MatchesPre(n)

(* The plan still fits the directory and the state while files are staged. *)
Planned ==
    pc \in {"stageState", "stageRepl", "stageBack", "journal"} =>
        /\ \A n \in Names : ~Collision(n)
        /\ next = NextState
        /\ todo = {n \in Names : Changes(n)}
        /\ pc # "stageState" => temp = next /\ todo # {}

Staged ==
    /\ pc \in {"stageRepl", "stageBack", "journal"} =>
        \A n \in todo :
            n < at \/ pc = "journal" => repl[n] = build[n] /\ back[n] = bin[n]
    /\ pc = "stageBack" =>
        /\ at <= N
        /\ at \in todo => repl[at] = build[at]

(* An install that has nothing to replace writes the ownership state only. *)
NothingToReplace ==
    pc = "commitState" /\ ~Open =>
        /\ \A n \in Names : ~Collision(n) /\ ~Changes(n)
        /\ temp = NextState

(* The transaction of the running install, until its last rename. *)
Running ==
    pc \in Committing /\ Open =>
        /\ ~tainted
        /\ todo = journal.items
        /\ state = journal.statePre /\ temp = journal.statePost
        /\ \A n \in Names :
            /\ journal.post[n] = build[n]
            /\ n \notin journal.items => bin[n] = build[n] /\ journal.pre[n] = build[n]
            /\ journal.pre[n] # None =>
                journal.pre[n] = IF journal.statePre.own[n] # None
                                 THEN journal.statePre.own[n] ELSE build[n]
        /\ journal.statePost =
            [own |-> [n \in Names |->
                IF journal.statePre.own[n] # None \/ journal.pre[n] = None
                THEN build[n] ELSE None],
             exp |-> build]

(* How far its renames, and then their rollback, have come. *)
Renaming ==
    /\ pc = "commit" =>
        \A n \in todo :
            /\ back[n] = journal.pre[n]
            /\ IF n < at THEN MatchesPost(n)
               ELSE MatchesPre(n) /\ repl[n] = journal.post[n]
    /\ pc = "commitState" /\ Open =>
        \A n \in todo : back[n] = journal.pre[n] /\ MatchesPost(n)
    /\ pc = "rollback" =>
        \A n \in todo : n <= at => back[n] = journal.pre[n] /\ MatchesPost(n)
    /\ pc = "committed" => StatePost /\ AllPost

(* A retirement removes what it found unchanged, and leaves the rest. *)
Retiring ==
    /\ pc = "remove" =>
        \A n \in Names : state.own[n] # None =>
            IF n \notin todo THEN bin[n] # state.own[n]
            ELSE bin[n] = IF n < at THEN None ELSE state.own[n]
    /\ pc = "remove" => \A n \in todo : state.own[n] # None
    /\ pc = "removeState" =>
        \A n \in Names : state.own[n] # None => bin[n] # state.own[n]

(* Going through the names. *)
Counting ==
    /\ pc \in {"stageRepl", "stageBack", "commit", "remove"} \cup Cleaning => at >= 1
    /\ pc \in {"restore", "rollback", "cleanBack"} => at <= N

IInv ==
    /\ TypeOK
    /\ Placed /\ Recorded /\ Recoverable /\ Settled /\ Restoring
    /\ Planned /\ Staged /\ NothingToReplace
    /\ Running /\ Renaming /\ Retiring /\ Counting

--------------------------------------------------------------------------------
(* What a command verifies on its way is so: the checks never refuse. *)

(* The staged files fit the plan, so the journal is written. *)
LEMMA JournalIsWritten ==
    ASSUME IInv, SaveJournal
    PROVE  pc = "journal" /\ WriteJournal /\ UNCHANGED environment
<1>1. StagedFits
  BY DEF SaveJournal, IInv, Staged, StagedFits
<1> QED
  BY <1>1 DEF SaveJournal

(* The programs are back when the restore has gone through all of them. *)
LEMMA RestoreIsVerified ==
    ASSUME IInv, Restored
    PROVE  /\ pc = "restore" /\ at = 0 /\ StatePre /\ AllPre
           /\ at' = 1 /\ pc' = "cleanRepl"
           /\ UNCHANGED <<files, op, build, next, todo, recovering, environment>>
<1>1. pc = "restore" /\ at = 0 /\ Open
  BY DEF Restored, IInv, Placed, Inside
<1>2. Observable /\ StatePre
  BY <1>1 DEF IInv, Recoverable, Restoring
<1>3. AllPre
  BY <1>1 DEF IInv, Restoring, AllPre, TypeOK, Journals, Names
<1> QED
  BY <1>1, <1>2, <1>3 DEF Restored, Goto

(* A commit that went through is found so. *)
LEMMA CommitIsVerified ==
    ASSUME IInv, FinishCommitted
    PROVE  /\ pc = "committed" /\ StatePost /\ AllPost
           /\ at' = 1 /\ pc' = "cleanRepl"
           /\ UNCHANGED <<files, op, build, next, todo, recovering, environment>>
<1>1. pc = "committed" /\ Open
  BY DEF FinishCommitted, IInv, Placed, Inside
<1>2. Observable /\ Evidence /\ StatePost /\ AllPost
  BY <1>1 DEF IInv, Recoverable, Renaming
<1> QED
  BY <1>1, <1>2 DEF FinishCommitted, Goto

--------------------------------------------------------------------------------
(* Types. *)

(* The empty state and the absent journal are of their types. *)
LEMMA EmptyTyped == AllNone \in Owned /\ Empty \in States /\ NoJournal \in Journals
<1>1. AllNone \in Owned /\ AllNone \in Files
  BY DEF AllNone, Owned, Files
<1>2. Empty \in States
  BY <1>1 DEF Empty, States
<1> QED
  BY <1>1, <1>2 DEF NoJournal, Journals

(* A command that ends keeps the types. *)
LEMMA ReturnTyped ==
    ASSUME TypeOK, Return, bin' \in Files, repl' \in Files, back' \in Files,
           state' \in States, temp' \in States, journal' \in Journals,
           tainted' \in BOOLEAN,
           faults' \in 0..MaxFaults
    PROVE  TypeOK'
<1>1. next' \in States /\ todo' \subseteq Names
  BY EmptyTyped DEF Return
<1>2. at' \in 0..(N + 1)
  BY InstallAssumption DEF Return
<1>3. recovering' \in BOOLEAN
  BY DEF Return
<1> QED
  BY <1>1, <1>2, <1>3 DEF Return, TypeOK

(* A staged or program file that is set keeps the files typed. *)
LEMMA FileSet ==
    ASSUME NEW f \in Files, NEW n \in Names, NEW c \in Versions \cup {Edited, None}
    PROVE  [f EXCEPT ![n] = c] \in Files
  BY DEF Files

(* Recovering an older journal, and the cleanup every transaction ends with. *)
LEMMA RecoveryTyped ==
    ASSUME IInv, \/ NothingToRecover \/ RecoverRefused \/ RecoverCommitted
                   \/ RecoverRollback \/ Restore \/ RestoreFails \/ Restored
                   \/ CleanRepl \/ CleanBack \/ CleanTemp \/ CleanJournal \/ CleanFails
    PROVE  TypeOK'
<1>v. Restored => /\ at' = 1 /\ pc' = "cleanRepl"
                  /\ UNCHANGED <<files, op, build, next, todo, recovering, environment>>
  BY RestoreIsVerified
<1> USE InstallAssumption DEF IInv, Names, Goto, Fault, files, memory, environment
<1>1. CASE NothingToRecover
  BY <1>1 DEF NothingToRecover, TypeOK
<1>2. CASE Restored
  <2>1. at' = 1 /\ pc' = "cleanRepl" /\ UNCHANGED <<files, op, build, next, todo, recovering, environment>>
    BY <1>2, <1>v
  <2> QED
    BY <2>1 DEF TypeOK
<1>3. CASE RecoverCommitted
  <2>1. recovering' \in BOOLEAN
    BY <1>3 DEF RecoverCommitted
  <2> QED
    BY <1>3, <2>1 DEF RecoverCommitted, TypeOK
<1>4. CASE RecoverRollback
  <2>1. todo' \subseteq Names
    BY <1>4 DEF RecoverRollback, TypeOK, Journals
  <2> QED
    BY <1>4, <2>1 DEF RecoverRollback, TypeOK
<1>5. CASE RecoverRefused \/ RestoreFails \/ CleanFails
  <2>1. faults' \in 0..MaxFaults /\ Return
    BY <1>5 DEF RecoverRefused, RestoreFails, CleanFails, TypeOK
  <2> QED
    BY <1>5, <2>1, ReturnTyped DEF RecoverRefused, RestoreFails, CleanFails, TypeOK
<1>6. CASE Restore
  <2>1. CASE at \in todo
    <3>1. at \in Names /\ back[at] \in Versions \cup {Edited, None}
      BY <1>6, <2>1 DEF TypeOK, Files
    <3>2. bin' \in Files /\ back' \in Files
      BY <1>6, <2>1, <3>1, FileSet DEF Restore, PutBack, TypeOK
    <3> QED
      BY <1>6, <3>1, <3>2 DEF Restore, TypeOK
  <2>2. CASE at \notin todo
    BY <1>6, <2>2 DEF Restore, TypeOK
  <2> QED
    BY <2>1, <2>2
<1>7. CASE CleanRepl
  <2>1. repl' \in Files
    BY <1>7, FileSet DEF CleanRepl, TypeOK, Journals
  <2> QED
    BY <1>7, <2>1 DEF CleanRepl, TypeOK
<1>8. CASE CleanBack
  <2>1. back' \in Files
    BY <1>8, FileSet DEF CleanBack, TypeOK, Journals
  <2> QED
    BY <1>8, <2>1 DEF CleanBack, TypeOK, Counting
<1>9. CASE CleanTemp
  BY <1>9, EmptyTyped DEF CleanTemp, TypeOK
<1>10. CASE CleanJournal
  <2>1. CASE recovering
    <3>1. journal' \in Journals /\ todo' \subseteq Names
      BY <1>10, <2>1, EmptyTyped DEF CleanJournal
    <3>2. recovering' \in BOOLEAN /\ tainted' \in BOOLEAN
      BY <1>10, <2>1 DEF CleanJournal
    <3> QED
      BY <1>10, <2>1, <3>1, <3>2 DEF CleanJournal, TypeOK
  <2>2. CASE ~recovering
    BY <1>10, <2>2, EmptyTyped, ReturnTyped DEF CleanJournal, TypeOK
  <2> QED
    BY <2>1, <2>2
<1> QED
  BY <1>1, <1>2, <1>3, <1>4, <1>5, <1>6, <1>7, <1>8, <1>9, <1>10

(* Planning and staging an install. *)
LEMMA StagingTyped ==
    ASSUME IInv, \/ PlanCollides \/ PlanInstall \/ StageState \/ StageRepl \/ StageBack
                 \/ StagingFails \/ SaveJournal
    PROVE  TypeOK'
<1>v. SaveJournal => WriteJournal /\ UNCHANGED environment
  BY JournalIsWritten
<1> USE InstallAssumption DEF IInv, Names, Goto, Fault, files, environment
<1>1. CASE PlanCollides
  BY <1>1, ReturnTyped DEF PlanCollides, TypeOK
<1>2. CASE PlanInstall
  <2>1. NextState \in States
    BY DEF NextState, States, Owned, TypeOK, Built
  <2> QED
    BY <1>2, <2>1 DEF PlanInstall, TypeOK
<1>3. CASE StageState
  BY <1>3 DEF StageState, TypeOK
<1>4. CASE StageRepl
  <2>1. repl' \in Files
    BY <1>4, FileSet DEF StageRepl, TypeOK, Built
  <2> QED
    BY <1>4, <2>1 DEF StageRepl, TypeOK
<1>5. CASE StageBack
  <2>1. \A n \in Names : bin[n] \in Versions \cup {Edited, None}
    BY DEF TypeOK, Files
  <2>2. back' \in Files
    BY <1>5, <2>1, FileSet DEF StageBack, TypeOK
  <2> QED
    BY <1>5, <2>2 DEF StageBack, TypeOK, Staged
<1>6. CASE StagingFails
  <2>1. faults' \in 0..MaxFaults /\ Return /\ AllNone \in Files
    BY <1>6 DEF StagingFails, TypeOK, AllNone, Files
  <2> QED
    BY <1>6, <2>1, EmptyTyped, ReturnTyped DEF StagingFails, DropStaged, TypeOK
<1>7. CASE SaveJournal
  <2>0. WriteJournal /\ UNCHANGED environment
    BY <1>7, <1>v
  <2>1. journal' \in Journals
    BY <2>0 DEF WriteJournal, Journals, TypeOK, Files
  <2> QED
    BY <2>0, <2>1 DEF WriteJournal, TypeOK
<1> QED
  BY <1>1, <1>2, <1>3, <1>4, <1>5, <1>6, <1>7

(* Committing an install, and undoing a commit that failed. *)
LEMMA CommitTyped ==
    ASSUME IInv, \/ CommitBinary \/ CommitBinaryFails \/ CommitState \/ CommitStateFails
                 \/ Rollback \/ RollbackFails \/ FinishFailed \/ FinishCommitted
    PROVE  TypeOK'
<1>v. FinishCommitted => /\ at' = 1 /\ pc' = "cleanRepl"
                         /\ UNCHANGED <<files, op, build, next, todo, recovering, environment>>
  BY CommitIsVerified
<1> USE InstallAssumption DEF IInv, Names, Goto, Fault, files, environment
<1>1. CASE CommitBinary
  <2>1. CASE at \in todo
    <3>1. at \in Names /\ repl[at] \in Versions \cup {Edited, None}
      BY <1>1, <2>1 DEF TypeOK, Files
    <3>2. bin' \in Files /\ repl' \in Files
      BY <1>1, <2>1, <3>1, FileSet DEF CommitBinary, TypeOK
    <3> QED
      BY <1>1, <3>1, <3>2 DEF CommitBinary, TypeOK
  <2>2. CASE at \notin todo
    BY <1>1, <2>2 DEF CommitBinary, TypeOK
  <2> QED
    BY <2>1, <2>2
<1>2. CASE CommitBinaryFails
  BY <1>2 DEF CommitBinaryFails, TypeOK
<1>3. CASE CommitState
  <2>1. CASE Open
    BY <1>3, <2>1, EmptyTyped DEF CommitState, TypeOK
  <2>2. CASE ~Open
    BY <1>3, <2>2, EmptyTyped, ReturnTyped DEF CommitState, TypeOK
  <2> QED
    BY <2>1, <2>2
<1>4. CASE CommitStateFails
  <2>1. faults' \in 0..MaxFaults
    BY <1>4 DEF CommitStateFails, TypeOK
  <2>2. CASE Open
    <3>1. at' \in 0..(N + 1)
      BY <1>4, <2>2 DEF CommitStateFails
    <3>2. UNCHANGED <<bin, state, journal, repl, back, temp, op, build, next, todo,
                      recovering, tainted>> /\ pc' = "rollback"
      BY <1>4, <2>2 DEF CommitStateFails
    <3> QED
      BY <2>1, <3>1, <3>2 DEF TypeOK
  <2>3. CASE ~Open
    BY <1>4, <2>1, <2>3, EmptyTyped, ReturnTyped DEF CommitStateFails, TypeOK
  <2> QED
    BY <2>2, <2>3
<1>5. CASE Rollback
  <2>1. CASE at \in todo
    <3>1. at \in Names /\ back[at] \in Versions \cup {Edited, None}
      BY <1>5, <2>1 DEF TypeOK, Files
    <3>2. bin' \in Files /\ back' \in Files
      BY <1>5, <2>1, <3>1, FileSet DEF Rollback, PutBack, TypeOK
    <3> QED
      BY <1>5, <3>1, <3>2 DEF Rollback, TypeOK
  <2>2. CASE at \notin todo
    BY <1>5, <2>2 DEF Rollback, TypeOK
  <2> QED
    BY <2>1, <2>2
<1>6. CASE RollbackFails
  BY <1>6 DEF RollbackFails, TypeOK
<1>7. CASE FinishFailed
  <2>1. CASE Return
    BY <1>7, <2>1, ReturnTyped DEF FinishFailed, TypeOK
  <2>2. CASE at' = 1 /\ pc' = "cleanRepl" /\ UNCHANGED <<op, build, next, todo, recovering>>
    BY <1>7, <2>2 DEF FinishFailed, TypeOK
  <2> QED
    BY <1>7, <2>1, <2>2 DEF FinishFailed
<1>8. CASE FinishCommitted
  <2>1. at' = 1 /\ pc' = "cleanRepl" /\ UNCHANGED <<files, op, build, next, todo, recovering, environment>>
    BY <1>8, <1>v
  <2> QED
    BY <2>1 DEF TypeOK
<1> QED
  BY <1>1, <1>2, <1>3, <1>4, <1>5, <1>6, <1>7, <1>8

(* Retiring, a crash, and what happens between two commands. *)
LEMMA OtherTyped ==
    ASSUME IInv,
           \/ PlanRetire \/ RemoveBinary \/ RemoveState
           \/ RetireFails \/ Crash
           \/ \E what \in {"install", "retire"}, b \in Built : Start(what, b)
           \/ \E n \in Names, content \in Versions \cup {Edited, None} : Edit(n, content)
    PROVE  TypeOK'
<1> USE InstallAssumption DEF IInv, Names, Goto, Fault, files, memory, environment
<1>1. CASE PlanRetire
  <2>1. CASE state = Empty
    BY <1>1, <2>1, ReturnTyped DEF PlanRetire, TypeOK
  <2>2. CASE state # Empty
    BY <1>1, <2>2 DEF PlanRetire, TypeOK
  <2> QED
    BY <2>1, <2>2
<1>2. CASE RemoveBinary
  <2>1. bin' \in Files
    BY <1>2, FileSet DEF RemoveBinary, TypeOK
  <2> QED
    BY <1>2, <2>1 DEF RemoveBinary, TypeOK
<1>3. CASE RemoveState
  BY <1>3, EmptyTyped, ReturnTyped DEF RemoveState, TypeOK
<1>5. CASE RetireFails
  <2>1. faults' \in 0..MaxFaults
    BY <1>5 DEF RetireFails, TypeOK
  <2> QED
    BY <1>5, <2>1, ReturnTyped DEF RetireFails, TypeOK
<1>6. CASE Crash
  <2>1. faults' \in 0..MaxFaults /\ AllNone \in Files
    BY <1>6 DEF Crash, TypeOK, AllNone, Files
  <2>2. repl' \in Files /\ back' \in Files /\ temp' \in States
    BY <1>6, <2>1, EmptyTyped DEF Crash, DropStaged, TypeOK
  <2> QED
    BY <1>6, <2>1, <2>2, ReturnTyped DEF Crash, TypeOK
<1>7. ASSUME NEW what \in {"install", "retire"}, NEW b \in Built, Start(what, b)
      PROVE  TypeOK'
  BY <1>7 DEF Start, TypeOK
<1>8. ASSUME NEW n \in Names, NEW content \in Versions \cup {Edited, None}, Edit(n, content)
      PROVE  TypeOK'
  <2>1. bin' \in Files /\ tainted' \in BOOLEAN
    BY <1>8, FileSet DEF Edit, TypeOK
  <2> QED
    BY <1>8, <2>1 DEF Edit, TypeOK
<1> QED
  BY <1>1, <1>2, <1>3, <1>5, <1>6, <1>7, <1>8

(* The types need the positions and the counters of the invariant. *)
LEMMA Typed == ASSUME IInv, [Next]_vars PROVE TypeOK'
<1>1. CASE UNCHANGED vars
  BY <1>1 DEF IInv, TypeOK, vars, files, memory, environment
<1> QED
  BY <1>1, RecoveryTyped, StagingTyped, CommitTyped, OtherTyped
     DEF Next, Command, Step, Failure

--------------------------------------------------------------------------------
(* Every step keeps the invariant. *)

(* A command that ends leaves a transaction as recoverable as it was. *)
LEMMA ReturnKeeps ==
    ASSUME IInv, TypeOK', Return, UNCHANGED <<bin, state, journal, tainted>>,
           Open => UNCHANGED <<repl, back, temp>>
    PROVE  IInv'
<1> USE DEF IInv, Return, Open
<1>1. Placed' /\ Recorded'
  BY DEF Placed, Recorded, Outside, Inside, Cleaning
<1>2. Recoverable'
  BY DEF Recoverable, Observable, Evidence, MatchesPre, MatchesPost, StatePre, StatePost, AllPost
<1> QED
  BY <1>1, <1>2 DEF Settled, Restoring, Planned, Staged, NothingToReplace, Running, Renaming,
     Retiring, Counting, Cleaning, Committing

(* The endings of a command, a crash included, keep the invariant. *)
LEMMA EndingKeeps ==
    ASSUME IInv, TypeOK', \/ RecoverRefused \/ RestoreFails \/ CleanFails \/ PlanCollides
                          \/ StagingFails \/ RetireFails \/ Crash
    PROVE  IInv'
  BY ReturnKeeps DEF RecoverRefused, RestoreFails, CleanFails, PlanCollides, StagingFails,
     RetireFails, Crash, files, environment, Fault, IInv, Placed, Outside

(* One program put back where the transaction recorded and renamed it: the
   copy is there, so the program is as it was before. *)
LEMMA PutBackRestores ==
    ASSUME IInv, Open, pc \notin {"idle", "recover"}, StatePre, NEW n \in journal.items,
           MatchesPost(n), PutBack(n)
    PROVE  /\ bin' = [bin EXCEPT ![n] = journal.pre[n]]
           /\ back' = [back EXCEPT ![n] = None]
  BY DEF PutBack, IInv, Recoverable, Evidence

(* Putting a program back leaves the evidence recovery needs. *)
LEMMA PutBackKeeps ==
    ASSUME IInv, Open, pc \notin {"idle", "recover"}, StatePre, NEW n \in journal.items,
           MatchesPost(n), PutBack(n), UNCHANGED <<state, journal, repl, temp>>
    PROVE  (Observable /\ Evidence /\ StatePre)'
<1>1. n \in Names /\ bin \in Files /\ back \in Files
  BY DEF IInv, TypeOK, Journals
<1>2. bin' = [bin EXCEPT ![n] = journal.pre[n]] /\ back' = [back EXCEPT ![n] = None]
  BY PutBackRestores
<1>3. \A m \in journal.items :
        /\ m # n => bin'[m] = bin[m] /\ back'[m] = back[m]
        /\ m = n => bin'[m] = journal.pre[m] /\ back'[m] = None
  BY <1>1, <1>2 DEF Files, IInv, TypeOK, Journals
<1>4. Observable /\ Evidence /\ journal.pre[n] # journal.post[n]
  BY DEF IInv, Recoverable, Recorded
<1> QED
  BY <1>3, <1>4 DEF Observable, Evidence, MatchesPre, MatchesPost, StatePre, StatePost

(* Recovery, and the cleanup every transaction ends with. *)
LEMMA RecoveryKeeps ==
    ASSUME IInv, TypeOK', \/ NothingToRecover \/ RecoverCommitted \/ RecoverRollback
                          \/ Restore \/ Restored
                          \/ CleanRepl \/ CleanBack \/ CleanTemp \/ CleanJournal
    PROVE  IInv'
<1> USE InstallAssumption DEF IInv, Placed, Recorded, Recoverable, Settled, Restoring, Counting,
        Outside, Inside, Cleaning, Goto, files, environment, Open
<1>a. pc \in {"recover", "restore"} \cup Cleaning /\ pc' \in {"restore", "plan", "idle"} \cup Cleaning
  BY DEF NothingToRecover, RecoverCommitted, RecoverRollback, Restore, Restored,
     CleanRepl, CleanBack, CleanTemp, CleanJournal, Return
<1>b. (Planned /\ Staged /\ NothingToReplace /\ Running /\ Renaming /\ Retiring)'
  BY <1>a DEF Planned, Staged, NothingToReplace, Running, Renaming, Retiring, Committing
<1> USE DEF Observable, Evidence, MatchesPre, MatchesPost, StatePre, StatePost, AllPre, AllPost
<1>1. CASE NothingToRecover
  BY <1>1, <1>b DEF NothingToRecover
<1>2. CASE RecoverCommitted
  BY <1>2, <1>b DEF RecoverCommitted, Finishable
<1>3. CASE RecoverRollback
  BY <1>3, <1>b DEF RecoverRollback, Revertible, TypeOK, Journals, Names
<1>4. CASE Restore
  <2>1. CASE at \in todo
    <3>1. at \in journal.items /\ MatchesPost(at) /\ PutBack(at)
      BY <1>4, <2>1 DEF Restore, TypeOK
    <3>2. (Observable /\ Evidence /\ StatePre)'
      BY <1>4, <3>1, PutBackKeeps DEF Restore
    <3>3. bin' = [bin EXCEPT ![at] = journal.pre[at]]
      BY <1>4, <3>1, PutBackRestores DEF Restore
    <3>4. Restoring'
      BY <1>4, <2>1, <3>3 DEF Restore, TypeOK, Journals, Files, Names
    <3> QED
      BY <1>4, <1>b, <3>2, <3>4 DEF Restore, TypeOK
  <2>2. CASE at \notin todo
    BY <1>4, <1>b, <2>2 DEF Restore, TypeOK, Journals, Names
  <2> QED
    BY <2>1, <2>2
<1>5. CASE Restored
  BY <1>5, <1>b, RestoreIsVerified
<1>6. CASE CleanRepl
  <2>1. \A n \in journal.items : repl'[n] \in {None, repl[n]}
    BY <1>6 DEF CleanRepl, TypeOK, Journals, Files
  <2>2. Recoverable'
    BY <1>6, <2>1 DEF CleanRepl
  <2> QED
    BY <1>6, <1>b, <2>2 DEF CleanRepl, TypeOK
<1>7. CASE CleanBack
  <2>1. \A n \in journal.items : back'[n] \in {None, back[n]}
    BY <1>7 DEF CleanBack, TypeOK, Journals, Files
  <2>2. Recoverable'
    BY <1>7, <2>1 DEF CleanBack
  <2> QED
    BY <1>7, <1>b, <2>2 DEF CleanBack, TypeOK
<1>8. CASE CleanTemp
  BY <1>8, <1>b DEF CleanTemp, TypeOK
<1>9. CASE CleanJournal
  BY <1>9, <1>b DEF CleanJournal, Return, NoJournal
<1> QED
  BY <1>1, <1>2, <1>3, <1>4, <1>5, <1>6, <1>7, <1>8, <1>9

(* Planning and staging: nothing outside the command's own files changes, and
   what is staged is what the plan says of the directory as it is. *)
LEMMA StagingKeeps ==
    ASSUME IInv, TypeOK', \/ PlanInstall \/ StageState \/ StageRepl \/ StageBack
    PROVE  IInv'
<1> USE InstallAssumption DEF IInv, Placed, Planned, Staged, NothingToReplace, Counting,
        Outside, Inside, Cleaning, Committing, Goto, files, environment, Open
<1>1. pc \in Outside /\ ~Open /\ UNCHANGED <<bin, state, build, journal, tainted>>
  BY DEF PlanInstall, StageState, StageRepl, StageBack
<1>2. (Placed /\ Recorded /\ Recoverable /\ Settled /\ Restoring /\ Running /\ Renaming /\ Retiring)'
  BY <1>1 DEF PlanInstall, StageState, StageRepl, StageBack,
     Recorded, Recoverable, Settled, Restoring, Running, Renaming, Retiring
<1> USE DEF Collision, Changes, NextState
<1>3. CASE PlanInstall
  BY <1>2, <1>3 DEF PlanInstall
<1>4. CASE StageState
  BY <1>2, <1>4 DEF StageState, TypeOK, Names
<1>5. CASE StageRepl
  BY <1>2, <1>5 DEF StageRepl, TypeOK, Files, Names
<1>6. CASE StageBack
  BY <1>2, <1>6 DEF StageBack, TypeOK, Files, Names
<1> QED
  BY <1>3, <1>4, <1>5, <1>6

(* The journal that is saved describes the plan and the files staged for it. *)
LEMMA SaveJournalKeeps ==
    ASSUME IInv, TypeOK', SaveJournal
    PROVE  IInv'
<1> USE JournalIsWritten DEF WriteJournal, IInv, Goto, environment
<1>1. /\ pc = "journal" /\ pc' = "commit" /\ at' = 1 /\ todo # {} /\ todo \subseteq Names
      /\ journal'.items = todo /\ journal'.pre = bin
      /\ journal'.statePre = state /\ journal'.statePost = next
      /\ temp = next /\ next = NextState /\ ~tainted
      /\ UNCHANGED <<bin, state, repl, back, temp, build, todo, tainted>>
  BY DEF Planned, Placed, Outside, Open, TypeOK
<1>2. \A n \in Names : /\ n \in todo => /\ journal'.post[n] = build[n] /\ Changes(n)
                                      /\ repl[n] = build[n] /\ back[n] = bin[n]
                       /\ n \notin todo => journal'.post[n] = bin[n] /\ ~Changes(n)
                       /\ ~Collision(n)
                       /\ build[n] \in Versions
                       /\ state.own[n] \in Versions \cup {None}
  BY DEF Planned, Staged, TypeOK, Built, States, Owned
<1>3. \A n \in Names \ todo : bin[n] = build[n]
  BY <1>2, InstallAssumption DEF Changes, Collision
<1>4. \A n \in Names : bin[n] # None =>
        bin[n] = IF state.own[n] # None THEN state.own[n] ELSE build[n]
  BY <1>2 DEF Collision
<1>5. \A n \in Names : n \in todo /\ bin[n] # None => state # next
  BY <1>1, <1>2 DEF Changes, Collision, NextState
<1>6. Placed' /\ Recorded'
  BY <1>1, <1>2, <1>4, <1>5, InstallAssumption DEF Placed, Recorded, Outside, Inside, Open, Changes
<1>7. Recoverable'
  BY <1>1, <1>2, <1>6, InstallAssumption DEF Recoverable, Recorded, Observable, Evidence,
     MatchesPre, MatchesPost, StatePre, StatePost, AllPost
<1>8. Running'
  BY <1>1, <1>2, <1>3, <1>4 DEF Running, NextState
<1>9. Renaming' /\ Counting'
  BY <1>1, <1>2 DEF Renaming, MatchesPre, MatchesPost, Counting, Cleaning, Names
<1> QED
  BY <1>1, <1>6, <1>7, <1>8, <1>9
     DEF Settled, Restoring, Planned, Staged, NothingToReplace, Retiring, Cleaning

(* Committing an install, and undoing a commit that failed. *)
LEMMA CommitKeeps ==
    ASSUME IInv, TypeOK', \/ CommitBinary \/ CommitBinaryFails \/ CommitState \/ CommitStateFails
                          \/ Rollback \/ RollbackFails \/ FinishFailed \/ FinishCommitted
    PROVE  IInv'
<1> USE InstallAssumption DEF IInv, Placed, Recorded, Recoverable, Running, Renaming, Counting,
        Outside, Inside, Cleaning, Committing, Goto, Fault, files, environment, Open
<1>a. pc \in Committing \cup {"committed"} /\ pc' \in Committing \cup {"committed", "cleanRepl", "idle"}
  BY DEF CommitBinary, CommitBinaryFails, CommitState, CommitStateFails, Rollback, RollbackFails,
     FinishFailed, FinishCommitted, Return
<1>b. (Restoring /\ Planned /\ Staged /\ Retiring)'
  BY <1>a DEF Restoring, Planned, Staged, Retiring
<1> USE DEF Settled, NothingToReplace, Observable, Evidence, MatchesPre, MatchesPost,
        StatePre, StatePost, AllPre, AllPost
<1>1. CASE CommitBinary
  <2>1. CASE at \in todo
    <3>1. /\ at \in journal.items /\ at \in Names /\ UNCHANGED <<pc, todo, journal, state, temp, back, build, tainted>>
          /\ at' = at + 1 /\ pc = "commit"
          /\ bin' = [bin EXCEPT ![at] = journal.post[at]] /\ repl' = [repl EXCEPT ![at] = None]
      BY <1>1, <2>1 DEF CommitBinary, TypeOK, Names
    <3>2. \A n \in Names : IF n = at THEN bin'[n] = journal.post[n] /\ repl'[n] = None
                           ELSE bin'[n] = bin[n] /\ repl'[n] = repl[n]
      BY <3>1 DEF TypeOK, Files
    <3>3. todo \subseteq Names /\ at \in Int /\ Names \subseteq Int
      BY DEF TypeOK, Names
    <3>4. Recoverable'
      BY <3>1, <3>2, <3>3
    <3>5. Running'
      BY <3>1, <3>2, <3>3
    <3>6. Renaming'
      BY <3>1, <3>2, <3>3
    <3>7. (Placed /\ Recorded /\ Settled /\ NothingToReplace /\ Counting)'
      BY <3>1, <3>3
    <3> HIDE DEF Placed, Recorded, Recoverable, Settled, NothingToReplace, Running, Renaming, Counting
    <3> QED
      BY <3>4, <3>5, <3>6, <3>7, <1>b
  <2>2. CASE at \notin todo
    <3>1. /\ UNCHANGED <<todo, journal, state, temp, bin, repl, back, build, tainted>>
          /\ pc = "commit" /\ at \in Int /\ todo \subseteq 1..N
          /\ \/ at <= N /\ at' = at + 1 /\ pc' = pc
             \/ at > N /\ at' = at /\ pc' = "commitState"
      BY <1>1, <2>2 DEF CommitBinary, TypeOK, Names
    <3>2. (Recoverable /\ Running)'
      BY <3>1
    <3>3. Renaming'
      BY <2>2, <3>1
    <3>4. (Placed /\ Recorded /\ Settled /\ NothingToReplace /\ Counting)'
      BY <3>1
    <3> HIDE DEF Placed, Recorded, Recoverable, Settled, NothingToReplace, Running, Renaming, Counting
    <3> QED
      BY <3>2, <3>3, <3>4, <1>b
  <2> QED
    BY <2>1, <2>2
<1>2. CASE CommitBinaryFails
  BY <1>2, <1>b DEF CommitBinaryFails, TypeOK, Names
<1>3. CASE CommitState
  BY <1>3, <1>b DEF CommitState, Return, TypeOK
<1>4. CASE CommitStateFails
  BY <1>4, <1>b DEF CommitStateFails, Return, TypeOK, Names
<1>5. CASE Rollback
  <2>1. CASE at > 0 /\ at \in todo
    <3>1. at \in journal.items /\ MatchesPost(at) /\ PutBack(at)
      BY <1>5, <2>1 DEF Rollback, TypeOK
    <3>2. (Observable /\ Evidence /\ StatePre)'
      BY <1>5, <3>1, PutBackKeeps DEF Rollback
    <3>3. bin' = [bin EXCEPT ![at] = journal.pre[at]] /\ back' = [back EXCEPT ![at] = None]
      BY <1>5, <3>1, PutBackRestores DEF Rollback
    <3>4. at \in Names /\ \A n \in Names : n # at => bin'[n] = bin[n] /\ back'[n] = back[n]
      BY <2>1, <3>3 DEF TypeOK, Files
    <3>5. Running' /\ Renaming'
      BY <1>5, <2>1, <3>1, <3>4 DEF Rollback, TypeOK, Names
    <3> QED
      BY <1>5, <1>b, <2>1, <3>2, <3>5 DEF Rollback, TypeOK
  <2>2. CASE ~(at > 0 /\ at \in todo)
    BY <1>5, <1>b, <2>2 DEF Rollback, TypeOK, Names
  <2> QED
    BY <2>1, <2>2
<1>6. CASE RollbackFails
  BY <1>6, <1>b DEF RollbackFails, TypeOK, Names
<1>7. CASE FinishFailed
  BY <1>7, <1>b DEF FinishFailed, Return
<1>8. CASE FinishCommitted
  BY <1>8, <1>b, CommitIsVerified
<1> QED
  BY <1>1, <1>2, <1>3, <1>4, <1>5, <1>6, <1>7, <1>8

(* Retiring; no transaction is open. *)
LEMMA RetireKeeps ==
    ASSUME IInv, TypeOK', \/ PlanRetire \/ RemoveBinary \/ RemoveState
    PROVE  IInv'
<1> USE InstallAssumption DEF IInv, Placed, Retiring, Counting, Outside, Inside, Cleaning,
        Goto, files, environment, Open
<1>1. CASE PlanRetire /\ state = Empty
  BY <1>1, ReturnKeeps DEF PlanRetire
<1>2. pc \in Outside /\ ~Open /\ UNCHANGED <<journal, tainted>>
  BY DEF PlanRetire, RemoveBinary, RemoveState
<1>3. CASE ~(PlanRetire /\ state = Empty)
  <2>1. (Placed /\ Recorded /\ Recoverable /\ Settled /\ Restoring /\ Planned /\ Staged
         /\ NothingToReplace /\ Running /\ Renaming)'
    BY <1>2, <1>3 DEF PlanRetire, RemoveBinary, RemoveState, Return, Recorded, Recoverable,
       Settled, Restoring, Planned, Staged, NothingToReplace, Running, Renaming, Committing
  <2>2. CASE PlanRetire
    BY <1>3, <2>1, <2>2 DEF PlanRetire, TypeOK, Names
  <2>3. CASE RemoveBinary
    <3>1. \A n \in Names : bin'[n] = IF n = at /\ at \in todo THEN None ELSE bin[n]
      BY <2>3 DEF RemoveBinary, TypeOK, Files, Names
    <3>2. Retiring'
      BY <2>3, <3>1 DEF RemoveBinary, TypeOK, Names
    <3> QED
      BY <2>1, <2>3, <3>2 DEF RemoveBinary, TypeOK
  <2>4. CASE RemoveState
    BY <2>1, <2>4 DEF RemoveState, Return
  <2> QED
    BY <2>2, <2>3, <2>4
<1> QED
  BY <1>1, <1>3

(* Between two commands: the next one starts, or somebody edits a program. *)
LEMMA IdleKeeps ==
    ASSUME IInv, TypeOK',
           \/ \E what \in {"install", "retire"}, b \in Built : Start(what, b)
           \/ \E n \in Names, content \in Versions \cup {Edited, None} : Edit(n, content)
    PROVE  IInv'
<1> USE DEF IInv, Placed, Recorded, Recoverable, Settled, Restoring, Planned, Staged,
        NothingToReplace, Running, Renaming, Retiring, Counting, Outside, Inside, Cleaning,
        Committing, Open, Observable, Evidence, MatchesPre, MatchesPost, StatePre, StatePost,
        AllPost, environment
<1>1. ASSUME NEW what \in {"install", "retire"}, NEW b \in Built, Start(what, b)
      PROVE  IInv'
  BY <1>1 DEF Start, Goto, files
<1>2. ASSUME NEW n \in Names, NEW content \in Versions \cup {Edited, None}, Edit(n, content)
      PROVE  IInv'
  <2>1. \A m \in Names : m # n => bin'[m] = bin[m]
    BY <1>2 DEF Edit, TypeOK, Files
  <2>2. journal.items \subseteq Names
    BY DEF TypeOK, Journals
  <2>3. pc = "idle" /\ UNCHANGED <<state, journal, repl, back, temp, pc>>
    BY <1>2 DEF Edit, memory
  <2>4. ~tainted' => ~tainted /\ n \notin journal.items
    BY <1>2 DEF Edit
  <2>5. Recoverable'
    BY <2>1, <2>2, <2>3, <2>4
  <2>6. journal.items = {} => ~tainted'
    <3>1. journal.items = {} => ~tainted
      BY DEF Placed
    <3> QED
      BY <1>2, <3>1, Zenon DEF Edit
  <2> QED
    BY <2>3, <2>5, <2>6
<1> QED
  BY <1>1, <1>2

(* The invariant of the installer: for every number of programs and of faults,
   an open journal and the files around it tell recovery what to do. *)
THEOREM InstallInvariant == Spec => []IInv
<1>1. Init => IInv
  <2> SUFFICES ASSUME Init PROVE IInv
    OBVIOUS
  <2>1. TypeOK
    <3>1. AllNone \in Files /\ bin \in Files
      BY DEF Init, AllNone, Files
    <3>2. todo \subseteq Names
      BY DEF Init
    <3>3. recovering \in BOOLEAN /\ tainted \in BOOLEAN
      BY DEF Init
    <3> QED
      BY <3>1, <3>2, <3>3, EmptyTyped, InstallAssumption DEF Init, TypeOK
  <2> QED
    BY <2>1 DEF Init, IInv, Placed, Recorded, Recoverable, Settled, Restoring, Planned, Staged,
       NothingToReplace, Running, Renaming, Retiring, Counting, Outside, Inside, Cleaning,
       Committing, Open, NoJournal
<1>2. IInv /\ [Next]_vars => IInv'
  <2> SUFFICES ASSUME IInv, [Next]_vars PROVE IInv'
    OBVIOUS
  <2>1. TypeOK'
    BY Typed
  <2>2. CASE UNCHANGED vars
    BY <2>1, <2>2 DEF vars, files, memory, environment, IInv, Placed, Recorded, Recoverable,
       Settled, Restoring, Planned, Staged, NothingToReplace, Running, Renaming, Retiring,
       Counting, Open, Observable, Evidence, MatchesPre, MatchesPost, StatePre, StatePost,
       AllPre, AllPost, Collision, Changes, NextState
  <2> QED
    BY <2>1, <2>2, EndingKeeps, RecoveryKeeps, StagingKeeps, SaveJournalKeeps, CommitKeeps,
       RetireKeeps, IdleKeeps DEF Next, Command, Step, Failure
<1> QED
  BY <1>1, <1>2, PTL DEF Spec

--------------------------------------------------------------------------------
(* What follows from the invariant. *)

(* Wherever a command stopped and whatever failed on the way, the next one can
   finish or undo its transaction unless somebody edited one of its programs
   (recoverInterruptedCLIInstall). *)
THEOREM InstallRecovers == Spec => []InterruptedIsRecoverable
<1>1. IInv => InterruptedIsRecoverable
  BY DEF IInv, Recoverable, InterruptedIsRecoverable, Finishable, Revertible
<1> QED
  BY <1>1, InstallInvariant, PTL

(* The journal is removed from a settled transaction only
   (cleanupCLIInstallTransaction, reached from four places). *)
THEOREM SettledBeforeJournalGoes == Spec => JournalGoesWhenSettled
<1> DEFINE A == Open /\ journal' = NoJournal =>
                    (StatePre /\ AllPre) \/ (StatePost /\ AllPost)
<1>1. IInv /\ [Next]_vars => [A]_vars
  <2> SUFFICES ASSUME IInv, Next PROVE A
    OBVIOUS
  <2> SUFFICES ASSUME Open, journal' = NoJournal
               PROVE  (StatePre /\ AllPre) \/ (StatePost /\ AllPost)
    OBVIOUS
  <2>1. journal' # journal
    BY DEF Open, NoJournal
  <2>2. CASE CleanJournal
    <3>1. pc = "cleanJournal"
      BY <2>2 DEF CleanJournal
    <3> QED
      BY <3>1 DEF IInv, Settled, Cleaning
  <2>3. CASE SaveJournal
    BY <2>3, JournalIsWritten DEF IInv, Placed, Outside
  <2> QED
    BY <2>1, <2>2, <2>3 DEF Next, Command, Step, Failure, files, Start, Edit, Crash,
       NothingToRecover, RecoverRefused, RecoverCommitted, RecoverRollback, Restore, Restored,
       CleanRepl, CleanBack, CleanTemp, PlanCollides, PlanInstall, StageState, StageRepl,
       StageBack, CommitBinary, CommitState, Rollback, FinishFailed, FinishCommitted,
       PlanRetire, RemoveBinary, RemoveState, RestoreFails, CleanFails,
       StagingFails, CommitBinaryFails, CommitStateFails, RollbackFails, RetireFails
<1> QED
  BY <1>1, InstallInvariant, PTL DEF Spec, JournalGoesWhenSettled

(* No command replaces or removes a program somebody edited, neither by
   installing over it nor by recovering an older transaction. *)
THEOREM EditedProgramsAreKept == Spec => EditedIsKept
<1> DEFINE A == Command => \A n \in Names : bin[n] = Edited => bin'[n] = Edited
<1>1. IInv /\ [Next]_vars => [A]_vars
  <2> SUFFICES ASSUME IInv, Command, NEW n \in Names, bin[n] = Edited
               PROVE  bin'[n] = Edited
    OBVIOUS
  <2>1. bin \in Files /\ back \in Files
    BY DEF IInv, TypeOK
  <2>2. \A m \in journal.items : journal.post[m] # Edited /\ journal.pre[m] # Edited
    BY InstallAssumption DEF IInv, Recorded
  <2>3. CASE Restore
    BY <2>1, <2>2, <2>3 DEF Restore, PutBack, Files, IInv, Restoring, TypeOK, MatchesPost
  <2>4. CASE CommitBinary
    BY <2>1, <2>2, <2>4 DEF CommitBinary, Files, IInv, Renaming, Running, Placed, Inside, Committing,
       TypeOK, MatchesPre
  <2>5. CASE Rollback
    BY <2>1, <2>2, <2>5 DEF Rollback, PutBack, Files, IInv, Renaming, Running, Placed, Inside,
       Committing, TypeOK, MatchesPost
  <2>6. CASE RemoveBinary
    <3>1. at \in todo /\ at <= N => bin[at] \in Versions
      BY <2>6 DEF RemoveBinary, IInv, Retiring, TypeOK, States, Owned
    <3> QED
      BY <2>1, <2>6, <3>1, InstallAssumption DEF RemoveBinary, Files
  <2>7. bin' = bin \/ Restore \/ CommitBinary \/ Rollback \/ RemoveBinary
    BY DEF Command, Step, Failure, files, Crash,
       NothingToRecover, RecoverRefused, RecoverCommitted, RecoverRollback, Restored,
       CleanRepl, CleanBack, CleanTemp, CleanJournal, PlanCollides, PlanInstall, StageState,
       StageRepl, StageBack, SaveJournal, WriteJournal, CommitState, FinishFailed, FinishCommitted,
       PlanRetire, RemoveState, RestoreFails, CleanFails,
       StagingFails, CommitBinaryFails, CommitStateFails, RollbackFails, RetireFails
  <2> QED
    BY <2>3, <2>4, <2>5, <2>6, <2>7
<1> QED
  BY <1>1, InstallInvariant, PTL DEF Spec, EditedIsKept

--------------------------------------------------------------------------------
(* The installer implements the atomic one. *)

(* Without an open transaction a reader relies on the files themselves. *)
LEMMA SettledWithoutJournal ==
    IInv /\ ~Open => SettledBin = bin /\ SettledState = state
  BY DEF IInv, TypeOK, Files, Open, SettledBin, SettledState

(* Until the last rename a reader relies on the images before the transaction. *)
LEMMA SettledBefore ==
    Open /\ ~Committed =>
        /\ SettledBin = [n \in Names |-> IF n \in journal.items THEN journal.pre[n] ELSE bin[n]]
        /\ SettledState = journal.statePre
  BY DEF Open, SettledBin, SettledState

(* From then on the programs and the state are the ones after it. *)
LEMMA SettledAfter ==
    IInv /\ Open /\ Committed => SettledBin = bin /\ SettledState = state
  BY DEF IInv, TypeOK, Files, Open, SettledBin, SettledState, Committed, StatePost, AllPost,
     MatchesPost

(* The same of the state a step leads to. *)
LEMMA SettledNext ==
    /\ (IInv /\ ~Open => SettledBin = bin /\ SettledState = state)'
    /\ (Open /\ ~Committed =>
            /\ SettledBin = [n \in Names |-> IF n \in journal.items THEN journal.pre[n] ELSE bin[n]]
            /\ SettledState = journal.statePre)'
    /\ (IInv /\ Open /\ Committed => SettledBin = bin /\ SettledState = state)'
  BY SettledWithoutJournal, SettledBefore, SettledAfter, PTL

(* A step a reader does not notice begins or ends a command, or is no step. *)
LEMMA Unnoticed ==
    ASSUME UNCHANGED <<SettledBin, SettledState, tainted>>
    PROVE  [Atomic!Next]_(Atomic!vars)
<1>1. CASE (pc' # "idle") = (pc # "idle")
  BY <1>1 DEF Atomic!vars
<1>2. CASE (pc' # "idle") # (pc # "idle")
  BY <1>2 DEF Atomic!Next, Atomic!BeginOrEnd
<1> QED
  BY <1>1, <1>2

(* A step that leaves the files and the commit point alone is not noticed. *)
LEMMA QuietStep ==
    ASSUME IInv, UNCHANGED <<bin, state, journal, tainted>>,
           (pc \in Committing <=> pc' \in Committing) \/ ~(StatePost /\ AllPost) \/ ~Open
    PROVE  [Atomic!Next]_(Atomic!vars)
<1>1. UNCHANGED <<SettledBin, SettledState>>
  BY DEF SettledBin, SettledState, Committed, Committing, StatePost, AllPost, MatchesPost, Open
<1> QED
  BY <1>1, Unnoticed

(* The step that ends the last rename installs every program at once. *)
LEMMA InstallStep ==
    ASSUME IInv, Open, pc \in Committing, SettledBin' = build,
           SettledState' = journal.statePost, UNCHANGED tainted
    PROVE  [Atomic!Next]_(Atomic!vars)
<1>1. ~Committed /\ pc # "idle"
  BY DEF Committed, Committing
<1>2. SettledState = journal.statePre /\ \A n \in Names : SettledBin[n] = journal.pre[n]
  BY <1>1, SettledBefore DEF IInv, Running
<1>3. build \in [Names -> Versions]
  BY DEF IInv, TypeOK, Built
<1>4. Atomic!Install(build)
  BY <1>1, <1>2 DEF IInv, Running, Atomic!Install, Atomic!Mine, Atomic!ByCommand
<1> QED
  BY <1>3, <1>4 DEF Atomic!Next

(* Steps that change none of the files a reader looks at. *)
LEMMA QuietCommand ==
    ASSUME IInv,
           \/ NothingToRecover \/ RecoverRefused \/ RecoverCommitted \/ RecoverRollback
           \/ RestoreFails \/ Restored \/ CleanRepl \/ CleanBack \/ CleanTemp \/ CleanFails
           \/ PlanCollides \/ PlanInstall \/ StageState \/ StageRepl \/ StageBack \/ StagingFails
           \/ CommitBinaryFails \/ CommitStateFails \/ RollbackFails \/ FinishCommitted
           \/ PlanRetire \/ RetireFails
           \/ \E what \in {"install", "retire"}, b \in Built : Start(what, b)
    PROVE  [Atomic!Next]_(Atomic!vars)
<1>1. UNCHANGED <<bin, state, journal, tainted>>
  BY DEF NothingToRecover, RecoverRefused, RecoverCommitted, RecoverRollback, RestoreFails,
     Restored, CleanRepl, CleanBack, CleanTemp, CleanFails, PlanCollides, PlanInstall, StageState,
     StageRepl, StageBack, StagingFails, CommitBinaryFails, CommitStateFails, RollbackFails,
     FinishCommitted, PlanRetire, RetireFails, Start, files, environment
<1>2. (pc \in Committing <=> pc' \in Committing) \/ ~Open
  BY DEF NothingToRecover, RecoverRefused, RecoverCommitted, RecoverRollback, RestoreFails,
     Restored, CleanRepl, CleanBack, CleanTemp, CleanFails, PlanCollides, PlanInstall, StageState,
     StageRepl, StageBack, StagingFails, CommitBinaryFails, CommitStateFails, RollbackFails,
     FinishCommitted, PlanRetire, RetireFails, Start, Goto, Return,
     Committing, IInv, Placed, Outside
<1> QED
  BY <1>1, <1>2, QuietStep

(* A program renamed, or put back, inside an open transaction is not noticed. *)
LEMMA RenameUnnoticed ==
    ASSUME IInv, IInv', CommitBinary \/ Rollback \/ Restore
    PROVE  [Atomic!Next]_(Atomic!vars)
<1>1. Open /\ Open' /\ UNCHANGED <<state, journal, tainted>>
  BY DEF CommitBinary, Rollback, Restore, IInv, Placed, Inside, Open
<1>2. ~Committed /\ ~Committed'
  BY DEF CommitBinary, Rollback, Restore, Goto, IInv, Restoring, Committed
<1>3. todo \subseteq journal.items /\ journal.items \subseteq Names
  BY DEF CommitBinary, Rollback, Restore, IInv, Placed, Inside, Running, Committing, Restoring,
     TypeOK, Journals
<1>4. \A n \in Names : n \notin journal.items => bin'[n] = bin[n]
  BY <1>3 DEF CommitBinary, Rollback, Restore, PutBack, IInv, TypeOK, Files
<1> QED
  BY <1>1, <1>2, <1>4, SettledBefore, SettledNext, Unnoticed

(* The transaction of a command that dies after its last rename, or whose
   rollback put nothing back, may turn out to be committed. *)
LEMMA AbandonedCommit ==
    ASSUME IInv, IInv', pc \in Committing, pc' \notin Committing,
           UNCHANGED <<bin, state, journal, tainted>>
    PROVE  [Atomic!Next]_(Atomic!vars)
<1>1. CASE Open /\ StatePost /\ AllPost
  <2>1. (Open /\ Committed)'
    BY <1>1 DEF Open, Committed, Committing, StatePost, AllPost, MatchesPost
  <2>2. SettledBin' = bin' /\ SettledState' = state'
    BY <2>1, SettledNext
  <2>3. \A n \in Names : bin[n] = build[n]
    BY <1>1 DEF IInv, Running, AllPost, MatchesPost
  <2>4. bin = build /\ state = journal.statePost
    BY <1>1, <2>3 DEF IInv, TypeOK, Files, Built, StatePost
  <2> QED
    BY <1>1, <2>2, <2>4, InstallStep
<1>2. CASE ~(Open /\ StatePost /\ AllPost)
  BY <1>2, QuietStep
<1> QED
  BY <1>1, <1>2

(* The ownership state is renamed last. *)
LEMMA CommitStep ==
    ASSUME IInv, IInv', CommitState
    PROVE  [Atomic!Next]_(Atomic!vars)
<1>1. pc = "commitState" /\ state' = temp /\ UNCHANGED <<bin, journal, tainted>>
  BY DEF CommitState, environment
<1>2. CASE Open
  <2>1. (Open /\ Committed)'
    BY <1>1, <1>2 DEF CommitState, Goto, Open, IInv, Renaming, Committed
  <2>2. SettledBin' = bin' /\ SettledState' = state'
    BY <2>1, SettledNext
  <2>3. \A n \in Names : bin[n] = build[n]
    BY <1>1, <1>2 DEF IInv, Running, Renaming, Committing, MatchesPost
  <2>4. bin = build /\ temp = journal.statePost
    BY <1>1, <1>2, <2>3 DEF IInv, TypeOK, Files, Built, Running, Committing
  <2> QED
    BY <1>1, <1>2, <2>2, <2>4, InstallStep DEF Committing
<1>3. CASE ~Open
  <2>1. ~Open'
    BY <1>1, <1>3 DEF Open
  <2>2. /\ SettledBin = bin /\ SettledState = state
        /\ SettledBin' = bin /\ SettledState' = NextState
    BY <1>1, <1>3, <2>1, SettledWithoutJournal, SettledNext DEF IInv, NothingToReplace
  <2>3. \A n \in Names : bin[n] = build[n] /\ ~Collision(n)
    BY <1>1, <1>3 DEF IInv, NothingToReplace, Collision, Changes
  <2>4. bin = build /\ build \in [Names -> Versions]
    BY <2>3 DEF IInv, TypeOK, Files, Built
  <2>5. Atomic!Install(build)
    BY <1>1, <2>2, <2>3, <2>4
       DEF Atomic!Install, Atomic!Mine, Atomic!ByCommand, NextState, Collision
  <2> QED
    BY <2>4, <2>5 DEF Atomic!Next
<1> QED
  BY <1>2, <1>3

(* The journal appears before the first rename and goes when all is settled. *)
LEMMA JournalUnnoticed ==
    ASSUME IInv, IInv', ~tainted, SaveJournal \/ CleanJournal
    PROVE  [Atomic!Next]_(Atomic!vars)
<1>1. CASE SaveJournal
  <2>1. /\ ~Open /\ Open' /\ ~Committed' /\ UNCHANGED <<bin, state, tainted>>
        /\ journal'.pre = bin /\ journal'.statePre = state
    BY <1>1, JournalIsWritten DEF WriteJournal, Goto, IInv, Placed, Outside, Inside, Committed, environment
  <2>2. SettledBin' = bin
    BY <2>1, SettledNext DEF IInv, TypeOK, Files
  <2> QED
    BY <2>1, <2>2, SettledWithoutJournal, SettledNext, Unnoticed
<1>2. CASE CleanJournal
  <2>1. Open /\ ~Open' /\ UNCHANGED <<bin, state>> /\ pc = "cleanJournal" /\ ~tainted'
    BY <1>2 DEF CleanJournal, IInv, Placed, Inside, Cleaning, NoJournal, Open
  <2>2. SettledBin = bin /\ SettledState = state
    <3>1. CASE Committed
      BY <2>1, <3>1, SettledAfter
    <3>2. CASE ~Committed
      <4>1. StatePre /\ AllPre
        BY <2>1, <3>2 DEF IInv, Settled, Cleaning, Committed
      <4> QED
        BY <2>1, <3>2, <4>1, SettledBefore DEF IInv, TypeOK, Files, StatePre, AllPre, MatchesPre
    <3> QED
      BY <3>1, <3>2
  <2>3. UNCHANGED <<SettledBin, SettledState>>
    BY <2>1, <2>2, SettledNext
  <2>4. UNCHANGED tainted
    <3>1. tainted' = FALSE /\ tainted \in BOOLEAN
      BY <1>2 DEF CleanJournal, IInv, TypeOK
    <3> QED
      BY <3>1, Zenon
  <2> QED
    BY <2>3, <2>4, Unnoticed
<1> QED
  BY <1>1, <1>2

(* A retirement removes the programs it owns one by one, then forgets them. *)
LEMMA RetireStep ==
    ASSUME IInv, IInv', RemoveBinary \/ RemoveState
    PROVE  [Atomic!Next]_(Atomic!vars)
<1>1. ~Open /\ ~Open' /\ pc # "idle" /\ UNCHANGED tainted
  BY DEF RemoveBinary, RemoveState, environment, IInv, Placed, Outside, Open
<1>2. /\ SettledBin = bin /\ SettledState = state
      /\ SettledBin' = bin' /\ SettledState' = state'
  BY <1>1, SettledWithoutJournal, SettledNext
<1>3. CASE RemoveBinary /\ at \in todo /\ at <= N
  <2>1. Atomic!Remove(at)
    BY <1>1, <1>2, <1>3 DEF RemoveBinary, IInv, Retiring, TypeOK, Names, Atomic!Remove, Atomic!Mine,
       Atomic!ByCommand
  <2> QED
    BY <1>3, <2>1 DEF IInv, TypeOK, Atomic!Next
<1>4. CASE RemoveBinary /\ ~(at \in todo /\ at <= N)
  BY <1>1, <1>2, <1>4, Unnoticed DEF RemoveBinary
<1>5. CASE RemoveState
  <2>1. Atomic!Forget
    BY <1>1, <1>2, <1>5 DEF RemoveState, IInv, Retiring, Empty, AllNone, Atomic!Forget, Atomic!Mine,
       Atomic!AllNone, Atomic!ByCommand
  <2> QED
    BY <2>1 DEF Atomic!Next
<1> QED
  BY <1>3, <1>4, <1>5

(* An edit of a program no open transaction names is seen as it is. *)
LEMMA EditStep ==
    ASSUME IInv, NEW n \in Names, NEW content \in Versions \cup {Edited, None},
           Edit(n, content), ~tainted, ~tainted'
    PROVE  [Atomic!Next]_(Atomic!vars)
<1>1. n \notin journal.items
  BY DEF Edit
<1>2. pc = "idle" /\ UNCHANGED <<state, journal, pc>> /\ bin' = [bin EXCEPT ![n] = content]
  BY DEF Edit, memory
<1>3. \A m \in Names : bin'[m] = IF m = n THEN content ELSE bin[m]
  BY <1>2 DEF IInv, TypeOK, Files
<1>4. Committed' = Committed
  BY <1>1, <1>2, <1>3 DEF Committed, StatePost, AllPost, MatchesPost, IInv, TypeOK, Journals
<1>5. SettledBin' = [SettledBin EXCEPT ![n] = content] /\ SettledState' = SettledState
  BY <1>1, <1>2, <1>3, <1>4 DEF SettledBin, SettledState, Open
<1>6. tainted' = tainted
  <2>1. tainted \in BOOLEAN /\ tainted' \in BOOLEAN
    BY DEF IInv, TypeOK, Edit
  <2> QED
    BY <2>1
<1>7. Atomic!Edit(n, content)
  BY <1>2, <1>5, <1>6 DEF Atomic!Edit
<1> QED
  BY <1>7 DEF Atomic!Next

(* Every step of the installer is a step of the atomic one, or none. *)
LEMMA AtomicStep == ASSUME IInv, IInv', [Next]_vars PROVE [Atomic!Next]_(Atomic!vars)
<1>1. CASE tainted \/ tainted'
  BY <1>1 DEF Atomic!Next, Atomic!Disturbed
<1>2. CASE ~tainted /\ ~tainted'
  <2>1. CASE UNCHANGED vars
    BY <2>1, QuietStep DEF vars, files, memory, environment
  <2>2. CASE Crash
    <3>1. UNCHANGED <<bin, state, journal, tainted>> /\ pc' = "idle"
      BY <2>2 DEF Crash, Return
    <3>2. CASE pc \in Committing
      BY <3>1, <3>2, AbandonedCommit DEF Committing
    <3>3. CASE pc \notin Committing
      BY <3>1, <3>3, QuietStep DEF Committing
    <3> QED
      BY <3>2, <3>3
  <2>3. CASE FinishFailed
    BY <2>3, AbandonedCommit DEF FinishFailed, Goto, Return, Committing, files, environment
  <2>4. ASSUME NEW n \in Names, NEW content \in Versions \cup {Edited, None}, Edit(n, content)
        PROVE  [Atomic!Next]_(Atomic!vars)
    BY <1>2, <2>4, EditStep
  <2> QED
    BY <1>2, <2>1, <2>2, <2>3, <2>4, QuietCommand, RenameUnnoticed, CommitStep, JournalUnnoticed,
       RetireStep DEF Next, Command, Step, Failure
<1> QED
  BY <1>1, <1>2

(* The installer implements the atomic one: a transaction that a crash or a
   failed rename cuts anywhere is, to whoever waits for its recovery, one step
   or none, and a retirement takes nothing but the installer's own programs. *)
THEOREM InstallRefines == Spec => InstallIsAtomic
<1>1. Init => Atomic!Init
  <2> SUFFICES ASSUME Init PROVE Atomic!Init
    OBVIOUS
  <2>1. SettledBin = bin /\ SettledState = Empty
    BY DEF Init, SettledBin, SettledState, Open, NoJournal
  <2> QED
    BY <2>1 DEF Init, Empty, AllNone, Atomic!Init, Atomic!AllNone
<1>2. IInv /\ IInv' /\ [Next]_vars => [Atomic!Next]_(Atomic!vars)
  BY AtomicStep
<1> QED
  BY <1>1, <1>2, InstallInvariant, PTL DEF Spec, InstallIsAtomic, Atomic!Spec
================================================================================
