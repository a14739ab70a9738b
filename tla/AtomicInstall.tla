----------------------------- MODULE AtomicInstall -----------------------------
(* What the installer of the command line programs promises: an install
   replaces every program it changes and the ownership state in one step, a
   retirement removes only programs the installer owns and then forgets them,
   and nothing else happens to the binary directory but its users' edits. *)
CONSTANTS Names, Versions, Edited, None

VARIABLES
    file,      \* the programs a reader of the directory may rely on
    owner,     \* the ownership state
    running,   \* a command runs
    disturbed  \* a program was edited inside an interrupted install

vars == <<file, owner, running, disturbed>>

AllNone == [n \in Names |-> None]

Init ==
    /\ file \in [Names -> {None, Edited}]
    /\ owner = [own |-> AllNone, exp |-> AllNone]
    /\ running = FALSE
    /\ disturbed = FALSE

(* A command begins, or ends without having changed anything. *)
BeginOrEnd ==
    /\ running' = ~running
    /\ UNCHANGED <<file, owner, disturbed>>

(* The steps that change the directory are a command's; one may be its last. *)
ByCommand == running /\ running' \in BOOLEAN /\ UNCHANGED disturbed

Mine(n) == owner.own[n] # None

(* Every program that is missing or outdated is replaced; an install that would
   have to replace a program of somebody else does not happen. *)
Install(b) ==
    /\ \A n \in Names :
        file[n] # None => file[n] = IF Mine(n) THEN owner.own[n] ELSE b[n]
    /\ file' = b
    /\ owner' = [own |-> [n \in Names |->
                            IF Mine(n) \/ file[n] = None THEN b[n] ELSE None],
                 exp |-> b]
    /\ ByCommand

Remove(n) ==
    /\ Mine(n)
    /\ file[n] = owner.own[n]
    /\ file' = [file EXCEPT ![n] = None]
    /\ UNCHANGED owner
    /\ ByCommand

Forget ==
    /\ \A n \in Names : Mine(n) => file[n] # owner.own[n]
    /\ owner' = [own |-> AllNone, exp |-> AllNone]
    /\ UNCHANGED file
    /\ ByCommand

(* People edit programs while no command runs. *)
Edit(n, content) ==
    /\ ~running
    /\ file' = [file EXCEPT ![n] = content]
    /\ UNCHANGED <<owner, running, disturbed>>

(* Nothing is promised while an edit waits inside an interrupted install. *)
Disturbed == disturbed \/ disturbed'

Next ==
    \/ BeginOrEnd
    \/ \E b \in [Names -> Versions] : Install(b)
    \/ \E n \in Names : Remove(n)
    \/ Forget
    \/ \E n \in Names, content \in Versions \cup {Edited, None} : Edit(n, content)
    \/ Disturbed

Spec == Init /\ [][Next]_vars
================================================================================
