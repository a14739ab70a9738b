---------------------------- MODULE TaskContract ----------------------------
(***************************************************************************)
(* What a delegated task promises its parent: whose turn it is, and that   *)
(* a question put to the parent is never lost.  The question stays open    *)
(* from the moment it is asked until a model's work has used its answer;   *)
(* a task is handed over, accepted or done only when none is open.         *)
(***************************************************************************)
VARIABLES
    phase,      \* whose turn it is, or how the task ended
    question    \* whether a question to the parent is still open

contractVars == <<phase, question>>

ContractInit == phase = "none" /\ question = FALSE

\* A task follows one that is over, never one that waits for somebody.
Start ==
    /\ phase \in {"none", "done", "abandoned"}
    /\ phase' = "working" /\ question' = FALSE

\* A new question, or an answer taken back before anything worked on it.
Ask == phase = "working" /\ phase' = "asking" /\ question' = TRUE

\* The answer alone does not close the question.
Answer == phase = "asking" /\ phase' = "working" /\ question /\ question'

UseAnswer == phase = "working" /\ UNCHANGED phase /\ question' = FALSE

HandOver == phase = "working" /\ phase' = "handed-over" /\ question' = FALSE

Rework == phase = "handed-over" /\ phase' = "working" /\ UNCHANGED question

Stop == phase = "working" /\ phase' = "stopped" /\ (question' => question)

Continue == phase = "stopped" /\ phase' = "working" /\ UNCHANGED question

Finish == phase = "working" /\ phase' = "done" /\ question' = FALSE

Accept ==
    /\ phase \in {"handed-over", "done"}
    /\ phase' = "accepted" /\ UNCHANGED question

Close == phase = "accepted" /\ phase' = "done" /\ UNCHANGED question

Abandon ==
    /\ phase \notin {"none", "done", "abandoned"}
    /\ phase' = "abandoned" /\ UNCHANGED question

ContractNext ==
    \/ Start \/ Ask \/ Answer \/ UseAnswer \/ HandOver \/ Rework \/ Stop
    \/ Continue \/ Finish \/ Accept \/ Close \/ Abandon

ContractSpec == ContractInit /\ [][ContractNext]_contractVars

=============================================================================
