--------------------------- MODULE MCTaskLifecycle ---------------------------
(* Instances of TaskLifecycle for TLC.  The decisions of a parent are          *)
(* interchangeable.                                                            *)
EXTENDS TaskLifecycle, TLC

DecisionSymmetry == Permutations(Decisions)

=============================================================================
