---------------------------- MODULE MCTurnIngest ----------------------------
(* TurnIngest on small instances. *)
EXTENDS TurnIngest, TLC

Interchangeable ==
  Permutations(Messages) \cup Permutations(Facts) \cup Permutations(Tasks)
=============================================================================
