---------------------------- MODULE MCFactMemory ----------------------------
(* FactMemory on small instances. *)
EXTENDS FactMemory, TLC

Nothing == [f \in {} |-> None]

Interchangeable ==
  Permutations(Facts) \cup Permutations(Docs) \cup Permutations(Tasks)
=============================================================================
