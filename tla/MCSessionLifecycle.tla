------------------------ MODULE MCSessionLifecycle ------------------------
(* SessionLifecycle on small instances.                                    *)
EXTENDS SessionLifecycle, TLC

Interchangeable == Permutations(Items) \cup Permutations(Tasks)
=============================================================================
