-------------------------- MODULE MCGuardApprovals --------------------------
(* GuardApprovals on small instances: which session key each session has.  *)
EXTENDS GuardApprovalsInv, TLC

CONSTANTS s1, s2, k1, k2

SharedKey == (s1 :> k1) @@ (s2 :> k1)
OwnKeys   == (s1 :> k1) @@ (s2 :> k2)
OneKey    == [s \in Sessions |-> k1]

Interchangeable == Permutations(Tasks) \cup Permutations(Requests)
=============================================================================
