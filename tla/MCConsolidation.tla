--------------------------- MODULE MCConsolidation ---------------------------
(* Consolidation on small instances. *)
EXTENDS Consolidation, TLC

CONSTANTS f1, f2, d1, d2

\* Two facts with their documents.
TwoFacts == (f1 :> d1) @@ (f2 :> d2)

\* f1 and f2 are exchanged together with their documents.
Interchangeable ==
  {p @@ q @@ r @@ s : p \in {f1 :> f1 @@ f2 :> f2 @@ d1 :> d1 @@ d2 :> d2,
                        f1 :> f2 @@ f2 :> f1 @@ d1 :> d2 @@ d2 :> d1},
                 q \in Permutations(Facts \ {f1, f2}),
                 r \in Permutations(Docs \ {d1, d2}), s \in Permutations(Tasks)}
=============================================================================
