--------------------------- MODULE MCGuardPipeline ---------------------------
(* GuardPipeline on small instances: the actions and the policies.         *)
EXTENDS GuardPipeline, TLC

\* ruled breaks a static rule; alike resembles the last exemplar and fails a
\* validator.
TheActions == {"ruled", "alike"}

\* The medium preset with an LLM.
Medium ==
  [rules     |-> [a \in TheActions |->
                    IF a = "ruled" THEN {"inform", "require_evidence"} ELSE {"warn"}],
   lexical   |-> TRUE,
   words     |-> {},
   exemplars |-> <<{"alike"}>>,
   validator |-> [a \in TheActions |-> IF a = "alike" THEN "warn" ELSE None],
   upgrade   |-> None,
   reinject  |-> "elevated_risk",
   force     |-> FALSE,
   llm       |-> TRUE]

\* Another: a word shared with the exemplar, a warning upgraded to a demand for
\* evidence, a validator that raises, reinjection on enforcement only.
Custom ==
  [Medium EXCEPT !.rules["ruled"] = {"inform"}, !.upgrade = "require_evidence",
                 !.words = {"ruled"}, !.validator["alike"] = "error",
                 !.reinject = "block_only"]

\* Two exemplars, to be embedded one after the other.
TwoExemplars == {[Medium EXCEPT !.exemplars = <<{}, {"alike"}>>]}

Presets    == {Medium, Custom}
Answers    == {"warn", "block"}
Interchangeable == Permutations(Tasks)
=============================================================================
