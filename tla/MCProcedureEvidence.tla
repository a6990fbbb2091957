------------------------ MODULE MCProcedureEvidence ------------------------
(***************************************************************************)
(* ProcedureEvidence on small instances, one after the other in one run:   *)
(* in the scene "race" one execution, with rejections that overlap every   *)
(* other call; in the scene "serial" two executions, one task, every call, *)
(* restarts and a graph that may not answer.                               *)
(***************************************************************************)
EXTENDS ProcedureEvidence, TLC

CONSTANTS SerialExecutions, SerialClaims, SerialTasks

NeedProof(type) == [type |-> type, required |-> TRUE]
Suggested(type) == [type |-> type, required |-> FALSE]
Needed(proofs)   == [optional |-> FALSE, proofs |-> proofs]
Optional(proofs) == [optional |-> TRUE,  proofs |-> proofs]

\* A step with a proof and a step that names none.
ProofThenBare == <<Needed(<<NeedProof("chunk_ref")>>), Needed(<<>>)>>

\* A step with a proof and one that is only suggested, and an optional step.
ProofAndOptional ==
  <<Needed(<<Suggested("receipt"), NeedProof("chunk_ref")>>),
    Optional(<<NeedProof("chunk_ref")>>)>>

VARIABLE scene

S == INSTANCE ProcedureEvidence WITH
       Procedure     <- ProofAndOptional,
       NeedsApproval <- FALSE,
       Executions    <- SerialExecutions,
       Claims        <- SerialClaims,
       Tasks         <- SerialTasks,
       EvidenceTypes <- {"chunk_ref"},
       Calls         <- AllCalls,
       Overlapping   <- {},
       GraphMayFail  <- TRUE

ASSUME SerialAssumption == S!ConstantsAssumption

ScenesInit ==
  \/ scene = "race" /\ Init
  \/ scene = "serial" /\ S!Init

ScenesNext ==
  /\ UNCHANGED scene
  /\ \/ scene = "race" /\ Next
     \/ scene = "serial" /\ S!Next

ScenesSpec == ScenesInit /\ [][ScenesNext]_<<scene, vars>>

\* CompletedStepProven, with rejections in between and across restarts.
StepsProven == IF scene = "race" THEN CompletedStepProven ELSE S!CompletedStepProven

\* FinalizedOnlyWhenProven, where the graph can be read: without it any
\* supported claim finalizes an execution (AnySupported).
FinalizedProven == scene = "race" => FinalizedOnlyWhenProven

\* After undisturbed calls Redis has what memory has, the graph has what was
\* last decided and one activation has open goals.
StoresAgree ==
  scene = "serial" => S!SavedIsCurrent /\ S!GraphIsCurrent /\ S!OneActivationActive

\* The tasks and the claims of the one scene, the executions of the other: tasks
\* and executions change places together, as no state has both.
Moves(T) == Permutations(T) \ {[x \in T |-> x]}
Interchangeable ==
  Permutations(Claims) \cup {t @@ e : t \in Moves(Tasks), e \in Moves(SerialExecutions)}
=============================================================================
