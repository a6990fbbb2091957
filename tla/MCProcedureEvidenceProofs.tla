--------------------- MODULE MCProcedureEvidenceProofs ---------------------
(* What the theorems about ProcedureEvidence say of the two scenes of      *)
(* MCProcedureEvidence, for all executions, claims and tasks.              *)
EXTENDS MCProcedureEvidence, ProcedureEvidenceProofs

P == INSTANCE ProcedureEvidenceProofs WITH
       Procedure     <- ProofAndOptional,
       NeedsApproval <- FALSE,
       Executions    <- SerialExecutions,
       Claims        <- SerialClaims,
       Tasks         <- SerialTasks,
       EvidenceTypes <- {"chunk_ref"},
       Calls         <- AllCalls,
       Overlapping   <- {},
       GraphMayFail  <- TRUE

\* S and P instantiate the same text, once without and once with its theorems.
LEMMA SameInit == S!Init <=> P!Init
BY DEF S!Steps, P!Steps, S!RequiredProofs, P!RequiredProofs, S!AutoGoals, P!AutoGoals,
       S!Goals, P!Goals, S!NothingSaved, P!NothingSaved, S!NoGoals, P!NoGoals, S!Idle,
       P!Idle, S!Init, P!Init

LEMMA SameNext == S!Next <=> P!Next
BY DEF S!Steps, P!Steps, S!RequiredProofs, P!RequiredProofs, S!ProofType, P!ProofType,
       S!AutoGoals, P!AutoGoals, S!Goals, P!Goals, S!Saves, P!Saves, S!NothingSaved,
       P!NothingSaved, S!NoGoals, P!NoGoals, S!Idle, P!Idle, S!Become, P!Become, S!Quiet,
       P!Quiet, S!Begin, P!Begin, S!Accepted, P!Accepted, S!MissingEvidence,
       P!MissingEvidence, S!StepProven, P!StepProven, S!CompletionProven,
       P!CompletionProven, S!AnySupported, P!AnySupported, S!WriteGoals, P!WriteGoals,
       S!GoalRead, P!GoalRead, S!GoalWrite, P!GoalWrite, S!Fresh, P!Fresh, S!Activate,
       P!Activate, S!AfterSave, P!AfterSave, S!SaveRead, P!SaveRead, S!SaveWrite,
       P!SaveWrite, S!Orphans, P!Orphans, S!Return, P!Return, S!CompleteStep,
       P!CompleteStep, S!AllResolved, P!AllResolved, S!StepGoal, P!StepGoal,
       S!ValidateCompletion, P!ValidateCompletion, S!CheckCompletion, P!CheckCompletion,
       S!ResolveParent, P!ResolveParent, S!FreshClaim, P!FreshClaim, S!CreateClaim,
       P!CreateClaim, S!NewClaim, P!NewClaim, S!OutOfClaims, P!OutOfClaims, S!KeepClaim,
       P!KeepClaim, S!AttachEvidence, P!AttachEvidence, S!Attach, P!Attach, S!ClaimWrite,
       P!ClaimWrite, S!VerifiedStatus, P!VerifiedStatus, S!Verifiable, P!Verifiable,
       S!SetStatus, P!SetStatus, S!Verify, P!Verify, S!VerifyEvidence, P!VerifyEvidence,
       S!Reject, P!Reject, S!RunVerification, P!RunVerification, S!VisitClaim,
       P!VisitClaim, S!Restart, P!Restart, S!RestoreExecutions, P!RestoreExecutions,
       S!Step, P!Step, S!Call, P!Call, S!Next, P!Next

LEMMA SameSteps == S!CompletedStepProven <=> P!CompletedStepProven
BY DEF S!Steps, P!Steps, S!RequiredProofs, P!RequiredProofs, S!ProofType, P!ProofType,
       S!AutoGoals, P!AutoGoals, S!Goals, P!Goals, S!Vouched, P!Vouched, S!EvidenceVouched,
       P!EvidenceVouched, S!CompletedStepProven, P!CompletedStepProven

LEMMA SameStores ==
  /\ S!SavedIsCurrent <=> P!SavedIsCurrent
  /\ S!GraphIsCurrent <=> P!GraphIsCurrent
  /\ S!OneActivationActive <=> P!OneActivationActive
BY DEF S!Steps, P!Steps, S!RequiredProofs, P!RequiredProofs, S!AutoGoals, P!AutoGoals,
       S!Goals, P!Goals, S!Quiet, P!Quiet, S!SavedIsCurrent, P!SavedIsCurrent,
       S!GraphIsCurrent, P!GraphIsCurrent, S!OneActivationActive, P!OneActivationActive

LEMMA SameAssumption == P!ConstantsAssumption
BY SerialAssumption DEF S!Steps, P!Steps, S!GoalStatus, P!GoalStatus, S!ClaimStatus,
   P!ClaimStatus, S!AllCalls, P!AllCalls, S!AllTypes, P!AllTypes, S!ConstantsAssumption,
   P!ConstantsAssumption

\* Each scene keeps the inductive invariant of its instance; in "serial" calls may fail to
\* reach the graph, and Serial holds as well.
SceneInv ==
  \/ scene = "race" /\ IInv
  \/ scene = "serial" /\ P!IInv /\ P!Serial

LEMMA SceneInit == ASSUME ScenesInit PROVE SceneInv
<1>1. CASE scene = "race" /\ Init
  BY <1>1, InitSound DEF SceneInv
<1>2. CASE scene = "serial" /\ S!Init
  <2>1. P!Init
    BY <1>2, SameInit
  <2>. QED BY <1>2, <2>1, P!InitSound, P!InitSerial, SameAssumption DEF SceneInv
<1>. QED BY <1>1, <1>2 DEF ScenesInit

LEMMA SceneNext == ASSUME SceneInv, [ScenesNext]_<<scene, vars>> PROVE SceneInv'
<1>1. UNCHANGED scene
  BY DEF ScenesNext
<1>2. CASE scene = "race"
  <2>1. IInv
    BY <1>2 DEF SceneInv
  <2>2. [Next]_vars
    BY <1>2 DEF ScenesNext
  <2>3. IInv'
    BY <2>1, <2>2, NextSound
  <2>. QED BY <1>1, <1>2, <2>3 DEF SceneInv
<1>3. CASE scene = "serial"
  <2>1. P!IInv /\ P!Serial
    BY <1>3 DEF SceneInv
  <2>2. [P!Next]_(P!vars)
    BY <1>3, SameNext DEF ScenesNext, vars, P!vars
  <2>3. P!IInv'
    BY <2>1, <2>2, P!NextSound, SameAssumption
  <2>4. P!Serial'
    BY <2>1, <2>2, P!NextSerial, SameAssumption
  <2>. QED BY <1>1, <1>3, <2>3, <2>4 DEF SceneInv
<1>. QED BY <1>2, <1>3 DEF SceneInv

THEOREM SceneInvariant == ScenesSpec => []SceneInv
<1>1. ScenesInit => SceneInv
  BY SceneInit
<1>2. SceneInv /\ [ScenesNext]_<<scene, vars>> => SceneInv'
  BY SceneNext
<1>. QED BY <1>1, <1>2, PTL DEF ScenesSpec

\* StepsProvenHold in both scenes: a step is complete only if its required proofs were
\* accepted, with rejections in between and across restarts.
THEOREM ScenesStepsProven == ScenesSpec => []StepsProven
<1>1. SceneInv => StepsProven
  <2>1. SUFFICES ASSUME SceneInv PROVE StepsProven
    OBVIOUS
  <2>2. CASE scene = "race" /\ IInv
    BY <2>2, InvSteps DEF StepsProven
  <2>3. CASE scene = "serial" /\ P!IInv
    BY <2>3, P!InvSteps, SameAssumption, SameSteps DEF StepsProven
  <2>. QED BY <2>1, <2>2, <2>3 DEF SceneInv
<1>. QED BY <1>1, SceneInvariant, PTL

\* FinalizedHolds in the scene "race", whose graph the run lets answer every time.
THEOREM ScenesFinalizedProven == ~GraphMayFail => (ScenesSpec => []FinalizedProven)
<1>1. SUFFICES ASSUME ~GraphMayFail PROVE ScenesSpec => []FinalizedProven
  OBVIOUS
<1>2. SceneInv => FinalizedProven
  BY <1>1, InvFinalized DEF SceneInv, FinalizedProven
<1>. QED BY <1>2, SceneInvariant, PTL

\* StoresAgreeHold in the scene "serial", where calls follow one another, the server may
\* restart and the graph may fail to answer.
THEOREM ScenesStoresAgree == ScenesSpec => []StoresAgree
<1>1. SceneInv => StoresAgree
  BY P!SerialStores, SameAssumption, SameStores DEF SceneInv, StoresAgree
<1>. QED BY <1>1, SceneInvariant, PTL
=============================================================================
