CONSTANTS
  Procedure <- ProofThenBare
  NeedsApproval = TRUE
  Executions = {e1}
  Claims = {c1, c2}
  Tasks = {t1, t2}
  EvidenceTypes = {"chunk_ref", "supervisor_sign_off"}
  Calls = {"activate", "complete", "claim", "attach", "verify", "reject"}
  Overlapping = {"reject"}
  GraphMayFail = FALSE
  None = None
  SerialExecutions = {e2, e3}
  SerialClaims = {c3}
  SerialTasks = {t3}
SYMMETRY Interchangeable
SPECIFICATION ScenesSpec
INVARIANTS  FinalizedProven StoresAgree
