CONSTANTS
  Actions <- TheActions
  Policies <- Presets
  Tasks = {t1, t2}
  Verdicts <- Answers
  Threshold = 1
  Window = 1
  MaxEvents = 2
  MaxStates = 2
  MaxUnstored = 0
  None = None
SYMMETRY Interchangeable
SPECIFICATION Spec
INVARIANTS ProceedsOnlyWhenClean NearMissesEscalate EnforcementExplained
