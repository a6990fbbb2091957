CONSTANTS
  Facts = {f1}
  Existing <- Nothing
  Docs = {d1}
  Tasks = {t1, t2}
  Calls = {"store", "delete", "search"}
  MaxFaults = 0
  None = None
SPECIFICATION Spec
INVARIANT ErasedStaysErased
