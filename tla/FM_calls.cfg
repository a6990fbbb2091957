CONSTANTS
  Facts = {f1, f2}
  Existing <- Nothing
  Docs = {d1, d2, d3}
  Tasks = {t1, t2}
  Calls = {"store", "amend", "update", "delete", "search", "restart"}
  MaxFaults = 1
  None = None
SYMMETRY Interchangeable
SPECIFICATION Spec
INVARIANTS NoSilentLeak 
