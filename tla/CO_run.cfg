CONSTANTS
  f1 = f1  f2 = f2  d1 = d1  d2 = d2
  Facts = {f1, f2, c1}
  Existing <- TwoFacts
  Docs = {d1, d2, d3}
  Tasks = {t1, t2}
  Calls = {"delete", "consolidate", "restart"}
  Stages = {2, 3, 4}
  MaxFaults = 1
  None = None
SYMMETRY Interchangeable
SPECIFICATION RunSpec
INVARIANTS NoSilentLeak ErasedLeavesNothing OneRun CanonicalFirst
