CONSTANTS
  s1 = s1  s2 = s2  k1 = k1  k2 = k2
  Sessions = {s1}
  Keys = {k1}
  KeyOf <- OneKey
  Actions = {a1}
  Requests = {r1, r2}
  Tasks = {t1, t2}
  Timeout = 1  Grace = 1  ResolvedTtl = 2
  TimeoutAction = "inform"
  Calls = {"check", "approved", "sweep_route", "restart"}
  None = None
SYMMETRY Interchangeable
SPECIFICATION Spec
INVARIANTS ProceedsOnlyWithCause 
 
