CONSTANTS
  s1 = s1  s2 = s2  k1 = k1  k2 = k2
  Sessions = {s1, s2}
  Keys = {k1}
  KeyOf <- SharedKey
  Actions = {a1}
  Requests = {r1, r2}
  Tasks = {t1}
  Timeout = 1  Grace = 1  ResolvedTtl = 1
  TimeoutAction = "hard_stop"
  Calls = {"check", "approved", "end"}
  None = None
SPECIFICATION FairSpec
INVARIANTS   CompletedGoalHasConsent
PROPERTIES AllEnds
