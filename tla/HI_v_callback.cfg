CONSTANTS
  Parts = {"hitl"}
  None = None  MaxFaults = 1
  Compactors = {c1, c2}  Forced = {c1}  Threshold = 1
  QuestionsKept = 1  DigestKept = 1  MaxMessages = 3
  p1 = p1  p2 = p2  v1 = v1  v2 = v2  v3 = v3
  Processes = {p1, p2}  Resolvers = {v1, v2, v3}
  Overrides = {a, b}  Unvalidated = {b}  Ttl = 1  NoOverride = NoOverride
  MaxTicks = 2  MaxWrites = 2
  Actors = {adm, lead}  Teams = {t}  Admin = adm  Levels = {1, 2}  ExemptLevel = 2
  Calls = {k1, k2}  MaxCalls = 4  MaxFailures = 1
  root = root  auto = auto  s1 = s1  s2 = s2
  Goals = {root, auto, s1, s2}  AutoGoals = {auto}  NoGoal = NoGoal
  Turns = {h}  Workers = {w}  Requests = {r1, r2}  SubLimit = 1  MaxHints = 1
  Sessions = {s}  Tasks = {t1, t2}  StrengthenMin = 2  BlacklistMin = 2
  MaxConfidence = 2  MaxUses = 2  MaxRuns = 1
  Outputs = {o1, o2}  Capturable = {o1, o2}  Replaceable = {o1, o2}  KeepLast = 1
  Batches = {b1}  Searches = {x1}  NoOutput = NoOutput  MaxOutputs = 3  MaxMishaps = 1
  q1 = q1  q2 = q2  NoAgent = NoAgent  agent = agent
  Callbacks = {d1, d2}  Retries = 1  Timeout = 1  Grace = 1  ResolvedTtl = 1
  TokenLife = 3  MaxTroubles = 1
  MaxFacts = 4  SaidKinds <- Sayings  SessionsNeeded = 2  CallCap = 1
  MaxLoads = 2  MaxSlips = 1
  Hosted = {x, y}  NoSession = NoSession  BatchSize = 2  MaxSaid = 2  MaxTurns = 2
  MaxLapses = 1
  f1 = f1  f2 = f2  f3 = f3  g1 = g1
  Facts = {f1, f2, f3}  Direct = {g1}  Pressing = {g1}  Constraint = {f1}
  Assembling = {t1}  Routes = {r1}  Budgets = {2}  StructuralK = 2  VectorK = 1
  RootTopK = 3  RerankCap = 2  MaxScore = 2  RedundancyPenalty = 1
  SupersessionPenalty = 2  OverlayShare = 2  MaxChanges = 1
SPECIFICATION PartsSpec
INVARIANT CallbackFindsRequest
CHECK_DEADLOCK FALSE
