------------------------------- MODULE MCParts -------------------------------
(***************************************************************************)
(* Small instances of the parts that have a state of their own and meet    *)
(* the others through none of it.  A behaviour is one of a single part:    *)
(* part says which, and the variables of the others stay 0.                *)
(*                                                                         *)
(* Each part is an instance of its module; a name that two parts have is   *)
(* substituted in one of them.                                             *)
(***************************************************************************)
EXTENDS Integers, Sequences, FiniteSets, TLC

CONSTANTS
  Parts,     \* the parts an instance has
  None, MaxFaults,
  \* Compaction
  Compactors, Forced, Threshold, QuestionsKept, DigestKept, MaxMessages,
  \* Profiles
  p1, p2, v1, v2, v3,
  Processes, Resolvers, Overrides, Unvalidated, Ttl, NoOverride, MaxTicks, MaxWrites,
  \* Organisation
  Actors, Teams, Admin, Levels, ExemptLevel, Calls, MaxCalls, MaxFailures,
  \* SessionGoals
  root, auto, s1, s2,
  Goals, AutoGoals, NoGoal, Turns, Workers, Requests, SubLimit, MaxHints,
  \* UseCounts
  Sessions, Tasks, StrengthenMin, BlacklistMin, MaxConfidence, MaxUses, MaxRuns,
  \* Artifacts
  Outputs, Capturable, Replaceable, KeepLast, Batches, Searches, NoOutput,
  MaxOutputs, MaxMishaps,
  \* Hitl
  q1, q2, NoAgent, agent,
  Callbacks, Retries, Timeout, Grace, ResolvedTtl, TokenLife, MaxTroubles,
  \* Recurrence
  MaxFacts, SaidKinds, SessionsNeeded, CallCap, MaxLoads, MaxSlips,
  \* Plugins
  Hosted, NoSession, BatchSize, MaxSaid, MaxTurns, MaxLapses,
  \* WorkingSet
  f1, f2, f3, g1,
  Facts, Direct, Pressing, Constraint, Assembling, Routes, Budgets,
  StructuralK, VectorK, RootTopK, RerankCap, MaxScore, RedundancyPenalty,
  SupersessionPenalty, OverlayShare, MaxChanges

\* A question and small talk of the user, both at once, and an answer.
Kind(role, asks, answers, phatic) ==
  [role |-> role, asks |-> asks, answers |-> answers, phatic |-> phatic, keep |-> FALSE]
Kinds ==
  {Kind("user", TRUE, TRUE, FALSE), Kind("user", FALSE, TRUE, TRUE),
   Kind("user", TRUE, FALSE, TRUE), Kind("assistant", FALSE, TRUE, FALSE)}

\* One server has two resolutions under way, the other one.
ServerOf == (v1 :> p1) @@ (v2 :> p1) @@ (v3 :> p2)

MinLevel == [op \in {"register", "update", "add", "remove"} |->
               IF op \in {"add", "remove"} THEN 1 ELSE 2]

ParentOf == (root :> NoGoal) @@ (auto :> NoGoal) @@ (s1 :> root) @@ (s2 :> auto)

\* The session of one request has an agent id, that of the other has none.
AgentOf == (q1 :> NoAgent) @@ (q2 :> agent)

Said(by, class, used) ==
  [session |-> by, class |-> class, scope |-> "session",
   goal |-> used, uses |-> IF used THEN 1 ELSE 0]
Sayings == {Said("a", "episodic", FALSE), Said("b", "semantic", TRUE)}

\* The constraint f1 is a near duplicate of f2; f2 supersedes f3.
Size == (f1 :> 1) @@ (f2 :> 2) @@ (f3 :> 1) @@ (g1 :> 2)
Near == {<<f1, f2>>}
Supersedes == {<<f2, f3>>}

VARIABLES
  part,
  messages, compact, state, mishaps,
  table, cache, resolve, writing, clock, writes, lookups, since, own,
  node, edges, request, begun, failures, asked, overlap, degraded, spread,
  goals, graph, task, hold, glitches, expected, byRuntime, stale, raced,
  fact, snapshot, writer, pass, uses, runs, faults, proved, punished, overtaken,
    unscanned,
  said, hash, timed, issued, batch, search, assembly, prompt, overlay, losses,
    gone,
  status, left, due, post, age, told, call, heard, written, lapsed, troubles,
  near, facts, run, loads, slips,
  engine, hooks, buffer, lastTurn, reported, turn, flow, closing, letter, lapses,
    crossed, overlapping,
  standing, memory, redis, build, misses, changes

CO == INSTANCE Compaction
PR == INSTANCE Profiles WITH mishaps <- lookups
OR == INSTANCE Organisation
SG == INSTANCE SessionGoals WITH Auto <- AutoGoals, mishaps <- glitches, due <- expected
UC == INSTANCE UseCounts WITH run <- pass
AR == INSTANCE Artifacts WITH troubles <- losses, lapsed <- gone
HI == INSTANCE Hitl WITH Requests <- {q1, q2}
RE == INSTANCE Recurrence WITH Kinds <- SaidKinds, Threshold <- SessionsNeeded
PL == INSTANCE Plugins WITH Sessions <- Hosted, overlap <- overlapping
WS == INSTANCE WorkingSet WITH Turns <- Assembling, call <- build, faults <- misses

ASSUME PartsAssumption ==
       /\ Parts \subseteq {"compaction", "profiles", "organisation", "goals", "uses",
             "artifacts", "hitl", "recurrence", "plugins", "workingset"}
       /\ CO!CompactionAssumption
       /\ PR!ProfilesAssumption
       /\ OR!OrganisationAssumption
       /\ SG!SessionGoalsAssumption
       /\ UC!UseCountsAssumption
       /\ AR!ArtifactsAssumption
       /\ HI!HitlAssumption
       /\ RE!RecurrenceAssumption
       /\ PL!PluginsAssumption
       /\ WS!WorkingSetAssumption

PartsInit ==
  /\ part \in Parts
  /\ IF part = "compaction" THEN CO!CompactionInit
     ELSE messages = 0 /\ compact = 0 /\ state = 0 /\ mishaps = 0
  /\ IF part = "profiles" THEN PR!ProfilesInit
     ELSE table = 0 /\ cache = 0 /\ resolve = 0 /\ writing = 0 /\ clock = 0 /\
          writes = 0 /\ lookups = 0 /\ since = 0 /\ own = 0
  /\ IF part = "organisation" THEN OR!OrganisationInit
     ELSE node = 0 /\ edges = 0 /\ request = 0 /\ begun = 0 /\ failures = 0 /\
          asked = 0 /\ overlap = 0 /\ degraded = 0 /\ spread = 0
  /\ IF part = "goals" THEN SG!SessionGoalsInit
     ELSE goals = 0 /\ graph = 0 /\ task = 0 /\ hold = 0 /\ glitches = 0 /\
          expected = 0 /\ byRuntime = 0 /\ stale = 0 /\ raced = 0
  /\ IF part = "uses" THEN UC!UseCountsInit
     ELSE fact = 0 /\ snapshot = 0 /\ writer = 0 /\ pass = 0 /\ uses = 0 /\ runs
          = 0 /\ faults = 0 /\ proved = 0 /\ punished = 0 /\ overtaken = 0 /\
          unscanned = 0
  /\ IF part = "artifacts" THEN AR!ArtifactsInit
     ELSE said = 0 /\ hash = 0 /\ timed = 0 /\ issued = 0 /\ batch = 0 /\ search
          = 0 /\ assembly = 0 /\ prompt = 0 /\ overlay = 0 /\ losses = 0 /\ gone
          = 0
  /\ IF part = "hitl" THEN HI!HitlInit
     ELSE status = 0 /\ left = 0 /\ due = 0 /\ post = 0 /\ age = 0 /\ told = 0
          /\ call = 0 /\ heard = 0 /\ written = 0 /\ lapsed = 0 /\ troubles = 0
  /\ IF part = "recurrence" THEN RE!RecurrenceInit
     ELSE near = 0 /\ facts = 0 /\ run = 0 /\ loads = 0 /\ slips = 0
  /\ IF part = "plugins" THEN PL!PluginsInit
     ELSE engine = 0 /\ hooks = 0 /\ buffer = 0 /\ lastTurn = 0 /\ reported = 0 /\
          turn = 0 /\ flow = 0 /\ closing = 0 /\ letter = 0 /\ lapses = 0 /\
          crossed = 0 /\ overlapping = 0
  /\ IF part = "workingset" THEN WS!Init
     ELSE standing = 0 /\ memory = 0 /\ redis = 0 /\ build = 0 /\ misses = 0 /\
          changes = 0

compactionVars == <<messages, compact, state, mishaps>>
profilesVars == <<table, cache, resolve, writing, clock, writes, lookups, since,
  own>>
organisationVars == <<node, edges, request, begun, failures, asked, overlap,
  degraded, spread>>
goalsVars == <<goals, graph, task, hold, glitches, expected, byRuntime, stale,
  raced>>
usesVars == <<fact, snapshot, writer, pass, uses, runs, faults, proved,
  punished, overtaken, unscanned>>
artifactsVars == <<said, hash, timed, issued, batch, search, assembly, prompt,
  overlay, losses, gone>>
hitlVars == <<status, left, due, post, age, told, call, heard, written, lapsed,
  troubles>>
recurrenceVars == <<near, facts, run, loads, slips>>
pluginsVars == <<engine, hooks, buffer, lastTurn, reported, turn, flow, closing,
  letter, lapses, crossed, overlapping>>
workingSetVars == <<standing, memory, redis, build, misses, changes>>

\* The other parts stay as they are.
Others ==
  /\ UNCHANGED part
  /\ IF part = "compaction" THEN TRUE ELSE UNCHANGED compactionVars
  /\ IF part = "profiles" THEN TRUE ELSE UNCHANGED profilesVars
  /\ IF part = "organisation" THEN TRUE ELSE UNCHANGED organisationVars
  /\ IF part = "goals" THEN TRUE ELSE UNCHANGED goalsVars
  /\ IF part = "uses" THEN TRUE ELSE UNCHANGED usesVars
  /\ IF part = "artifacts" THEN TRUE ELSE UNCHANGED artifactsVars
  /\ IF part = "hitl" THEN TRUE ELSE UNCHANGED hitlVars
  /\ IF part = "recurrence" THEN TRUE ELSE UNCHANGED recurrenceVars
  /\ IF part = "plugins" THEN TRUE ELSE UNCHANGED pluginsVars
  /\ IF part = "workingset" THEN TRUE ELSE UNCHANGED workingSetVars

PartsNext ==
  \/ part = "compaction" /\ CO!CompactionNext /\ Others
  \/ part = "profiles" /\ PR!ProfilesNext /\ Others
  \/ part = "organisation" /\ OR!OrganisationNext /\ Others
  \/ part = "goals" /\ SG!SessionGoalsNext /\ Others
  \/ part = "uses" /\ UC!UseCountsNext /\ Others
  \/ part = "artifacts" /\ AR!ArtifactsNext /\ Others
  \/ part = "hitl" /\ HI!HitlNext /\ Others
  \/ part = "recurrence" /\ RE!RecurrenceNext /\ Others
  \/ part = "plugins" /\ PL!PluginsNext /\ Others
  \/ part = "workingset" /\ WS!Next /\ Others

allVars == <<part, compactionVars, profilesVars, organisationVars, goalsVars,
             usesVars, artifactsVars, hitlVars, recurrenceVars,
             pluginsVars, workingSetVars>>
PartsSpec == PartsInit /\ [][PartsNext]_allVars

------------------------------------------------------------------------------
\* The properties of each part, as its module states and explains them.
NothingNeededLost == part = "compaction" => CO!NothingNeededLost
OverridesServed == part = "profiles" => PR!OverridesServed
MembershipAgrees == part = "organisation" => OR!MembershipAgrees
GoalListSound == part = "goals" => SG!GoalListSound
UseRewarded == part = "uses" => UC!UseRewarded
OutputReachable == part = "artifacts" => AR!OutputReachable
AnswersAreTrue == part = "hitl" => HI!AnswersAreTrue
CallbackFindsRequest == part = "hitl" => HI!CallbackFindsRequest
ClustersAreLinked == part = "recurrence" => RE!ClustersAreLinked
PluginsServe == part = "plugins" => PL!PluginsServe
NoGhostFacts == part = "workingset" => WS!NoGhostFacts
OverspendOnlyByMust == part = "workingset" => WS!OverspendOnlyByMust
ConstraintLostOnlyToBetter == part = "workingset" => WS!ConstraintLostOnlyToBetter
OverlayIsOfThisTurn == part = "workingset" => WS!OverlayIsOfThisTurn
ChangesJustified == [][part = "recurrence" => RE!ChangesJustified]_recurrenceVars
=============================================================================
