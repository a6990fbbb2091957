------------------------ MODULE GuardPipelineProofs ------------------------
(***************************************************************************)
(* GuardPipeline is type correct, and an action goes ahead only when the   *)
(* rules in force at its check let it, for all policies, actions and any   *)
(* number of concurrent checks.                                            *)
(*                                                                         *)
(* The invariant says at each point where a check may wait what its layers *)
(* have established so far (Sound).  One lemma per operator After...       *)
(* follows the check from there to its next await.                         *)
(*                                                                         *)
(* The second part is about checks that come one after the other, with the *)
(* second invariant Serial: warnings escalate at the threshold, and what   *)
(* is stopped before the LLM is in the constraints the agent is told.      *)
(***************************************************************************)
EXTENDS GuardPipeline, SequenceTheorems, FiniteSetTheorems, TLAPS

------------------------------------------------------------------------------
(* Outcomes and policies.                                                  *)

LEMMA SeverityValues ==
  /\ Severity["pass"] = 0 /\ Severity["inform"] = 1 /\ Severity["warn"] = 2
  /\ Severity["require_evidence"] = 3 /\ Severity["require_approval"] = 4
  /\ Severity["block"] = 5
  BY DEF Severity, Outcomes

LEMMA MaxOutcomeLemma ==
  ASSUME NEW a \in Outcomes, NEW b \in Outcomes
  PROVE  /\ max_outcome(a, b) \in Outcomes
         /\ b \in Enforcing => max_outcome(a, b) \in Enforcing
  BY SeverityValues DEF max_outcome, Outcomes, Enforcing

\* The severest of several outcomes exists.
LEMMA WorstLemma ==
  ASSUME NEW S \in SUBSET Outcomes, S # {}
  PROVE  /\ Worst(S) \in S
         /\ S \cap Enforcing # {} => Worst(S) \in Enforcing
<1>1. \E o \in S : \A p \in S : Severity[o] >= Severity[p]
  <2>1. CASE "block" \in S
    BY <2>1, SeverityValues DEF Outcomes
  <2>2. CASE "block" \notin S /\ "require_approval" \in S
    BY <2>2, SeverityValues DEF Outcomes
  <2>3. CASE {"block", "require_approval"} \cap S = {} /\ "require_evidence" \in S
    BY <2>3, SeverityValues DEF Outcomes
  <2>4. CASE Enforcing \cap S = {} /\ "warn" \in S
    BY <2>4, SeverityValues DEF Outcomes, Enforcing
  <2>5. CASE Elevated \cap S = {} /\ "inform" \in S
    BY <2>5, SeverityValues DEF Outcomes, Enforcing, Elevated
  <2>6. CASE (Elevated \cup {"inform"}) \cap S = {}
    <3>1. \A p \in S : p = "pass"
      BY <2>6 DEF Outcomes, Enforcing, Elevated
    <3>2. "pass" \in S
      BY <3>1
    <3>. QED BY <3>1, <3>2, SeverityValues
  <2>. QED BY <2>1, <2>2, <2>3, <2>4, <2>5, <2>6 DEF Elevated, Enforcing
<1>2. Worst(S) \in S /\ \A p \in S : Severity[Worst(S)] >= Severity[p]
  BY <1>1 DEF Worst
<1>3. ASSUME NEW p \in S, p \in Enforcing
      PROVE  Worst(S) \in Enforcing
  <2>1. Severity[p] >= 3 /\ Severity[Worst(S)] >= Severity[p]
    BY <1>2, <1>3, SeverityValues DEF Enforcing
  <2>2. Worst(S) \in Outcomes
    BY <1>2
  <2>3. \A o \in Outcomes \ Enforcing : Severity[o] \in {0, 1, 2}
    BY SeverityValues DEF Outcomes, Enforcing
  <2>4. Severity[p] \in {3, 4, 5}
    BY <1>3, SeverityValues DEF Enforcing
  <2>5. CASE Worst(S) \notin Enforcing
    <3>. DEFINE n == Severity[Worst(S)]
    <3>1. n \in {0, 1, 2}
      BY <2>2, <2>3, <2>5
    <3>. QED BY <3>1, <2>1, <2>4
  <2>. QED BY <2>5
<1>. QED BY <1>2, <1>3

LEMMA PolicyFields ==
  ASSUME NEW p \in Policies
  PROVE  /\ p.rules \in [Actions -> SUBSET Outcomes]
         /\ p.exemplars \in Seq(SUBSET Actions)
         /\ p.validator \in [Actions -> Outcomes \cup {None, "error"}]
         /\ p.upgrade \in Outcomes \cup {None}
         /\ p.llm \in BOOLEAN
  BY ConstantsAssumption DEF Policy

\* A definitive static rule is enforced, and enforcing rules are definitive.
LEMMA Layer1Lemma ==
  ASSUME NEW p \in Policies, NEW a \in Actions
  PROVE  /\ Layer1(p, a).outcome \in Outcomes
         /\ Layer1(p, a).definitive \in BOOLEAN
         /\ Layer1(p, a).definitive => Layer1(p, a).outcome \in Enforcing
         /\ p.rules[a] \cap Enforcing # {} => Layer1(p, a).definitive
<1>. DEFINE S        == p.rules[a]
            worst    == IF S = {} THEN "pass" ELSE Worst(S)
            upgraded == IF p.upgrade = None THEN "warn" ELSE p.upgrade
<1>1. S \in SUBSET Outcomes /\ upgraded \in Outcomes
  BY PolicyFields DEF Outcomes
<1>2. worst \in Outcomes /\ (S \cap Enforcing # {} => worst \in Enforcing)
  BY <1>1, WorstLemma DEF Outcomes
<1>3. CASE worst \in Enforcing
  <2>1. Layer1(p, a) = [outcome |-> worst, definitive |-> TRUE]
    BY <1>3 DEF Layer1, Enforcing
  <2>. QED BY <2>1, <1>2, <1>3
<1>4. CASE worst = "warn"
  <2>. DEFINE d == upgraded \in {"block", "require_approval"}
  <2>1. Layer1(p, a) = [outcome |-> upgraded, definitive |-> d]
    BY <1>4 DEF Layer1, Enforcing
  <2>2. worst \notin Enforcing
    BY <1>4 DEF Enforcing
  <2>3. d \in BOOLEAN /\ (d => upgraded \in Enforcing)
    BY DEF Enforcing
  <2>. HIDE DEF d, upgraded, worst
  <2>. QED BY <2>1, <2>2, <2>3, <1>1, <1>2
<1>5. CASE worst \notin Enforcing /\ worst # "warn"
  <2>1. Layer1(p, a) = [outcome |-> "pass", definitive |-> FALSE]
    BY <1>5 DEF Layer1
  <2>. QED BY <2>1, <1>2, <1>5 DEF Outcomes
<1>. QED BY <1>3, <1>4, <1>5

LEMMA Layer3Lemma ==
  ASSUME NEW p \in Policies, NEW a \in Actions
  PROVE  /\ Layer3(p, a) \in Outcomes \cup {None}
         /\ p.validator[a] \in Enforcing => Layer3(p, a) = p.validator[a]
  BY PolicyFields DEF Layer3, Enforcing, Outcomes
------------------------------------------------------------------------------
(* From one point of preflight_check to the next await.                    *)

\* Check t, which was at x, waits at a point where it is sound.
Reaches(t, x, p) ==
  /\ unstored' \in Seq(Event)
  /\ \E y \in TaskType :
       Become(t, y) /\ y.pc # "idle" /\ y.st = x.st /\ Sound(y, p)

LEMMA FinalizeLemma ==
  ASSUME NEW t \in Tasks, NEW x \in TaskType, NEW safety \in Outcomes,
         x.action \in Actions, PolicyOf(x) \in Policies, unstored \in Seq(Event),
         safety \notin Enforcing =>
           x.answer \notin Enforcing /\ (x.ruled \/ ~Forbidden(x, PolicyOf(x))),
         Finalize(t, x, safety)
  PROVE  Reaches(t, x, PolicyOf(x))
<1>. DEFINE o == max_outcome(x.floor, safety)
            y == [x EXCEPT !.pc = "done", !.outcome = o, !.seen = @ \cap {o},
                           !.floor = "pass", !.verdict = None]
            e == [warn    |-> o = "warn",
                  unasked |-> o = "warn" /\ x.answer = None /\ PolicyOf(x).llm]
<1>1. o \in Outcomes /\ (safety \in Enforcing => o \in Enforcing)
  BY MaxOutcomeLemma DEF TaskType
<1>2. y \in TaskType
  BY <1>1 DEF TaskType, PCs, Outcomes
<1>3. y.pc = "done" /\ y.outcome = o /\ y.st = x.st /\ y.action = x.action
        /\ y.ruled = x.ruled /\ y.answer = x.answer
  BY DEF TaskType
<1>4. Sound(y, PolicyOf(x))
  <2>. HIDE DEF y, o
  <2>. QED BY <1>1, <1>3 DEF Sound, Proceeds, Forbidden
<1>5. e \in Event
  BY PolicyFields DEF Event
<1>6. Become(t, y) /\ unstored' = Append(unstored, e)
  BY DEF Finalize
<1>7. unstored' \in Seq(Event)
  <2>. HIDE DEF e
  <2>. QED BY <1>5, <1>6, AppendProperties
<1>. QED BY <1>2, <1>3, <1>4, <1>6, <1>7 DEF Reaches

\* A check that goes on to wait at pc.
LEMMA WaitLemma ==
  ASSUME NEW t \in Tasks, NEW x \in TaskType, NEW pc \in PCs, pc # "idle",
         unstored \in Seq(Event), UNCHANGED unstored,
         Become(t, [x EXCEPT !.pc = pc]),
         Sound([x EXCEPT !.pc = pc], PolicyOf(x))
  PROVE  Reaches(t, x, PolicyOf(x))
<1>1. [x EXCEPT !.pc = pc] \in TaskType /\ [x EXCEPT !.pc = pc].pc = pc
        /\ [x EXCEPT !.pc = pc].st = x.st
  BY DEF TaskType
<1>. QED BY <1>1 DEF Reaches

\* The fields but pc are those of x.
LEMMA MoveFields ==
  ASSUME NEW x \in TaskType, NEW pc \in PCs
  PROVE  LET y == [x EXCEPT !.pc = pc] IN
         /\ y.pc = pc /\ y.action = x.action /\ y.ruled = x.ruled
         /\ y.verdict = x.verdict /\ y.answer = x.answer /\ y.st = x.st
  BY DEF TaskType

LEMMA ConcludeLemma ==
  ASSUME NEW t \in Tasks, NEW x \in TaskType, PolicyOf(x) \in Policies,
         unstored \in Seq(Event), Judged(x, PolicyOf(x)),
         x.answer \in Enforcing => x.verdict \in Enforcing,
         Conclude(t, x)
  PROVE  Reaches(t, x, PolicyOf(x))
<1>1. CASE x.verdict = "warn"
  <2>. DEFINE y == [x EXCEPT !.pc = "count"]
  <2>1. y.pc = "count" /\ y.action = x.action /\ y.ruled = x.ruled
          /\ y.verdict = x.verdict /\ y.answer = x.answer
    BY MoveFields DEF PCs
  <2>2. Sound(y, PolicyOf(x))
    <3>. HIDE DEF y
    <3>. QED BY <1>1, <2>1 DEF Sound, Judged, Forbidden, Proceeds, Enforcing
  <2>3. Become(t, y) /\ UNCHANGED unstored
    BY <1>1 DEF Conclude
  <2>. QED BY <2>2, <2>3, WaitLemma DEF PCs
<1>2. CASE x.verdict # "warn"
  <2>. DEFINE s == IF x.verdict = None THEN "pass" ELSE x.verdict
  <2>1. s \in Outcomes /\ (s \notin Enforcing => x.verdict \notin Enforcing)
    BY ConstantsAssumption DEF TaskType, Outcomes, Enforcing
  <2>2. Finalize(t, x, s)
    BY <1>2 DEF Conclude
  <2>. HIDE DEF s
  <2>. QED BY <2>1, <2>2, FinalizeLemma DEF Judged
<1>. QED BY <1>1, <1>2

LEMMA AfterLayer4Lemma ==
  ASSUME NEW t \in Tasks, NEW x \in TaskType, PolicyOf(x) \in Policies,
         unstored \in Seq(Event), Judged(x, PolicyOf(x)), x.answer = None,
         AfterLayer4(t, x)
  PROVE  Reaches(t, x, PolicyOf(x))
<1>1. x.answer \notin Enforcing
  BY ConstantsAssumption DEF Enforcing, Outcomes
<1>2. CASE x.verdict = None /\ PolicyOf(x).llm
  <2>. DEFINE y == [x EXCEPT !.pc = "layer5"]
  <2>1. y.pc = "layer5" /\ y.action = x.action /\ y.ruled = x.ruled
          /\ y.verdict = x.verdict /\ y.answer = x.answer
    BY MoveFields DEF PCs
  <2>2. Sound(y, PolicyOf(x))
    <3>. HIDE DEF y
    <3>. QED BY <1>2, <2>1 DEF Sound, Judged, Forbidden, Proceeds
  <2>3. Become(t, y) /\ UNCHANGED unstored
    BY <1>2 DEF AfterLayer4
  <2>. QED BY <2>2, <2>3, WaitLemma DEF PCs
<1>3. CASE ~(x.verdict = None /\ PolicyOf(x).llm)
  BY <1>1, <1>3, ConcludeLemma DEF AfterLayer4
<1>. QED BY <1>2, <1>3

LEMMA AfterLayer3Lemma ==
  ASSUME NEW t \in Tasks, NEW x \in TaskType, PolicyOf(x) \in Policies,
         unstored \in Seq(Event), Judged(x, PolicyOf(x)), x.answer = None,
         AfterLayer3(t, x)
  PROVE  Reaches(t, x, PolicyOf(x))
<1>1. CASE ShouldReinject(PolicyOf(x), x.seen)
  <2>. DEFINE y == [x EXCEPT !.pc = "reinject"]
  <2>1. y.pc = "reinject" /\ y.action = x.action /\ y.ruled = x.ruled
          /\ y.verdict = x.verdict /\ y.answer = x.answer
    BY MoveFields DEF PCs
  <2>2. Sound(y, PolicyOf(x))
    <3>. HIDE DEF y
    <3>. QED BY <2>1 DEF Sound, Judged, Forbidden, Proceeds
  <2>3. Become(t, y) /\ UNCHANGED unstored
    BY <1>1 DEF AfterLayer3
  <2>. QED BY <2>2, <2>3, WaitLemma DEF PCs
<1>2. CASE ~ShouldReinject(PolicyOf(x), x.seen)
  BY <1>2, AfterLayer4Lemma DEF AfterLayer3
<1>. QED BY <1>1, <1>2

\* A layer's answer changes what was seen and, if definitive, the verdict.
LEMMA HeardFields ==
  ASSUME NEW x \in TaskType, NEW o \in Outcomes, NEW d \in BOOLEAN
  PROVE  LET y == Heard(x, o, d) IN
         /\ y \in TaskType
         /\ y.verdict = IF d THEN o ELSE x.verdict
         /\ y.pc = x.pc /\ y.action = x.action /\ y.st = x.st
         /\ y.ruled = x.ruled /\ y.answer = x.answer
  BY DEF Heard, TaskType

\* Layer 3 is asked when no layer before it was definitive.
LEMMA AfterLayer2Lemma ==
  ASSUME NEW t \in Tasks, NEW x \in TaskType, PolicyOf(x) \in Policies,
         unstored \in Seq(Event), x.action \in Actions, x.answer = None,
         ~x.ruled, x.verdict \in Enforcing \cup {None},
         PolicyOf(x).rules[x.action] \cap Enforcing # {} => x.verdict \in Enforcing,
         LexicalBlock(PolicyOf(x), x.action) => x.verdict \in Enforcing,
         AfterLayer2(t, x)
  PROVE  Reaches(t, x, PolicyOf(x))
<1>. DEFINE p == PolicyOf(x)
            o == Layer3(p, x.action)
<1>0. None \notin Enforcing
  BY ConstantsAssumption DEF Enforcing, Outcomes
<1>1. CASE x.verdict # None \/ o = None
  <2>1. Judged(x, p)
    BY <1>0, <1>1, Layer3Lemma DEF Judged, Forbidden
  <2>2. AfterLayer3(t, x)
    BY <1>1 DEF AfterLayer2
  <2>. QED BY <2>1, <2>2, AfterLayer3Lemma
<1>2. CASE x.verdict = None /\ o # None
  <2>. DEFINE y == Heard(x, o, TRUE)
  <2>1. o \in Outcomes /\ (p.validator[x.action] \in Enforcing => o \in Enforcing)
    BY <1>2, Layer3Lemma
  <2>2. /\ y \in TaskType /\ y.verdict = o /\ y.action = x.action
        /\ y.st = x.st /\ y.ruled = x.ruled /\ y.answer = x.answer
    <3>. HIDE DEF o
    <3>. QED BY <2>1, HeardFields
  <2>3. AfterLayer3(t, y)
    BY <1>2 DEF AfterLayer2
  <2>. HIDE DEF y, o
  <2>4. PolicyOf(y) = p
    BY <2>2 DEF PolicyOf
  <2>. HIDE DEF p
  <2>5. Judged(y, p)
    BY <1>0, <1>2, <2>1, <2>2 DEF Judged, Forbidden, p
  <2>6. Reaches(t, y, p)
    BY <2>2, <2>3, <2>4, <2>5, AfterLayer3Lemma DEF p
  <2>. QED BY <2>2, <2>6 DEF Reaches, p
<1>. QED BY <1>1, <1>2

\* Layer 2 is asked when layer 1 was not definitive.
LEMMA AfterLayer1Lemma ==
  ASSUME NEW t \in Tasks, NEW x \in TaskType, PolicyOf(x) \in Policies,
         unstored \in Seq(Event), x.action \in Actions, x.answer = None,
         ~x.ruled, x.verdict \in Enforcing \cup {None},
         PolicyOf(x).rules[x.action] \cap Enforcing # {} => x.verdict \in Enforcing,
         AfterLayer1(t, x)
  PROVE  Reaches(t, x, PolicyOf(x))
<1>. DEFINE p == PolicyOf(x)
<1>0. None \notin Enforcing
  BY ConstantsAssumption DEF Enforcing, Outcomes
<1>1. CASE x.verdict # None \/ p.exemplars = <<>>
  <2>1. AfterLayer2(t, x)
    BY <1>1 DEF AfterLayer1, LexicalBlock
  <2>. QED BY <1>1, <2>1, AfterLayer2Lemma DEF LexicalBlock
<1>2. CASE x.verdict = None /\ LexicalBlock(p, x.action)
  <2>. DEFINE y == Heard(x, "block", TRUE)
  <2>1. /\ y \in TaskType /\ y.verdict = "block" /\ y.action = x.action
        /\ y.st = x.st /\ y.ruled = x.ruled /\ y.answer = x.answer
    BY HeardFields DEF Outcomes
  <2>2. AfterLayer2(t, y)
    BY <1>2 DEF AfterLayer1, LexicalBlock
  <2>. HIDE DEF y
  <2>3. PolicyOf(y) = p
    BY <2>1 DEF PolicyOf
  <2>. HIDE DEF p
  <2>4. Reaches(t, y, p)
    BY <2>1, <2>2, <2>3, AfterLayer2Lemma DEF Enforcing, p
  <2>. QED BY <2>1, <2>4 DEF Reaches, p
<1>3. CASE x.verdict = None /\ p.exemplars # <<>> /\ ~LexicalBlock(p, x.action)
  <2>. DEFINE y == [x EXCEPT !.pc = "embed"]
  <2>1. Become(t, y) /\ UNCHANGED unstored
    BY <1>3 DEF AfterLayer1
  <2>2. /\ y.pc = "embed" /\ y.action = x.action /\ y.ruled = x.ruled
        /\ y.verdict = x.verdict /\ y.answer = x.answer
    BY MoveFields DEF PCs
  <2>3. Sound(y, p)
    <3>. HIDE DEF y
    <3>. QED BY <1>0, <1>3, <2>2 DEF Sound, Proceeds
  <2>. QED BY <2>1, <2>3, WaitLemma DEF PCs
<1>. QED BY <1>1, <1>2, <1>3

\* A check that waits for an embedding: nothing before forbids its action.
LEMMA AfterEmbeddingLemma ==
  ASSUME NEW t \in Tasks, NEW x \in TaskType, PolicyOf(x) \in Policies,
         unstored \in Seq(Event), x.action \in Actions, x.answer = None,
         ~x.ruled, x.verdict = None,
         PolicyOf(x).rules[x.action] \cap Enforcing = {},
         ~LexicalBlock(PolicyOf(x), x.action)
  PROVE  /\ AfterLayer2(t, x) => Reaches(t, x, PolicyOf(x))
         /\ \A embedded : AfterSimilarity(t, x, embedded) => Reaches(t, x, PolicyOf(x))
<1>1. AfterLayer2(t, x) => Reaches(t, x, PolicyOf(x))
  BY AfterLayer2Lemma
<1>2. ASSUME NEW embedded, AfterSimilarity(t, x, embedded)
      PROVE  Reaches(t, x, PolicyOf(x))
  <2>. DEFINE y == [x EXCEPT !.compared = TRUE]
              z == IF Similar(x, embedded) THEN Heard(y, "block", TRUE) ELSE y
  <2>1. /\ y \in TaskType /\ y.verdict = None /\ y.action = x.action
        /\ y.st = x.st /\ y.ruled = x.ruled /\ y.answer = x.answer
    BY DEF TaskType
  <2>2. /\ z \in TaskType /\ z.verdict \in {None, "block"} /\ z.action = x.action
        /\ z.st = x.st /\ z.ruled = x.ruled /\ z.answer = x.answer
    <3>1. CASE Similar(x, embedded)
      <4>1. z = Heard(y, "block", TRUE)
        BY <3>1
      <4>. HIDE DEF y, z
      <4>. QED BY <2>1, <4>1, HeardFields DEF Outcomes
    <3>2. CASE ~Similar(x, embedded)
      BY <2>1, <3>2
    <3>. QED BY <3>1, <3>2
  <2>3. AfterLayer2(t, z)
    BY <1>2 DEF AfterSimilarity
  <2>. HIDE DEF y, z
  <2>4. PolicyOf(z) = PolicyOf(x)
    BY <2>2 DEF PolicyOf
  <2>5. z.verdict \in Enforcing \cup {None}
    BY <2>2 DEF Enforcing
  <2>6. Reaches(t, z, PolicyOf(z))
    BY <2>2, <2>3, <2>4, <2>5, AfterLayer2Lemma
  <2>. QED BY <2>2, <2>4, <2>6 DEF Reaches
<1>. QED BY <1>1, <1>2
------------------------------------------------------------------------------
(* The steps.                                                              *)

\* The states stay, with their policies, and more may come.
Keeps ==
  /\ states' \in Seq(State)
  /\ \A i \in DOMAIN states : i \in DOMAIN states' /\ states'[i].policy = states[i].policy

LEMMA StateFields ==
  ASSUME TypeOK, NEW i \in DOMAIN states
  PROVE  states[i].policy \in Policies /\ states[i].embedded \in Seq(Nat)
<1>1. states[i] \in State
  BY DEF TypeOK
<1>. QED BY <1>1 DEF State

LEMMA NonEmpty ==
  ASSUME TypeOK, states # <<>>
  PROVE  Len(states) \in DOMAIN states /\ Len(states) \in Nat
  BY DEF TypeOK

LEMMA KeepsSame ==
  ASSUME TypeOK, UNCHANGED states
  PROVE  Keeps
  BY DEF Keeps, TypeOK

\* A step of one check that reaches its next await keeps the invariant.
LEMMA CheckMoves ==
  ASSUME IInv, NEW t \in Tasks, Keeps, history' = history,
         disturbed' \in BOOLEAN, constraints' \subseteq Actions \X Enforcing,
         NEW x \in TaskType, x.st \in DOMAIN states, Reaches(t, x, PolicyOf(x))
  PROVE  IInv'
<1>1. PICK y \in TaskType :
        Become(t, y) /\ y.pc # "idle" /\ y.st = x.st /\ Sound(y, PolicyOf(x))
  BY DEF Reaches
<1>2. task \in [Tasks -> TaskType] /\ states # <<>> /\ history \in Seq(Event)
  BY DEF IInv, TypeOK
<1>3. task' = [task EXCEPT ![t] = y]
  BY <1>1 DEF Become
<1>4. TypeOK'
  BY <1>1, <1>2, <1>3 DEF TypeOK, Keeps, Reaches
<1>5. states' # <<>>
  BY <1>2, NonEmpty DEF Keeps, IInv
<1>6. ASSUME NEW u \in Tasks, task'[u].pc # "idle"
      PROVE  task'[u].st \in DOMAIN states' /\ Sound(task'[u], states'[task'[u].st].policy)
  <2>1. CASE u = t
    <3>1. task'[u] = y
      BY <1>2, <1>3, <2>1
    <3>. QED BY <1>1, <3>1 DEF Keeps, PolicyOf
  <2>2. CASE u # t
    <3>1. task'[u] = task[u]
      BY <1>2, <1>3, <2>2
    <3>2. task[u].st \in DOMAIN states /\ Sound(task[u], states[task[u].st].policy)
      BY <1>6, <3>1 DEF IInv, PolicyOf
    <3>. QED BY <3>1, <3>2 DEF Keeps
  <2>. QED BY <2>1, <2>2
<1>. QED BY <1>4, <1>5, <1>6 DEF IInv, PolicyOf

\* A step of no check keeps the invariant.
LEMMA EngineMoves ==
  ASSUME IInv, Keeps, UNCHANGED task, history' \in Seq(Event),
         unstored' \in Seq(Event), disturbed' \in BOOLEAN,
         constraints' \subseteq Actions \X Enforcing
  PROVE  IInv'
<1>1. TypeOK'
  BY DEF IInv, TypeOK, Keeps
<1>2. states' # <<>>
  BY NonEmpty DEF Keeps, IInv
<1>3. ASSUME NEW u \in Tasks, task'[u].pc # "idle"
      PROVE  task'[u].st \in DOMAIN states' /\ Sound(task'[u], states'[task'[u].st].policy)
  <2>1. task[u].st \in DOMAIN states /\ Sound(task[u], states[task[u].st].policy)
    BY <1>3 DEF IInv, PolicyOf
  <2>. QED BY <2>1 DEF Keeps
<1>. QED BY <1>1, <1>2, <1>3 DEF IInv, PolicyOf

\* What the steps use of the invariant.
LEMMA InFlight ==
  ASSUME IInv, NEW t \in Tasks, task[t].pc # "idle"
  PROVE  /\ task[t] \in TaskType /\ task[t].st \in DOMAIN states
         /\ PolicyOf(task[t]) \in Policies /\ Sound(task[t], PolicyOf(task[t]))
         /\ unstored \in Seq(Event)
<1>1. task[t] \in TaskType /\ task[t].st \in DOMAIN states
        /\ Sound(task[t], PolicyOf(task[t])) /\ unstored \in Seq(Event) /\ TypeOK
  BY DEF IInv, TypeOK
<1>. QED BY <1>1, StateFields DEF PolicyOf

\* A step that goes on from x, which is the check or the check with some fields
\* changed, and leaves the engine's state alone but for the constraints.
LEMMA OnlyCheckMoves ==
  ASSUME IInv, NEW t \in Tasks, task[t].pc # "idle", NEW x \in TaskType,
         x.st = task[t].st, UNCHANGED <<states, history, disturbed>>,
         constraints' \subseteq Actions \X Enforcing,
         Reaches(t, x, PolicyOf(x))
  PROVE  IInv'
<1>1. Keeps /\ disturbed' \in BOOLEAN
  BY KeepsSame DEF IInv, TypeOK
<1>2. x.st \in DOMAIN states
  BY InFlight
<1>. QED BY <1>1, <1>2, CheckMoves

LEMMA StartCheckStep ==
  ASSUME IInv, NEW t \in Tasks, NEW a \in Actions, StartCheck(t, a)
  PROVE  IInv'
<1>. DEFINE x == [Idle EXCEPT !.pc = "layer0", !.action = a, !.st = Len(states)]
<1>1. TypeOK /\ states # <<>>
  BY DEF IInv
<1>2. Len(states) \in DOMAIN states /\ Len(states) \in Nat
  BY <1>1, NonEmpty
<1>3. /\ x.pc = "layer0" /\ x.action = a /\ x.st = Len(states)
      /\ x.answer = None /\ x.verdict = None
  BY DEF Idle
<1>4. x \in TaskType
  BY <1>2 DEF Idle, TaskType, PCs, Outcomes
<1>5. Become(t, x) /\ UNCHANGED <<states, constraints, history, unstored>>
        /\ disturbed' \in BOOLEAN
  BY <1>1 DEF StartCheck, TypeOK
<1>. HIDE DEF x
<1>6. Sound(x, PolicyOf(x))
  BY <1>3 DEF Sound, Proceeds
<1>7. Reaches(t, x, PolicyOf(x))
  BY <1>1, <1>3, <1>4, <1>5, <1>6 DEF Reaches, TypeOK
<1>8. Keeps /\ constraints' \subseteq Actions \X Enforcing
  BY <1>1, <1>5, KeepsSame DEF TypeOK
<1>. QED BY <1>2, <1>3, <1>4, <1>5, <1>7, <1>8, CheckMoves

LEMMA Layer0Step ==
  ASSUME IInv, NEW t \in Tasks, Layer0(t)
  PROVE  IInv'
<1>1. task[t].pc = "layer0"
  BY DEF Layer0
<1>2. /\ task[t] \in TaskType /\ PolicyOf(task[t]) \in Policies
      /\ task[t].action \in Actions /\ task[t].answer = None /\ task[t].verdict = None
      /\ unstored \in Seq(Event)
  BY <1>1, InFlight DEF Sound
<1>3. PICK answer \in Layer0Answers :
        LET y == [task[t] EXCEPT !.floor = answer[1]]
            x == [Heard(y, answer[1], answer[2]) EXCEPT !.ruled = answer[2]]
            l == Layer1(PolicyOf(x), x.action) IN
        IF x.ruled
        THEN IF answer[1] = "block" THEN Finalize(t, x, "block") ELSE AfterLayer3(t, x)
        ELSE AfterLayer1(t, Heard(x, l.outcome, l.definitive))
  BY DEF Layer0
<1>. DEFINE floor == answer[1]
            d == answer[2]
            y == [task[t] EXCEPT !.floor = floor]
            h == Heard(y, floor, d)
            x == [h EXCEPT !.ruled = d]
            l == Layer1(PolicyOf(x), x.action)
            z == Heard(x, l.outcome, l.definitive)
<1>4. floor \in Outcomes /\ d \in BOOLEAN
  BY DEF Layer0Answers, Outcomes
<1>5. /\ y \in TaskType /\ y.st = task[t].st /\ y.action = task[t].action
      /\ y.answer = None /\ y.verdict = None
  BY <1>2, <1>4 DEF TaskType
<1>6. /\ h \in TaskType /\ h.st = task[t].st /\ h.action = task[t].action
      /\ h.answer = None /\ h.verdict = IF d THEN floor ELSE None
  <2>. HIDE DEF y, floor, d
  <2>. QED BY <1>4, <1>5, HeardFields
<1>7. /\ x \in TaskType /\ x.st = task[t].st /\ x.action \in Actions
      /\ x.answer = None /\ x.verdict = (IF d THEN floor ELSE None) /\ x.ruled = d
  <2>. HIDE DEF h, floor, d
  <2>. QED BY <1>2, <1>4, <1>6 DEF TaskType
<1>8. IF d THEN IF floor = "block" THEN Finalize(t, x, "block") ELSE AfterLayer3(t, x)
      ELSE AfterLayer1(t, z)
  <2>1. x.ruled = d
    BY <1>7
  <2>. QED BY <1>3, <2>1
<1>. HIDE DEF x, h, y, floor, d
<1>9. PolicyOf(x) = PolicyOf(task[t])
  BY <1>7 DEF PolicyOf
<1>10. constraints' \subseteq Actions \X Enforcing /\ UNCHANGED <<states, history, disturbed>>
  BY DEF Layer0, IInv, TypeOK
<1>11. CASE d /\ floor = "block"
  <2>1. Reaches(t, x, PolicyOf(x))
    BY <1>2, <1>7, <1>8, <1>9, <1>11, FinalizeLemma DEF Outcomes, Enforcing
  <2>. QED BY <1>1, <1>7, <1>10, <2>1, OnlyCheckMoves
<1>12. CASE d /\ floor # "block"
  <2>1. Judged(x, PolicyOf(x))
    BY <1>7, <1>12 DEF Judged
  <2>2. Reaches(t, x, PolicyOf(x))
    BY <1>2, <1>7, <1>8, <1>9, <1>12, <2>1, AfterLayer3Lemma
  <2>. QED BY <1>1, <1>7, <1>10, <2>2, OnlyCheckMoves
<1>13. CASE ~d
  <2>1. /\ l.outcome \in Outcomes /\ l.definitive \in BOOLEAN
        /\ l.definitive => l.outcome \in Enforcing
        /\ PolicyOf(x).rules[x.action] \cap Enforcing # {} => l.definitive
    BY <1>2, <1>7, <1>9, Layer1Lemma
  <2>. HIDE DEF l
  <2>2. /\ z \in TaskType /\ z.st = x.st /\ z.action = x.action /\ z.ruled = x.ruled
        /\ z.answer = x.answer
        /\ z.verdict = IF l.definitive THEN l.outcome ELSE x.verdict
    BY <1>7, <2>1, HeardFields
  <2>. HIDE DEF z
  <2>3. PolicyOf(z) = PolicyOf(x)
    BY <2>2 DEF PolicyOf
  <2>4. z.verdict \in Enforcing \cup {None}
    BY <1>7, <1>13, <2>1, <2>2
  <2>5. PolicyOf(z).rules[z.action] \cap Enforcing # {} => z.verdict \in Enforcing
    BY <2>1, <2>2, <2>3
  <2>6. Reaches(t, z, PolicyOf(z))
    BY <1>2, <1>7, <1>8, <1>9, <1>13, <2>2, <2>3, <2>4, <2>5, AfterLayer1Lemma
  <2>. QED BY <1>1, <1>7, <1>10, <2>2, <2>6, OnlyCheckMoves
<1>. QED BY <1>4, <1>11, <1>12, <1>13

\* The steps from a check that waits for an embedding.
LEMMA AtEmbedding ==
  ASSUME IInv, NEW t \in Tasks, task[t].pc \in {"embed", "exemplar"}
  PROVE  LET x == task[t] p == PolicyOf(x) IN
         /\ x \in TaskType /\ p \in Policies /\ unstored \in Seq(Event)
         /\ x.action \in Actions /\ x.answer = None /\ ~x.ruled /\ x.verdict = None
         /\ p.rules[x.action] \cap Enforcing = {} /\ ~LexicalBlock(p, x.action)
         /\ x.st \in DOMAIN states
  BY InFlight DEF Sound

\* Another exemplar is to be embedded.
LEMMA NextFields ==
  ASSUME NEW x \in TaskType, NEW n \in Nat
  PROVE  LET y == [x EXCEPT !.next = n] IN
         /\ y \in TaskType /\ y.pc = x.pc /\ y.action = x.action /\ y.st = x.st
         /\ y.ruled = x.ruled /\ y.verdict = x.verdict /\ y.answer = x.answer
  BY DEF TaskType

LEMMA WaitsForExemplar ==
  ASSUME IInv, NEW t \in Tasks, task[t].pc \in {"embed", "exemplar"}, NEW n \in Nat,
         UNCHANGED unstored, Become(t, [task[t] EXCEPT !.pc = "exemplar", !.next = n])
  PROVE  Reaches(t, task[t], PolicyOf(task[t]))
<1>. DEFINE x == task[t]
            z == [x EXCEPT !.next = n]
            y == [z EXCEPT !.pc = "exemplar"]
<1>1. y = [task[t] EXCEPT !.pc = "exemplar", !.next = n]
  BY AtEmbedding DEF TaskType
<1>2. /\ z \in TaskType /\ z.action = x.action /\ z.st = x.st
      /\ z.ruled = x.ruled /\ z.verdict = x.verdict /\ z.answer = x.answer
  BY AtEmbedding, NextFields
<1>. HIDE DEF z
<1>3. /\ y.pc = "exemplar" /\ y.action = z.action /\ y.st = z.st
      /\ y.ruled = z.ruled /\ y.verdict = z.verdict /\ y.answer = z.answer
  BY <1>2, MoveFields DEF PCs
<1>4. PolicyOf(z) = PolicyOf(x)
  BY <1>2 DEF PolicyOf
<1>5. Sound(y, PolicyOf(z))
  <2>. HIDE DEF y
  <2>. QED BY <1>2, <1>3, <1>4, AtEmbedding DEF Sound, Proceeds
<1>6. Reaches(t, z, PolicyOf(z))
  BY <1>1, <1>2, <1>5, AtEmbedding, WaitLemma DEF PCs
<1>. QED BY <1>2, <1>4, <1>6 DEF Reaches

LEMMA EmbedActionStep ==
  ASSUME IInv, NEW t \in Tasks, EmbedAction(t)
  PROVE  IInv'
<1>. DEFINE x == task[t]
<1>1. x.pc = "embed" /\ UNCHANGED <<states, constraints, history, disturbed>>
  BY DEF EmbedAction
<1>2. Reaches(t, x, PolicyOf(x))
  <2>1. CASE AfterLayer2(t, x)
    BY <1>1, <2>1, AtEmbedding, AfterEmbeddingLemma
  <2>2. CASE /\ Become(t, [x EXCEPT !.pc = "exemplar", !.next = 1])
             /\ UNCHANGED unstored
    BY <1>1, <2>2, WaitsForExemplar
  <2>3. CASE AfterSimilarity(t, x, states[x.st].embedded)
    BY <1>1, <2>3, AtEmbedding, AfterEmbeddingLemma
  <2>. QED BY <2>1, <2>2, <2>3 DEF EmbedAction
<1>3. constraints' \subseteq Actions \X Enforcing
  BY <1>1 DEF IInv, TypeOK
<1>. QED BY <1>1, <1>2, <1>3, AtEmbedding, OnlyCheckMoves

LEMMA EmbedExemplarFailsStep ==
  ASSUME IInv, NEW t \in Tasks, EmbedExemplarFails(t)
  PROVE  IInv'
<1>. DEFINE x == [task[t] EXCEPT !.next = 0]
<1>1. task[t].pc = "exemplar" /\ UNCHANGED <<states, constraints, history, disturbed>>
        /\ AfterLayer2(t, x)
  BY DEF EmbedExemplarFails
<1>2. /\ x \in TaskType /\ x.action = task[t].action /\ x.st = task[t].st
      /\ x.ruled = task[t].ruled /\ x.verdict = task[t].verdict /\ x.answer = task[t].answer
  BY <1>1, AtEmbedding, NextFields
<1>. HIDE DEF x
<1>3. PolicyOf(x) = PolicyOf(task[t])
  BY <1>2 DEF PolicyOf
<1>4. Reaches(t, x, PolicyOf(x))
  BY <1>1, <1>2, <1>3, AtEmbedding, AfterEmbeddingLemma
<1>5. constraints' \subseteq Actions \X Enforcing
  BY <1>1 DEF IInv, TypeOK
<1>. QED BY <1>1, <1>2, <1>4, <1>5, OnlyCheckMoves

LEMMA EmbedExemplarStep ==
  ASSUME IInv, NEW t \in Tasks, EmbedExemplar(t)
  PROVE  IInv'
<1>. DEFINE x   == task[t]
            all == Append(states[x.st].embedded, x.next)
            y   == [x EXCEPT !.next = 0]
<1>1. /\ x.pc = "exemplar" /\ UNCHANGED <<constraints, history, disturbed>>
      /\ states' = [states EXCEPT ![x.st].embedded = all]
  BY DEF EmbedExemplar
<1>2. /\ TypeOK /\ x \in TaskType /\ x.st \in DOMAIN states /\ x.next \in Nat
      /\ constraints' \subseteq Actions \X Enforcing /\ disturbed' \in BOOLEAN
      /\ unstored \in Seq(Event)
  BY <1>1, AtEmbedding DEF IInv, TypeOK, TaskType
<1>3. states[x.st].embedded \in Seq(Nat)
  BY <1>2, StateFields
<1>4. all \in Seq(Nat)
  BY <1>2, <1>3, AppendProperties
<1>5. Keeps
  <2>. HIDE DEF all, x
  <2>1. states \in Seq(State) /\ states[x.st] \in State
    BY <1>2 DEF TypeOK
  <2>. DEFINE s == [states[x.st] EXCEPT !.embedded = all]
  <2>2. s \in State /\ s.policy = states[x.st].policy
    BY <2>1, <1>4 DEF State
  <2>3. states' = [states EXCEPT ![x.st] = s]
    BY <1>1
  <2>. HIDE DEF s
  <2>4. states' \in Seq(State) /\ DOMAIN states' = DOMAIN states
    BY <1>2, <2>1, <2>2, <2>3
  <2>. QED BY <1>2, <2>1, <2>2, <2>3, <2>4 DEF Keeps
<1>6. \/ /\ Become(t, [x EXCEPT !.next = @ + 1])
         /\ UNCHANGED unstored
      \/ AfterSimilarity(t, y, all)
  BY DEF EmbedExemplar
<1>7. CASE Become(t, [x EXCEPT !.next = @ + 1]) /\ UNCHANGED unstored
  <2>1. [x EXCEPT !.next = @ + 1] = [x EXCEPT !.pc = "exemplar", !.next = x.next + 1]
    BY <1>1, <1>2 DEF TaskType
  <2>2. x.next + 1 \in Nat
    BY <1>2
  <2>3. Reaches(t, x, PolicyOf(x))
    BY <1>1, <1>7, <2>1, <2>2, WaitsForExemplar
  <2>. QED BY <1>1, <1>2, <1>5, <2>3, CheckMoves
<1>8. CASE AfterSimilarity(t, y, all)
  <2>1. /\ y \in TaskType /\ y.action = x.action /\ y.st = x.st
        /\ y.ruled = x.ruled /\ y.verdict = x.verdict /\ y.answer = x.answer
    BY <1>2, NextFields
  <2>. HIDE DEF y, all
  <2>2. PolicyOf(y) = PolicyOf(x)
    BY <2>1 DEF PolicyOf
  <2>3. Reaches(t, y, PolicyOf(y))
    BY <1>1, <1>8, <2>1, <2>2, AtEmbedding, AfterEmbeddingLemma
  <2>. QED BY <1>1, <1>2, <1>5, <2>1, <2>3, CheckMoves
<1>. QED BY <1>6, <1>7, <1>8

LEMMA ReinjectStep ==
  ASSUME IInv, NEW t \in Tasks, Reinject(t)
  PROVE  IInv'
<1>. DEFINE x == task[t]
<1>1. x.pc = "reinject" /\ UNCHANGED <<states, history, disturbed>> /\ AfterLayer4(t, x)
  BY DEF Reinject
<1>2. x \in TaskType /\ PolicyOf(x) \in Policies /\ unstored \in Seq(Event)
        /\ Judged(x, PolicyOf(x)) /\ x.answer = None /\ x.action \in Actions
  BY <1>1, InFlight DEF Sound
<1>3. constraints' \subseteq Actions \X Enforcing
  <2>1. constraints' = {x.action} \X (x.seen \cap Enforcing) \/ constraints' = constraints
    BY DEF Reinject
  <2>2. constraints \subseteq Actions \X Enforcing
    BY DEF IInv, TypeOK
  <2>. QED BY <1>2, <2>1, <2>2
<1>4. Reaches(t, x, PolicyOf(x))
  BY <1>1, <1>2, AfterLayer4Lemma
<1>. QED BY <1>1, <1>2, <1>3, <1>4, OnlyCheckMoves

LEMMA Layer5Step ==
  ASSUME IInv, NEW t \in Tasks, Layer5(t)
  PROVE  IInv'
<1>1. task[t].pc = "layer5" /\ UNCHANGED <<states, constraints, history, disturbed>>
  BY DEF Layer5
<1>2. task[t] \in TaskType /\ PolicyOf(task[t]) \in Policies /\ unstored \in Seq(Event)
        /\ Judged(task[t], PolicyOf(task[t])) /\ task[t].verdict = None
  BY <1>1, InFlight DEF Sound
<1>3. constraints' \subseteq Actions \X Enforcing
  BY <1>1 DEF IInv, TypeOK
<1>4. PICK o \in Verdicts : Conclude(t, [task[t] EXCEPT !.verdict = o, !.answer = o])
  BY DEF Layer5
<1>. DEFINE x == [task[t] EXCEPT !.verdict = o, !.answer = o]
<1>5. o \in Outcomes
  BY ConstantsAssumption
<1>6. /\ x \in TaskType /\ x.action = task[t].action /\ x.st = task[t].st
      /\ x.ruled = task[t].ruled /\ x.verdict = o /\ x.answer = o
  BY <1>2, <1>5 DEF TaskType
<1>. HIDE DEF x
<1>7. PolicyOf(x) = PolicyOf(task[t])
  BY <1>6 DEF PolicyOf
<1>8. Judged(x, PolicyOf(x))
  BY <1>2, <1>6, <1>7, ConstantsAssumption DEF Judged, Forbidden, Enforcing, Outcomes
<1>9. Reaches(t, x, PolicyOf(x))
  BY <1>2, <1>4, <1>6, <1>7, <1>8, ConcludeLemma DEF x
<1>. QED BY <1>1, <1>3, <1>6, <1>9, OnlyCheckMoves

LEMMA CountNearMissesStep ==
  ASSUME IInv, NEW t \in Tasks, CountNearMisses(t)
  PROVE  IInv'
<1>. DEFINE x == task[t]
            y == [x EXCEPT !.pc = "escalate"]
<1>1. x.pc = "count" /\ UNCHANGED <<states, constraints, history, disturbed>>
  BY DEF CountNearMisses
<1>2. /\ x \in TaskType /\ PolicyOf(x) \in Policies /\ unstored \in Seq(Event)
      /\ Judged(x, PolicyOf(x)) /\ x.verdict = "warn" /\ x.answer \notin Enforcing
      /\ x.action \in Actions
  BY <1>1, InFlight DEF Sound
<1>3. constraints' \subseteq Actions \X Enforcing
  BY <1>1 DEF IInv, TypeOK
<1>4. Reaches(t, x, PolicyOf(x))
  <2>1. CASE Become(t, y) /\ UNCHANGED unstored
    <3>1. y.pc = "escalate" /\ y.action = x.action /\ y.ruled = x.ruled
            /\ y.verdict = x.verdict /\ y.answer = x.answer
      BY <1>2, MoveFields DEF PCs
    <3>2. Sound(y, PolicyOf(x))
      <4>. HIDE DEF x, y
      <4>. QED BY <1>2, <3>1 DEF Sound, Judged, Forbidden, Proceeds
    <3>. QED BY <1>2, <2>1, <3>2, WaitLemma DEF PCs
  <2>2. CASE Finalize(t, x, "warn")
    <3>1. x.ruled \/ ~Forbidden(x, PolicyOf(x))
      BY <1>2 DEF Judged, Enforcing
    <3>. QED BY <1>2, <2>2, <3>1, FinalizeLemma DEF Outcomes
  <2>. QED BY <2>1, <2>2 DEF CountNearMisses
<1>. QED BY <1>1, <1>2, <1>3, <1>4, OnlyCheckMoves

LEMMA EscalateStep ==
  ASSUME IInv, NEW t \in Tasks, Escalate(t)
  PROVE  IInv'
<1>1. task[t].pc = "escalate" /\ UNCHANGED <<states, constraints, history, disturbed>>
  BY DEF Escalate
<1>2. /\ task[t] \in TaskType /\ PolicyOf(task[t]) \in Policies /\ unstored \in Seq(Event)
      /\ Judged(task[t], PolicyOf(task[t])) /\ task[t].verdict = "warn"
      /\ task[t].action \in Actions
  BY <1>1, InFlight DEF Sound
<1>3. constraints' \subseteq Actions \X Enforcing
  BY <1>1 DEF IInv, TypeOK
<1>4. PICK o \in Verdicts : Finalize(t, [task[t] EXCEPT !.answer = o], o)
  BY DEF Escalate
<1>. DEFINE x == [task[t] EXCEPT !.answer = o]
<1>5. o \in Outcomes
  BY ConstantsAssumption
<1>6. /\ x \in TaskType /\ x.action = task[t].action /\ x.st = task[t].st
      /\ x.ruled = task[t].ruled /\ x.answer = o
  BY <1>2, <1>5 DEF TaskType
<1>. HIDE DEF x
<1>7. PolicyOf(x) = PolicyOf(task[t])
  BY <1>6 DEF PolicyOf
<1>8. x.ruled \/ ~Forbidden(x, PolicyOf(x))
  BY <1>2, <1>6, <1>7 DEF Judged, Forbidden, Enforcing
<1>9. Reaches(t, x, PolicyOf(x))
  BY <1>2, <1>4, <1>5, <1>6, <1>7, <1>8, FinalizeLemma DEF x
<1>. QED BY <1>1, <1>3, <1>6, <1>9, OnlyCheckMoves

LEMMA ReturnStep ==
  ASSUME IInv, NEW t \in Tasks, Return(t)
  PROVE  IInv'
<1>1. task' = [task EXCEPT ![t] = Idle]
        /\ UNCHANGED <<states, constraints, history, unstored, disturbed>>
  BY DEF Return, Become
<1>2. Idle \in TaskType /\ Idle.pc = "idle"
  BY DEF Idle, TaskType, PCs, Outcomes
<1>3. TypeOK' /\ states' # <<>>
  BY <1>1, <1>2 DEF IInv, TypeOK
<1>4. ASSUME NEW u \in Tasks, task'[u].pc # "idle"
      PROVE  task'[u] = task[u]
  BY <1>1, <1>2, <1>4 DEF IInv, TypeOK
<1>5. ASSUME NEW u \in Tasks, task'[u].pc # "idle"
      PROVE  task'[u].st \in DOMAIN states' /\ Sound(task'[u], states'[task'[u].st].policy)
  BY <1>1, <1>4, <1>5 DEF IInv, PolicyOf
<1>. QED BY <1>3, <1>5 DEF IInv, PolicyOf

LEMMA StoreEventStep ==
  ASSUME IInv, StoreEvent
  PROVE  IInv'
<1>1. PICK i \in DOMAIN unstored :
        /\ history'  = SubSeq(<<unstored[i]>> \o history, 1,
                              IF Len(history) < MaxEvents THEN Len(history) + 1
                              ELSE MaxEvents)
        /\ unstored' = SubSeq(unstored, 1, i - 1)
                         \o SubSeq(unstored, i + 1, Len(unstored))
  BY DEF StoreEvent
<1>2. /\ unstored \in Seq(Event) /\ history \in Seq(Event)
      /\ UNCHANGED <<states, constraints, disturbed, task>>
      /\ disturbed \in BOOLEAN /\ constraints \subseteq Actions \X Enforcing
      /\ MaxEvents \in Nat \ {0}
  BY ConstantsAssumption DEF IInv, TypeOK, StoreEvent
<1>3. history' \in Seq(Event)
  <2>. DEFINE all == <<unstored[i]>> \o history
              n   == IF Len(history) < MaxEvents THEN Len(history) + 1 ELSE MaxEvents
  <2>1. all \in Seq(Event) /\ Len(all) = Len(history) + 1
    BY <1>2
  <2>2. n \in 1..Len(all)
    BY <1>2, <2>1
  <2>3. history' = SubSeq(all, 1, n)
    BY <1>1
  <2>. HIDE DEF all, n
  <2>. QED BY <2>1, <2>2, <2>3, SubSeqProperties
<1>4. unstored' \in Seq(Event)
  BY <1>1, <1>2
<1>5. Keeps
  BY <1>2, KeepsSame DEF IInv
<1>. QED BY <1>2, <1>3, <1>4, <1>5, EngineMoves

LEMMA RefreshStep ==
  ASSUME IInv, Refresh
  PROVE  IInv'
<1>1. PICK p \in Policies :
        states' = Append(states, [policy |-> p, embedded |-> <<>>])
  BY DEF Refresh
<1>. DEFINE s == [policy |-> p, embedded |-> <<>>]
<1>2. /\ states \in Seq(State) /\ history \in Seq(Event) /\ unstored \in Seq(Event)
      /\ disturbed \in BOOLEAN
  BY DEF IInv, TypeOK
<1>3. s \in State
  BY DEF State
<1>4. Keeps
  <2>. HIDE DEF s
  <2>1. states' \in Seq(State)
    BY <1>1, <1>2, <1>3, AppendProperties DEF s
  <2>2. \A i \in DOMAIN states : i \in DOMAIN states' /\ states'[i] = states[i]
    BY <1>1, <1>2, AppendProperties DEF s
  <2>. QED BY <2>1, <2>2 DEF Keeps
<1>5. UNCHANGED <<history, unstored, task>> /\ constraints' = {} /\ disturbed' \in BOOLEAN
  BY <1>2 DEF Refresh
<1>. QED BY <1>2, <1>4, <1>5, EngineMoves
------------------------------------------------------------------------------
(* The theorems.                                                           *)

LEMMA InitIInv ==
  Init => IInv
<1>. SUFFICES ASSUME Init PROVE IInv
  OBVIOUS
<1>1. PICK p \in Policies : states = <<[policy |-> p, embedded |-> <<>>]>>
  BY DEF Init
<1>2. states \in Seq(State) /\ states # <<>>
  BY <1>1 DEF State
<1>3. Idle \in TaskType /\ Idle.pc = "idle"
  BY DEF Idle, TaskType, PCs, Outcomes
<1>4. TypeOK
  <2>1. /\ history = <<>> /\ unstored = <<>> /\ disturbed = FALSE /\ constraints = {}
        /\ task = [t \in Tasks |-> Idle]
    BY DEF Init
  <2>2. <<>> \in Seq(Event)
    OBVIOUS
  <2>. QED BY <1>2, <1>3, <2>1, <2>2 DEF TypeOK
<1>5. \A t \in Tasks : task[t].pc = "idle"
  BY <1>3 DEF Init
<1>. QED BY <1>2, <1>4, <1>5 DEF IInv

LEMMA NextIInv ==
  IInv /\ [Next]_vars => IInv'
<1>. SUFFICES ASSUME IInv, [Next]_vars PROVE IInv'
  OBVIOUS
<1>1. ASSUME NEW t \in Tasks, Check(t) PROVE IInv'
  <2>1. ASSUME NEW a \in Actions, StartCheck(t, a) PROVE IInv'
    BY <2>1, StartCheckStep
  <2>2. CASE Layer0(t)
    BY <2>2, Layer0Step
  <2>3. CASE EmbedAction(t)
    BY <2>3, EmbedActionStep
  <2>4. CASE EmbedExemplar(t)
    BY <2>4, EmbedExemplarStep
  <2>5. CASE EmbedExemplarFails(t)
    BY <2>5, EmbedExemplarFailsStep
  <2>6. CASE Reinject(t)
    BY <2>6, ReinjectStep
  <2>7. CASE Layer5(t)
    BY <2>7, Layer5Step
  <2>8. CASE CountNearMisses(t)
    BY <2>8, CountNearMissesStep
  <2>9. CASE Escalate(t)
    BY <2>9, EscalateStep
  <2>10. CASE Return(t)
    BY <2>10, ReturnStep
  <2>. QED BY <1>1, <2>1, <2>2, <2>3, <2>4, <2>5, <2>6, <2>7, <2>8, <2>9, <2>10 DEF Check
<1>2. CASE StoreEvent
  BY <1>2, StoreEventStep
<1>3. CASE Refresh
  BY <1>3, RefreshStep
<1>4. CASE UNCHANGED vars
  BY <1>4 DEF vars, IInv, TypeOK, PolicyOf
<1>. QED BY <1>1, <1>2, <1>3, <1>4 DEF Next

\* Every check in flight is sound under the policy of the state it started with
\* (preflight_check), however checks, stores and refreshes interleave.
THEOREM Invariance ==
  Spec => []IInv
BY InitIInv, NextIInv, PTL DEF Spec

\* The engine's state keeps its type.
THEOREM TypeCorrect ==
  Spec => []TypeOK
<1>1. IInv => TypeOK
  BY DEF IInv
<1>. QED BY <1>1, Invariance, PTL

\* preflight_check lets an action go ahead only if no static rule, shared word,
\* validator or LLM verdict in force at its start forbids it, or a time-out of
\* its approval decided alone.
THEOREM Clean ==
  Spec => []ProceedsOnlyWhenClean
<1>1. IInv => ProceedsOnlyWhenClean
  <2>. SUFFICES ASSUME IInv, NEW t \in Tasks, Proceeds(task[t])
                PROVE  /\ task[t].answer \notin Enforcing
                       /\ task[t].ruled \/ ~Forbidden(task[t], PolicyOf(task[t]))
    BY DEF ProceedsOnlyWhenClean, Forbidden
  <2>1. task[t].pc # "idle"
    BY DEF Proceeds
  <2>. QED BY <2>1, InFlight DEF Sound
<1>. QED BY <1>1, Invariance, PTL
------------------------------------------------------------------------------
(* Checks that come one after the other.                                   *)

\* Check t, which was at x, goes on to a point where the constraints C explain
\* it; when it ends, the event it leaves is no unasked warning over the threshold.
Follows(t, x, C) ==
  \E y \in TaskType :
    /\ Become(t, y) /\ y.pc # "idle" /\ y.st = x.st /\ y.floor # "warn" /\ Explained(y, C)
    /\ y.pc # "done" => unstored' = unstored
    /\ y.pc = "done" => \E e \in Event :
         unstored' = Append(unstored, e) /\ (e.unasked => NearMisses < Threshold)

\* Everything the layers have stopped so far is explained by C.
Told(x, C) == {x.action} \X (x.seen \cap Enforcing) \subseteq C

LEMMA MaxIsOne ==
  ASSUME NEW a \in Outcomes, NEW b \in Outcomes
  PROVE  max_outcome(a, b) \in {a, b}
  BY DEF max_outcome

LEMMA FinalizeFollows ==
  ASSUME NEW t \in Tasks, NEW x \in TaskType, NEW safety \in Outcomes, NEW C,
         PolicyOf(x) \in Policies, x.floor # "warn",
         Told(x, C) \/ (x.ruled /\ x.floor = "block" /\ safety = "block"),
         safety = "warn" /\ x.answer = None /\ PolicyOf(x).llm => NearMisses < Threshold,
         Finalize(t, x, safety)
  PROVE  Follows(t, x, C)
<1>. DEFINE o == max_outcome(x.floor, safety)
            y == [x EXCEPT !.pc = "done", !.outcome = o, !.seen = @ \cap {o},
                           !.floor = "pass", !.verdict = None]
            e == [warn    |-> o = "warn",
                  unasked |-> o = "warn" /\ x.answer = None /\ PolicyOf(x).llm]
<1>1. o \in Outcomes /\ o \in {x.floor, safety}
  BY MaxOutcomeLemma, MaxIsOne DEF TaskType
<1>. HIDE DEF o
<1>2. y \in TaskType
  BY <1>1 DEF TaskType, PCs, Outcomes
<1>3. /\ y.pc = "done" /\ y.outcome = o /\ y.st = x.st /\ y.action = x.action
      /\ y.ruled = x.ruled /\ y.seen = x.seen \cap {o} /\ y.floor = "pass"
  BY DEF TaskType
<1>4. Become(t, y) /\ unstored' = Append(unstored, e)
  BY DEF Finalize, o
<1>5. e \in Event /\ (e.unasked => NearMisses < Threshold)
  BY <1>1, PolicyFields DEF Event
<1>. HIDE DEF y, e
<1>6. Explained(y, C)
  <2>1. CASE Told(x, C)
    BY <1>3, <2>1 DEF Explained, Told
  <2>2. CASE x.ruled /\ o = "block"
    BY <1>3, <2>2 DEF Explained
  <2>. QED BY <1>1, <2>1, <2>2
<1>. QED BY <1>2, <1>3, <1>4, <1>5, <1>6 DEF Follows

\* A check that waits at pc.
LEMMA WaitFollows ==
  ASSUME NEW t \in Tasks, NEW x \in TaskType, NEW C, x.floor # "warn",
         NEW pc \in PCs \ {"idle", "done"},
         pc \in {"layer5", "count", "escalate"} => Told(x, C),
         Become(t, [x EXCEPT !.pc = pc]), UNCHANGED unstored
  PROVE  Follows(t, x, C)
<1>. DEFINE y == [x EXCEPT !.pc = pc]
<1>1. /\ y \in TaskType /\ y.pc = pc /\ y.st = x.st /\ y.action = x.action
      /\ y.seen = x.seen /\ y.floor = x.floor
  BY DEF TaskType
<1>. HIDE DEF y
<1>2. Explained(y, C)
  BY <1>1 DEF Explained, Told
<1>. QED BY <1>1, <1>2 DEF Follows, y

LEMMA ConcludeFollows ==
  ASSUME NEW t \in Tasks, NEW x \in TaskType, NEW C, PolicyOf(x) \in Policies,
         x.floor # "warn", Told(x, C), Conclude(t, x)
  PROVE  Follows(t, x, C)
<1>1. CASE x.verdict = "warn"
  BY <1>1, WaitFollows DEF Conclude, PCs
<1>2. CASE x.verdict # "warn"
  <2>. DEFINE s == IF x.verdict = None THEN "pass" ELSE x.verdict
  <2>1. s \in Outcomes /\ s # "warn"
    BY <1>2 DEF TaskType, Outcomes
  <2>2. Finalize(t, x, s)
    BY <1>2 DEF Conclude
  <2>. HIDE DEF s
  <2>. QED BY <2>1, <2>2, FinalizeFollows
<1>. QED BY <1>1, <1>2

LEMMA AfterLayer4Follows ==
  ASSUME NEW t \in Tasks, NEW x \in TaskType, NEW C, PolicyOf(x) \in Policies,
         x.floor # "warn", Told(x, C), AfterLayer4(t, x)
  PROVE  Follows(t, x, C)
<1>1. CASE x.verdict = None /\ PolicyOf(x).llm
  BY <1>1, WaitFollows DEF AfterLayer4, PCs
<1>2. CASE ~(x.verdict = None /\ PolicyOf(x).llm)
  BY <1>2, ConcludeFollows DEF AfterLayer4
<1>. QED BY <1>1, <1>2

\* Whatever the preset, layer 4 tells of what was stopped.
LEMMA StoppedIsReinjected ==
  ASSUME NEW p \in Policies, NEW seen, seen \cap Enforcing # {}
  PROVE  ShouldReinject(p, seen)
<1>1. p.reinject \in {"any_non_pass", "elevated_risk", "block_only"}
  BY ConstantsAssumption DEF Policy
<1>2. seen # {} /\ seen \cap Elevated # {}
  BY DEF Elevated
<1>. QED BY <1>1, <1>2 DEF ShouldReinject

LEMMA AfterLayer3Follows ==
  ASSUME NEW t \in Tasks, NEW x \in TaskType, NEW C, PolicyOf(x) \in Policies,
         x.floor # "warn", AfterLayer3(t, x)
  PROVE  Follows(t, x, C)
<1>1. CASE ShouldReinject(PolicyOf(x), x.seen)
  BY <1>1, WaitFollows DEF AfterLayer3, PCs
<1>2. CASE ~ShouldReinject(PolicyOf(x), x.seen)
  <2>1. Told(x, C)
    BY <1>2, StoppedIsReinjected DEF Told
  <2>. QED BY <1>2, <2>1, AfterLayer4Follows DEF AfterLayer3
<1>. QED BY <1>1, <1>2

\* A layer's answer leaves the floor.
LEMMA HeardFloor ==
  ASSUME NEW x \in TaskType, NEW o \in Outcomes, NEW d \in BOOLEAN
  PROVE  LET y == Heard(x, o, d) IN
         /\ y \in TaskType /\ y.st = x.st /\ y.floor = x.floor
         /\ PolicyOf(y) = PolicyOf(x) /\ y.action = x.action
<1>. DEFINE y == Heard(x, o, d)
<1>1. y \in TaskType /\ y.st = x.st /\ y.floor = x.floor /\ y.action = x.action
  BY DEF Heard, TaskType
<1>. QED BY <1>1 DEF PolicyOf

\* What follows from y follows from x, if they are checks of the same state.
LEMMA FollowsSame ==
  ASSUME NEW t \in Tasks, NEW x, NEW y, NEW C, y.st = x.st, Follows(t, y, C)
  PROVE  Follows(t, x, C)
  BY DEF Follows

LEMMA AfterLayer2Follows ==
  ASSUME NEW t \in Tasks, NEW x \in TaskType, NEW C, PolicyOf(x) \in Policies,
         x.floor # "warn", x.action \in Actions, AfterLayer2(t, x)
  PROVE  Follows(t, x, C)
<1>. DEFINE o == Layer3(PolicyOf(x), x.action)
            y == Heard(x, o, TRUE)
<1>1. CASE x.verdict # None \/ o = None
  BY <1>1, AfterLayer3Follows DEF AfterLayer2
<1>2. CASE x.verdict = None /\ o # None
  <2>1. o \in Outcomes /\ AfterLayer3(t, y)
    BY <1>2, Layer3Lemma DEF AfterLayer2
  <2>. HIDE DEF o
  <2>2. y \in TaskType /\ y.st = x.st /\ y.floor # "warn" /\ PolicyOf(y) \in Policies
    BY <2>1, HeardFloor
  <2>. HIDE DEF y
  <2>3. Follows(t, y, C)
    BY <2>1, <2>2, AfterLayer3Follows
  <2>. QED BY <2>2, <2>3, FollowsSame
<1>. QED BY <1>1, <1>2

LEMMA AfterLayer1Follows ==
  ASSUME NEW t \in Tasks, NEW x \in TaskType, NEW C, PolicyOf(x) \in Policies,
         x.floor # "warn", x.action \in Actions, AfterLayer1(t, x)
  PROVE  Follows(t, x, C)
<1>. DEFINE p == PolicyOf(x)
            y == Heard(x, "block", TRUE)
<1>1. CASE x.verdict # None \/ p.exemplars = <<>>
  BY <1>1, AfterLayer2Follows DEF AfterLayer1
<1>2. CASE ~(x.verdict # None \/ p.exemplars = <<>>) /\ LexicalBlock(p, x.action)
  <2>1. AfterLayer2(t, y)
    BY <1>2 DEF AfterLayer1
  <2>2. /\ y \in TaskType /\ y.st = x.st /\ y.floor # "warn" /\ PolicyOf(y) \in Policies
        /\ y.action \in Actions
    BY HeardFloor DEF Outcomes
  <2>. HIDE DEF y
  <2>3. Follows(t, y, C)
    BY <2>1, <2>2, AfterLayer2Follows
  <2>. QED BY <2>2, <2>3, FollowsSame
<1>3. CASE ~(x.verdict # None \/ p.exemplars = <<>>) /\ ~LexicalBlock(p, x.action)
  <2>1. Become(t, [x EXCEPT !.pc = "embed"]) /\ UNCHANGED unstored
    BY <1>3 DEF AfterLayer1
  <2>. QED BY <2>1, WaitFollows DEF PCs
<1>. QED BY <1>1, <1>2, <1>3

LEMMA AfterSimilarityFollows ==
  ASSUME NEW t \in Tasks, NEW x \in TaskType, NEW C, PolicyOf(x) \in Policies,
         x.floor # "warn", x.action \in Actions, NEW embedded, AfterSimilarity(t, x, embedded)
  PROVE  Follows(t, x, C)
<1>. DEFINE y == [x EXCEPT !.compared = TRUE]
            z == IF Similar(x, embedded) THEN Heard(y, "block", TRUE) ELSE y
<1>1. y \in TaskType /\ y.st = x.st /\ y.floor = x.floor /\ y.action = x.action
  BY DEF TaskType
<1>2. PolicyOf(y) = PolicyOf(x)
  BY <1>1 DEF PolicyOf
<1>3. AfterLayer2(t, z)
  BY DEF AfterSimilarity
<1>. HIDE DEF y
<1>4. /\ z \in TaskType /\ z.st = x.st /\ z.floor # "warn" /\ z.action \in Actions
      /\ PolicyOf(z) \in Policies
  <2>1. CASE Similar(x, embedded)
    <3>1. z = Heard(y, "block", TRUE) /\ "block" \in Outcomes
      BY <2>1 DEF Outcomes
    <3>. HIDE DEF z
    <3>. QED BY <1>1, <1>2, <3>1, HeardFloor
  <2>2. CASE ~Similar(x, embedded)
    BY <1>1, <1>2, <2>2
  <2>. QED BY <2>1, <2>2
<1>. HIDE DEF z
<1>. QED BY <1>3, <1>4, AfterLayer2Follows, FollowsSame
------------------------------------------------------------------------------
(* The steps of checks that come one after the other.                      *)

\* A step of the only check there is.
LEMMA SerialMoves ==
  ASSUME IInv, Serial, ~disturbed', NEW t \in Tasks, task[t].pc \notin {"idle", "done"},
         UNCHANGED <<history, disturbed>>, Len(states') = Len(states),
         NEW x \in TaskType, x.st = task[t].st, Follows(t, x, constraints')
  PROVE  Serial'
<1>1. PICK y \in TaskType :
        /\ Become(t, y) /\ y.pc # "idle" /\ y.st = x.st /\ y.floor # "warn"
        /\ Explained(y, constraints')
        /\ y.pc # "done" => unstored' = unstored
        /\ y.pc = "done" => \E e \in Event :
             unstored' = Append(unstored, e) /\ (e.unasked => NearMisses < Threshold)
  BY DEF Follows
<1>2. /\ task \in [Tasks -> TaskType] /\ ~disturbed /\ unstored = <<>>
      /\ \A u \in Tasks \ {t} : task[u].pc = "idle"
      /\ task[t].st = Len(states)
  BY DEF IInv, TypeOK, Serial
<1>3. task'[t] = y /\ \A u \in Tasks \ {t} : task'[u] = task[u]
  BY <1>1, <1>2 DEF Become
<1>4. \A u, v \in Tasks : u # v => task'[u].pc = "idle" \/ task'[v].pc = "idle"
  BY <1>2, <1>3
<1>5. ASSUME NEW u \in Tasks, task'[u].pc # "idle"
      PROVE  /\ task'[u].st = Len(states') /\ task'[u].floor # "warn"
             /\ Explained(task'[u], constraints')
             /\ task'[u].pc # "done" => unstored' = <<>>
  <2>1. u = t
    BY <1>2, <1>3, <1>5
  <2>. QED BY <1>1, <1>2, <1>3, <2>1
<1>6. NearMisses' = NearMisses /\ \A i \in DOMAIN history : FewBefore(i)' = FewBefore(i)
  BY DEF NearMisses, FewBefore
<1>7. /\ Len(unstored') <= 1
      /\ \A i \in DOMAIN unstored' : unstored'[i].unasked => NearMisses < Threshold
  <2>1. CASE y.pc # "done"
    BY <1>1, <1>2, <2>1
  <2>2. CASE y.pc = "done"
    <3>1. PICK e \in Event :
            unstored' = Append(<<>>, e) /\ (e.unasked => NearMisses < Threshold)
      BY <1>1, <1>2, <2>2
    <3>2. Append(<<>>, e) = <<e>>
      OBVIOUS
    <3>. QED BY <3>1, <3>2
  <2>. QED BY <2>1, <2>2
<1>8. \A i \in DOMAIN history : history[i].unasked => FewBefore(i)
  BY <1>2 DEF Serial
<1>. QED BY <1>4, <1>5, <1>6, <1>7, <1>8 DEF Serial

LEMMA SerialStartCheck ==
  ASSUME IInv, Serial, ~disturbed', NEW t \in Tasks, NEW a \in Actions, StartCheck(t, a)
  PROVE  Serial'
<1>. DEFINE y == [Idle EXCEPT !.pc = "layer0", !.action = a, !.st = Len(states)]
<1>1. /\ ~disturbed /\ unstored = <<>> /\ \A u \in Tasks : task[u].pc = "idle"
      /\ UNCHANGED <<states, constraints, history, unstored>>
      /\ task' = [task EXCEPT ![t] = y] /\ task \in [Tasks -> TaskType]
  BY DEF StartCheck, Quiet, Become, IInv, TypeOK
<1>2. y.pc = "layer0" /\ y.st = Len(states) /\ y.floor = "pass"
  BY DEF Idle
<1>3. Explained(y, constraints)
  BY <1>2 DEF Explained
<1>. HIDE DEF y
<1>4. task'[t] = y /\ \A u \in Tasks \ {t} : task'[u].pc = "idle"
  BY <1>1
<1>5. NearMisses' = NearMisses /\ \A i \in DOMAIN history : FewBefore(i)' = FewBefore(i)
  BY <1>1 DEF NearMisses, FewBefore
<1>6. \A u \in Tasks : task'[u].pc # "idle" => u = t
  BY <1>4
<1>. QED BY <1>1, <1>2, <1>3, <1>4, <1>5, <1>6 DEF Serial

LEMMA SerialReturn ==
  ASSUME IInv, Serial, ~disturbed', NEW t \in Tasks, Return(t)
  PROVE  Serial'
<1>1. /\ task' = [task EXCEPT ![t] = Idle] /\ task \in [Tasks -> TaskType]
      /\ UNCHANGED <<states, constraints, history, unstored, disturbed>>
  BY DEF Return, Become, IInv, TypeOK
<1>2. \A u \in Tasks : task'[u].pc # "idle" => task'[u] = task[u]
  BY <1>1 DEF Idle
<1>3. NearMisses' = NearMisses /\ \A i \in DOMAIN history : FewBefore(i)' = FewBefore(i)
  BY <1>1 DEF NearMisses, FewBefore
<1>4. \A u, v \in Tasks : u # v => task'[u].pc = "idle" \/ task'[v].pc = "idle"
  BY <1>1, <1>2 DEF Serial
<1>5. \A u \in Tasks : task'[u].pc # "idle" =>
         /\ task'[u].st = Len(states') /\ task'[u].floor # "warn"
         /\ Explained(task'[u], constraints')
         /\ task'[u].pc # "done" => unstored' = <<>>
  BY <1>1, <1>2 DEF Serial
<1>. QED BY <1>1, <1>3, <1>4, <1>5 DEF Serial

LEMMA SerialRefresh ==
  ASSUME IInv, Serial, ~disturbed', Refresh
  PROVE  Serial'
<1>1. /\ ~disturbed /\ unstored = <<>> /\ \A u \in Tasks : task[u].pc = "idle"
      /\ UNCHANGED <<history, unstored, task>>
  BY DEF Refresh, Quiet
<1>2. NearMisses' = NearMisses /\ \A i \in DOMAIN history : FewBefore(i)' = FewBefore(i)
  BY <1>1 DEF NearMisses, FewBefore
<1>. QED BY <1>1, <1>2 DEF Serial

\* Fewer positions hold fewer warnings.
LEMMA FewerPositions ==
  ASSUME NEW S \in SUBSET Nat, NEW T \in SUBSET Nat, IsFiniteSet(T), NEW d \in {0, 1},
         \A j \in S : j - d \in T
  PROVE  IsFiniteSet(S) /\ Cardinality(S) <= Cardinality(T)
         /\ Cardinality(S) \in Nat /\ Cardinality(T) \in Nat
<1>. DEFINE f == [j \in S |-> j - d]
<1>1. f \in Injection(S, T)
  BY DEF Injection, IsInjective
<1>. HIDE DEF f
<1>2. IsFiniteSet(S) /\ Cardinality(S) <= Cardinality(T)
  BY <1>1, FS_Injection
<1>. QED BY <1>2, FS_CardinalityType

LEMMA FiniteDomain ==
  ASSUME NEW S, NEW s \in Seq(S)
  PROVE  DOMAIN s \in SUBSET Nat /\ IsFiniteSet(DOMAIN s)
<1>1. DOMAIN s = 1..Len(s) /\ Len(s) \in Nat
  OBVIOUS
<1>. QED BY <1>1, FS_Interval

\* The event of the one check that ended goes to the front of the history.
LEMMA SerialStoreEvent ==
  ASSUME IInv, Serial, ~disturbed', StoreEvent
  PROVE  Serial'
<1>. DEFINE h == history
<1>1. PICK i \in DOMAIN unstored :
        /\ history'  = SubSeq(<<unstored[i]>> \o history, 1,
                              IF Len(history) < MaxEvents THEN Len(history) + 1
                              ELSE MaxEvents)
        /\ unstored' = SubSeq(unstored, 1, i - 1)
                         \o SubSeq(unstored, i + 1, Len(unstored))
  BY DEF StoreEvent
<1>2. /\ unstored \in Seq(Event) /\ history \in Seq(Event)
      /\ UNCHANGED <<states, constraints, disturbed, task>> /\ ~disturbed
      /\ MaxEvents \in Nat \ {0} /\ Window \in Nat \ {0} /\ Threshold \in Nat
  BY ConstantsAssumption DEF IInv, TypeOK, StoreEvent
<1>3. Len(unstored) = 1 /\ i = 1 /\ unstored[1] \in Event
  <2>1. DOMAIN unstored = 1..Len(unstored) /\ Len(unstored) \in Nat
    BY <1>2
  <2>2. Len(unstored) <= 1
    BY <1>2 DEF Serial
  <2>3. Len(unstored) = 1 /\ i = 1
    BY <2>1, <2>2
  <2>4. unstored[1] \in Event
    <3>1. \A j \in 1..Len(unstored) : unstored[j] \in Event
      BY <1>2
    <3>2. 1 \in 1..Len(unstored)
      BY <2>3
    <3>. QED BY <3>1, <3>2
  <2>. QED BY <2>3, <2>4
<1>4. unstored' = <<>>
  <2>1. SubSeq(unstored, 1, 0) = <<>> /\ SubSeq(unstored, 2, 1) = <<>>
    BY <1>2
  <2>. QED BY <1>1, <1>3, <2>1
<1>5. history' \in Seq(Event)
  BY StoreEventStep DEF IInv, TypeOK
<1>6. /\ \A j \in DOMAIN history' : j # 1 => j - 1 \in DOMAIN h /\ history'[j] = h[j - 1]
      /\ history'[1] = unstored[1] /\ DOMAIN history' \subseteq Nat \ {0}
  <2>. DEFINE all == <<unstored[1]>> \o h
              n   == IF Len(h) < MaxEvents THEN Len(h) + 1 ELSE MaxEvents
  <2>1. /\ all \in Seq(Event) /\ Len(all) = Len(h) + 1 /\ Len(h) \in Nat
        /\ all[1] = unstored[1]
        /\ \A j \in 2..(Len(h) + 1) : all[j] = h[j - 1]
    <3>1. PICK e \in Event : e = unstored[1]
      BY <1>3
    <3>2. <<e>> \in Seq(Event) /\ Len(<<e>>) = 1 /\ <<e>>[1] = e
      OBVIOUS
    <3>. DEFINE o == <<e>>
    <3>3. all = o \o h
      BY <3>1
    <3>. HIDE DEF o, all, h
    <3>4. o \in Seq(Event) /\ Len(o) = 1 /\ o[1] = e /\ h \in Seq(Event)
      BY <1>2, <3>2 DEF o, h
    <3>5. /\ o \o h \in Seq(Event) /\ Len(o \o h) = Len(o) + Len(h)
          /\ \A j \in 1..(Len(o) + Len(h)) :
               (o \o h)[j] = IF j <= Len(o) THEN o[j] ELSE h[j - Len(o)]
      BY <3>4, ConcatProperties
    <3>6. Len(h) \in Nat
      BY <3>4
    <3>7. all[1] = unstored[1] /\ Len(all) = Len(h) + 1
      BY <3>1, <3>3, <3>4, <3>5, <3>6
    <3>8. \A j \in 2..(Len(h) + 1) : all[j] = h[j - 1]
      BY <3>3, <3>4, <3>5, <3>6
    <3>. QED BY <3>3, <3>5, <3>6, <3>7, <3>8
  <2>2. n \in 1..Len(all)
    BY <1>2, <2>1
  <2>3. history' = SubSeq(all, 1, n)
    BY <1>1, <1>3
  <2>. HIDE DEF all, n
  <2>4. /\ Len(history') = n
        /\ \A j \in 1..n : history'[j] = all[j]
    BY <2>1, <2>2, <2>3
  <2>5. DOMAIN history' = 1..n
    BY <1>5, <2>4
  <2>6. \A j \in 1..n : j # 1 => j \in 2..(Len(h) + 1) /\ j - 1 \in 1..Len(h)
    BY <2>1, <2>2
  <2>. QED BY <1>2, <2>1, <2>2, <2>4, <2>5, <2>6
<1>7. ASSUME NEW k \in DOMAIN history', history'[k].unasked
      PROVE  FewBefore(k)'
  <2>. DEFINE S == {j \in DOMAIN history' : j > k /\ j <= k + Window /\ history'[j].warn}
  <2>1. CASE k = 1
    <3>. DEFINE T == {j \in DOMAIN h : j <= Window /\ h[j].warn}
    <3>1. Cardinality(T) < Threshold
      BY <1>2, <1>3, <1>6, <1>7, <2>1 DEF Serial, NearMisses
    <3>2. IsFiniteSet(T) /\ T \in SUBSET Nat
      BY <1>2, FiniteDomain, FS_Subset
    <3>3. S \in SUBSET Nat /\ \A j \in S : j - 1 \in T
      BY <1>2, <1>6, <2>1
    <3>. HIDE DEF T, S
    <3>4. Cardinality(S) <= Cardinality(T) /\ Cardinality(S) \in Nat /\ Cardinality(T) \in Nat
      BY <3>2, <3>3, FewerPositions
    <3>. QED BY <1>2, <3>1, <3>4 DEF FewBefore, S
  <2>2. CASE k # 1
    <3>. DEFINE T == {j \in DOMAIN h : j > k - 1 /\ j <= (k - 1) + Window /\ h[j].warn}
    <3>1. k - 1 \in DOMAIN h /\ h[k - 1].unasked
      BY <1>6, <1>7, <2>2
    <3>2. Cardinality(T) < Threshold
      BY <1>2, <3>1 DEF Serial, FewBefore
    <3>3. IsFiniteSet(T) /\ T \in SUBSET Nat
      BY <1>2, FiniteDomain, FS_Subset
    <3>4. S \in SUBSET Nat /\ \A j \in S : j - 1 \in T
      BY <1>2, <1>6, <2>2, <3>1
    <3>. HIDE DEF T, S
    <3>5. Cardinality(S) <= Cardinality(T) /\ Cardinality(S) \in Nat /\ Cardinality(T) \in Nat
      BY <3>3, <3>4, FewerPositions
    <3>. QED BY <1>2, <3>2, <3>5 DEF FewBefore, S
  <2>. QED BY <2>1, <2>2
<1>8. \A u, v \in Tasks : u # v => task'[u].pc = "idle" \/ task'[v].pc = "idle"
  BY <1>2 DEF Serial
<1>9. \A u \in Tasks : task'[u].pc # "idle" =>
         /\ task'[u].st = Len(states') /\ task'[u].floor # "warn"
         /\ Explained(task'[u], constraints')
         /\ task'[u].pc # "done" => unstored' = <<>>
  BY <1>2, <1>4 DEF Serial
<1>. QED BY <1>4, <1>7, <1>8, <1>9 DEF Serial

\* What the steps of the only check use.
LEMMA AloneInFlight ==
  ASSUME IInv, Serial, ~disturbed, NEW t \in Tasks, task[t].pc # "idle"
  PROVE  /\ task[t] \in TaskType /\ PolicyOf(task[t]) \in Policies
         /\ task[t].action \in Actions /\ task[t].floor # "warn"
         /\ task[t].st = Len(states) /\ Explained(task[t], constraints)
<1>1. task[t] \in TaskType /\ PolicyOf(task[t]) \in Policies /\ task[t].action \in Actions
  BY InFlight DEF Sound
<1>. QED BY <1>1 DEF Serial

LEMMA SerialLayer0 ==
  ASSUME IInv, Serial, ~disturbed', NEW t \in Tasks, Layer0(t)
  PROVE  Serial'
<1>0. /\ task[t].pc = "layer0" /\ UNCHANGED <<states, constraints, history, disturbed>>
  BY DEF Layer0
<1>1. /\ task[t] \in TaskType /\ PolicyOf(task[t]) \in Policies /\ task[t].action \in Actions
  BY <1>0, AloneInFlight
<1>2. PICK answer \in Layer0Answers :
        LET y == [task[t] EXCEPT !.floor = answer[1]]
            x == [Heard(y, answer[1], answer[2]) EXCEPT !.ruled = answer[2]]
            l == Layer1(PolicyOf(x), x.action) IN
        IF x.ruled
        THEN IF answer[1] = "block" THEN Finalize(t, x, "block") ELSE AfterLayer3(t, x)
        ELSE AfterLayer1(t, Heard(x, l.outcome, l.definitive))
  BY DEF Layer0
<1>. DEFINE floor == answer[1]
            d == answer[2]
            y == [task[t] EXCEPT !.floor = floor]
            h == Heard(y, floor, d)
            x == [h EXCEPT !.ruled = d]
            l == Layer1(PolicyOf(x), x.action)
            z == Heard(x, l.outcome, l.definitive)
<1>3. floor \in Outcomes \ {"warn"} /\ d \in BOOLEAN
  BY DEF Layer0Answers, Outcomes
<1>4. y \in TaskType /\ y.st = task[t].st /\ y.action = task[t].action /\ y.floor = floor
  BY <1>1, <1>3 DEF TaskType
<1>5. h \in TaskType /\ h.st = task[t].st /\ h.action = task[t].action /\ h.floor = floor
  <2>. HIDE DEF y, floor, d
  <2>. QED BY <1>3, <1>4, HeardFloor
<1>6. /\ x \in TaskType /\ x.st = task[t].st /\ x.action = task[t].action
      /\ x.floor = floor /\ x.ruled = d
  <2>. HIDE DEF h, floor, d
  <2>. QED BY <1>3, <1>5 DEF TaskType
<1>7. IF d THEN IF floor = "block" THEN Finalize(t, x, "block") ELSE AfterLayer3(t, x)
      ELSE AfterLayer1(t, z)
  <2>1. x.ruled = d
    BY <1>6
  <2>. QED BY <1>2, <2>1
<1>. HIDE DEF x, h, y, floor, d
<1>8. PolicyOf(x) = PolicyOf(task[t])
  BY <1>6 DEF PolicyOf
<1>9. Follows(t, x, constraints')
  <2>1. CASE d /\ floor = "block"
    BY <2>1, <1>1, <1>3, <1>6, <1>7, <1>8, FinalizeFollows DEF Outcomes
  <2>2. CASE d /\ floor # "block"
    BY <2>2, <1>1, <1>3, <1>6, <1>7, <1>8, AfterLayer3Follows
  <2>3. CASE ~d
    <3>1. l.outcome \in Outcomes /\ l.definitive \in BOOLEAN
      BY <1>1, <1>6, <1>8, Layer1Lemma
    <3>. HIDE DEF l
    <3>2. /\ z \in TaskType /\ z.st = x.st /\ z.floor # "warn" /\ z.action \in Actions
          /\ PolicyOf(z) \in Policies
      BY <3>1, <1>1, <1>3, <1>6, <1>8, HeardFloor
    <3>. HIDE DEF z
    <3>3. Follows(t, z, constraints')
      BY <2>3, <3>2, <1>7, AfterLayer1Follows
    <3>. QED BY <3>2, <3>3, FollowsSame
  <2>. QED BY <2>1, <2>2, <2>3, <1>3
<1>. QED BY <1>0, <1>6, <1>9, SerialMoves

LEMMA SerialEmbedAction ==
  ASSUME IInv, Serial, ~disturbed', NEW t \in Tasks, EmbedAction(t)
  PROVE  Serial'
<1>. DEFINE x == task[t]
            z == [x EXCEPT !.next = 1]
<1>0. /\ x.pc = "embed" /\ UNCHANGED <<states, constraints, history, disturbed>>
  BY DEF EmbedAction
<1>1. /\ x \in TaskType /\ PolicyOf(x) \in Policies /\ x.action \in Actions
      /\ x.floor # "warn"
  BY <1>0, AloneInFlight
<1>2. Follows(t, x, constraints')
  <2>1. CASE AfterLayer2(t, x)
    BY <2>1, <1>1, AfterLayer2Follows
  <2>2. CASE Become(t, [x EXCEPT !.pc = "exemplar", !.next = 1]) /\ UNCHANGED unstored
    <3>1. z \in TaskType /\ z.st = x.st /\ z.floor = x.floor
      BY <1>1 DEF TaskType
    <3>2. [x EXCEPT !.pc = "exemplar", !.next = 1] = [z EXCEPT !.pc = "exemplar"]
      BY <1>1 DEF TaskType
    <3>. HIDE DEF x, z
    <3>3. Follows(t, z, constraints')
      BY <2>2, <3>1, <3>2, <1>1, WaitFollows DEF PCs
    <3>. QED BY <3>1, <3>3, FollowsSame
  <2>3. CASE AfterSimilarity(t, x, states[x.st].embedded)
    BY <2>3, <1>1, AfterSimilarityFollows
  <2>. QED BY <2>1, <2>2, <2>3 DEF EmbedAction
<1>. QED BY <1>0, <1>1, <1>2, SerialMoves

LEMMA SerialEmbedExemplar ==
  ASSUME IInv, Serial, ~disturbed', NEW t \in Tasks,
         EmbedExemplar(t) \/ EmbedExemplarFails(t)
  PROVE  Serial'
<1>. DEFINE x == task[t]
            y == [x EXCEPT !.next = 0]
            z == [x EXCEPT !.next = @ + 1]
            all == Append(states[x.st].embedded, x.next)
<1>0. /\ x.pc = "exemplar" /\ UNCHANGED <<constraints, history, disturbed>>
  BY DEF EmbedExemplar, EmbedExemplarFails
<1>1. /\ x \in TaskType /\ PolicyOf(x) \in Policies /\ x.action \in Actions
      /\ x.floor # "warn" /\ x.next \in Nat
  BY <1>0, AloneInFlight DEF TaskType
<1>2. /\ y \in TaskType /\ y.st = x.st /\ y.floor = x.floor /\ y.action = x.action
      /\ z \in TaskType /\ z.st = x.st /\ z.floor = x.floor /\ z.pc = "exemplar"
  BY <1>0, <1>1 DEF TaskType
<1>3. Len(states') = Len(states)
  <2>1. states \in Seq(State)
    BY DEF IInv, TypeOK
  <2>2. states' = states \/ \E s : states' = [states EXCEPT ![x.st] = s]
    BY DEF EmbedExemplar, EmbedExemplarFails
  <2>3. ASSUME NEW s, states' = [states EXCEPT ![x.st] = s]
        PROVE  Len(states') = Len(states)
    BY <2>1, <2>3
  <2>. QED BY <2>2, <2>3
<1>4. \/ AfterLayer2(t, y)
      \/ Become(t, z) /\ UNCHANGED unstored
      \/ AfterSimilarity(t, y, all)
  BY DEF EmbedExemplar, EmbedExemplarFails
<1>5. z = [z EXCEPT !.pc = "exemplar"]
  BY <1>2 DEF TaskType
<1>. HIDE DEF x, y, z, all
<1>6. PolicyOf(y) = PolicyOf(x)
  BY <1>2 DEF PolicyOf
<1>7. Follows(t, x, constraints')
  <2>1. CASE AfterLayer2(t, y)
    BY <2>1, <1>1, <1>2, <1>6, AfterLayer2Follows, FollowsSame
  <2>2. CASE Become(t, z) /\ UNCHANGED unstored
    <3>1. Follows(t, z, constraints')
      BY <2>2, <1>1, <1>2, <1>5, WaitFollows DEF PCs
    <3>. QED BY <1>2, <3>1, FollowsSame
  <2>3. CASE AfterSimilarity(t, y, all)
    BY <2>3, <1>1, <1>2, <1>6, AfterSimilarityFollows, FollowsSame
  <2>. QED BY <1>4, <2>1, <2>2, <2>3
<1>. QED BY <1>0, <1>1, <1>3, <1>7, SerialMoves DEF x

LEMMA SerialReinject ==
  ASSUME IInv, Serial, ~disturbed', NEW t \in Tasks, Reinject(t)
  PROVE  Serial'
<1>. DEFINE x == task[t]
<1>0. /\ x.pc = "reinject" /\ UNCHANGED <<states, history, disturbed>> /\ AfterLayer4(t, x)
  BY DEF Reinject
<1>1. /\ x \in TaskType /\ PolicyOf(x) \in Policies /\ x.floor # "warn" /\ x.st = Len(states)
  BY <1>0, AloneInFlight
<1>2. Told(x, constraints')
  BY <1>1 DEF Reinject, Told
<1>. QED BY <1>0, <1>1, <1>2, AfterLayer4Follows, SerialMoves

LEMMA SerialLLM ==
  ASSUME IInv, Serial, ~disturbed', NEW t \in Tasks,
         Layer5(t) \/ CountNearMisses(t) \/ Escalate(t)
  PROVE  Serial'
<1>. DEFINE x == task[t]
<1>0. /\ x.pc \in {"layer5", "count", "escalate"}
      /\ UNCHANGED <<states, constraints, history, disturbed>>
  BY DEF Layer5, CountNearMisses, Escalate
<1>1. /\ x \in TaskType /\ PolicyOf(x) \in Policies /\ x.floor # "warn"
      /\ Explained(x, constraints)
  BY <1>0, AloneInFlight
<1>2. Told(x, constraints')
  BY <1>0, <1>1 DEF Explained, Told
<1>3. Follows(t, x, constraints')
  <2>1. CASE Layer5(t)
    <3>1. PICK o \in Verdicts : Conclude(t, [x EXCEPT !.verdict = o, !.answer = o])
      BY <2>1 DEF Layer5
    <3>. DEFINE y == [x EXCEPT !.verdict = o, !.answer = o]
    <3>2. /\ y \in TaskType /\ y.st = x.st /\ y.floor = x.floor /\ y.action = x.action
          /\ y.seen = x.seen
      BY <1>1, ConstantsAssumption DEF TaskType
    <3>. HIDE DEF y, x
    <3>3. PolicyOf(y) = PolicyOf(x) /\ Told(y, constraints')
      BY <1>2, <3>2 DEF PolicyOf, Told
    <3>4. Follows(t, y, constraints')
      BY <1>1, <3>1, <3>2, <3>3, ConcludeFollows DEF y
    <3>. QED BY <3>2, <3>4, FollowsSame
  <2>2. CASE CountNearMisses(t)
    <3>1. CASE Become(t, [x EXCEPT !.pc = "escalate"]) /\ UNCHANGED unstored
      BY <1>1, <1>2, <3>1, WaitFollows DEF PCs
    <3>2. CASE /\ Finalize(t, x, "warn")
               /\ ~(NearMisses >= Threshold /\ x.answer = None /\ PolicyOf(x).llm)
      <4>1. NearMisses \in Nat /\ Threshold \in Nat
        <5>. DEFINE T == {j \in DOMAIN history : j <= Window /\ history[j].warn}
        <5>1. history \in Seq(Event)
          BY DEF IInv, TypeOK
        <5>2. IsFiniteSet(T)
          BY <5>1, FiniteDomain, FS_Subset
        <5>. QED BY <5>2, FS_CardinalityType, ConstantsAssumption DEF NearMisses
      <4>2. x.answer = None /\ PolicyOf(x).llm => NearMisses < Threshold
        BY <3>2, <4>1
      <4>. QED BY <1>1, <1>2, <3>2, <4>2, FinalizeFollows DEF Outcomes
    <3>. QED BY <2>2, <3>1, <3>2 DEF CountNearMisses
  <2>3. CASE Escalate(t)
    <3>1. PICK o \in Verdicts : Finalize(t, [x EXCEPT !.answer = o], o)
      BY <2>3 DEF Escalate
    <3>. DEFINE y == [x EXCEPT !.answer = o]
    <3>2. /\ y \in TaskType /\ y.st = x.st /\ y.floor = x.floor /\ y.action = x.action
          /\ y.seen = x.seen /\ y.answer # None /\ o \in Outcomes
      BY <1>1, ConstantsAssumption DEF TaskType
    <3>. HIDE DEF y, x
    <3>3. PolicyOf(y) = PolicyOf(x) /\ Told(y, constraints')
      BY <1>2, <3>2 DEF PolicyOf, Told
    <3>4. Follows(t, y, constraints')
      BY <1>1, <3>1, <3>2, <3>3, FinalizeFollows DEF y
    <3>. QED BY <3>2, <3>4, FollowsSame
  <2>. QED BY <2>1, <2>2, <2>3
<1>. QED BY <1>0, <1>1, <1>3, SerialMoves

LEMMA InitSerial == Init => Serial
  BY DEF Init, Serial, Idle

LEMMA NextSerial ==
  ASSUME IInv, Serial, [Next]_vars
  PROVE  Serial'
<1>1. CASE disturbed'
  BY <1>1 DEF Serial
<1>2. CASE ~disturbed'
  <2>1. ASSUME NEW t \in Tasks, Check(t) PROVE Serial'
    BY <1>2, <2>1, SerialStartCheck, SerialLayer0, SerialEmbedAction, SerialEmbedExemplar,
       SerialReinject, SerialLLM, SerialReturn DEF Check
  <2>2. CASE StoreEvent \/ Refresh
    BY <1>2, <2>2, SerialStoreEvent, SerialRefresh
  <2>3. CASE UNCHANGED vars
    <3>1. UNCHANGED <<states, constraints, history, unstored, disturbed, task>>
      BY <2>3 DEF vars
    <3>. QED BY <3>1 DEF Serial, NearMisses, FewBefore
  <2>. QED BY <2>1, <2>2, <2>3 DEF Next
<1>. QED BY <1>1, <1>2

\* While checks come one after the other, what a check has established, said and
\* left behind is as the invariant says.
THEOREM SerialInvariance ==
  Spec => []Serial
<1>1. Init => Serial
  BY InitSerial
<1>2. IInv /\ Serial /\ [Next]_vars => Serial'
  BY NextSerial
<1>. QED BY <1>1, <1>2, Invariance, PTL DEF Spec

\* A warning after Threshold warnings in the window is given only after the LLM
\* was asked (_count_recent_near_misses, preflight_check).
THEOREM NearMissesHold ==
  Spec => []NearMissesEscalate
<1>1. Serial => NearMissesEscalate
  BY DEF Serial, NearMissesEscalate, FewBefore
<1>. QED BY <1>1, SerialInvariance, PTL

\* What the layers before the LLM stop is in the constraints the agent is told
\* (_layer4_reinjection, get_active_constraints).
THEOREM EnforcementHolds ==
  Spec => []EnforcementExplained
<1>1. Serial => EnforcementExplained
  BY DEF Serial, EnforcementExplained, Explained
<1>. QED BY <1>1, SerialInvariance, PTL
=============================================================================
