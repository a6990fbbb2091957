---------------------------- MODULE GuardPipeline ----------------------------
(***************************************************************************)
(* The layers of a preflight check of the red-line guard engine            *)
(* (guards/engine.py), for the checks of one session.                      *)
(*                                                                         *)
(* Layer 0 is autonomy, whose APPROVE_FIRST answers GuardApprovals models; *)
(* layers 1 to 3 are static rules, exemplars and structural validators,    *)
(* layer 4 tells the agent, layer 5 asks the LLM.  A step is the code      *)
(* between two awaits.  Checks of a session share its state: the cached    *)
(* embeddings of the exemplars, the constraints to inject and the history  *)
(* in Redis.  A refresh of the rules makes a new state; checks in flight   *)
(* go on with the one they started with.                                   *)
(***************************************************************************)
EXTENDS Integers, Sequences, FiniteSets

CONSTANTS
  Actions,    \* the actions that are checked
  Policies,   \* the guard policies a session may be loaded with
  Tasks,      \* asyncio tasks (a bound on concurrency)
  Verdicts,   \* what the LLM answers, a failure being a BLOCK (a bound)
  Threshold,  \* near_miss_escalation_threshold
  Window,     \* near_miss_window_turns
  MaxEvents,  \* max_history_events
  MaxStates,  \* how often the rules are loaded (a bound)
  MaxUnstored,\* events still to be stored when a check starts (a bound)
  None        \* "no outcome"

Outcomes == {"pass", "inform", "warn", "require_evidence", "require_approval", "block"}

\* _OUTCOME_ORDER
Severity ==
  [o \in Outcomes |-> CASE o = "pass"             -> 0
                        [] o = "inform"           -> 1
                        [] o = "warn"             -> 2
                        [] o = "require_evidence" -> 3
                        [] o = "require_approval" -> 4
                        [] o = "block"            -> 5]

max_outcome(a, b) == IF Severity[a] >= Severity[b] THEN a ELSE b

Enforcing == {"require_evidence", "require_approval", "block"}
Elevated  == Enforcing \cup {"warn"}

\* A policy and its strictness preset, with what its rules say of each action.
\* rules: the outcomes of the static rules that match; lexical: a word shared
\* with an exemplar blocks (the best BM25 score is normalised to 1); words: the
\* actions that share one; exemplars: the actions each exemplar is similar to;
\* validator: the outcome of the first structural validator that fails, "error"
\* if one raises; upgrade: warn_outcome_upgrade; reinject: reinjection_on.
Policy ==
  [rules     : [Actions -> SUBSET Outcomes],
   lexical   : BOOLEAN,
   words     : SUBSET Actions,
   exemplars : Seq(SUBSET Actions),
   validator : [Actions -> Outcomes \cup {None, "error"}],
   upgrade   : Outcomes \cup {None},
   reinject  : {"any_non_pass", "elevated_risk", "block_only"},
   force     : BOOLEAN,
   llm       : BOOLEAN]

ASSUME ConstantsAssumption ==
  /\ Policies \subseteq Policy /\ Verdicts \subseteq Outcomes
  /\ Threshold \in Nat /\ Window \in Nat \ {0} /\ MaxEvents \in Nat \ {0}
  /\ MaxStates \in Nat /\ MaxUnstored \in Nat
  /\ None \notin Outcomes \cup {"error"} \cup Actions

VARIABLES
  states,    \* the guard states of the session, the last one is current
  constraints, \* session_constraints of the current state: the enforcing lines
  history,   \* guard_history in Redis, newest first
  unstored,  \* the events whose storing has been scheduled
  disturbed, \* history: checks or stores overlapped, or rules were refreshed
  task       \* the checks in flight

vars == <<states, constraints, history, unstored, disturbed, task>>

\* A stored GuardEvent: only a WARN is told apart; unasked (history): a WARN
\* given although the LLM could have been asked.
Event == [warn : BOOLEAN, unasked : BOOLEAN]

\* embedded: the exemplars whose embeddings are cached, by position.
State == [policy : Policies, embedded : Seq(Nat)]

PCs == {"idle", "layer0", "embed", "exemplar", "reinject", "layer5", "count",
        "escalate", "done"}

\* st: the state the check started with; floor: the autonomy floor; seen: the
\* outcomes of the layers so far, but for PASS; verdict: the definitive outcome;
\* next: the exemplar to embed next; ruled, compared, answer (history): layer 0
\* decided alone, the action was compared with embeddings, what the LLM said
\* last; outcome: the result.
Idle == [pc |-> "idle", action |-> None, st |-> 0, floor |-> "pass", seen |-> {},
         verdict |-> None, next |-> 0, ruled |-> FALSE, compared |-> FALSE,
         answer |-> None, outcome |-> None]

TaskType ==
  [pc : PCs, action : Actions \cup {None}, st : Nat, floor : Outcomes,
   seen : SUBSET Outcomes, verdict : Outcomes \cup {None}, next : Nat,
   ruled : BOOLEAN, compared : BOOLEAN, answer : Outcomes \cup {None}, outcome : Outcomes \cup {None}]

Become(t, x) == task' = [task EXCEPT ![t] = x]

Init ==
  /\ \E p \in Policies :
       states = <<[policy |-> p, embedded |-> <<>>]>>
  /\ constraints = {}
  /\ history   = <<>>
  /\ unstored  = <<>>
  /\ disturbed = FALSE
  /\ task      = [t \in Tasks |-> Idle]

PolicyOf(x) == states[x.st].policy

------------------------------------------------------------------------------
(* The layers that need no await.                                          *)

\* Faulty variant: the matches are sorted the other way round.
Mildest(S) == CHOOSE o \in S : \A p \in S : Severity[o] <= Severity[p]

Worst(S) == CHOOSE o \in S : \A p \in S : Severity[o] >= Severity[p]

\* _layer1_static_rules: the outcome, and whether it is definitive.
Layer1(p, a) ==
  LET worst    == IF p.rules[a] = {} THEN "pass" ELSE Worst(p.rules[a])
      upgraded == IF p.upgrade = None THEN "warn" ELSE p.upgrade IN
  CASE worst \in Enforcing -> [outcome |-> worst, definitive |-> TRUE]
    [] worst = "warn"      -> [outcome    |-> upgraded,
                               definitive |-> upgraded \in {"block", "require_approval"}]
    [] OTHER               -> [outcome |-> "pass", definitive |-> FALSE]

\* _layer2_cheap_semantic before its embedding call.
LexicalBlock(p, a) == p.exemplars # <<>> /\ p.lexical /\ a \in p.words

\* _layer3_structural_validators: definitive if a validator fails; one that
\* raises makes the engine skip the layer.
Layer3(p, a) == IF p.validator[a] = "error" THEN None ELSE p.validator[a]

\* A layer has answered o; it decides the check if it is definitive.
Heard(x, o, definitive) ==
  [x EXCEPT !.seen    = @ \cup ({o} \ {"pass"}),
            !.verdict = IF definitive THEN o ELSE @]

\* Faulty variant: block_only means BLOCK only.
ShouldReinjectBlock(p, seen) ==
  \/ p.force
  \/ p.reinject = "any_non_pass"  /\ seen # {}
  \/ p.reinject = "elevated_risk" /\ seen \cap Elevated # {}
  \/ p.reinject = "block_only"    /\ "block" \in seen

ShouldReinject(p, seen) ==
  \/ p.force
  \/ p.reinject = "any_non_pass"  /\ seen # {}
  \/ p.reinject = "elevated_risk" /\ seen \cap Elevated # {}
  \/ p.reinject = "block_only"    /\ seen \cap Enforcing # {}

------------------------------------------------------------------------------
(* How a check goes on after an await.  Each operator is the rest of       *)
(* preflight_check from one point to the next await.                       *)

\* _finalize: the result, and a task that stores the event.
Finalize(t, x, safety) ==
  LET o == max_outcome(x.floor, safety) IN
  /\ Become(t, [x EXCEPT !.pc = "done", !.outcome = o,
                           !.seen = @ \cap {o}, !.floor = "pass", !.verdict = None])
  /\ unstored' = Append(unstored,
       [warn    |-> o = "warn",
        unasked |-> o = "warn" /\ x.answer = None /\ PolicyOf(x).llm])

\* WARN leads to the near-miss count, anything else to the result.
Conclude(t, x) ==
  IF x.verdict = "warn"
  THEN Become(t, [x EXCEPT !.pc = "count"]) /\ UNCHANGED unstored
  ELSE Finalize(t, x, IF x.verdict = None THEN "pass" ELSE x.verdict)

\* Layer 5 is for checks without a definitive result.
AfterLayer4(t, x) ==
  IF x.verdict = None /\ PolicyOf(x).llm
  THEN Become(t, [x EXCEPT !.pc = "layer5"]) /\ UNCHANGED unstored
  ELSE Conclude(t, x)

\* Layer 4 awaits the pending approvals when it has something to tell.
AfterLayer3(t, x) ==
  IF ShouldReinject(PolicyOf(x), x.seen)
  THEN Become(t, [x EXCEPT !.pc = "reinject"]) /\ UNCHANGED unstored
  ELSE AfterLayer4(t, x)

AfterLayer2(t, x) ==
  LET o == Layer3(PolicyOf(x), x.action) IN
  IF x.verdict # None \/ o = None THEN AfterLayer3(t, x)
  ELSE AfterLayer3(t, Heard(x, o, TRUE))

AfterLayer1(t, x) ==
  LET p == PolicyOf(x) IN
  IF x.verdict # None \/ p.exemplars = <<>>
  THEN AfterLayer2(t, x)
  ELSE IF LexicalBlock(p, x.action)
       THEN AfterLayer2(t, Heard(x, "block", TRUE))
       ELSE Become(t, [x EXCEPT !.pc = "embed"]) /\ UNCHANGED unstored

------------------------------------------------------------------------------
(* The steps of a check.                                                   *)

Quiet == unstored = <<>> /\ \A t \in Tasks : task[t].pc = "idle"

StartCheck(t, a) ==
  /\ task[t].pc = "idle"
  /\ Len(unstored) <= MaxUnstored
  /\ Become(t, [Idle EXCEPT !.pc = "layer0", !.action = a, !.st = Len(states)])
  /\ disturbed' = (disturbed \/ ~Quiet)
  /\ UNCHANGED <<states, constraints, history, unstored>>

\* _layer0_autonomy: the floors and whether they are definitive.  A pending or
\* a new request, a time-out, a rejection and HARD_STOP are; autonomous and
\* inform, an approval and a cancelled request are not.
Layer0Answers ==
  ({"pass", "inform", "require_approval"} \X {FALSE})
    \cup ({"pass", "inform", "require_approval", "block"} \X {TRUE})

Layer0(t) ==
  /\ task[t].pc = "layer0"
  /\ \E answer \in Layer0Answers :
       LET floor == answer[1]
           y == [task[t] EXCEPT !.floor = floor]
           x == [Heard(y, floor, answer[2]) EXCEPT !.ruled = answer[2]]
           l == Layer1(PolicyOf(x), x.action) IN
       IF x.ruled
       THEN IF floor = "block" THEN Finalize(t, x, "block") ELSE AfterLayer3(t, x)
       ELSE AfterLayer1(t, Heard(x, l.outcome, l.definitive))
  /\ UNCHANGED <<states, constraints, history, disturbed>>

\* check_similarity compares the action with the embeddings in the cache.  A
\* match at a position that has no exemplar raises, and counts as no match.
Similar(x, embedded) ==
  LET p       == PolicyOf(x)
      matches == {i \in DOMAIN embedded : x.action \in p.exemplars[embedded[i]]} IN
  matches # {} /\ matches \subseteq DOMAIN p.exemplars

AfterSimilarity(t, x, embedded) ==
  LET y == [x EXCEPT !.compared = TRUE] IN
  AfterLayer2(t, IF Similar(x, embedded) THEN Heard(y, "block", TRUE) ELSE y)

\* The action's embedding arrives or fails; a cache that is not empty is used
\* as it is.
EmbedAction(t) ==
  /\ task[t].pc = "embed"
  /\ LET x == task[t] IN
       \/ AfterLayer2(t, x)
       \/ IF states[x.st].embedded = <<>>
          THEN Become(t, [x EXCEPT !.pc = "exemplar", !.next = 1]) /\ UNCHANGED unstored
          ELSE AfterSimilarity(t, x, states[x.st].embedded)
  /\ UNCHANGED <<states, constraints, history, disturbed>>

\* The embedding of one exemplar arrives and goes into the cache.
EmbedExemplar(t) ==
  /\ task[t].pc = "exemplar"
  /\ LET x   == task[t]
         all == Append(states[x.st].embedded, x.next)
         y   == [x EXCEPT !.next = 0] IN
       /\ states' = [states EXCEPT ![x.st].embedded = all]
       /\ IF x.next < Len(PolicyOf(x).exemplars)
          THEN Become(t, [x EXCEPT !.next = @ + 1]) /\ UNCHANGED unstored
          ELSE AfterSimilarity(t, y, all)
  /\ UNCHANGED <<constraints, history, disturbed>>

\* Or it fails, and so does the layer, which finds nothing.
EmbedExemplarFails(t) ==
  /\ task[t].pc = "exemplar"
  /\ AfterLayer2(t, [task[t] EXCEPT !.next = 0])
  /\ UNCHANGED <<states, constraints, history, disturbed>>

\* Layer 4 replaces the constraints of its state; those of a state that is no
\* longer current reach nobody.
Reinject(t) ==
  /\ task[t].pc = "reinject"
  /\ LET x == task[t] IN
       /\ constraints' = IF x.st = Len(states)
                         THEN {x.action} \X (x.seen \cap Enforcing) ELSE constraints
       /\ AfterLayer4(t, x)
  /\ UNCHANGED <<states, history, disturbed>>

\* The LLM's verdict is definitive; a time-out, an error and an unknown answer
\* are a BLOCK.
Layer5(t) ==
  /\ task[t].pc = "layer5"
  /\ \E o \in Verdicts : Conclude(t, [task[t] EXCEPT !.verdict = o, !.answer = o])
  /\ UNCHANGED <<states, constraints, history, disturbed>>

\* Faulty variant: the window is taken from the wrong end of the history.
NearMissesOldest ==
  Cardinality({i \in DOMAIN history :
                 i > Len(history) - Window /\ history[i].warn})

\* _count_recent_near_misses
NearMisses ==
  Cardinality({i \in DOMAIN history : i <= Window /\ history[i].warn})

\* Enough near misses and the LLM is asked, unless layer 5 already did.
CountNearMisses(t) ==
  /\ task[t].pc = "count"
  /\ LET x == task[t] IN
       IF NearMisses >= Threshold /\ x.answer = None /\ PolicyOf(x).llm
       THEN Become(t, [x EXCEPT !.pc = "escalate"]) /\ UNCHANGED unstored
       ELSE Finalize(t, x, "warn")
  /\ UNCHANGED <<states, constraints, history, disturbed>>

\* The LLM's verdict takes the place of the warning, be it lower or higher.
Escalate(t) ==
  /\ task[t].pc = "escalate"
  /\ \E o \in Verdicts : Finalize(t, [task[t] EXCEPT !.answer = o], o)
  /\ UNCHANGED <<states, constraints, history, disturbed>>

Return(t) ==
  /\ task[t].pc = "done"
  /\ Become(t, Idle)
  /\ UNCHANGED <<states, constraints, history, unstored, disturbed>>

------------------------------------------------------------------------------
(* The rest of the engine.                                                 *)

\* _store_guard_event: lpush and ltrim, for events scheduled in any order.
StoreEvent ==
  /\ \E i \in DOMAIN unstored :
       /\ history'  = SubSeq(<<unstored[i]>> \o history, 1,
                             IF Len(history) < MaxEvents THEN Len(history) + 1
                             ELSE MaxEvents)
       /\ unstored' = SubSeq(unstored, 1, i - 1)
                        \o SubSeq(unstored, i + 1, Len(unstored))
  /\ UNCHANGED <<states, constraints, disturbed, task>>

\* load_session_rules when procedures or the red-line index change.
Refresh ==
  /\ Len(states) < MaxStates
  /\ \E p \in Policies :
       states' = Append(states, [policy |-> p, embedded |-> <<>>])
  /\ constraints' = {}
  /\ disturbed' = (disturbed \/ ~Quiet)
  /\ UNCHANGED <<history, unstored, task>>

Check(t) ==
  \/ \E a \in Actions : StartCheck(t, a)
  \/ Layer0(t) \/ EmbedAction(t) \/ EmbedExemplar(t) \/ EmbedExemplarFails(t)
  \/ Reinject(t) \/ Layer5(t) \/ CountNearMisses(t) \/ Escalate(t) \/ Return(t)

Next == (\E t \in Tasks : Check(t)) \/ StoreEvent \/ Refresh

Spec == Init /\ [][Next]_vars
------------------------------------------------------------------------------
(* Properties.                                                             *)

\* Every variable stays in its type.
TypeOK ==
  /\ states \in Seq(State)
  /\ constraints \subseteq Actions \X Enforcing
  /\ history \in Seq(Event)
  /\ unstored \in Seq(Event)
  /\ disturbed \in BOOLEAN
  /\ task \in [Tasks -> TaskType]

Proceeds(x) == x.pc = "done" /\ x.outcome \notin Enforcing

\* An action goes ahead only if nothing that was in force when its check began
\* forbids it: no enforcing static rule, no shared word, no failed validator
\* that enforces and no LLM verdict.  A time-out that lets
\* it go ahead is the one exception: it keeps the other layers from being run.
ProceedsOnlyWhenClean ==
  \A t \in Tasks : LET x == task[t] IN Proceeds(x) =>
    /\ x.answer \notin Enforcing
    /\ ~x.ruled =>
         LET p == PolicyOf(x) IN
         /\ p.rules[x.action] \cap Enforcing = {}
         /\ p.validator[x.action] \notin Enforcing
         /\ ~LexicalBlock(p, x.action)

\* While checks come one after the other, a warning that follows Threshold
\* warnings in the window is only given after the LLM was asked.
NearMissesEscalate ==
  Quiet /\ ~disturbed =>
    \A i \in DOMAIN history :
      history[i].unasked =>
        Cardinality({j \in DOMAIN history :
                       /\ j > i /\ j <= i + Window
                       /\ history[j].warn}) < Threshold

\* While checks come one after the other, an action stopped by a static rule,
\* an exemplar, a validator or a pending approval is explained to the agent: the
\* constraints of the session say so.
EnforcementExplained ==
  ~disturbed =>
    \A t \in Tasks : LET x == task[t] IN
      x.pc = "done" /\ x.outcome \in Enforcing \cap x.seen
        /\ ~(x.ruled /\ x.outcome = "block")
        => <<x.action, x.outcome>> \in constraints

------------------------------------------------------------------------------
(* The inductive invariant behind ProceedsOnlyWhenClean.                   *)

\* Something the layers before the LLM must stop.
Forbidden(x, p) ==
  \/ p.rules[x.action] \cap Enforcing # {}
  \/ LexicalBlock(p, x.action)
  \/ p.validator[x.action] \in Enforcing

\* The layers before the LLM have had their say.
Judged(x, p) ==
  /\ x.action \in Actions
  /\ ~x.ruled /\ Forbidden(x, p) => x.verdict \in Enforcing

\* What holds of a check under policy p, at each point where it may wait.
Sound(x, p) ==
  /\ x.action \in Actions
  /\ x.pc = "layer0" => x.answer = None /\ x.verdict = None
  /\ x.pc \in {"embed", "exemplar"} =>
       /\ x.answer = None /\ x.verdict = None /\ ~x.ruled
       /\ p.rules[x.action] \cap Enforcing = {}
       /\ ~LexicalBlock(p, x.action)
  /\ x.pc \in {"reinject", "layer5", "count", "escalate"} => Judged(x, p)
  /\ x.pc \in {"reinject", "layer5"} => x.answer = None
  /\ x.pc = "layer5" => x.verdict = None
  /\ x.pc \in {"count", "escalate"} => x.verdict = "warn" /\ x.answer \notin Enforcing
  /\ Proceeds(x) => x.answer \notin Enforcing /\ (x.ruled \/ ~Forbidden(x, p))

\* Every check in flight is sound under the policy it started with.
IInv ==
  /\ TypeOK
  /\ states # <<>>
  /\ \A t \in Tasks : task[t].pc # "idle" =>
       task[t].st \in DOMAIN states /\ Sound(task[t], PolicyOf(task[t]))

------------------------------------------------------------------------------
(* The inductive invariant behind the properties of serial checks.         *)

\* The constraints C explain what the layers before the LLM have stopped.
Explained(x, C) ==
  /\ x.pc \in {"layer5", "count", "escalate"} =>
       {x.action} \X (x.seen \cap Enforcing) \subseteq C
  /\ x.pc = "done" /\ x.outcome \in Enforcing \cap x.seen
       /\ ~(x.ruled /\ x.outcome = "block")
       => <<x.action, x.outcome>> \in C

\* A warning without the LLM is given only below the threshold.
FewBefore(i) ==
  Cardinality({j \in DOMAIN history : j > i /\ j <= i + Window /\ history[j].warn}) < Threshold

\* One check at a time: it runs under the current rules, and the event of the one
\* before it is stored.
Serial ==
  ~disturbed =>
    /\ \A t, u \in Tasks : t # u => task[t].pc = "idle" \/ task[u].pc = "idle"
    /\ \A t \in Tasks : task[t].pc # "idle" =>
         /\ task[t].st = Len(states) /\ task[t].floor # "warn"
         /\ Explained(task[t], constraints)
         /\ task[t].pc # "done" => unstored = <<>>
    /\ Len(unstored) <= 1
    /\ \A i \in DOMAIN unstored : unstored[i].unasked => NearMisses < Threshold
    /\ \A i \in DOMAIN history : history[i].unasked => FewBefore(i)
=============================================================================
