----------------------------- MODULE Recurrence -----------------------------
(***************************************************************************)
(* What is said again and again: stages 1, 2 and 6 of a consolidation run. *)
(*                                                                         *)
(* Stage 1 puts near duplicates into clusters with a union-find over all   *)
(* pairs, and notes the sessions of each (cluster_duplicates.py).  Stage 2 *)
(* merges a cluster into a new canonical fact and archives its members     *)
(* (canonicalize.py).  Stage 6 promotes what was seen in enough sessions   *)
(* (promote.py) and the facts of the run are written back.  Facts may be   *)
(* stored at any time.                                                     *)
(*                                                                         *)
(* The facts are numbered in the order they come into the graph, which is  *)
(* the order a run lists them in.  Consolidation has the stores, the locks *)
(* and the other stages.                                                   *)
(***************************************************************************)
EXTENDS Naturals, Sequences, FiniteSets

CONSTANTS
  MaxFacts,   \* the facts there will be (a bound)
  Kinds,      \* what can be stored: [session, class, scope, goal, uses]
  Threshold,  \* promote_session_threshold
  CallCap,    \* llm_calls_per_run_cap
  MaxLoads,   \* consolidation runs (a bound)
  MaxSlips,   \* what may fail (a bound)
  None        \* the session of a canonical fact

\* What MCParts assumes of the constants.
RecurrenceAssumption ==
  /\ MaxFacts \in Nat /\ Threshold \in Nat \ {0, 1}
  /\ \A kind \in Kinds : kind.goal \in BOOLEAN /\ kind.uses \in Nat

VARIABLES
  near,    \* pairs <<f, g>>, f < g, whose embeddings are similar enough
  facts,   \* the stored facts
  run,     \* the run: where it is, its copies, clusters, clusters left to merge
  loads,   \* runs started
  slips    \* what failed so far

rvars == <<near, facts, run, loads, slips>>

Ids == 1..MaxFacts

Resting == [at |-> "rest", copies |-> <<>>, clusters |-> {}, todo |-> {}, calls |-> 0]

RecurrenceInit ==
  /\ near \in SUBSET {p \in Ids \X Ids : p[1] < p[2]}
  /\ facts = <<>> /\ run = Resting /\ loads = 0 /\ slips = 0

Slip(bad) ==
  /\ bad => slips < MaxSlips
  /\ slips' = IF bad THEN slips + 1 ELSE slips

Live == {f \in DOMAIN facts : ~facts[f].archived}

\* facade.store: one more fact.
StoreFact(kind) ==
  /\ Len(facts) < MaxFacts
  /\ facts' = Append(facts, [session |-> kind.session, class |-> kind.class,
                             scope |-> kind.scope, goal |-> kind.goal,
                             uses |-> kind.uses, archived |-> FALSE])
  /\ UNCHANGED <<near, run, loads, slips>>

------------------------------------------------------------------------------
(* Stage 1.                                                                *)

\* find; that it shortens the path it went changes no root.
Root(parent, x) ==
  LET up[y \in DOMAIN parent] == IF parent[y] = y THEN y ELSE up[parent[y]]
  IN  up[x]

\* Faulty variant: the element is hung on the other root, not its own root.
UnionElement(parent, x, y) == [parent EXCEPT ![x] = Root(parent, y)]

Union2(parent, x, y) == [parent EXCEPT ![Root(parent, x)] = Root(parent, y)]

\* The inner loop: fact i against those after it.
Row(S, parent, i) ==
  LET row[j \in 0..MaxFacts] ==
        IF j = 0 THEN parent
        ELSE IF {i, j} \subseteq S /\ <<i, j>> \in near THEN Union2(row[j - 1], i, j)
        ELSE row[j - 1]
  IN  row[MaxFacts]

\* The outer loop.
Forest(S) ==
  LET rows[i \in 0..MaxFacts] ==
        IF i = 0 THEN [f \in S |-> f] ELSE Row(S, rows[i - 1], i)
  IN  rows[MaxFacts]

\* The clusters of two facts or more.
ClustersOf(S) ==
  LET parent == Forest(S)
      of(root) == {f \in S : Root(parent, f) = root}
  IN  {C \in {of(f) : f \in S} : Cardinality(C) >= 2}

\* The facts are loaded and put into clusters; none when they cannot be embedded.
LoadAndCluster ==
  /\ run.at = "rest" /\ loads < MaxLoads
  /\ loads' = loads + 1
  /\ \E embedded \in BOOLEAN :
       LET clusters == IF embedded THEN ClustersOf(Live) ELSE {}
       IN  /\ Slip(~embedded)
           /\ run' = [at |-> "merge", copies |-> [f \in Live |-> facts[f]],
                      clusters |-> clusters, todo |-> clusters, calls |-> 0]
  /\ UNCHANGED <<near, facts>>

------------------------------------------------------------------------------
(* Stage 2.                                                                *)

ClassOrder ==
  [working_memory |-> 0, episodic |-> 1, semantic |-> 2, procedural |-> 3, policy |-> 4]
ScopeOrder == [session |-> 0, actor |-> 1, team |-> 2, organization |-> 3, global |-> 4]

\* A scope the order does not name (task, subagent, artifact) counts as the narrowest.
Rank(order, x) == IF x \in DOMAIN order THEN order[x] ELSE 0

\* Of values that rank alike one is taken, in the code the first.
Highest(order, values) ==
  CHOOSE v \in values : \A w \in values : Rank(order, w) <= Rank(order, v)

\* The uses of the members, added up.
Uses(C) ==
  LET sum[n \in 0..MaxFacts] ==
        IF n = 0 THEN 0 ELSE sum[n - 1] + (IF n \in C THEN run.copies[n].uses ELSE 0)
  IN  sum[MaxFacts]

\* Faulty variant: the class of the member whose text is kept.
CanonicalOfBest(C) ==
  LET best == CHOOSE f \in C : TRUE
  IN  [session |-> None, class |-> run.copies[best].class,
       scope |-> Highest(ScopeOrder, {run.copies[f].scope : f \in C}),
       goal |-> \E f \in C : run.copies[f].goal,
       uses |-> Uses(C), archived |-> FALSE]

\* The canonical fact: of no session, with the broadest and most promoted of what
\* its members were.
Canonical(C) ==
  [session |-> None,
   class |-> Highest(ClassOrder, {run.copies[f].class : f \in C}),
   scope |-> Highest(ScopeOrder, {run.copies[f].scope : f \in C}),
   goal |-> \E f \in C : run.copies[f].goal,
   uses |-> Uses(C), archived |-> FALSE]

\* The cluster is left as it is: the texts differ and there is no call left or no
\* answer, or the canonical fact cannot be stored, maybe after a call was spent on it.
SkipCluster(C) ==
  /\ run.at = "merge" /\ C \in run.todo
  /\ \E spent \in {0, 1} :
       /\ spent = 1 => run.calls < CallCap
       /\ Slip(spent = 1 \/ run.calls < CallCap)
       /\ run' = [run EXCEPT !.todo = @ \ {C}, !.calls = @ + spent]
  /\ UNCHANGED <<near, facts, loads>>

\* member.archived = True, for the members.
Archived(C) ==
  [f \in DOMAIN run.copies |-> IF f \in C THEN [run.copies[f] EXCEPT !.archived = TRUE]
                               ELSE run.copies[f]]

\* The members are archived in the graph and in the list of the run, which does not
\* get the canonical fact.  Only differing texts cost a call of the LLM.
MergeCluster(C) ==
  /\ run.at = "merge" /\ C \in run.todo /\ Len(facts) < MaxFacts
  /\ \E asked \in BOOLEAN :
       /\ asked => run.calls < CallCap
       /\ run' = [run EXCEPT
            !.todo = @ \ {C}, !.calls = IF asked THEN @ + 1 ELSE @, !.copies = Archived(C)]
  /\ facts' = Append([f \in DOMAIN facts |-> IF f \in C THEN Archived(C)[f] ELSE facts[f]],
                     Canonical(C))
  /\ UNCHANGED <<near, loads, slips>>

------------------------------------------------------------------------------
(* Stage 6.                                                                *)

\* The sessions of a fact and of its near duplicates, archived by now or not.
SessionsSeen(f) ==
  LET alike == {f} \cup UNION {C \in run.clusters : f \in C}
  IN  Cardinality({run.copies[g].session : g \in alike} \ {None})

\* The matrix; a certain fact that is to be flagged for the global scope is left.
Promoted(f) ==
  LET fact == run.copies[f]
      often == SessionsSeen(f) >= Threshold
      used == fact.uses > 0
      wide == (often /\ (fact.goal \/ used)) \/ (fact.goal /\ used)
  IN  [fact EXCEPT !.class = IF often /\ @ = "episodic" THEN "semantic" ELSE @,
                   !.scope = IF wide /\ @ = "session" THEN "actor" ELSE @]

\* The stage, and the facts of the run are written as they are in its list; when
\* that fails nothing of it stays.
PromoteAndWrite ==
  /\ run.at = "merge" /\ run.todo = {}
  /\ \E ok \in BOOLEAN, certain \in SUBSET {f \in DOMAIN run.copies : run.copies[f].goal} :
       LET flagged == {f \in certain : SessionsSeen(f) >= Threshold}
           after(f) == IF run.copies[f].archived \/ f \in flagged THEN run.copies[f] ELSE Promoted(f)
       IN  /\ Slip(~ok)
           /\ facts' = IF ok THEN [f \in DOMAIN facts |->
                                     IF f \in DOMAIN run.copies THEN after(f) ELSE facts[f]]
                       ELSE facts
  /\ run' = [run EXCEPT !.at = "written"]
  /\ UNCHANGED <<near, loads>>

EndRun == run.at = "written" /\ run' = Resting /\ UNCHANGED <<near, facts, loads, slips>>

RecurrenceNext ==
  \/ \E kind \in Kinds : StoreFact(kind)
  \/ LoadAndCluster \/ PromoteAndWrite \/ EndRun
  \/ \E C \in run.todo : SkipCluster(C) \/ MergeCluster(C)

RecurrenceSpec == RecurrenceInit /\ [][RecurrenceNext]_rvars

------------------------------------------------------------------------------
\* What has all near duplicates among S of what is in it.
Closed(T, S) ==
  \A f \in T, g \in S : <<f, g>> \in near \/ <<g, f>> \in near => g \in T

\* The facts one comes to from f over near duplicates among S.
Alike(f, S) == {g \in S : \A T \in SUBSET S : f \in T /\ Closed(T, S) => g \in T}

\* What is connected, where that is two facts or more.
Linked(S) == {C \in {Alike(f, S) : f \in S} : Cardinality(C) >= 2}

\* The clusters are what is connected by near duplicates, whatever the order the
\* pairs were compared in: no fact is merged with one it is not linked to, and no
\* duplicate is left out.
ClustersAreLinked == run.clusters # {} => run.clusters = Linked(DOMAIN run.copies)

\* Of every step: a fact becomes semantic only when it and its near duplicates were
\* said in as many sessions as the threshold asks for.
PromotedOnlyIfRecurring ==
  \A f \in DOMAIN facts :
    facts[f].class = "episodic" /\ facts'[f].class = "semantic" =>
      Cardinality({facts[g].session : g \in Alike(f, DOMAIN run.copies)} \ {None})
        >= Threshold

\* Of every step: whatever is archived as a duplicate leaves a live fact of at least
\* its class, its scope, its goal and its uses.
MergeLosesNothing ==
  \A f \in DOMAIN facts : ~facts[f].archived /\ facts'[f].archived =>
    \E c \in DOMAIN facts' :
      /\ ~facts'[c].archived
      /\ Rank(ClassOrder, facts'[c].class) >= Rank(ClassOrder, facts[f].class)
      /\ Rank(ScopeOrder, facts'[c].scope) >= Rank(ScopeOrder, facts[f].scope)
      /\ facts[f].goal => facts'[c].goal
      /\ facts'[c].uses >= facts[f].uses

\* Of every step: consolidation changes facts for the reasons it is there for.
ChangesJustified == PromotedOnlyIfRecurring /\ MergeLosesNothing

------------------------------------------------------------------------------
(* The inductive invariant.                                                *)

FactType ==
  [session : {kind.session : kind \in Kinds} \cup {None}, class : {kind.class : kind \in Kinds} \cup {"semantic"},
   scope : {kind.scope : kind \in Kinds} \cup {"actor"}, goal : BOOLEAN, uses : Nat, archived : BOOLEAN]

RunTyped ==
  /\ DOMAIN run = DOMAIN Resting
  /\ run.at \in {"rest", "merge", "written"} /\ run.calls \in Nat
  /\ DOMAIN run.copies \subseteq DOMAIN facts
  /\ \A f \in DOMAIN run.copies : run.copies[f] \in FactType

\* A run works on copies; until it writes them back they are what is stored.
CopiesFresh == run.at = "merge" => \A f \in DOMAIN run.copies : facts[f] = run.copies[f]

IInv ==
  /\ near \subseteq {p \in Ids \X Ids : p[1] < p[2]}
  /\ facts \in Seq(FactType) /\ Len(facts) <= MaxFacts
  /\ loads \in Nat /\ slips \in Nat
  /\ RunTyped /\ CopiesFresh /\ ClustersAreLinked
  /\ run.todo \subseteq run.clusters
=============================================================================
