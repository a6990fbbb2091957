----------------------------- MODULE WorkingSet -----------------------------
(***************************************************************************)
(* How one session gets its working set: runtime/working_set (manager,     *)
(* candidates, scoring, selector), runtime/retrieval/orchestrator.py,      *)
(* runtime/rerank/orchestrator.py and the part of                          *)
(* runtime/context/{assembler,lifecycle}.py that shows it to the agent.    *)
(*                                                                         *)
(* A call builds a snapshot: it gathers candidates from several sources at *)
(* once, reranks and merges them, scores them and picks greedily under a   *)
(* token budget.  A turn (ContextLifecycle.assemble, then build_overlay)   *)
(* and the route POST /working-set/build build for the same session and    *)
(* write the same Redis key.  Meanwhile facts are deleted, archived and    *)
(* blacklisted by others (FactMemory, Consolidation).                      *)
(*                                                                         *)
(* Scores are small integers instead of weighted sums of reals; every      *)
(* order the real scores could produce is an arbitrary choice.  A source   *)
(* that times out and one that fails look the same to the code.            *)
(***************************************************************************)
EXTENDS Integers, Sequences, FiniteSets

CONSTANTS
    Facts,        \* facts of the gateway
    Direct,       \* goals and procedures offered without retrieval
    Pressing,     \* those with blockers or required evidence
    Constraint,   \* facts of category "constraint"
    Size,         \* Items -> token_size
    Near,         \* pairs of near duplicates (embedding similarity)
    Supersedes,   \* SUPERSEDES edges between facts
    Turns,        \* calls of assemble, each followed by build_overlay
    Routes,       \* calls of POST /working-set/build
    Budgets,      \* token budgets a profile, the defaults or an override give
    StructuralK, VectorK,  \* fetch_k of the two sources
    RootTopK,     \* policy.root_top_k
    RerankCap,    \* cheap_prune_max_candidates and max_documents
    MaxScore,     \* bound: scores are 1 .. MaxScore
    RedundancyPenalty, SupersessionPenalty,
    OverlayShare, \* Block 1 may take budget \div OverlayShare
    MaxFaults, MaxChanges  \* bounds: failing calls, facts changed by others

Items == Facts \cup Direct
Builds == Turns \cup Routes

\* What MCParts assumes of the constants.
WorkingSetAssumption ==
    /\ Pressing \subseteq Direct /\ Constraint \subseteq Facts
    /\ Facts \cap Direct = {} /\ Turns \cap Routes = {}
    /\ Size \in [Items -> Nat \ {0}]
    /\ Near \subseteq Facts \X Facts /\ Supersedes \subseteq Facts \X Facts
    /\ Budgets \subseteq Nat /\ IsFiniteSet(Items)
    /\ {StructuralK, VectorK, RootTopK, RerankCap, MaxScore} \subseteq Nat \ {0}

VARIABLES
    standing, \* standing[f]: what others made of the fact
    memory,   \* WorkingSetManager._snapshots of this session
    redis,    \* the ws_snapshot key of this session
    call,     \* one record per call: where it is and what it holds
    faults, changes

vars == <<standing, memory, redis, call, faults, changes>>

\* tokens_used: the sizes of a list of items, added up.
TokensUsed(items) ==
    LET upTo[k \in 0..Len(items)] ==
          IF k = 0 THEN 0 ELSE upTo[k - 1] + Size[items[k]]
    IN  upTo[Len(items)]

NoSnapshot == [by |-> "none", items |-> <<>>]
Sources == {"structural", "vector"}
Standings == {"live", "blacklisted", "gone"}

Idle == [pc |-> "idle", budget |-> 0, edges |-> {}, pending |-> {},
         score |-> <<>>, direct |-> {}, ranked |-> {}, snapshot |-> NoSnapshot,
         system |-> {}, shown |-> {}, at |-> [f \in Facts |-> "live"],
         mixed |-> FALSE]

SeqRange(s) == {s[k] : k \in DOMAIN s}
ItemsOf(snapshot) == SeqRange(snapshot.items)
Least(a, b) == IF a <= b THEN a ELSE b

Init ==
    /\ standing = [f \in Facts |-> "live"]
    /\ memory = NoSnapshot /\ redis = NoSnapshot
    /\ call = [c \in Builds |-> Idle]
    /\ faults = 0 /\ changes = 0

Running(c) == call[c].pc \notin {"idle", "done", "dead"}

\* A call that fails is bounded; `ok' says whether this one does not.
Outcome(ok) ==
    /\ ok \/ faults < MaxFaults
    /\ faults' = IF ok THEN faults ELSE faults + 1

\* get_working_set: the memory first, then Redis.
GetWorkingSet == IF memory # NoSnapshot THEN memory ELSE redis

\* Nothing else of the session happens around a turn: history for the
\* properties, no part of the code.  A fault, a restart, an expiry or another
\* call's writes make a turn "mixed".
Mixing(new, others) ==
    [d \in Builds |-> IF d \in others /\ Running(d) THEN [new[d] EXCEPT !.mixed = TRUE]
                     ELSE new[d]]

------------------------------------------------------------------------------
(* The pure parts. *)

Must(i) == i \in Constraint \cup Pressing

\* best[f]: the highest weighted score any source gave to f.
Best(old, hits) ==
    [f \in DOMAIN old \cup DOMAIN hits |->
        IF f \notin DOMAIN hits THEN old[f]
        ELSE IF f \notin DOMAIN old THEN hits[f]
        ELSE IF hits[f] > old[f] THEN hits[f] ELSE old[f]]

\* Every way to keep the k best of the candidates.
Capped(score, k) ==
    {S \in SUBSET DOMAIN score :
        /\ Cardinality(S) = Least(k, Cardinality(DOMAIN score))
        /\ \A f \in S, g \in DOMAIN score \ S : score[f] >= score[g]}

\* cheap_prune and the cross-encoder keep their best n; a rerank that raises
\* leaves the retrieved candidates as they are.
Cut(how, n) == IF how = "raised" THEN n ELSE Least(RerankCap, n)

Similar(f, g) == <<f, g>> \in Near \/ <<g, f>> \in Near

\* merge_duplicates: union-find over the similar pairs ...
Group(f, S) ==
    CHOOSE G \in SUBSET S :
        /\ f \in G
        /\ \A g \in G, h \in S : Similar(g, h) => h \in G
        /\ \A H \in SUBSET S :
              f \in H /\ (\A g \in H, h \in S : Similar(g, h) => h \in H)
                  => G \subseteq H

\* Mutant: the last member visited survives, whatever its score.
MergesAny(S, score) ==
    {T \in SUBSET S : \A f \in S : Cardinality(T \cap Group(f, S)) = 1}

\* ... and one of the highest scored members of each group survives.
Merges(S, score) ==
    {T \in SUBSET S :
        \A f \in S :
            /\ Cardinality(T \cap Group(f, S)) = 1
            /\ \A g \in T \cap Group(f, S) : score[g] >= score[f]}

\* score_independent: the nine weighted scores of an item, added up.
BaseScores(S) == [S -> 1..MaxScore]

\* The orders a stable sort by descending score can give.
Orders(S, base) ==
    {q \in [1..Cardinality(S) -> S] :
        /\ SeqRange(q) = S
        /\ \A k, l \in DOMAIN q : k < l => base[q[k]] >= base[q[l]]}

\* compute_redundancy_penalty and compute_contradiction_penalty against
\* what is selected so far: the edge counts in both directions.
Penalty(i, chosen, edges) ==
    (IF \E j \in chosen : Similar(i, j) THEN RedundancyPenalty ELSE 0)
    + (IF \E j \in chosen : <<i, j>> \in edges \/ <<j, i>> \in edges
       THEN SupersessionPenalty ELSE 0)

\* Mutant: the size of the item is not compared with what is left.
OfferUnsized(i, base, edges, s) ==
    IF s.left > 0 /\ base[i] - Penalty(i, SeqRange(s.chosen), edges) > 0
    THEN [chosen |-> Append(s.chosen, i), left |-> s.left - Size[i]]
    ELSE s

\* One item offered to the greedy pass of BudgetSelector.select.
Offer(i, base, edges, s) ==
    IF /\ s.left > 0
       /\ Size[i] <= s.left
       /\ base[i] - Penalty(i, SeqRange(s.chosen), edges) > 0
    THEN [chosen |-> Append(s.chosen, i), left |-> s.left - Size[i]]
    ELSE s

\* BudgetSelector.select: what must be injected first, whatever it costs;
\* then greedily in the order of the scores.
Greedy(must, order, budget, base, edges) ==
    LET start == [chosen |-> must, left |-> budget - TokensUsed(must)]
        step[k \in 0..Len(order)] ==
            IF k = 0 THEN start ELSE Offer(order[k], base, edges, step[k - 1])
    IN  step[Len(order)].chosen

\* assemble_from_snapshot, Block 1: the constraints and procedures of the
\* snapshot, cut off at the share of the budget.
Block1(items, budget) ==
    LET upTo[k \in 0..Len(items)] ==
          IF k = 0 THEN 0
          ELSE IF Must(items[k]) THEN upTo[k - 1] + Size[items[k]] ELSE upTo[k - 1]
    IN  {items[k] : k \in {k \in DOMAIN items :
            Must(items[k]) /\ upTo[k] <= budget \div OverlayShare}}

------------------------------------------------------------------------------
(* build_working_set *)

\* _build_scoring_context: a failing read leaves no conflict edges ...
ConflictEdges == {Supersedes, {}}

\* ... and the sources of goals and procedures leave out what they could not
\* read.
DirectItems == SUBSET Direct

\* Profile and budget, then what nobody in this module changes: the conflict
\* edges, goals and procedures.
Start(c) ==
    /\ call[c].pc = "idle"
    /\ c \in Turns => \A d \in Turns : ~Running(d)
    /\ \E budget \in Budgets, E \in ConflictEdges, D \in DirectItems :
        /\ Outcome(E = Supersedes /\ D = Direct)
        /\ call' = Mixing(
             [call EXCEPT ![c] = [Idle EXCEPT !.pc = "gather", !.budget = budget,
                !.edges = E, !.direct = D, !.pending = Sources, !.at = standing,
                !.mixed = \E d \in Builds : Running(d)]],
             Builds \ {c})
    /\ UNCHANGED <<standing, memory, redis, changes>>

Gather(c, source, new) ==
    call' = [call EXCEPT ![c] = [new EXCEPT !.pending = @ \ {source}]]

\* retrieve_candidates is called with auto_recall.  get_structural_hits: the
\* query leaves archived and blacklisted facts out.
Structural(c) ==
    /\ call[c].pc = "gather" /\ "structural" \in call[c].pending
    /\ \E ok \in BOOLEAN :
        /\ Outcome(ok)
        /\ LET open == {f \in Facts : standing[f] = "live"}
           IN \E H \in SUBSET open :
                /\ Cardinality(H) = IF ok THEN Least(StructuralK, Cardinality(open)) ELSE 0
                /\ Gather(c, "structural",
                     [call[c] EXCEPT !.score = Best(@, [f \in H |-> 1])])
    /\ UNCHANGED <<standing, memory, redis, changes>>

\* _get_direct_vector_hits: the index offers any facts, each hit is looked up
\* in the graph and dropped when the node is gone; no other filter.
FoundInIndex(f) == f \in Facts  \* mutant: the graph is not asked
Found(f) == standing[f] # "gone"
Vector(c) ==
    /\ call[c].pc = "gather" /\ "vector" \in call[c].pending
    /\ \E ok \in BOOLEAN, H \in SUBSET Facts :
        /\ Outcome(ok)
        /\ Cardinality(H) <= VectorK /\ (~ok => H = {})
        /\ \E s \in [{f \in H : Found(f)} -> 1..MaxScore] :
             Gather(c, "vector", [call[c] EXCEPT !.score = Best(@, s)])
    /\ UNCHANGED <<standing, memory, redis, changes>>

\* root_top_k, then rerank: prune, semantic and cross-encoder order with its
\* cut, merge of near duplicates.  The blended scores keep an arbitrary choice
\* within the cut.  Without embeddings nothing is merged, and when rerank
\* raises the retrieved order stands.
Rerank(c) ==
    /\ call[c].pc = "gather" /\ call[c].pending = {}
    /\ \E how \in {"all", "unmerged", "raised"}, S \in Capped(call[c].score, RootTopK) :
        /\ Outcome(how = "all")
        /\ \E T \in SUBSET S :
            /\ Cardinality(T) = Cut(how, Cardinality(S))
            /\ \E R \in IF how = "all" THEN Merges(T, call[c].score) ELSE {T} :
                 call' = [call EXCEPT ![c].ranked = R, ![c].pc = "score"]
    /\ UNCHANGED <<standing, memory, redis, changes>>

\* score_independent and select: no await in between, so one step; the
\* snapshot goes to the manager's memory at once.
Select(c) ==
    /\ call[c].pc = "score"
    /\ LET all == call[c].ranked \cup call[c].direct
           must == {i \in all : Must(i)}
       IN \E base \in BaseScores(all) :
          \E order \in Orders(all \ must, base), first \in Orders(must, [i \in must |-> 1]) :
            LET snapshot == [by |-> c,
                    items |-> Greedy(first, order, call[c].budget, base, call[c].edges)]
            IN  /\ memory' = snapshot
                /\ call' = [call EXCEPT ![c].snapshot = snapshot, ![c].pc = "persist"]
    /\ UNCHANGED <<standing, redis, faults, changes>>

\* The manager's own cache write; a failure is swallowed.  The candidates are
\* forgotten.
Persist(c) ==
    /\ call[c].pc = "persist"
    /\ \E ok \in BOOLEAN :
        /\ Outcome(ok)
        /\ redis' = IF ok THEN call[c].snapshot ELSE redis
    /\ call' = [call EXCEPT ![c] =
         [call[c] EXCEPT !.pc = IF c \in Turns THEN "assemble" ELSE "done",
            !.snapshot = IF c \in Turns THEN @ ELSE NoSnapshot,
            !.edges = {}, !.score = <<>>, !.direct = {}, !.ranked = {},
            !.at = Idle.at]]
    /\ UNCHANGED <<standing, memory, changes>>

------------------------------------------------------------------------------
(* assemble and build_overlay *)

\* assemble_from_snapshot: Block 1 goes out with the messages.
Assemble(c) ==
    /\ call[c].pc = "assemble"
    /\ call' = [call EXCEPT
         ![c].system = Block1(call[c].snapshot.items, call[c].budget),
         ![c].pc = "cache"]
    /\ UNCHANGED <<standing, memory, redis, faults, changes>>

\* Mutant: the manager's own write is relied on.
CacheOnce(c) ==
    /\ call[c].pc = "cache"
    /\ call' = [call EXCEPT ![c].pc = "returned"]
    /\ UNCHANGED <<standing, memory, redis, faults, changes>>

\* The lifecycle writes the snapshot to the same key again, for the overlay.
Cache(c) ==
    /\ call[c].pc = "cache"
    /\ \E ok \in BOOLEAN :
        /\ Outcome(ok)
        /\ redis' = IF ok THEN call[c].snapshot ELSE redis
        /\ call' = [call EXCEPT ![c].pc = "returned", ![c].mixed = @ \/ ~ok]
    /\ UNCHANGED <<standing, memory, changes>>

\* build_overlay shows every item of the cached snapshot, or nothing.
Overlay(c) ==
    /\ call[c].pc = "returned"
    /\ call' = [call EXCEPT ![c].shown = ItemsOf(redis), ![c].pc = "done"]
    /\ UNCHANGED <<standing, memory, redis, faults, changes>>

------------------------------------------------------------------------------
(* The surroundings *)

\* Consolidation blacklists, facade.delete removes; an archived fact is left
\* out where a blacklisted one is.
Change(f) ==
    /\ changes < MaxChanges
    /\ \E to \in Standings \ {"live"} :
        /\ standing[f] # "gone" /\ standing[f] # to
        /\ standing' = [standing EXCEPT ![f] = to]
    /\ changes' = changes + 1
    /\ UNCHANGED <<memory, redis, call, faults>>

\* The TTL of the key runs out.
Expire ==
    /\ redis # NoSnapshot /\ faults < MaxFaults
    /\ redis' = NoSnapshot
    /\ faults' = faults + 1
    /\ call' = Mixing(call, Builds)
    /\ UNCHANGED <<standing, memory, changes>>

\* A restart of the server: its memory and its running calls are gone.
Restart ==
    /\ faults < MaxFaults
    /\ memory' = NoSnapshot
    /\ faults' = faults + 1
    /\ call' = [c \in Builds |-> IF Running(c) THEN [call[c] EXCEPT !.pc = "dead"]
                                ELSE call[c]]
    /\ UNCHANGED <<standing, redis, changes>>

Next ==
    \/ \E c \in Builds :
          \/ Start(c) \/ Structural(c) \/ Vector(c)
          \/ Rerank(c) \/ Select(c) \/ Persist(c)
          \/ Assemble(c) \/ Cache(c) \/ Overlay(c)
    \/ \E f \in Facts : Change(f)
    \/ Expire
    \/ Restart

Spec == Init /\ [][Next]_vars

------------------------------------------------------------------------------
(* Properties *)

JustSelected(c) == call[c].pc = "persist"

\* Every variable stays within its type.
TypeOK ==
    /\ standing \in [Facts -> Standings]
    /\ \A s \in {memory, redis} \cup {call[c].snapshot : c \in Builds} :
          s.by \in Builds \cup {"none"} /\ ItemsOf(s) \subseteq Items
    /\ \A c \in Builds :
          /\ call[c].pending \subseteq Sources
          /\ DOMAIN call[c].score \subseteq Facts
          /\ call[c].ranked \subseteq DOMAIN call[c].score
    /\ faults \in 0..MaxFaults /\ changes \in 0..MaxChanges

\* A fact that was deleted before a call started is in no snapshot of that
\* call, although the vector index may still offer it.
NoGhostFacts ==
    \A c \in Builds : JustSelected(c) =>
        \A i \in ItemsOf(call[c].snapshot) \cap Facts : call[c].at[i] # "gone"

\* The budget is overspent by what must be injected only: as soon as one
\* optional item is in a snapshot, the whole snapshot fits.
OverspendOnlyByMust ==
    \A c \in Builds : JustSelected(c) =>
        LET chosen == call[c].snapshot.items
        IN  (\E i \in SeqRange(chosen) : ~Must(i)) => TokensUsed(chosen) <= call[c].budget

\* A constraint that some source found is in the snapshot, unless the caps
\* were exceeded or a near duplicate with no lower score stands for it.
ConstraintLostOnlyToBetter ==
    \A c \in Builds : JustSelected(c) =>
        \A f \in Constraint \cap DOMAIN call[c].score :
            \/ f \in ItemsOf(call[c].snapshot)
            \/ Cardinality(DOMAIN call[c].score) > Least(RootTopK, RerankCap)
            \/ \E g \in (call[c].ranked \cap Group(f, DOMAIN call[c].score)) \ {f} :
                  call[c].score[g] >= call[c].score[f]

\* The overlay of a turn shows exactly what that turn selected, when its last
\* write to Redis succeeded and no other call or loss came in between: the two
\* halves of a prompt, and GET /working-set, come from one snapshot.
OverlayIsOfThisTurn ==
    \A c \in Turns : ~call[c].mixed =>
        /\ call[c].pc = "returned" => GetWorkingSet = redis
        /\ call[c].pc = "done" =>
              /\ call[c].shown = ItemsOf(call[c].snapshot)
              /\ call[c].system \subseteq call[c].shown

------------------------------------------------------------------------------
(* The inductive invariant behind the four                                 *)

Snapshots == [by : Builds \cup {"none"}, items : Seq(Items)]

CallType ==
    [pc : {"idle", "gather", "score", "persist", "assemble", "cache", "returned", "done",
           "dead"},
     budget : Nat, edges : SUBSET (Facts \X Facts), pending : SUBSET Sources,
     score : UNION {[D -> 1..MaxScore] : D \in SUBSET Facts},
     direct : SUBSET Direct, ranked : SUBSET Facts, snapshot : Snapshots,
     system : SUBSET Items, shown : SUBSET Items, at : [Facts -> Standings],
     mixed : BOOLEAN]

\* A fact that is gone stays gone, so what was found at any time after the start of
\* a call was there at its start.
FoundAfterStart(x) ==
    x.pc \in {"gather", "score", "persist"} =>
        /\ \A f \in Facts : x.at[f] = "gone" => standing[f] = "gone"
        /\ \A f \in DOMAIN x.score : x.at[f] # "gone"

\* The cuts and the merge lose no constraint to less than themselves.
RankedKeeps(x) ==
    x.pc \in {"score", "persist"} =>
        /\ x.ranked \subseteq DOMAIN x.score
        /\ \A f \in Constraint \cap DOMAIN x.score :
              \/ f \in x.ranked
              \/ Cardinality(DOMAIN x.score) > Least(RootTopK, RerankCap)
              \/ \E g \in (x.ranked \cap Group(f, DOMAIN x.score)) \ {f} :
                    x.score[g] >= x.score[f]

\* The selection takes all it must, and optional items only where they fit.
SelectedWell(x) ==
    x.pc = "persist" =>
        /\ ItemsOf(x.snapshot) \subseteq x.ranked \cup x.direct
        /\ \A i \in x.ranked : Must(i) => i \in ItemsOf(x.snapshot)
        /\ (\E i \in ItemsOf(x.snapshot) : ~Must(i)) => TokensUsed(x.snapshot.items) <= x.budget

\* What a turn that nothing disturbed selected is in the manager's memory, and
\* once it has returned in Redis.
Undisturbed(c, x) ==
    ~x.mixed =>
        /\ Running(c) => \A d \in Builds \ {c} : ~Running(d)
        /\ x.pc \in {"persist", "assemble", "cache", "returned"} => memory = x.snapshot
        /\ x.pc = "returned" => redis = x.snapshot
        /\ x.pc \in {"cache", "returned", "done"} => x.system \subseteq ItemsOf(x.snapshot)
        /\ x.pc = "done" => x.shown = ItemsOf(x.snapshot)

IInv ==
    /\ standing \in [Facts -> Standings]
    /\ memory \in Snapshots /\ redis \in Snapshots
    /\ call \in [Builds -> CallType]
    /\ \A c \in Builds : /\ FoundAfterStart(call[c]) /\ RankedKeeps(call[c])
                         /\ SelectedWell(call[c])
    /\ \A c \in Turns : Undisturbed(c, call[c])

=============================================================================
