------------------------------ MODULE UseCounts ------------------------------
(***************************************************************************)
(* What the system learns from use: the counters of one fact, who writes   *)
(* them, and what the consolidation makes of them.                         *)
(*                                                                         *)
(* A turn judges each fact of its snapshot and writes the counters the     *)
(* snapshot showed plus one (runtime/context/lifecycle.py); the RT-1 batch *)
(* does the same for the successes (consolidation/successful_use_task.py); *)
(* a search counts a recall (memory/facade.py).  Each of them, and every   *)
(* stage of a consolidation, stores the whole node from a copy.            *)
(***************************************************************************)
EXTENDS Integers, FiniteSets

CONSTANTS
    Sessions, Tasks,
    StrengthenMin,  \* strengthen_min_use_count
    BlacklistMin,   \* autorecall_blacklist_min_recalls
    MaxConfidence,  \* levels of confidence; 0 is below the archival threshold
    MaxUses, MaxRuns, MaxFaults   \* bounds

\* What MCParts assumes of the constants.
UseCountsAssumption ==
    /\ {StrengthenMin, BlacklistMin} \subseteq Nat \ {0} /\ MaxConfidence \in Nat \ {0}
    /\ {MaxUses, MaxRuns, MaxFaults} \subseteq Nat

VARIABLES
    fact,       \* the node: counters, confidence, archived, blacklisted
    snapshot,   \* snapshot[s]: the counters a session was shown, or nothing
    writer,     \* one record per update in flight
    run,        \* the consolidation: its stage and its copy of the fact
    uses, runs, faults,
    proved,     \* a success was stored; history
    punished,   \* a copy that was loaded after that was decayed or
                \* blacklisted; history
    overtaken,  \* a copy was written that was no longer the node, or counters
                \* of a snapshot that were no longer the node's; history
    unscanned   \* RT-1 judged a turn without a scan before it; history

history == <<proved, punished, overtaken, unscanned>>
uvars == <<fact, snapshot, writer, run, uses, runs, faults, history>>

Counters(f) == <<f.use, f.suc>>
NoFact == [use |-> 0, suc |-> 0, confidence |-> 0, archived |-> FALSE, black |-> FALSE]
\* seen: the counters of the snapshot; base: those the node should have;
\* source: the node as it was read; then: RT-1 follows.
Idle == [pc |-> "idle", kind |-> "none", seen |-> <<0, 0>>, base |-> <<0, 0>>,
         quoted |-> FALSE, then |-> FALSE, source |-> NoFact, copy |-> NoFact]
NoRun == [stage |-> 0, copy |-> NoFact, proved |-> FALSE]
NoSnapshot == [shown |-> FALSE, counts |-> <<0, 0>>]

UseCountsInit ==
    /\ fact = [use |-> 0, suc |-> 0, confidence |-> MaxConfidence, archived |-> FALSE, black |-> FALSE]
    /\ snapshot = [s \in Sessions |-> NoSnapshot]
    /\ writer = [t \in Tasks |-> Idle]
    /\ run = NoRun
    /\ uses = 0 /\ runs = 0 /\ faults = 0
    /\ proved = FALSE /\ punished = FALSE /\ overtaken = FALSE /\ unscanned = FALSE

\* assemble: a working set with the fact, unless it is archived or kept from
\* recall.
Show(s) ==
    /\ ~fact.archived /\ ~fact.black
    /\ snapshot' = [snapshot EXCEPT ![s] = [shown |-> TRUE, counts |-> Counters(fact)]]
    /\ UNCHANGED <<fact, writer, run, uses, runs, faults, history>>

\* after_turn judges the snapshot of the session, which is the one of an
\* earlier turn when the agent assembled no new one.  Without a response there
\* is no scan, but the turn may still complete a batch for RT-1.
AfterTurn(t, s, scan, quoted, batch) ==
    /\ writer[t].pc = "idle" /\ snapshot[s].shown /\ uses < MaxUses
    /\ IF scan THEN TRUE ELSE batch /\ ~quoted
    /\ uses' = uses + 1
    /\ writer' = [writer EXCEPT ![t] =
         [@ EXCEPT !.pc = "read", !.kind = IF scan THEN "turn" ELSE "batch",
            !.quoted = quoted, !.then = scan /\ batch,
            !.seen = snapshot[s].counts, !.base = snapshot[s].counts]]
    /\ unscanned' = (unscanned \/ ~scan)
    /\ UNCHANGED <<fact, snapshot, run, runs, faults, proved, punished, overtaken>>

\* facade.search found the fact; its counter is written by a task of its own.
Recall(t) ==
    /\ writer[t].pc = "idle" /\ ~fact.archived /\ uses < MaxUses
    /\ uses' = uses + 1
    /\ writer' = [writer EXCEPT ![t] =
         [@ EXCEPT !.pc = "write", !.kind = "recall", !.base = Counters(fact),
            !.source = fact, !.copy = [fact EXCEPT !.use = @ + 1]]]
    /\ UNCHANGED <<fact, snapshot, run, runs, faults, history>>

\* _track_successful_use and evaluate_batch: the fields they update.
Updated(kind, quoted, seen, f) ==
    CASE kind = "turn" /\ quoted -> [f EXCEPT !.use = seen[1] + 1, !.suc = seen[2] + 1]
      [] kind = "turn" /\ ~quoted -> [f EXCEPT !.use = seen[1] + 1]
      [] kind = "batch" -> [f EXCEPT !.suc = seen[2] + 1]

\* facade.update reads the node and changes the fields.
ReadNode(t) ==
    /\ writer[t].pc = "read"
    /\ writer' = [writer EXCEPT ![t] =
         [@ EXCEPT !.pc = "write", !.source = fact,
            !.copy = Updated(writer[t].kind, writer[t].quoted, writer[t].seen, fact)]]
    /\ UNCHANGED <<fact, snapshot, run, uses, runs, faults, history>>

UpToDate(w) == fact = w.source /\ Counters(fact) = w.base

\* add_data_points replaces the node; a failure is swallowed.
WriteNode(t) ==
    /\ writer[t].pc = "write"
    /\ \/ /\ fact' = writer[t].copy
          /\ overtaken' = (overtaken \/ ~UpToDate(writer[t]))
          /\ proved' = (proved \/ writer[t].copy.suc > fact.suc)
          /\ UNCHANGED faults
       \/ /\ faults < MaxFaults /\ faults' = faults + 1
          /\ UNCHANGED <<fact, overtaken, proved>>
    /\ writer' = [writer EXCEPT ![t] =
         IF ~@.then THEN Idle
         ELSE [@ EXCEPT !.pc = "read", !.kind = "batch", !.then = FALSE,
                 !.base = Counters(fact')]]
    /\ UNCHANGED <<snapshot, run, uses, runs, punished, unscanned>>

------------------------------------------------------------------------------
\* run_consolidation loads the facts once; each stage changes the copy and
\* stores it.
Load ==
    /\ run.stage = 0 /\ runs < MaxRuns /\ ~fact.archived
    /\ runs' = runs + 1
    /\ run' = [stage |-> 3, copy |-> fact, proved |-> proved]
    /\ UNCHANGED <<fact, snapshot, writer, uses, faults, history>>

Strengthened(f) ==
    IF f.use >= StrengthenMin /\ 2 * f.suc >= f.use
    THEN [f EXCEPT !.confidence = IF @ < MaxConfidence THEN @ + 1 ELSE @] ELSE f

DecayedByRatio(f) ==  \* mutant: decay spares what strengthen would boost
    IF 2 * f.suc > f.use THEN f
    ELSE [f EXCEPT !.confidence = @ - 1, !.archived = f.confidence = 1]

\* A fact that was ever used with success does not decay; the decay of the
\* others is one level, and archives below the threshold.
Decayed(f) ==
    IF f.suc > 0 \/ f.archived THEN f
    ELSE [f EXCEPT !.confidence = @ - 1, !.archived = f.confidence = 1]

\* autorecall_blacklist_max_success_ratio is 0.
Pruned(f) == IF f.use >= BlacklistMin /\ f.suc = 0 THEN [f EXCEPT !.black = TRUE] ELSE f

AfterStage(stage, f) ==
    CASE stage = 3 -> Strengthened(f) [] stage = 4 -> Decayed(f) [] stage = 5 -> Pruned(f)

\* One stage and its _apply_fact_upserts: the stage awaits nothing between
\* reading and changing the copy, but everything since Load lies between the
\* copy and the node.
Stage ==
    /\ run.stage \in {3, 4, 5}
    /\ LET copy == AfterStage(run.stage, run.copy)
       IN  /\ run' = IF run.stage = 5 THEN NoRun ELSE [run EXCEPT !.copy = copy, !.stage = @ + 1]
           /\ punished' = (punished \/ (run.proved /\ (copy.confidence < run.copy.confidence
                                                       \/ (copy.black /\ ~run.copy.black))))
           /\ \/ /\ fact' = copy
                 /\ overtaken' = (overtaken \/ fact # run.copy)
                 /\ UNCHANGED faults
              \/ /\ faults < MaxFaults /\ faults' = faults + 1
                 /\ UNCHANGED <<fact, overtaken>>
    /\ UNCHANGED <<snapshot, writer, uses, runs, proved, unscanned>>

UseCountsNext ==
    \/ \E s \in Sessions : Show(s)
    \/ \E t \in Tasks :
          \/ \E s \in Sessions, scan, quoted, batch \in BOOLEAN :
                AfterTurn(t, s, scan, quoted, batch)
          \/ Recall(t) \/ ReadNode(t) \/ WriteNode(t)
    \/ Load \/ Stage

UseCountsSpec == UseCountsInit /\ [][UseCountsNext]_uvars

------------------------------------------------------------------------------
\* A fact that a session used with success is neither decayed nor kept from
\* recall by a later consolidation, unless a write overtook another and took
\* the success back.
UsefulFactKept == ~overtaken => ~punished

\* The success ratio that strengthens a fact and ranks it is at most one,
\* unless a write was overtaken, or failed, or RT-1 judged a turn that was
\* not scanned.
RatioAtMostOne == ~overtaken /\ ~unscanned /\ faults = 0 => fact.suc <= fact.use

\* Using a fact with success counts for it, once for each use.
UseRewarded == UsefulFactKept /\ RatioAtMostOne

------------------------------------------------------------------------------
(* The inductive invariant behind it                                       *)

FactType == [use : Nat, suc : Nat, confidence : Int, archived : BOOLEAN, black : BOOLEAN]

WriterType ==
    [pc : {"idle", "read", "write"}, kind : {"none", "turn", "batch", "recall"},
     seen : Nat \X Nat, base : Nat \X Nat, quoted : BOOLEAN, then : BOOLEAN,
     source : FactType, copy : FactType]

\* What a writer is about to store, and of which counters it takes the next.
Pending(w) ==
    /\ w.pc = "idle" => w = Idle
    /\ w.pc = "read" => w.kind \in {"turn", "batch"}
    /\ w.then => w.kind = "turn"
    /\ w.kind = "turn" => w.base = w.seen
    /\ w.pc = "write" =>
          w.copy = IF w.kind = "recall" THEN [w.source EXCEPT !.use = @ + 1]
                   ELSE Updated(w.kind, w.quoted, w.seen, w.source)
    /\ w.pc = "write" => w.kind # "none"
    \* RT-1 follows the scan of the same turn.
    /\ w.kind = "batch" /\ ~overtaken /\ ~unscanned /\ faults = 0 =>
          w.base[1] = w.seen[1] + 1 /\ w.seen[2] <= w.seen[1]

IInv ==
    /\ fact \in FactType /\ faults \in Nat
    /\ proved \in BOOLEAN /\ punished \in BOOLEAN /\ overtaken \in BOOLEAN /\ unscanned \in BOOLEAN
    /\ snapshot \in [Sessions -> [shown : BOOLEAN, counts : Nat \X Nat]]
    /\ writer \in [Tasks -> WriterType]
    /\ run \in [stage : {0, 3, 4, 5}, copy : FactType, proved : BOOLEAN]
    /\ \A t \in Tasks : Pending(writer[t])
    \* A success, once stored, stays: in the node and in the copy of a run
    \* that was loaded after it.
    /\ ~overtaken /\ proved => fact.suc > 0
    /\ ~overtaken /\ run.proved => run.copy.suc > 0
    /\ UseRewarded
=============================================================================
