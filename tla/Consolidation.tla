---------------------------- MODULE Consolidation ----------------------------
(***************************************************************************)
(* A consolidation run over the facts of FactMemory.                       *)
(*                                                                         *)
(* The engine (consolidation/engine.py) takes a Redis lock, loads facts    *)
(* and passes them through its stages.  Stage 2 replaces the members of a  *)
(* cluster by a new canonical fact and archives them; stages 3 to 6 change *)
(* the facts in memory and write all of them back; stages 7 to 9 change no *)
(* fact.  Whatever fails inside a stage is caught there.                   *)
(*                                                                         *)
(* A run is one more task of FactMemory: its pc there is "run", the facts  *)
(* it loaded are its copies, the canonical fact is its fact.  Which facts  *)
(* are clustered, strengthened or decayed is left open.                    *)
(***************************************************************************)
EXTENDS FactMemory

CONSTANT Stages \* the stages that could be built

ASSUME StagesAssumption == Stages \subseteq 2..6 /\ None \notin Tasks

VARIABLES
  lock,  \* the consolidation lock in Redis: the task that took it
  late,  \* history: runs whose lock expired while they were going on
  run    \* where the run of each task is

runVars == <<lock, late, run>>
allVars == <<vars, runVars>>

\* stage: the stage; at: the await in it; members: cluster members to archive;
\* old: the documents they had.
NotRunning == [stage |-> 0, at |-> "none", members |-> {}, old |-> {}]

RunType ==
  [stage : 0..7,
   at : {"none", "begin", "canonical", "preload", "archive", "unembed",
         "cascade", "fetch", "upsert"},
   members : SUBSET Facts, old : SUBSET Docs]

Running(t) == run[t].at # "none"
At(t, stage, at) == run[t].stage = stage /\ run[t].at = at

Go(t, rec) == run' = [run EXCEPT ![t] = rec]
Goto(t, stage, at) == Go(t, [run[t] EXCEPT !.stage = stage, !.at = at])

\* A stage that could not be built is passed over; 7 is the end of the run.
StageAfter(stage) ==
  CHOOSE n \in Stages \cup {7} :
    n > stage /\ \A m \in Stages \cup {7} : m > stage => n <= m

NextStage(t) == Goto(t, StageAfter(run[t].stage), "begin")

Reached(t, stage) == At(t, stage, "begin")

RunInit == Init /\ lock = None /\ late = {} /\ run = [t \in Tasks |-> NotRunning]

------------------------------------------------------------------------------
(* The lock, the facts and the end of a run.                               *)

\* run_consolidation to _load_facts: the facts that are not archived, or those
\* of the pages read before one failed.  The filter on eb_last_used_at excludes
\* none: FactDataPoint has no such property, so every node has NULL there.
StartRun(t) ==
  /\ Begin("consolidate", t) /\ lock = None
  /\ lock' = t
  /\ late' = late \ {t}
  /\ \E S \in SUBSET Live :
       /\ Outcome(S = Live)
       /\ Become(t, [Idle EXCEPT !.pc = "run", !.copies = [f \in S |-> FALSE]])
       /\ Hold(t, S)
  /\ Go(t, [NotRunning EXCEPT !.stage = StageAfter(1), !.at = "begin"])
  /\ UNCHANGED <<stores, owner, reported, erased, halfway>>

\* The lock is taken: the run raises (and says in the status, which only
\* operators read, that no run goes on).
RefuseRun(t) ==
  /\ Begin("consolidate", t) /\ lock # None
  /\ UNCHANGED allVars

\* Faulty variant: the key is deleted whoever holds it.
ReleasedAny(t) == None

\* The token of a redis-py lock: a lock that expired is not released twice.
Released(t) == IF lock = t THEN None ELSE lock

\* A release that fails is swallowed: the lock stays until it expires.
FinishRun(t) ==
  /\ At(t, 7, "begin")
  /\ \E ok \in BOOLEAN :
       /\ Outcome(ok)
       /\ lock' = IF ok THEN Released(t) ELSE lock
  /\ Go(t, NotRunning) /\ End(t)
  /\ UNCHANGED <<stores, owner, reported, erased, halfway, disturbed, late>>

\* An hour has passed.
LockExpires ==
  /\ lock # None
  /\ Outcome(FALSE)
  /\ lock' = None
  /\ late' = IF Running(lock) THEN late \cup {lock} ELSE late
  /\ UNCHANGED <<stores, owner, reported, erased, halfway, disturbed, task, run>>

------------------------------------------------------------------------------
(* Stage 2.                                                                *)

Members(t) == run[t].members

\* A cluster of facts that were not merged already, its text, and the document
\* of the canonical fact; it has none when cognee.add raises, whatever it raises.
Canonicalize(t) ==
  /\ Reached(t, 2)
  /\ \E M \in SUBSET {f \in DOMAIN task[t].copies : ~task[t].copies[f]},
        c \in Facts, id \in Docs \cup {None} :
       /\ Cardinality(M) >= 2
       /\ FreshFact(c)
       /\ CogneeAdd(c, None, id)
       /\ Become(t, [task[t] EXCEPT !.fact = c, !.doc = id])
       /\ Go(t, [run[t] EXCEPT !.at = "canonical", !.members = M])
  /\ UNCHANGED <<graph, embedded, erased, halfway, disturbed, lock, late>>

\* No cluster is left, or the model is asked too often: the stage ends.
EndClusters(t) ==
  /\ Reached(t, 2)
  /\ NextStage(t)
  /\ UNCHANGED <<vars, lock, late>>

NextCluster(t) ==
  /\ Become(t, [task[t] EXCEPT !.fact = None, !.doc = None, !.ids = Idle.ids])
  /\ Go(t, [NotRunning EXCEPT !.stage = 2, !.at = "begin"])

\* Faulty variant: the members are archived whatever became of the canonical.
StoreCanonicalAnyway(t) ==
  /\ At(t, 2, "canonical")
  /\ \E out \in WriteOutcomes :
       AddDataPoints({task[t].fact}, Only(task[t].fact, FALSE), NodeId(t), out)
  /\ Goto(t, 2, "preload")
  /\ UNCHANGED <<docs, owner, reported, erased, halfway, disturbed, task, lock, late>>

\* The canonical node; when it cannot be written the cluster is given up.
StoreCanonical(t) ==
  /\ At(t, 2, "canonical")
  /\ \E out \in WriteOutcomes :
       /\ AddDataPoints({task[t].fact}, Only(task[t].fact, FALSE), NodeId(t), out)
       /\ IF out = "written"
          THEN Goto(t, 2, "preload") /\ Report({}) /\ UNCHANGED task
          ELSE NextCluster(t) /\ Report({task[t].doc})
  /\ UNCHANGED <<docs, owner, erased, halfway, disturbed, lock, late>>

\* The documents the canonical one takes the place of.
Superseded(t, ids) == {ids[m] : m \in Members(t)} \ {None}

\* The data ids of the members; one that cannot be read is reported.
Preload(t) ==
  /\ At(t, 2, "preload")
  /\ \E lost \in SUBSET Members(t) :
       LET ids == [m \in Members(t) |-> IF m \in lost THEN None ELSE DataId(m)]
       IN  /\ Outcome(lost = {})
           /\ Report({DataId(m) : m \in lost})
           /\ Become(t, [task[t] EXCEPT !.ids = ids])
           /\ Go(t, [run[t] EXCEPT !.at = "archive", !.old = Superseded(t, ids)])
  /\ UNCHANGED <<stores, owner, erased, halfway, disturbed, lock, late>>

\* The next member is archived in memory and in its node, then its embedding
\* goes (Unembed).  A step that fails is logged and the next one follows.
Archive(t) ==
  /\ At(t, 2, "archive")
  /\ \E m \in Members(t), out \in WriteOutcomes :
       /\ AddDataPoints({m}, Only(m, TRUE), task[t].ids, out)
       /\ halfway' = IF out = "written" THEN halfway ELSE halfway \cup {m}
       /\ Become(t, [task[t] EXCEPT !.copies[m] = TRUE])
  /\ Goto(t, 2, "unembed")
  /\ UNCHANGED <<docs, owner, reported, erased, disturbed, lock, late>>

Unembed(t) ==
  /\ At(t, 2, "unembed")
  /\ \E m \in {n \in Members(t) : task[t].copies[n]}, ok \in BOOLEAN :
       /\ Outcome(ok)
       /\ embedded' = IF ok THEN embedded \ {m} ELSE embedded
       /\ Go(t, [run[t] EXCEPT
                   !.at = IF Members(t) = {m} THEN "cascade" ELSE "archive",
                   !.members = @ \ {m}])
  /\ UNCHANGED <<graph, docs, owner, reported, erased, halfway, disturbed, task,
                 lock, late>>

\* The documents of the members, one by one, then the next cluster.
CascadeSuperseded(t) ==
  /\ At(t, 2, "cascade")
  /\ \/ /\ run[t].old = {}
        /\ NextCluster(t)
        /\ UNCHANGED <<docs, reported, faults>>
     \/ \E d \in run[t].old, ok \in BOOLEAN :
          /\ CascadeCogneeData(d, ok)
          /\ Go(t, [run[t] EXCEPT !.old = @ \ {d}])
          /\ UNCHANGED task
  /\ UNCHANGED <<graph, embedded, owner, erased, halfway, disturbed, lock, late>>

------------------------------------------------------------------------------
(* Stages 3 to 6.                                                          *)

\* _apply_fact_upserts, when there is anything to write.
WriteBack(t) ==
  IF task[t].copies = Idle.copies THEN NextStage(t)
  ELSE Goto(t, run[t].stage, "fetch")

\* strengthen, prune_autorecall, promote: fields that are not kept here.  A
\* stage that raises is noted in its result, and nothing is written back.
RunStage(t) ==
  /\ \E stage \in {3, 5, 6} : Reached(t, stage)
  /\ \/ Outcome(TRUE)  /\ WriteBack(t)
     \/ Outcome(FALSE) /\ NextStage(t)
  /\ UNCHANGED <<stores, owner, reported, erased, halfway, disturbed, task,
                 lock, late>>

\* decay: some facts fall below the threshold, their embeddings are deleted
\* (or not), and they are archived in memory.
Decay(t) ==
  /\ Reached(t, 4)
  /\ \/ \E A \in SUBSET DOMAIN task[t].copies :
          /\ \E kept \in SUBSET A :
               /\ Outcome(kept = {})
               /\ embedded' = embedded \ (A \ kept)
          /\ Become(t, [task[t] EXCEPT
                          !.copies = [f \in DOMAIN @ |-> @[f] \/ f \in A]])
          /\ WriteBack(t)
     \/ /\ Outcome(FALSE) /\ NextStage(t)
        /\ UNCHANGED <<embedded, task>>
  /\ UNCHANGED <<graph, docs, owner, reported, erased, halfway, disturbed,
                 lock, late>>

ArchivedFlags(t) == task[t].copies

\* _apply_fact_upserts: the data ids as they are now, then every fact as it was
\* loaded and changed since.
FetchRunIds(t) ==
  /\ run[t].at = "fetch"
  /\ \E ok \in BOOLEAN :
       /\ FetchedIds(DOMAIN task[t].copies, ok)
       /\ Become(t, [task[t] EXCEPT !.ids = DataIdMap(DOMAIN task[t].copies, ok)])
  /\ Goto(t, run[t].stage, "upsert")
  /\ UNCHANGED <<stores, owner, erased, halfway, disturbed, lock, late>>

ApplyFactUpserts(t) ==
  /\ run[t].at = "upsert"
  /\ \E out \in WriteOutcomes :
       AddDataPoints(DOMAIN task[t].copies, ArchivedFlags(t), task[t].ids, out)
  /\ Become(t, [task[t] EXCEPT !.ids = Idle.ids])
  /\ NextStage(t)
  /\ UNCHANGED <<docs, owner, reported, erased, halfway, disturbed, lock, late>>

------------------------------------------------------------------------------
RunStep(t) ==
  \/ StartRun(t) \/ RefuseRun(t) \/ FinishRun(t)
  \/ Canonicalize(t) \/ EndClusters(t) \/ StoreCanonical(t) \/ Preload(t)
  \/ Archive(t) \/ Unembed(t) \/ CascadeSuperseded(t)
  \/ RunStage(t) \/ Decay(t) \/ FetchRunIds(t) \/ ApplyFactUpserts(t)

\* The lock outlives the process that took it.
RestartAll == Restart /\ run' = [t \in Tasks |-> NotRunning] /\ UNCHANGED <<lock, late>>

RunNext ==
  \/ RestartAll \/ LockExpires
  \/ \E t \in Tasks : (FacadeStep(t) /\ UNCHANGED runVars) \/ RunStep(t)

RunSpec == RunInit /\ [][RunNext]_allVars

------------------------------------------------------------------------------
RunTypeOK ==
  /\ lock \in Tasks \cup {None} /\ late \subseteq Tasks
  /\ run \in [Tasks -> RunType]

\* One run per gateway at a time (AD-10): two runs go on together only when the
\* lock of one of them expired under it.
OneRun ==
  \A t, u \in Tasks : Running(t) /\ Running(u) /\ t # u => t \in late \/ u \in late

\* Nothing is archived as a duplicate before the canonical fact that stands for
\* it is in the graph.
CanonicalFirst ==
  \A t \in Tasks :
    run[t].at \in {"preload", "archive", "unembed", "cascade"} =>
      task[t].fact \in Stored \cup disturbed

=============================================================================
