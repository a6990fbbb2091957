----------------------------- MODULE FactMemory -----------------------------
(***************************************************************************)
(* Facts and the three stores they live in.                                *)
(*                                                                         *)
(* The memory facade (memory/facade.py) keeps a fact as a node of the      *)
(* graph, an embedding in the vector store and a document in Cognee whose  *)
(* id, cognee_data_id, only the node remembers.  A call writes the stores  *)
(* one after the other, each step may fail, and search updates use counts  *)
(* in a task nobody awaits by writing back the facts it read.              *)
(*                                                                         *)
(* A step is the code between two awaits.  Of a fact the node keeps what   *)
(* decides its fate: the document and the archived flag.                   *)
(***************************************************************************)
EXTENDS Integers, FiniteSets

CONSTANTS
  Facts,     \* fact ids (a bound)
  Existing,  \* the document of each fact that was stored before
  Docs,      \* ids Cognee gives to documents (a bound)
  Tasks,     \* asyncio tasks (a bound on concurrency)
  Calls,     \* the calls made in an instance (a bound)
  MaxFaults, \* failed awaits and restarts (a bound)
  None       \* "no such record"

ASSUME ConstantsAssumption ==
  /\ MaxFaults \in Nat
  /\ Existing \in UNION {[S -> Docs] : S \in SUBSET Facts}
  /\ \A f, g \in DOMAIN Existing : Existing[f] = Existing[g] => f = g
  /\ None \notin Facts \cup Docs
  /\ None \notin [doc : Docs \cup {None}, archived : BOOLEAN]

Node == [doc : Docs \cup {None}, archived : BOOLEAN]

VARIABLES
  graph,     \* the FactDataPoint node of each fact
  embedded,  \* the facts with an embedding in FactDataPoint_text
  docs,      \* the documents in Cognee
  owner,     \* history: the fact each document was added for
  reported,  \* history: documents given up with a trace, a warning or an error
  erased,    \* history: facts whose delete reported every layer as done
  halfway,   \* history: facts of which a step failed and the next went on
  disturbed, \* history: facts two calls held at once, or a call cut short held
  faults,    \* history: failed awaits and restarts
  task       \* the asyncio tasks in flight

stores  == <<graph, embedded, docs>>
history == <<owner, reported, erased, halfway, disturbed, faults>>
vars    == <<stores, history, task>>

PCs == {"idle", "store", "add", "write", "cascade", "delete_node",
        "delete_embedding", "delete_doc", "fetch", "counts", "run"}

\* fact: the fact at hand; copies: the archived flag of the facts in memory;
\* ids: the cognee_data_ids read for them; doc: the id to write to the node;
\* clean: no step of the delete has failed.
Idle == [pc |-> "idle", fact |-> None, copies |-> [f \in {} |-> FALSE],
         ids |-> [f \in {} |-> None], doc |-> None, clean |-> TRUE]

Copies == UNION {[S -> BOOLEAN] : S \in SUBSET Facts}
DataIds == UNION {[S -> Docs \cup {None}] : S \in SUBSET Facts}

TaskType ==
  [pc : PCs, fact : Facts \cup {None}, copies : Copies, ids : DataIds,
   doc : Docs \cup {None}, clean : BOOLEAN]

Stored    == {f \in Facts : graph[f] # None}
Live      == {f \in Stored : ~graph[f].archived}
DataId(f) == IF f \in Stored THEN graph[f].doc ELSE None

Only(f, v) == [g \in {f} |-> v]

\* The facts a task holds in its local variables.
Held(t) == DOMAIN task[t].copies \cup ({task[t].fact} \ {None})

InUse(f) == \E t \in Tasks : f \in Held(t)

\* An id made by uuid4: nothing has it yet.
FreshFact(f) ==
  /\ ~InUse(f) /\ f \notin Stored \cup erased \cup halfway \cup disturbed
  /\ \A d \in Docs : owner[d] # f
FreshDocs == {d \in Docs : owner[d] = None}

Become(t, rec) == task' = [task EXCEPT ![t] = rec]
End(t)         == Become(t, Idle)

Begin(call, t) == call \in Calls /\ task[t].pc = "idle"

\* Task t takes the facts S into its hands.
Hold(t, S) ==
  disturbed' = disturbed \cup {f \in S : \E u \in Tasks \ {t} : f \in Held(u)}

\* An await succeeds, or fails while the instance allows more failures.
Outcome(ok) ==
  /\ ok \/ faults < MaxFaults
  /\ faults' = IF ok THEN faults ELSE faults + 1

Report(D) == reported' = reported \cup (D \ {None})

Init ==
  /\ graph     = [f \in Facts |->
                   IF f \in DOMAIN Existing
                   THEN [doc |-> Existing[f], archived |-> FALSE] ELSE None]
  /\ embedded  = DOMAIN Existing
  /\ docs      = {Existing[f] : f \in DOMAIN Existing}
  /\ owner     \in [Docs -> Facts \cup {None}]
  /\ \A f \in Facts, d \in Docs :
       owner[d] = f <=> f \in DOMAIN Existing /\ Existing[f] = d
  /\ reported  = {} /\ erased = {} /\ halfway = {} /\ disturbed = {}
  /\ faults    = 0
  /\ task      = [t \in Tasks |-> Idle]

------------------------------------------------------------------------------
(* Cognee, as the facade uses it.                                          *)

\* add_data_points: MERGE whole nodes, then index their text.  It may raise
\* before anything is written or between the two stores.
AddDataPoints(S, archived, ids, out) ==
  /\ Outcome(out = "written")
  /\ graph' = IF out = "failed" THEN graph
              ELSE [f \in Facts |->
                     IF f \in S THEN [doc |-> ids[f], archived |-> archived[f]]
                     ELSE graph[f]]
  /\ embedded' = IF out = "written" THEN embedded \cup S ELSE embedded

WriteOutcomes == {"written", "half", "failed"}

\* cognee.add and the capture of the id it answers with: a new document, whose
\* id may be unreadable; or, for an unchanged text, the document it had; or none
\* and no id, when it raises an error that is taken for an unreadable id.
CogneeAdd(f, had, id) ==
  \/ \E d \in FreshDocs :
       /\ docs'  = docs \cup {d}
       /\ owner' = [owner EXCEPT ![d] = f]
       /\ \/ id = d /\ Outcome(TRUE) /\ Report({})
          \/ id = None /\ Outcome(FALSE) /\ Report({d})
  \/ /\ had # None /\ id = had
     /\ docs' = docs \cup {had}
     /\ Outcome(TRUE) /\ Report({})
     /\ UNCHANGED owner
  \/ /\ id = None
     /\ Outcome(FALSE)
     /\ UNCHANGED <<docs, owner, reported>>

\* cascade_cognee_data: the document is deleted, or the failure reported.
CascadeCogneeData(d, ok) ==
  /\ Outcome(ok)
  /\ docs' = IF ok THEN docs \ {d} ELSE docs
  /\ Report(IF ok THEN {} ELSE {d})

------------------------------------------------------------------------------
(* store                                                                   *)

\* store: the document first.  A near-duplicate, or a cognee.add that raises,
\* leaves everything as it was.
Store(t) ==
  /\ Begin("store", t)
  /\ \E f \in Facts, id \in Docs \cup {None} :
       /\ FreshFact(f)
       /\ CogneeAdd(f, None, id)
       /\ Become(t, [Idle EXCEPT !.pc = "store", !.fact = f, !.doc = id,
                       !.copies = Only(f, FALSE), !.ids = Only(f, None)])
  /\ UNCHANGED <<graph, embedded, erased, halfway, disturbed>>

------------------------------------------------------------------------------
(* update, promote_scope, promote_class, decay                             *)

\* A call on one fact reads its node; a fact that is gone is a KeyError.
ReadFact(t, pc) ==
  \E f \in Stored :
    /\ Become(t, [Idle EXCEPT !.pc = pc, !.fact = f, !.doc = graph[f].doc,
                    !.copies = Only(f, graph[f].archived),
                    !.ids = Only(f, graph[f].doc)])
    /\ Hold(t, {f})
    /\ UNCHANGED <<stores, owner, reported, erased, halfway, faults>>

\* promote_scope, promote_class, decay and an update without text go on to
\* write the node they read, changed in fields that are not kept here.
Amend(t)  == Begin("amend", t)  /\ ReadFact(t, "write")
Update(t) == Begin("update", t) /\ ReadFact(t, "add")
Delete(t) == Begin("delete", t) /\ ReadFact(t, "delete_node")

Old(t) == task[t].ids[task[t].fact]

\* update with a text: its document.  When cognee.add raises the call ends; it
\* always does when the ids of the instance are used up (a bound).
AddText(t) ==
  /\ task[t].pc = "add"
  /\ \/ \E id \in Docs \cup {None} :
          /\ CogneeAdd(task[t].fact, Old(t), id)
          /\ Become(t, [task[t] EXCEPT !.pc = "write", !.doc = id])
     \/ /\ Outcome(FreshDocs = {}) /\ End(t)
        /\ UNCHANGED <<docs, owner, reported>>
  /\ UNCHANGED <<graph, embedded, erased, halfway, disturbed>>

\* Faulty variant: a new id or not, the old document goes.
SupersedesAny(t) == Old(t) # None

\* The node points at another document now: the old one has to go.
Supersedes(t) == Old(t) # None /\ Old(t) # task[t].doc

NodeId(t) == Only(task[t].fact, task[t].doc)

\* The last step of store, update and the others: the whole node.  When it
\* raises the caller is told, and what it added stays in Cognee.
WriteFact(t) ==
  /\ task[t].pc \in {"store", "write"}
  /\ \E out \in WriteOutcomes :
       /\ AddDataPoints({task[t].fact}, task[t].copies, NodeId(t), out)
       /\ IF out = "written" /\ Supersedes(t)
          THEN Become(t, [task[t] EXCEPT !.pc = "cascade"])
          ELSE End(t)
       /\ Report(IF out # "written" /\ Supersedes(t)
                 THEN {IF out = "half" THEN Old(t) ELSE task[t].doc}
                 ELSE IF out = "failed" THEN {task[t].doc} ELSE {})
  /\ UNCHANGED <<docs, owner, erased, halfway, disturbed>>

\* The document of the old text goes after the node points at the new one.
CascadeOld(t) ==
  /\ task[t].pc = "cascade"
  /\ \E ok \in BOOLEAN : CascadeCogneeData(Old(t), ok)
  /\ End(t)
  /\ UNCHANGED <<graph, embedded, owner, erased, halfway, disturbed>>

------------------------------------------------------------------------------
(* delete: three layers, each tried whatever became of the one before.     *)

\* halfway: the delete goes on after a step of it failed.
Tried(t, ok, pc) ==
  /\ Outcome(ok)
  /\ halfway' = IF ok THEN halfway ELSE halfway \cup {task[t].fact}
  /\ Become(t, [task[t] EXCEPT !.pc = pc, !.clean = @ /\ ok])

DeleteNode(t) ==
  /\ task[t].pc = "delete_node"
  /\ \E ok \in BOOLEAN :
       /\ Tried(t, ok, "delete_embedding")
       /\ graph' = IF ok THEN [graph EXCEPT ![task[t].fact] = None] ELSE graph
  /\ UNCHANGED <<embedded, docs, owner, reported, erased, disturbed>>

\* Faulty variant: the embedding is left to the graph's cascade.
DeleteEmbeddingNever(t) ==
  /\ task[t].pc = "delete_embedding"
  /\ Tried(t, TRUE, "delete_doc")
  /\ UNCHANGED <<stores, owner, reported, erased, disturbed>>

DeleteEmbedding(t) ==
  /\ task[t].pc = "delete_embedding"
  /\ \E ok \in BOOLEAN :
       /\ Tried(t, ok, "delete_doc")
       /\ embedded' = IF ok THEN embedded \ {task[t].fact} ELSE embedded
  /\ UNCHANGED <<graph, docs, owner, reported, erased, disturbed>>

\* The document is the one the node named when the delete began.
DeleteDoc(t) ==
  /\ task[t].pc = "delete_doc"
  /\ \E ok \in BOOLEAN :
       /\ IF Old(t) = None
          THEN ok /\ UNCHANGED <<docs, reported, faults>>
          ELSE CascadeCogneeData(Old(t), ok)
       /\ erased' = IF task[t].clean /\ ok THEN erased \cup {task[t].fact}
                    ELSE erased
  /\ End(t)
  /\ UNCHANGED <<graph, embedded, owner, halfway, disturbed>>

------------------------------------------------------------------------------
(* search, and the use counts it leaves to a task of their own.            *)

\* search: any facts of the graph may be found, archived ones too, or none.
Search(t) ==
  /\ Begin("search", t)
  /\ \E S \in SUBSET Stored :
       /\ IF S = {} THEN UNCHANGED task
          ELSE Become(t, [Idle EXCEPT !.pc = "fetch",
                            !.copies = [f \in S |-> graph[f].archived]])
       /\ Hold(t, S)
  /\ UNCHANGED <<stores, owner, reported, erased, halfway, faults>>

\* _fetch_cognee_data_ids: from the graph as it is now.  A query that fails is
\* a warning and an empty map, and the write that follows loses the ids.
FetchedIds(S, ok) ==
  /\ Outcome(ok)
  /\ Report(IF ok THEN {} ELSE {DataId(f) : f \in S})

\* Faulty variant: from_schema without the id.
DataIdMapNone(S, ok) == [f \in S |-> None]

DataIdMap(S, ok) == [f \in S |-> IF ok THEN DataId(f) ELSE None]

FetchIds(t) ==
  /\ task[t].pc = "fetch"
  /\ \E ok \in BOOLEAN :
       /\ FetchedIds(DOMAIN task[t].copies, ok)
       /\ Become(t, [task[t] EXCEPT !.pc = "counts",
                       !.ids = DataIdMap(DOMAIN task[t].copies, ok)])
  /\ UNCHANGED <<stores, owner, erased, halfway, disturbed>>

\* _update_use_counts: every fact found is written back whole.
UpdateUseCounts(t) ==
  /\ task[t].pc = "counts"
  /\ \E out \in WriteOutcomes :
       AddDataPoints(DOMAIN task[t].copies, task[t].copies, task[t].ids, out)
  /\ End(t)
  /\ UNCHANGED <<docs, owner, reported, erased, halfway, disturbed>>

------------------------------------------------------------------------------
FacadeStep(t) ==
  \/ Store(t) \/ Amend(t) \/ Update(t) \/ Delete(t) \/ Search(t)
  \/ AddText(t) \/ WriteFact(t) \/ CascadeOld(t)
  \/ DeleteNode(t) \/ DeleteEmbedding(t) \/ DeleteDoc(t)
  \/ FetchIds(t) \/ UpdateUseCounts(t)

\* The process stops wherever its tasks are.
Restart ==
  /\ "restart" \in Calls
  /\ Outcome(FALSE)
  /\ disturbed' = disturbed \cup {f \in Facts : InUse(f)}
  /\ task' = [t \in Tasks |-> Idle]
  /\ UNCHANGED <<stores, owner, reported, erased, halfway>>

Next == Restart \/ \E t \in Tasks : FacadeStep(t)

Spec == Init /\ [][Next]_vars

------------------------------------------------------------------------------
TypeOK ==
  /\ graph \in [Facts -> Node \cup {None}]
  /\ embedded \subseteq Facts /\ docs \subseteq Docs
  /\ owner \in [Docs -> Facts \cup {None}]
  /\ reported \subseteq Docs
  /\ erased \subseteq Facts /\ halfway \subseteq Facts /\ disturbed \subseteq Facts
  /\ faults \in 0..MaxFaults
  /\ task \in [Tasks -> TaskType]

Settled(f) == f \notin disturbed /\ ~InUse(f)

\* Cognee keeps no document that nothing leads to: after calls that did not
\* overlap on a fact, a document added for it is the one its node names, or was
\* given up with a trace, a warning or an error (the data id is carried through
\* every rewrite of the node, TODO-5-008).
NoSilentLeak ==
  \A d \in docs : LET f == owner[d]
                  IN  Settled(f) => DataId(f) = d \/ d \in reported

\* After a delete that reported every layer as done nothing of the fact is
\* left: no node, no embedding, no document but those given up openly.
ErasedLeavesNothing ==
  \A f \in erased : Settled(f) =>
    /\ f \notin Stored /\ f \notin embedded
    /\ \A d \in docs : owner[d] = f => d \in reported

\* The node of a live fact names a document that exists: update removes the old
\* one only when the node names another (no reader sees a half-deleted one).
DataIdsLive ==
  \A f \in Live \ halfway : Settled(f) => DataId(f) \in docs \cup {None}

\* delete is GDPR-compliant deletion from all stores: a fact that was erased
\* does not come back, whatever else was going on.
ErasedStaysErased == \A f \in erased : f \notin Stored

------------------------------------------------------------------------------
(* The inductive invariant behind the three.                               *)

OneFactPCs == {"store", "add", "write", "cascade", "delete_node",
               "delete_embedding", "delete_doc"}

\* Whoever names a document names one that was added for the fact at hand.
NamesOwn ==
  /\ \A d \in docs : owner[d] # None
  /\ \A f \in Stored : DataId(f) # None => owner[DataId(f)] = f
  /\ \A t \in Tasks :
       /\ \A f \in DOMAIN task[t].ids :
            task[t].ids[f] # None => owner[task[t].ids[f]] = f
       /\ task[t].doc # None =>
            task[t].fact # None /\ owner[task[t].doc] = task[t].fact

\* What a task that waits without a fact of its own has in its hands.
Hands(t) ==
  /\ task[t].pc \in {"idle", "fetch", "counts"} => task[t].fact = None
  /\ task[t].pc = "idle" => task[t].copies = Idle.copies

\* Of the documents added for f those not in K were given up openly.
OnlyLeft(f, K) == \A d \in docs : owner[d] = f => d \in K \cup reported

\* What holds of f while the task with the record x is the only one to hold it.
Grip(x, f) ==
  /\ x.pc = "fetch" => OnlyLeft(f, {DataId(f)})
  /\ x.pc = "counts" => x.ids[f] \in {DataId(f), None} /\ OnlyLeft(f, {x.ids[f]})
  /\ x.pc \in OneFactPCs => OnlyLeft(f, {x.ids[f], x.doc})
  /\ x.pc \in {"store", "add", "write", "delete_node"} => DataId(f) = x.ids[f]
  /\ x.pc \in {"add", "delete_node", "delete_embedding", "delete_doc"} =>
       x.doc = x.ids[f]
  /\ x.pc \in {"store", "add", "write"} =>
       x.doc \in docs \cup {None} \/ f \in halfway
  /\ x.pc = "cascade" => DataId(f) = x.doc /\ x.ids[f] \notin {x.doc, None}
  /\ x.pc \in {"delete_embedding", "delete_doc"} =>
       /\ DataId(f) \in {x.ids[f], None}
       /\ f \in Stored => f \in halfway /\ ~x.clean
  /\ x.pc = "delete_doc" /\ x.clean => f \notin embedded

\* A fact that no two calls held at once, and none held that was cut short.
FactInv(f) ==
  /\ \A t, u \in Tasks : f \in Held(t) \cap Held(u) => t = u
  /\ \A t \in Tasks : f \in Held(t) => Grip(task[t], f)
  /\ ~InUse(f) => OnlyLeft(f, {DataId(f)})
  /\ f \in Stored \ halfway => DataId(f) \in docs \cup {None}
  /\ f \in erased => ~InUse(f) /\ f \notin Stored \cup embedded /\ OnlyLeft(f, {})

IInv ==
  /\ TypeOK /\ NamesOwn
  /\ \A t \in Tasks : Hands(t)
  /\ \A f \in Facts \ disturbed : FactInv(f)
=============================================================================
