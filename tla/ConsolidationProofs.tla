------------------------- MODULE ConsolidationProofs -------------------------
(***************************************************************************)
(* Theorems about FactMemory and, in the second half, about Consolidation, *)
(* which extends it.                                                       *)
(*                                                                         *)
(* Of FactMemory: type correctness, and what becomes of the documents of   *)
(* a fact when no two calls held it at once.  A node is written from what  *)
(* a task remembers of it, so the types hold because a task at each await  *)
(* remembers the right things (Shape): the fact it works on with its flag  *)
(* and its document, or, for a search, the documents of exactly the facts  *)
(* it found.                                                               *)
(*                                                                         *)
(* IInv carries the rest.  A step of a task changes what is said of        *)
(* the facts it holds before or after it, and for those facts it is the    *)
(* only one; of every other fact the stores, the documents and their       *)
(* owners stay as they are (SameStores), because whoever names a document  *)
(* names one of the fact at hand (NamesOwn).                               *)
(*                                                                         *)
(* Of Consolidation, OneRun: a run whose lock has not expired holds the    *)
(* lock.  A run starts only while nobody does, and the token of the lock   *)
(* keeps the end of a late run from releasing the lock of the next one.    *)
(*                                                                         *)
(* And CanonicalFirst: only a delete takes a node away, and a delete and a *)
(* run that hold the same fact have disturbed it (SharedDisturbed).  That  *)
(* the canonical node is a node at all rests on the types, and these on    *)
(* what a run remembers at each of its awaits (RecShape).                  *)
(***************************************************************************)
EXTENDS Consolidation, TLAPS

Shape(t) ==
  /\ task[t].pc \in OneFactPCs =>
       /\ task[t].fact \in Facts
       /\ DOMAIN task[t].copies = {task[t].fact}
       /\ DOMAIN task[t].ids = {task[t].fact}
  /\ task[t].pc = "counts" => DOMAIN task[t].ids = DOMAIN task[t].copies

TypeInv == TypeOK /\ \A t \in Tasks : Shape(t)

------------------------------------------------------------------------------
(* The functions a task keeps.                                             *)

LEMMA CopiesIntro ==
  ASSUME NEW S \in SUBSET Facts, NEW f \in [S -> BOOLEAN]
  PROVE  f \in Copies
BY DEF Copies

LEMMA CopiesElim ==
  ASSUME NEW f \in Copies
  PROVE  DOMAIN f \subseteq Facts /\ f \in [DOMAIN f -> BOOLEAN]
<1>1. PICK S \in SUBSET Facts : f \in [S -> BOOLEAN] BY DEF Copies
<1>2. QED BY <1>1

LEMMA DataIdsIntro ==
  ASSUME NEW S \in SUBSET Facts, NEW f \in [S -> Docs \cup {None}]
  PROVE  f \in DataIds
BY DEF DataIds

LEMMA DataIdsElim ==
  ASSUME NEW f \in DataIds
  PROVE  DOMAIN f \subseteq Facts /\ f \in [DOMAIN f -> Docs \cup {None}]
<1>1. PICK S \in SUBSET Facts : f \in [S -> Docs \cup {None}] BY DEF DataIds
<1>2. QED BY <1>1

LEMMA IdleType == Idle \in TaskType /\ Idle.pc = "idle"
<1>1. [f \in {} |-> FALSE] \in Copies
  <2>1. [f \in {} |-> FALSE] \in [{} -> BOOLEAN] OBVIOUS
  <2>2. {} \in SUBSET Facts OBVIOUS
  <2>3. QED BY <2>1, <2>2, CopiesIntro
<1>2. [f \in {} |-> None] \in DataIds
  <2>1. [f \in {} |-> None] \in [{} -> Docs \cup {None}] OBVIOUS
  <2>2. {} \in SUBSET Facts OBVIOUS
  <2>3. QED BY <2>1, <2>2, DataIdsIntro
<1>3. QED BY <1>1, <1>2 DEF Idle, TaskType, PCs

LEMMA NoneIsNoNode == None \notin Node
BY ConstantsAssumption DEF Node

\* What a stored fact's node holds.
LEMMA StoredNode ==
  ASSUME TypeOK, NEW f \in Stored
  PROVE  f \in Facts /\ graph[f] \in Node
BY DEF TypeOK, Stored

LEMMA DataIdType ==
  ASSUME TypeOK, NEW f \in Facts
  PROVE  DataId(f) \in Docs \cup {None}
BY StoredNode DEF DataId, Node

------------------------------------------------------------------------------
(* The steps actions are made of.                                          *)

LEMMA OutcomeType ==
  ASSUME TypeOK, NEW ok \in BOOLEAN, Outcome(ok)
  PROVE  faults' \in 0..MaxFaults
BY ConstantsAssumption DEF TypeOK, Outcome

LEMMA AddDataPointsType ==
  ASSUME TypeOK, NEW S \in SUBSET Facts, NEW archived, NEW ids, NEW out,
         \A f \in S : archived[f] \in BOOLEAN /\ ids[f] \in Docs \cup {None},
         AddDataPoints(S, archived, ids, out)
  PROVE  /\ graph' \in [Facts -> Node \cup {None}]
         /\ embedded' \subseteq Facts
         /\ faults' \in 0..MaxFaults
         /\ \A f \in Stored : graph'[f] # None
<1>1. \A f \in S : [doc |-> ids[f], archived |-> archived[f]] \in Node
  BY DEF Node
<1>2. graph' \in [Facts -> Node \cup {None}]
  BY <1>1 DEF AddDataPoints, TypeOK
<1>3. embedded' \subseteq Facts BY DEF AddDataPoints, TypeOK
<1>4. faults' \in 0..MaxFaults
  <2>1. (out = "written") \in BOOLEAN OBVIOUS
  <2>2. QED BY <2>1, OutcomeType DEF AddDataPoints
<1>5. ASSUME NEW f \in Stored PROVE graph'[f] # None
  <2>1. f \in Facts /\ graph[f] # None BY DEF Stored
  <2>2. CASE graph' = graph BY <2>1, <2>2
  <2>3. CASE graph' # graph
    <3>1. graph' = [g \in Facts |->
                     IF g \in S THEN [doc |-> ids[g], archived |-> archived[g]]
                     ELSE graph[g]]
      BY <2>3 DEF AddDataPoints
    <3>2. CASE f \in S
      BY <1>1, <2>1, <3>1, <3>2, NoneIsNoNode
    <3>3. CASE f \notin S BY <2>1, <3>1, <3>3
    <3>4. QED BY <3>2, <3>3
  <2>4. QED BY <2>2, <2>3
<1>6. QED BY <1>2, <1>3, <1>4, <1>5

LEMMA CogneeAddType ==
  ASSUME TypeOK, NEW f \in Facts, NEW had \in Docs \cup {None},
         NEW id \in Docs \cup {None}, CogneeAdd(f, had, id)
  PROVE  /\ docs' \subseteq Docs
         /\ owner' \in [Docs -> Facts \cup {None}]
         /\ reported' \subseteq Docs
         /\ faults' \in 0..MaxFaults
<1>1. CASE \E d \in FreshDocs :
             /\ docs'  = docs \cup {d}
             /\ owner' = [owner EXCEPT ![d] = f]
             /\ \/ id = d /\ Outcome(TRUE) /\ Report({})
                \/ id = None /\ Outcome(FALSE) /\ Report({d})
  <2>1. PICK d \in FreshDocs :
          /\ docs'  = docs \cup {d}
          /\ owner' = [owner EXCEPT ![d] = f]
          /\ \/ id = d /\ Outcome(TRUE) /\ Report({})
             \/ id = None /\ Outcome(FALSE) /\ Report({d})
    BY <1>1
  <2>2. d \in Docs BY DEF FreshDocs
  <2>3. docs' \subseteq Docs /\ owner' \in [Docs -> Facts \cup {None}]
    BY <2>1, <2>2 DEF TypeOK
  <2>4. reported' \subseteq Docs BY <2>1, <2>2 DEF TypeOK, Report
  <2>5. faults' \in 0..MaxFaults BY <2>1, OutcomeType
  <2>6. QED BY <2>3, <2>4, <2>5
<1>2. CASE /\ had # None /\ id = had
           /\ docs' = docs \cup {had}
           /\ Outcome(TRUE) /\ Report({})
           /\ UNCHANGED owner
  BY <1>2, OutcomeType DEF TypeOK, Report
<1>3. CASE id = None /\ Outcome(FALSE) /\ UNCHANGED <<docs, owner, reported>>
  BY <1>3, OutcomeType DEF TypeOK
<1>4. QED BY <1>1, <1>2, <1>3 DEF CogneeAdd

LEMMA CascadeType ==
  ASSUME TypeOK, NEW d \in Docs \cup {None}, NEW ok \in BOOLEAN,
         CascadeCogneeData(d, ok)
  PROVE  docs' \subseteq docs /\ reported' \subseteq Docs /\ faults' \in 0..MaxFaults
BY OutcomeType DEF TypeOK, CascadeCogneeData, Report

\* A task's new record keeps the other tasks as they are.
LEMMA BecomeType ==
  ASSUME TypeInv, NEW t \in Tasks, NEW rec \in TaskType, Become(t, rec),
         rec.pc \in OneFactPCs =>
           /\ rec.fact \in Facts
           /\ DOMAIN rec.copies = {rec.fact} /\ DOMAIN rec.ids = {rec.fact},
         rec.pc = "counts" => DOMAIN rec.ids = DOMAIN rec.copies
  PROVE  task' \in [Tasks -> TaskType] /\ \A u \in Tasks : Shape(u)'
<1>1. task' \in [Tasks -> TaskType] BY DEF TypeInv, TypeOK, Become
<1>2. \A u \in Tasks : task'[u] = IF u = t THEN rec ELSE task[u]
  BY DEF TypeInv, TypeOK, Become
<1>3. ASSUME NEW u \in Tasks PROVE Shape(u)'
  BY <1>2 DEF TypeInv, Shape
<1>4. QED BY <1>1, <1>3

LEMMA EndType ==
  ASSUME TypeInv, NEW t \in Tasks, End(t)
  PROVE  task' \in [Tasks -> TaskType] /\ \A u \in Tasks : Shape(u)'
BY IdleType, BecomeType DEF End, OneFactPCs


LEMMA HoldType ==
  ASSUME TypeOK, NEW t \in Tasks, NEW S \in SUBSET Facts, Hold(t, S)
  PROVE  disturbed' \subseteq Facts
BY DEF TypeOK, Hold

\* What Shape says of a task that works on one fact.
LEMMA OneFact ==
  ASSUME TypeInv, NEW t \in Tasks, task[t].pc \in OneFactPCs
  PROVE  /\ task[t] \in TaskType
         /\ task[t].fact \in Facts
         /\ task[t].copies[task[t].fact] \in BOOLEAN
         /\ task[t].ids[task[t].fact] \in Docs \cup {None}
<1>1. task[t] \in TaskType BY DEF TypeInv, TypeOK
<1>2. /\ task[t].fact \in Facts
      /\ DOMAIN task[t].copies = {task[t].fact}
      /\ DOMAIN task[t].ids = {task[t].fact}
  BY DEF TypeInv, Shape
<1>3. task[t].copies \in Copies /\ task[t].ids \in DataIds
  BY <1>1 DEF TaskType
<1>4. QED BY <1>1, <1>2, <1>3, CopiesElim, DataIdsElim

\* The record of a call that begins on a fact.
LEMMA OneFactRecord ==
  ASSUME NEW pc \in PCs, NEW f \in Facts, NEW d \in Docs \cup {None},
         NEW id \in Docs \cup {None}, NEW a \in BOOLEAN
  PROVE  [Idle EXCEPT !.pc = pc, !.fact = f, !.doc = d,
            !.copies = Only(f, a), !.ids = Only(f, id)] \in TaskType
<1>1. Only(f, a) \in Copies
  <2>1. Only(f, a) \in [{f} -> BOOLEAN] BY DEF Only
  <2>2. {f} \in SUBSET Facts OBVIOUS
  <2>3. QED BY <2>1, <2>2, CopiesIntro
<1>2. Only(f, id) \in DataIds
  <2>1. Only(f, id) \in [{f} -> Docs \cup {None}] BY DEF Only
  <2>2. {f} \in SUBSET Facts OBVIOUS
  <2>3. QED BY <2>1, <2>2, DataIdsIntro
<1>3. QED BY <1>1, <1>2 DEF Idle, TaskType

------------------------------------------------------------------------------
(* The actions.                                                            *)

LEMMA StoreStep ==
  ASSUME TypeInv, NEW t \in Tasks, Store(t)
  PROVE  TypeInv'
<1>1. PICK f \in Facts, id \in Docs \cup {None} :
        /\ CogneeAdd(f, None, id)
        /\ Become(t, [Idle EXCEPT !.pc = "store", !.fact = f, !.doc = id,
                        !.copies = Only(f, FALSE), !.ids = Only(f, None)])
  BY DEF Store
<1>2. /\ docs' \subseteq Docs /\ owner' \in [Docs -> Facts \cup {None}]
      /\ reported' \subseteq Docs /\ faults' \in 0..MaxFaults
  BY <1>1, CogneeAddType DEF TypeInv
<1>3. task' \in [Tasks -> TaskType] /\ \A u \in Tasks : Shape(u)'
  <2> DEFINE rec == [Idle EXCEPT !.pc = "store", !.fact = f, !.doc = id,
                       !.copies = Only(f, FALSE), !.ids = Only(f, None)]
  <2>1. rec \in TaskType BY OneFactRecord DEF PCs
  <2>2. /\ rec.fact = f /\ rec.pc = "store"
        /\ DOMAIN rec.copies = {f} /\ DOMAIN rec.ids = {f}
    BY DEF Idle, Only
  <2>3. Become(t, rec) BY <1>1
  <2> HIDE DEF rec
  <2>4. QED BY <2>1, <2>2, <2>3, BecomeType
<1>4. UNCHANGED <<graph, embedded, erased, halfway, disturbed>> BY DEF Store
<1>5. QED BY <1>2, <1>3, <1>4 DEF TypeInv, TypeOK

LEMMA ReadFactStep ==
  ASSUME TypeInv, NEW t \in Tasks, NEW pc \in PCs \ {"counts"}, ReadFact(t, pc)
  PROVE  TypeInv'
<1>1. PICK f \in Stored :
        /\ Become(t, [Idle EXCEPT !.pc = pc, !.fact = f, !.doc = graph[f].doc,
                        !.copies = Only(f, graph[f].archived),
                        !.ids = Only(f, graph[f].doc)])
        /\ Hold(t, {f})
        /\ UNCHANGED <<stores, owner, reported, erased, halfway, faults>>
  BY DEF ReadFact
<1>2. f \in Facts /\ graph[f].doc \in Docs \cup {None} /\ graph[f].archived \in BOOLEAN
  BY StoredNode DEF TypeInv, Node
<1>3. task' \in [Tasks -> TaskType] /\ \A u \in Tasks : Shape(u)'
  <2> DEFINE rec == [Idle EXCEPT !.pc = pc, !.fact = f, !.doc = graph[f].doc,
                       !.copies = Only(f, graph[f].archived),
                       !.ids = Only(f, graph[f].doc)]
  <2>1. rec \in TaskType BY <1>2, OneFactRecord
  <2>2. /\ rec.fact = f /\ rec.pc = pc
        /\ DOMAIN rec.copies = {f} /\ DOMAIN rec.ids = {f}
    BY DEF Idle, Only
  <2>3. Become(t, rec) BY <1>1
  <2> HIDE DEF rec
  <2>4. QED BY <1>2, <2>1, <2>2, <2>3, BecomeType
<1>4. disturbed' \subseteq Facts
  <2>1. {f} \in SUBSET Facts BY <1>2
  <2>2. QED BY <1>1, <2>1, HoldType DEF TypeInv
<1>5. QED BY <1>1, <1>3, <1>4 DEF TypeInv, TypeOK, stores

LEMMA AddTextStep ==
  ASSUME TypeInv, NEW t \in Tasks, AddText(t)
  PROVE  TypeInv'
<1>1. /\ task[t] \in TaskType /\ task[t].fact \in Facts
      /\ Old(t) \in Docs \cup {None}
  BY OneFact DEF AddText, OneFactPCs, Old
<1>2. UNCHANGED <<graph, embedded, erased, halfway, disturbed>> BY DEF AddText
<1>3. CASE \E id \in Docs \cup {None} :
             /\ CogneeAdd(task[t].fact, Old(t), id)
             /\ Become(t, [task[t] EXCEPT !.pc = "write", !.doc = id])
  <2>1. PICK id \in Docs \cup {None} :
          /\ CogneeAdd(task[t].fact, Old(t), id)
          /\ Become(t, [task[t] EXCEPT !.pc = "write", !.doc = id])
    BY <1>3
  <2>2. /\ docs' \subseteq Docs /\ owner' \in [Docs -> Facts \cup {None}]
        /\ reported' \subseteq Docs /\ faults' \in 0..MaxFaults
    BY <1>1, <2>1, CogneeAddType DEF TypeInv
  <2>3. task' \in [Tasks -> TaskType] /\ \A u \in Tasks : Shape(u)'
    <3> DEFINE rec == [task[t] EXCEPT !.pc = "write", !.doc = id]
    <3>1. /\ rec \in TaskType /\ rec.pc = "write" /\ rec.fact = task[t].fact
          /\ rec.copies = task[t].copies /\ rec.ids = task[t].ids
      BY <1>1 DEF TaskType, PCs
    <3>2. /\ DOMAIN task[t].copies = {task[t].fact}
          /\ DOMAIN task[t].ids = {task[t].fact}
      BY DEF AddText, OneFactPCs, TypeInv, Shape
    <3>3. Become(t, rec) BY <2>1
    <3> HIDE DEF rec
    <3>4. QED BY <1>1, <3>1, <3>2, <3>3, BecomeType
  <2>4. QED BY <1>2, <2>2, <2>3 DEF TypeInv, TypeOK
<1>4. CASE /\ Outcome(FreshDocs = {}) /\ End(t)
           /\ UNCHANGED <<docs, owner, reported>>
  <2>1. faults' \in 0..MaxFaults
    <3>1. (FreshDocs = {}) \in BOOLEAN OBVIOUS
    <3>2. QED BY <1>4, <3>1, OutcomeType DEF TypeInv
  <2>2. QED BY <1>2, <1>4, <2>1, EndType DEF TypeInv, TypeOK
<1>5. QED BY <1>3, <1>4 DEF AddText

LEMMA WriteFactStep ==
  ASSUME TypeInv, NEW t \in Tasks, WriteFact(t)
  PROVE  TypeInv'
<1> DEFINE f == task[t].fact
<1>1. /\ task[t] \in TaskType /\ f \in Facts /\ task[t].copies[f] \in BOOLEAN
      /\ Old(t) \in Docs \cup {None} /\ task[t].doc \in Docs \cup {None}
  BY OneFact DEF WriteFact, OneFactPCs, Old, TaskType
<1>2. UNCHANGED <<docs, owner, erased, halfway, disturbed>> BY DEF WriteFact
<1>3. PICK out \in WriteOutcomes :
        /\ AddDataPoints({f}, task[t].copies, NodeId(t), out)
        /\ IF out = "written" /\ Supersedes(t)
           THEN Become(t, [task[t] EXCEPT !.pc = "cascade"])
           ELSE End(t)
        /\ Report(IF out # "written" /\ Supersedes(t)
                  THEN {IF out = "half" THEN Old(t) ELSE task[t].doc}
                  ELSE IF out = "failed" THEN {task[t].doc} ELSE {})
  BY DEF WriteFact
<1>4. /\ graph' \in [Facts -> Node \cup {None}] /\ embedded' \subseteq Facts
      /\ faults' \in 0..MaxFaults
  <2>1. \A g \in {f} : task[t].copies[g] \in BOOLEAN /\ NodeId(t)[g] \in Docs \cup {None}
    BY <1>1 DEF NodeId, Only
  <2>2. {f} \in SUBSET Facts BY <1>1
  <2>3. QED BY <1>3, <2>1, <2>2, AddDataPointsType DEF TypeInv
<1>5. task' \in [Tasks -> TaskType] /\ \A u \in Tasks : Shape(u)'
  <2>1. CASE Become(t, [task[t] EXCEPT !.pc = "cascade"])
    <3> DEFINE rec == [task[t] EXCEPT !.pc = "cascade"]
    <3>1. /\ rec \in TaskType /\ rec.pc = "cascade" /\ rec.fact = f
          /\ rec.copies = task[t].copies /\ rec.ids = task[t].ids
      BY <1>1 DEF TaskType, PCs
    <3>2. DOMAIN task[t].copies = {f} /\ DOMAIN task[t].ids = {f}
      BY DEF WriteFact, OneFactPCs, TypeInv, Shape
    <3>3. Become(t, rec) BY <2>1
    <3> HIDE DEF rec
    <3>4. QED BY <1>1, <3>1, <3>2, <3>3, BecomeType
  <2>2. QED BY <1>3, <2>1, EndType
<1>6. reported' \subseteq Docs
  BY <1>1, <1>3 DEF Report, TypeInv, TypeOK
<1>7. QED BY <1>2, <1>4, <1>5, <1>6 DEF TypeInv, TypeOK

LEMMA CascadeOldStep ==
  ASSUME TypeInv, NEW t \in Tasks, CascadeOld(t)
  PROVE  TypeInv'
<1>1. Old(t) \in Docs \cup {None}
  BY OneFact DEF CascadeOld, OneFactPCs, Old
<1>2. docs' \subseteq docs /\ reported' \subseteq Docs /\ faults' \in 0..MaxFaults
  BY <1>1, CascadeType DEF CascadeOld, TypeInv
<1>3. task' \in [Tasks -> TaskType] /\ \A u \in Tasks : Shape(u)'
  BY EndType DEF CascadeOld
<1>4. QED BY <1>2, <1>3 DEF CascadeOld, TypeInv, TypeOK

\* A step of a delete, whatever store it is about.
LEMMA TriedType ==
  ASSUME TypeInv, NEW t \in Tasks, NEW ok \in BOOLEAN,
         NEW pc \in {"delete_embedding", "delete_doc"},
         task[t].pc \in OneFactPCs, Tried(t, ok, pc)
  PROVE  /\ faults' \in 0..MaxFaults /\ halfway' \subseteq Facts
         /\ task' \in [Tasks -> TaskType] /\ \A u \in Tasks : Shape(u)'
<1>1. task[t] \in TaskType /\ task[t].fact \in Facts BY OneFact
<1>2. faults' \in 0..MaxFaults BY OutcomeType DEF Tried, TypeInv
<1>3. halfway' \subseteq Facts BY <1>1 DEF Tried, TypeInv, TypeOK
<1>4. task' \in [Tasks -> TaskType] /\ \A u \in Tasks : Shape(u)'
  <2> DEFINE rec == [task[t] EXCEPT !.pc = pc, !.clean = @ /\ ok]
  <2>1. rec \in TaskType
    <3>1. (task[t].clean /\ ok) \in BOOLEAN OBVIOUS
    <3>2. QED BY <1>1, <3>1 DEF TaskType, PCs
  <2>2. /\ rec.pc = pc /\ rec.fact = task[t].fact
        /\ rec.copies = task[t].copies /\ rec.ids = task[t].ids
    BY <1>1 DEF TaskType
  <2>3. DOMAIN task[t].copies = {task[t].fact} /\ DOMAIN task[t].ids = {task[t].fact}
    BY DEF TypeInv, Shape
  <2>4. Become(t, rec) BY DEF Tried
  <2> HIDE DEF rec
  <2>5. QED BY <1>1, <2>1, <2>2, <2>3, <2>4, BecomeType
<1>5. QED BY <1>2, <1>3, <1>4

LEMMA DeleteNodeStep ==
  ASSUME TypeInv, NEW t \in Tasks, DeleteNode(t)
  PROVE  TypeInv'
<1>1. PICK ok \in BOOLEAN :
        /\ Tried(t, ok, "delete_embedding")
        /\ graph' = IF ok THEN [graph EXCEPT ![task[t].fact] = None] ELSE graph
  BY DEF DeleteNode
<1>2. /\ faults' \in 0..MaxFaults /\ halfway' \subseteq Facts
      /\ task' \in [Tasks -> TaskType] /\ \A u \in Tasks : Shape(u)'
  BY <1>1, TriedType DEF DeleteNode, OneFactPCs
<1>3. graph' \in [Facts -> Node \cup {None}] BY <1>1 DEF TypeInv, TypeOK
<1>4. QED BY <1>2, <1>3 DEF DeleteNode, TypeInv, TypeOK

LEMMA DeleteEmbeddingStep ==
  ASSUME TypeInv, NEW t \in Tasks, DeleteEmbedding(t)
  PROVE  TypeInv'
<1>1. PICK ok \in BOOLEAN :
        /\ Tried(t, ok, "delete_doc")
        /\ embedded' = IF ok THEN embedded \ {task[t].fact} ELSE embedded
  BY DEF DeleteEmbedding
<1>2. /\ faults' \in 0..MaxFaults /\ halfway' \subseteq Facts
      /\ task' \in [Tasks -> TaskType] /\ \A u \in Tasks : Shape(u)'
  BY <1>1, TriedType DEF DeleteEmbedding, OneFactPCs
<1>3. embedded' \subseteq Facts BY <1>1 DEF TypeInv, TypeOK
<1>4. QED BY <1>2, <1>3 DEF DeleteEmbedding, TypeInv, TypeOK

LEMMA DeleteDocStep ==
  ASSUME TypeInv, NEW t \in Tasks, DeleteDoc(t)
  PROVE  TypeInv'
<1>1. task[t].fact \in Facts /\ Old(t) \in Docs \cup {None}
  BY OneFact DEF DeleteDoc, OneFactPCs, Old
<1>2. PICK ok \in BOOLEAN :
        /\ IF Old(t) = None
           THEN ok /\ UNCHANGED <<docs, reported, faults>>
           ELSE CascadeCogneeData(Old(t), ok)
        /\ erased' = IF task[t].clean /\ ok THEN erased \cup {task[t].fact}
                     ELSE erased
  BY DEF DeleteDoc
<1>3. docs' \subseteq Docs /\ reported' \subseteq Docs /\ faults' \in 0..MaxFaults
  BY <1>1, <1>2, CascadeType DEF TypeInv, TypeOK
<1>4. erased' \subseteq Facts BY <1>1, <1>2 DEF TypeInv, TypeOK
<1>5. task' \in [Tasks -> TaskType] /\ \A u \in Tasks : Shape(u)'
  BY EndType DEF DeleteDoc
<1>6. QED BY <1>3, <1>4, <1>5 DEF DeleteDoc, TypeInv, TypeOK

LEMMA SearchStep ==
  ASSUME TypeInv, NEW t \in Tasks, Search(t)
  PROVE  TypeInv'
<1>1. PICK S \in SUBSET Stored :
        /\ IF S = {} THEN UNCHANGED task
           ELSE Become(t, [Idle EXCEPT !.pc = "fetch",
                             !.copies = [f \in S |-> graph[f].archived]])
        /\ Hold(t, S)
  BY DEF Search
<1>2. S \in SUBSET Facts BY DEF Stored
<1>3. task' \in [Tasks -> TaskType] /\ \A u \in Tasks : Shape(u)'
  <2>1. CASE UNCHANGED task BY <2>1 DEF TypeInv, TypeOK, Shape
  <2>2. CASE Become(t, [Idle EXCEPT !.pc = "fetch",
                          !.copies = [f \in S |-> graph[f].archived]])
    <3> DEFINE rec == [Idle EXCEPT !.pc = "fetch",
                         !.copies = [f \in S |-> graph[f].archived]]
    <3>1. \A f \in S : graph[f].archived \in BOOLEAN
      BY StoredNode DEF TypeInv, Node
    <3>2. [f \in S |-> graph[f].archived] \in [S -> BOOLEAN] BY <3>1
    <3>3. [f \in S |-> graph[f].archived] \in Copies BY <1>2, <3>2, CopiesIntro
    <3>4. rec \in TaskType /\ rec.pc = "fetch"
      BY <3>3, IdleType DEF TaskType, PCs
    <3>5. Become(t, rec) BY <2>2
    <3> HIDE DEF rec
    <3>6. QED BY <3>4, <3>5, BecomeType DEF OneFactPCs
  <2>3. QED BY <1>1, <2>1, <2>2
<1>4. disturbed' \subseteq Facts BY <1>1, <1>2, HoldType DEF TypeInv
<1>5. QED BY <1>3, <1>4 DEF Search, TypeInv, TypeOK, stores

LEMMA FetchedIdsType ==
  ASSUME TypeOK, NEW S \in SUBSET Facts, NEW ok \in BOOLEAN, FetchedIds(S, ok)
  PROVE  reported' \subseteq Docs /\ faults' \in 0..MaxFaults
<1>1. faults' \in 0..MaxFaults BY OutcomeType DEF FetchedIds
<1>2. \A f \in S : DataId(f) \in Docs \cup {None} BY DataIdType
<1>3. {DataId(f) : f \in S} \ {None} \subseteq Docs BY <1>2
<1>4. reported' \subseteq Docs BY <1>3 DEF FetchedIds, Report, TypeOK
<1>5. QED BY <1>1, <1>4

LEMMA DataIdMapType ==
  ASSUME TypeOK, NEW S \in SUBSET Facts, NEW ok \in BOOLEAN
  PROVE  DataIdMap(S, ok) \in DataIds /\ DOMAIN DataIdMap(S, ok) = S
<1>1. \A f \in S : DataId(f) \in Docs \cup {None} BY DataIdType
<1>2. DataIdMap(S, ok) \in [S -> Docs \cup {None}] BY <1>1 DEF DataIdMap
<1>3. QED BY <1>2, DataIdsIntro

LEMMA FetchIdsStep ==
  ASSUME TypeInv, NEW t \in Tasks, FetchIds(t)
  PROVE  TypeInv'
<1> DEFINE S == DOMAIN task[t].copies
<1>1. task[t] \in TaskType BY DEF TypeInv, TypeOK
<1>2. S \in SUBSET Facts BY <1>1, CopiesElim DEF TaskType
<1>3. PICK ok \in BOOLEAN :
        /\ FetchedIds(S, ok)
        /\ Become(t, [task[t] EXCEPT !.pc = "counts", !.ids = DataIdMap(S, ok)])
  BY DEF FetchIds
<1>4. reported' \subseteq Docs /\ faults' \in 0..MaxFaults
  BY <1>2, <1>3, FetchedIdsType DEF TypeInv
<1>5. task' \in [Tasks -> TaskType] /\ \A u \in Tasks : Shape(u)'
  <2> DEFINE rec == [task[t] EXCEPT !.pc = "counts", !.ids = DataIdMap(S, ok)]
  <2>1. DataIdMap(S, ok) \in DataIds /\ DOMAIN DataIdMap(S, ok) = S
    BY <1>2, DataIdMapType DEF TypeInv
  <2>2. /\ rec \in TaskType /\ rec.pc = "counts"
        /\ DOMAIN rec.ids = DOMAIN rec.copies
    BY <1>1, <2>1 DEF TaskType, PCs
  <2>3. Become(t, rec) BY <1>3
  <2> HIDE DEF rec
  <2>4. QED BY <2>2, <2>3, BecomeType DEF OneFactPCs
<1>6. QED BY <1>4, <1>5 DEF FetchIds, TypeInv, TypeOK, stores

LEMMA UpdateUseCountsStep ==
  ASSUME TypeInv, NEW t \in Tasks, UpdateUseCounts(t)
  PROVE  TypeInv'
<1> DEFINE S == DOMAIN task[t].copies
<1>1. /\ S \in SUBSET Facts
      /\ \A f \in S : task[t].copies[f] \in BOOLEAN /\ task[t].ids[f] \in Docs \cup {None}
  <2>1. task[t].copies \in Copies /\ task[t].ids \in DataIds
    BY DEF TypeInv, TypeOK, TaskType
  <2>2. DOMAIN task[t].ids = S BY DEF UpdateUseCounts, TypeInv, Shape
  <2>3. QED BY <2>1, <2>2, CopiesElim, DataIdsElim
<1>2. PICK out \in WriteOutcomes : AddDataPoints(S, task[t].copies, task[t].ids, out)
  BY DEF UpdateUseCounts
<1>3. /\ graph' \in [Facts -> Node \cup {None}] /\ embedded' \subseteq Facts
      /\ faults' \in 0..MaxFaults
  BY <1>1, <1>2, AddDataPointsType DEF TypeInv
<1>4. task' \in [Tasks -> TaskType] /\ \A u \in Tasks : Shape(u)'
  BY EndType DEF UpdateUseCounts
<1>5. QED BY <1>3, <1>4 DEF UpdateUseCounts, TypeInv, TypeOK

LEMMA FacadeType ==
  ASSUME TypeInv, NEW t \in Tasks, FacadeStep(t)
  PROVE  TypeInv'
<1>1. CASE Amend(t) \/ Update(t) \/ Delete(t)
  BY <1>1, ReadFactStep DEF Amend, Update, Delete, PCs
<1>2. QED
  BY <1>1, StoreStep, SearchStep, AddTextStep, WriteFactStep, CascadeOldStep,
     DeleteNodeStep, DeleteEmbeddingStep, DeleteDocStep, FetchIdsStep,
     UpdateUseCountsStep DEF FacadeStep

LEMMA RestartType ==
  ASSUME TypeInv, Restart
  PROVE  TypeInv'
<1>1. faults' \in 0..MaxFaults BY OutcomeType DEF Restart, TypeInv
<1>2. task' \in [Tasks -> TaskType] /\ \A u \in Tasks : Shape(u)'
  BY IdleType DEF Restart, Shape, OneFactPCs
<1>3. QED BY <1>1, <1>2 DEF Restart, TypeInv, TypeOK, stores

LEMMA InitType == Init => TypeInv
<1> SUFFICES ASSUME Init PROVE TypeInv
  OBVIOUS
<1>1. PICK S \in SUBSET Facts : Existing \in [S -> Docs]
  BY ConstantsAssumption
<1>2. graph \in [Facts -> Node \cup {None}] BY <1>1 DEF Init, Node
<1>3. embedded \subseteq Facts /\ docs \subseteq Docs BY <1>1 DEF Init
<1>4. task \in [Tasks -> TaskType] /\ \A t \in Tasks : Shape(t)
  BY IdleType DEF Init, Shape, OneFactPCs
<1>5. QED BY <1>2, <1>3, <1>4, ConstantsAssumption DEF Init, TypeInv, TypeOK

\* Whatever fails and whoever interferes, the nodes, embeddings and documents
\* and what the tasks remember of them keep their types.
THEOREM TypeCorrect == Spec => []TypeOK
<1>1. TypeInv /\ [Next]_vars => TypeInv'
  <2> SUFFICES ASSUME TypeInv, [Next]_vars PROVE TypeInv'
    OBVIOUS
  <2>1. CASE UNCHANGED vars
    BY <2>1 DEF vars, stores, history, TypeInv, TypeOK, Shape
  <2>2. QED BY <2>1, FacadeType, RestartType DEF Next
<1>2. TypeInv => TypeOK BY DEF TypeInv
<1>3. QED BY InitType, <1>1, <1>2, PTL DEF Spec

------------------------------------------------------------------------------
(* What becomes of the documents of a fact.                                *)

HeldIn(x) == DOMAIN x.copies \cup ({x.fact} \ {None})

\* The stores and histories as far as they are about f.
SameStores(f) ==
  /\ graph'[f] = graph[f] /\ (f \in embedded' <=> f \in embedded)
  /\ \A d \in Docs : /\ owner'[d] = f <=> owner[d] = f
                     /\ owner[d] = f => (d \in docs' <=> d \in docs)
  /\ reported \subseteq reported'
  /\ f \in erased' <=> f \in erased
  /\ f \in halfway' <=> f \in halfway

Inv == TypeInv /\ IInv

LEMMA HeldInIdle == HeldIn(Idle) = {}
BY DEF HeldIn, Idle

LEMMA HeldOneFact ==
  ASSUME TypeInv, NEW t \in Tasks, task[t].pc \in OneFactPCs
  PROVE  Held(t) = {task[t].fact}
BY ConstantsAssumption DEF TypeInv, Shape, Held

LEMMA HeldType ==
  ASSUME TypeInv, NEW t \in Tasks
  PROVE  Held(t) \subseteq Facts /\ Held(t) = HeldIn(task[t])
<1>1. task[t] \in TaskType BY DEF TypeInv, TypeOK
<1>2. task[t].copies \in Copies /\ task[t].fact \in Facts \cup {None}
  BY <1>1 DEF TaskType
<1>3. DOMAIN task[t].copies \subseteq Facts BY <1>2, CopiesElim
<1>4. QED BY <1>2, <1>3 DEF Held, HeldIn

\* Whether a fact's documents are left over does not change with SameStores.
LEMMA OnlyLeftKept ==
  ASSUME TypeOK, TypeOK', NEW f \in Facts, SameStores(f), NEW K, OnlyLeft(f, K)
  PROVE  OnlyLeft(f, K)'
BY DEF TypeOK, SameStores, OnlyLeft

LEMMA SameNode ==
  ASSUME NEW f \in Facts, SameStores(f)
  PROVE  /\ (f \in Stored)' <=> f \in Stored
         /\ DataId(f)' = DataId(f)
BY DEF SameStores, Stored, DataId

\* A document of f that exists goes on existing.
LEMMA DocKept ==
  ASSUME TypeOK, NEW f \in Facts, SameStores(f), NEW d \in Docs \cup {None},
         d # None => owner[d] = f
  PROVE  d \in docs \cup {None} <=> d \in docs' \cup {None}
BY DEF SameStores

LEMMA GripKept ==
  ASSUME TypeInv, TypeInv', NamesOwn, NEW f \in Facts, SameStores(f),
         NEW t \in Tasks, f \in Held(t), Grip(task[t], f), NEW x, x = task[t]
  PROVE  Grip(x, f)'
<1>1. TypeOK /\ TypeOK' BY DEF TypeInv
<1>2. DataId(f)' = DataId(f) /\ ((f \in Stored)' <=> f \in Stored)
  BY SameNode
<1>3. \A K : OnlyLeft(f, K) => OnlyLeft(f, K)' BY <1>1, OnlyLeftKept
<1>4. x.pc \in OneFactPCs => (x.doc \in docs \cup {None} => x.doc \in docs' \cup {None})
  <2>1. SUFFICES ASSUME x.pc \in OneFactPCs, x.doc \in docs \cup {None}
                 PROVE  x.doc \in docs' \cup {None}
    OBVIOUS
  <2>2. x.fact = f BY <2>1, HeldOneFact
  <2>3. x.doc # None => owner[x.doc] = f BY <2>2 DEF NamesOwn
  <2>4. x.doc \in Docs \cup {None} BY <1>1, <2>1 DEF TypeOK
  <2>5. QED BY <1>1, <2>1, <2>3, <2>4, DocKept
<1>5. (f \in halfway' <=> f \in halfway) /\ (f \in embedded' <=> f \in embedded)
  BY DEF SameStores
<1>6. QED BY <1>2, <1>3, <1>4, <1>5 DEF Grip, OneFactPCs

\* Nothing about f changes: what holds of it goes on holding.
LEMMA FactFrame ==
  ASSUME TypeInv, TypeInv', NamesOwn, NEW f \in Facts, FactInv(f), SameStores(f),
         \A u \in Tasks : f \in Held(u)' <=> f \in Held(u),
         \A u \in Tasks : f \in Held(u) => task'[u] = task[u]
  PROVE  FactInv(f)'
<1>1. TypeOK /\ TypeOK' BY DEF TypeInv
<1>2. DataId(f)' = DataId(f) /\ ((f \in Stored)' <=> f \in Stored)
  BY SameNode
<1>3. \A K : OnlyLeft(f, K) => OnlyLeft(f, K)' BY <1>1, OnlyLeftKept
<1>4. InUse(f)' <=> InUse(f) BY DEF InUse
<1>5. ASSUME NEW u \in Tasks, f \in Held(u)' PROVE Grip(task[u], f)'
  <2>1. PICK x : x = task[u] OBVIOUS
  <2>2. f \in Held(u) /\ task'[u] = x BY <1>5, <2>1
  <2>3. Grip(x, f)' BY <2>1, <2>2, GripKept DEF FactInv
  <2>4. QED BY <2>2, <2>3 DEF Grip
<1>6. (f \in Stored \ halfway => DataId(f) \in docs \cup {None})'
  <2>1. SUFFICES ASSUME (f \in Stored \ halfway)' PROVE DataId(f) \in docs' \cup {None}
    BY <1>2
  <2>2. f \in Stored \ halfway BY <1>2, <2>1 DEF SameStores
  <2>3. DataId(f) # None => owner[DataId(f)] = f BY <2>2 DEF NamesOwn
  <2>4. DataId(f) \in Docs \cup {None} BY <1>1, DataIdType
  <2>5. QED BY <1>1, <2>2, <2>3, <2>4, DocKept DEF FactInv
<1>7. (f \in erased => ~InUse(f) /\ f \notin Stored \cup embedded /\ OnlyLeft(f, {}))'
  BY <1>2, <1>3, <1>4 DEF FactInv, SameStores
<1>8. (~InUse(f) => OnlyLeft(f, {DataId(f)}))'
  <2>1. PICK c : c = DataId(f) OBVIOUS
  <2>2. ~InUse(f) => OnlyLeft(f, {c}) BY <2>1 DEF FactInv
  <2>3. ~InUse(f) => OnlyLeft(f, {c})' BY <1>3, <2>2
  <2>4. QED BY <1>2, <1>4, <2>1, <2>3 DEF OnlyLeft
<1>9. (\A u, v \in Tasks : f \in Held(u) \cap Held(v) => u = v)'
  BY DEF FactInv
<1>10. QED BY <1>5, <1>6, <1>7, <1>8, <1>9 DEF FactInv

\* A fact the step of a task is not about.
LEMMA Elsewhere ==
  ASSUME Inv, TypeInv', NEW t \in Tasks, NEW rec, Become(t, rec),
         NEW f \in Facts \ disturbed, SameStores(f),
         f \notin Held(t), f \notin HeldIn(rec)
  PROVE  FactInv(f)'
<1>1. \A u \in Tasks : task'[u] = IF u = t THEN rec ELSE task[u]
  BY DEF Inv, TypeInv, TypeOK, Become
<1>2. \A u \in Tasks : f \in Held(u)' <=> f \in Held(u)
  BY <1>1 DEF Held, HeldIn
<1>3. \A u \in Tasks : f \in Held(u) => task'[u] = task[u]
  BY <1>1
<1>4. QED BY <1>2, <1>3, FactFrame DEF Inv, IInv

\* The fact the step is about: what is to be shown of it.
LEMMA AtHand ==
  ASSUME TypeInv, NEW t \in Tasks, NEW rec, Become(t, rec), NEW f \in Facts,
         \A u \in Tasks \ {t} : f \notin Held(u),
         f \in HeldIn(rec) => Grip(rec, f)',
         f \notin HeldIn(rec) => OnlyLeft(f, {DataId(f)})',
         (f \in Stored \ halfway => DataId(f) \in docs \cup {None})',
         f \in erased' => /\ f \notin HeldIn(rec) /\ f \notin (Stored \cup embedded)'
                          /\ OnlyLeft(f, {})'
  PROVE  FactInv(f)'
<1>1. \A u \in Tasks : task'[u] = IF u = t THEN rec ELSE task[u]
  BY DEF TypeInv, TypeOK, Become
<1>2. \A u \in Tasks : f \in Held(u)' <=> u = t /\ f \in HeldIn(rec)
  BY <1>1 DEF Held, HeldIn
<1>3. InUse(f)' <=> f \in HeldIn(rec) BY <1>2 DEF InUse
<1>4. ASSUME NEW u \in Tasks, f \in Held(u)' PROVE Grip(task[u], f)'
  <2>1. task'[u] = rec /\ f \in HeldIn(rec) BY <1>1, <1>2, <1>4
  <2>2. QED BY <2>1 DEF Grip
<1>5. QED BY <1>2, <1>3, <1>4 DEF FactInv

\* A task that holds an undisturbed fact is the only one to do so.
LEMMA Sole ==
  ASSUME Inv, NEW t \in Tasks, NEW f \in Facts \ disturbed, f \in Held(t)
  PROVE  /\ \A u \in Tasks \ {t} : f \notin Held(u)
         /\ Grip(task[t], f) /\ f \notin erased /\ FactInv(f)
<1>1. FactInv(f) BY DEF Inv, IInv
<1>2. InUse(f) BY DEF InUse
<1>3. QED BY <1>1, <1>2 DEF FactInv

\* A call that ends lets go of its fact.
LEMMA EndAtHand ==
  ASSUME Inv, NEW t \in Tasks, End(t), NEW f \in Facts \ disturbed, f \in Held(t),
         OnlyLeft(f, {DataId(f)})',
         (f \in Stored \ halfway => DataId(f) \in docs \cup {None})',
         f \in erased' => f \notin (Stored \cup embedded)' /\ OnlyLeft(f, {})'
  PROVE  FactInv(f)'
<1>1. Become(t, Idle) BY DEF End
<1>2. f \notin HeldIn(Idle) BY HeldInIdle
<1>3. \A u \in Tasks \ {t} : f \notin Held(u) BY Sole
<1>4. QED BY <1>1, <1>2, <1>3, AtHand DEF Inv

\* The facts a step is not about keep their stores.
LEMMA SameStoresNodes ==
  ASSUME TypeOK, NEW f \in Facts, NEW S, f \notin S, NEW archived, NEW ids, NEW out,
         AddDataPoints(S, archived, ids, out),
         UNCHANGED <<docs, owner, erased, halfway>>, reported \subseteq reported'
  PROVE  SameStores(f)
BY DEF AddDataPoints, SameStores, TypeOK

\* What cognee.add does to the documents of the fact g it is called for, and to
\* those of the others.
LEMMA CogneeAddOwn ==
  ASSUME TypeOK, NamesOwn, NEW g \in Facts, NEW had \in Docs \cup {None},
         NEW id \in Docs \cup {None}, CogneeAdd(g, had, id),
         had # None => owner[had] = g
  PROVE  /\ \A d \in Docs : owner[d] # None => owner'[d] = owner[d]
         /\ \A d \in docs' : owner'[d] # None
         /\ id # None => owner'[id] = g
         /\ \A f \in Facts \ {g}, d \in Docs :
              /\ owner'[d] = f <=> owner[d] = f
              /\ owner[d] = f => (d \in docs' <=> d \in docs)
         /\ \A d \in docs' : owner'[d] = g =>
              (d \in docs /\ owner[d] = g) \/ d = id \/ d \in reported'
         /\ docs \subseteq docs' /\ reported \subseteq reported'
         /\ id \in docs' \cup {None}
<1>1. /\ owner \in [Docs -> Facts \cup {None}] /\ docs \subseteq Docs
      /\ None \notin Facts /\ None \notin Docs
  BY ConstantsAssumption DEF TypeOK
<1>2. CASE \E d \in FreshDocs :
             /\ docs'  = docs \cup {d}
             /\ owner' = [owner EXCEPT ![d] = g]
             /\ \/ id = d /\ Outcome(TRUE) /\ Report({})
                \/ id = None /\ Outcome(FALSE) /\ Report({d})
  <2>1. PICK e \in FreshDocs :
          /\ docs'  = docs \cup {e}
          /\ owner' = [owner EXCEPT ![e] = g]
          /\ \/ id = e /\ Report({})
             \/ id = None /\ Report({e})
    BY <1>2
  <2>2. e \in Docs /\ owner[e] = None BY DEF FreshDocs
  <2>3. \A d \in Docs : owner'[d] = IF d = e THEN g ELSE owner[d]
    BY <1>1, <2>1, <2>2
  <2>4. reported \subseteq reported' /\ (id = e \/ e \in reported') /\ id \in {e, None}
    BY <1>1, <2>1, <2>2 DEF Report
  <2>5. docs' = docs \cup {e} BY <2>1
  <2>6. \A d \in docs : owner[d] # None BY DEF NamesOwn
  <2>7. QED BY <1>1, <2>2, <2>3, <2>4, <2>5, <2>6
<1>3. CASE /\ had # None /\ id = had
           /\ docs' = docs \cup {had}
           /\ Outcome(TRUE) /\ Report({})
           /\ UNCHANGED owner
  <2>1. had \in Docs /\ owner[had] = g BY <1>3
  <2>2. reported' = reported BY <1>3 DEF Report
  <2>3. \A d \in docs : owner[d] # None BY DEF NamesOwn
  <2>4. QED BY <1>1, <1>3, <2>1, <2>2, <2>3
<1>4. CASE id = None /\ Outcome(FALSE) /\ UNCHANGED <<docs, owner, reported>>
  BY <1>1, <1>4 DEF NamesOwn
<1>5. QED BY <1>2, <1>3, <1>4 DEF CogneeAdd

\* A task's new record names documents of its fact too.
LEMMA NamesKept ==
  ASSUME TypeInv, NamesOwn, NEW t \in Tasks, NEW rec, Become(t, rec),
         \A d \in Docs : owner[d] # None => owner'[d] = owner[d],
         \A d \in docs' : owner'[d] # None,
         \A f \in Stored' : DataId(f)' # None => owner'[DataId(f)'] = f,
         \A f \in DOMAIN rec.ids : rec.ids[f] # None => owner'[rec.ids[f]] = f,
         rec.doc # None => rec.fact # None /\ owner'[rec.doc] = rec.fact,
         \A u \in Tasks : Hands(u),
         rec.pc \in {"idle", "fetch", "counts"} => rec.fact = None,
         rec.pc = "idle" => rec.copies = Idle.copies
  PROVE  NamesOwn' /\ \A u \in Tasks : Hands(u)'
<1>1. \A u \in Tasks : task'[u] = IF u = t THEN rec ELSE task[u]
  BY DEF TypeInv, TypeOK, Become
<1>2. None \notin Facts BY ConstantsAssumption
<1>3. ASSUME NEW u \in Tasks \ {t}
      PROVE  /\ \A f \in DOMAIN task[u].ids :
                  task[u].ids[f] # None => owner'[task[u].ids[f]] = f
             /\ task[u].doc # None =>
                  task[u].fact # None /\ owner'[task[u].doc] = task[u].fact
  <2>1. task[u] \in TaskType BY DEF TypeInv, TypeOK
  <2>2. task[u].ids \in DataIds /\ task[u].doc \in Docs \cup {None}
        /\ task[u].fact \in Facts \cup {None}
    BY <2>1 DEF TaskType
  <2>3. DOMAIN task[u].ids \subseteq Facts
        /\ \A f \in DOMAIN task[u].ids : task[u].ids[f] \in Docs \cup {None}
    BY <2>2, DataIdsElim
  <2>4. \A f \in DOMAIN task[u].ids :
          task[u].ids[f] # None => owner'[task[u].ids[f]] = f
    BY <1>2, <2>3 DEF NamesOwn
  <2>5. QED BY <1>2, <2>2, <2>4 DEF NamesOwn
<1>4. NamesOwn' BY <1>1, <1>3 DEF NamesOwn
<1>5. \A u \in Tasks : Hands(u)' BY <1>1 DEF Hands, Idle
<1>6. QED BY <1>4, <1>5

LEMMA InvParts ==
  ASSUME Inv
  PROVE  TypeInv /\ TypeOK /\ NamesOwn /\ \A u \in Tasks : Hands(u)
BY DEF Inv, IInv, TypeInv

\* A step of one task: what is to be shown of it.
LEMMA StepInv ==
  ASSUME Inv, TypeInv', NEW t \in Tasks, NEW rec, Become(t, rec),
         NamesOwn' /\ \A u \in Tasks : Hands(u)',
         disturbed \subseteq disturbed',
         \A f \in Facts \ disturbed' :
           f \notin Held(t) \cup HeldIn(rec) => SameStores(f),
         \A f \in Facts \ disturbed' :
           f \in Held(t) \cup HeldIn(rec) => FactInv(f)'
  PROVE  IInv'
<1>1. ASSUME NEW f \in Facts \ disturbed' PROVE FactInv(f)'
  <2>1. f \in Facts \ disturbed OBVIOUS
  <2>2. CASE f \in Held(t) \cup HeldIn(rec) BY <2>2
  <2>3. CASE f \notin Held(t) \cup HeldIn(rec)
    <3>1. SameStores(f) BY <2>3
    <3>2. QED BY <2>1, <2>3, <3>1, Elsewhere
  <2>4. QED BY <2>2, <2>3
<1>2. QED BY <1>1 DEF IInv, TypeInv

\* The nodes go on naming documents of their fact.
LEMMA NodesName ==
  ASSUME TypeOK, NamesOwn, UNCHANGED graph,
         \A d \in Docs : owner[d] # None => owner'[d] = owner[d]
  PROVE  \A f \in Stored' : DataId(f)' # None => owner'[DataId(f)'] = f
<1> SUFFICES ASSUME NEW f \in Stored', DataId(f)' # None
             PROVE  owner'[DataId(f)'] = f
  OBVIOUS
<1>1. f \in Stored /\ DataId(f)' = DataId(f) BY DEF Stored, DataId
<1>2. f \in Facts BY <1>1 DEF Stored
<1>3. DataId(f) \in Docs BY <1>1, <1>2, DataIdType
<1>4. owner[DataId(f)] = f BY <1>1 DEF NamesOwn
<1>5. QED BY <1>1, <1>2, <1>3, <1>4, ConstantsAssumption

LEMMA IdleHolds ==
  ASSUME Inv, NEW t \in Tasks, task[t].pc = "idle"
  PROVE  Held(t) = {}
BY DEF Inv, IInv, Hands, Held, Idle

LEMMA StoreInv ==
  ASSUME Inv, NEW t \in Tasks, Store(t)
  PROVE  IInv'
<1>0. TypeInv' BY StoreStep DEF Inv
<1>1. PICK g \in Facts, id \in Docs \cup {None} :
        /\ FreshFact(g)
        /\ CogneeAdd(g, None, id)
        /\ Become(t, [Idle EXCEPT !.pc = "store", !.fact = g, !.doc = id,
                        !.copies = Only(g, FALSE), !.ids = Only(g, None)])
  BY DEF Store
<1>2. /\ UNCHANGED <<graph, embedded, erased, halfway, disturbed>>
      /\ task[t].pc = "idle"
  BY DEF Store, Begin
<1>3. PICK rec : rec = [Idle EXCEPT !.pc = "store", !.fact = g, !.doc = id,
                          !.copies = Only(g, FALSE), !.ids = Only(g, None)]
  OBVIOUS
<1>4. /\ rec.pc = "store" /\ rec.fact = g /\ rec.doc = id /\ g # None
      /\ DOMAIN rec.copies = {g} /\ DOMAIN rec.ids = {g} /\ rec.ids[g] = None
      /\ HeldIn(rec) = {g} /\ Become(t, rec)
  BY <1>1, <1>3, ConstantsAssumption DEF Idle, Only, HeldIn
<1>5. /\ \A d \in Docs : owner[d] # None => owner'[d] = owner[d]
      /\ \A d \in docs' : owner'[d] # None
      /\ id # None => owner'[id] = g
      /\ \A f \in Facts \ {g}, d \in Docs :
           /\ owner'[d] = f <=> owner[d] = f
           /\ owner[d] = f => (d \in docs' <=> d \in docs)
      /\ \A d \in docs' : owner'[d] = g =>
           (d \in docs /\ owner[d] = g) \/ d = id \/ d \in reported'
      /\ reported \subseteq reported' /\ id \in docs' \cup {None}
  BY <1>1, CogneeAddOwn DEF Inv, IInv
<1>6. /\ g \notin Stored /\ ~InUse(g) /\ g \notin erased \cup disturbed
      /\ docs \subseteq Docs /\ \A d \in Docs : owner[d] # g
  BY <1>1 DEF FreshFact, Inv, IInv, TypeOK
<1>7. NamesOwn' /\ \A u \in Tasks : Hands(u)'
  <2>1. \A f \in Stored' : DataId(f)' # None => owner'[DataId(f)'] = f
    BY <1>2, <1>5, NodesName DEF Inv, IInv
  <2>2. \A f \in DOMAIN rec.ids : rec.ids[f] # None => owner'[rec.ids[f]] = f
    BY <1>4
  <2>3. rec.doc # None => rec.fact # None /\ owner'[rec.doc] = rec.fact
    BY <1>4, <1>5
  <2>4. rec.pc \notin {"idle", "fetch", "counts"} BY <1>4
  <2>5. QED BY <1>4, <1>5, <2>1, <2>2, <2>3, <2>4, InvParts, NamesKept
<1>8. \A f \in Facts : f \notin Held(t) \cup HeldIn(rec) => SameStores(f)
  BY <1>2, <1>4, <1>5 DEF SameStores
<1>9. FactInv(g)'
  <2>1. \A d \in docs' : owner'[d] = g => d \in {id} \cup reported'
    BY <1>5, <1>6
  <2>2. DataId(g)' = None /\ g \notin Stored'
    BY <1>2, <1>6 DEF DataId, Stored
  <2>3. Grip(rec, g)'
    BY <1>4, <1>5, <2>1, <2>2 DEF Grip, OnlyLeft, OneFactPCs
  <2>4. \A u \in Tasks \ {t} : g \notin Held(u) BY <1>6 DEF InUse
  <2>5. QED BY <1>2, <1>4, <1>6, <2>2, <2>3, <2>4, AtHand DEF Inv
<1>10. Held(t) = {} BY <1>2, IdleHolds
<1>11. QED BY <1>0, <1>2, <1>4, <1>7, <1>8, <1>9, <1>10, StepInv

\* A call that begins on a stored fact.
LEMMA ReadFactInv ==
  ASSUME Inv, NEW t \in Tasks, task[t].pc = "idle",
         NEW pc \in {"write", "add", "delete_node"}, ReadFact(t, pc)
  PROVE  IInv'
<1>0. TypeInv' BY ReadFactStep DEF Inv, PCs
<1>1. PICK g \in Stored :
        /\ Become(t, [Idle EXCEPT !.pc = pc, !.fact = g, !.doc = graph[g].doc,
                        !.copies = Only(g, graph[g].archived),
                        !.ids = Only(g, graph[g].doc)])
        /\ Hold(t, {g})
        /\ UNCHANGED <<stores, owner, reported, erased, halfway, faults>>
  BY DEF ReadFact
<1>2. /\ g \in Facts /\ g # None /\ graph[g].doc = DataId(g)
      /\ UNCHANGED <<graph, embedded, docs, owner, reported, erased, halfway>>
  BY <1>1, ConstantsAssumption DEF Stored, DataId, stores
<1>3. PICK rec : rec = [Idle EXCEPT !.pc = pc, !.fact = g, !.doc = graph[g].doc,
                          !.copies = Only(g, graph[g].archived),
                          !.ids = Only(g, graph[g].doc)]
  OBVIOUS
<1>4. /\ rec.pc = pc /\ rec.fact = g /\ rec.doc = DataId(g)
      /\ DOMAIN rec.copies = {g} /\ DOMAIN rec.ids = {g} /\ rec.ids[g] = DataId(g)
      /\ HeldIn(rec) = {g} /\ Become(t, rec)
  BY <1>1, <1>2, <1>3 DEF Idle, Only, HeldIn
<1>5. NamesOwn' /\ \A u \in Tasks : Hands(u)'
  <2>1. \A f \in Stored' : DataId(f)' # None => owner'[DataId(f)'] = f
    BY <1>2, NodesName DEF Inv, IInv
  <2>2. DataId(g) # None => owner'[DataId(g)] = g
    BY <1>1, <1>2 DEF Inv, IInv, NamesOwn
  <2>3. \A d \in docs' : owner'[d] # None BY <1>2 DEF Inv, IInv, NamesOwn
  <2>4. rec.doc # None => rec.fact # None /\ owner'[rec.doc] = rec.fact
    BY <1>2, <1>4, <2>2
  <2>5. \A f \in DOMAIN rec.ids : rec.ids[f] # None => owner'[rec.ids[f]] = f
    BY <1>4, <2>2
  <2>6. rec.pc \notin {"idle", "fetch", "counts"} BY <1>4
  <2>7. \A d \in Docs : owner[d] # None => owner'[d] = owner[d] BY <1>2
  <2>8. QED BY <1>4, <2>1, <2>3, <2>4, <2>5, <2>6, <2>7, InvParts, NamesKept
<1>6. \A f \in Facts : f \notin Held(t) \cup HeldIn(rec) => SameStores(f)
  BY <1>2 DEF SameStores
<1>7. disturbed \subseteq disturbed' BY <1>1 DEF Hold
<1>8. Held(t) = {} BY IdleHolds
<1>9. ASSUME g \notin disturbed' PROVE FactInv(g)'
  <2>1. \A u \in Tasks \ {t} : g \notin Held(u) BY <1>1, <1>9 DEF Hold
  <2>2. ~InUse(g) BY <1>8, <2>1 DEF InUse
  <2>3. FactInv(g) BY <1>2, <1>7, <1>9 DEF Inv, IInv
  <2>4. /\ OnlyLeft(g, {DataId(g)}) /\ g \notin erased
        /\ g \in Stored \ halfway => DataId(g) \in docs \cup {None}
    BY <1>1, <2>2, <2>3 DEF FactInv
  <2>5. DataId(g)' = DataId(g) /\ g \in Stored'
    BY <1>1, <1>2 DEF DataId, Stored
  <2>6. Grip(rec, g)'
    BY <1>1, <1>2, <1>4, <2>4, <2>5 DEF Grip, OnlyLeft, OneFactPCs
  <2>7. (g \in Stored \ halfway => DataId(g) \in docs \cup {None})'
    BY <1>1, <1>2, <2>4, <2>5
  <2>8. QED BY <1>2, <1>4, <2>1, <2>4, <2>6, <2>7, AtHand DEF Inv
<1>10. QED BY <1>0, <1>4, <1>5, <1>6, <1>7, <1>8, <1>9, StepInv

\* A task that works on one fact: what it holds and which documents it names.
LEMMA OneFactNames ==
  ASSUME Inv, NEW t \in Tasks, task[t].pc \in OneFactPCs
  PROVE  /\ task[t] \in TaskType /\ task[t].fact \in Facts /\ task[t].fact # None
         /\ DOMAIN task[t].copies = {task[t].fact}
         /\ DOMAIN task[t].ids = {task[t].fact}
         /\ Held(t) = {task[t].fact} /\ HeldIn(task[t]) = {task[t].fact}
         /\ Old(t) \in Docs \cup {None} /\ task[t].doc \in Docs \cup {None}
         /\ Old(t) # None => owner[Old(t)] = task[t].fact
         /\ task[t].doc # None => owner[task[t].doc] = task[t].fact
         /\ None \notin Docs /\ docs \subseteq Docs
<1>1. /\ task[t] \in TaskType /\ task[t].fact \in Facts
      /\ Old(t) \in Docs \cup {None}
  BY InvParts, OneFact DEF Old
<1>2. /\ DOMAIN task[t].copies = {task[t].fact}
      /\ DOMAIN task[t].ids = {task[t].fact}
  BY InvParts DEF TypeInv, Shape
<1>3. Held(t) = {task[t].fact} /\ HeldIn(task[t]) = {task[t].fact}
  BY InvParts, HeldOneFact, HeldType
<1>4. /\ Old(t) # None => owner[Old(t)] = task[t].fact
      /\ task[t].doc # None => owner[task[t].doc] = task[t].fact
  BY <1>2, InvParts DEF NamesOwn, Old
<1>5. task[t].doc \in Docs \cup {None} BY <1>1 DEF TaskType
<1>6. None \notin Facts /\ None \notin Docs /\ docs \subseteq Docs
  BY InvParts, ConstantsAssumption DEF TypeOK
<1>7. QED BY <1>1, <1>2, <1>3, <1>4, <1>5, <1>6

\* The record of a call that goes on: another pc, perhaps another document.
LEMMA GoesOn ==
  ASSUME Inv, NEW t \in Tasks, task[t].pc \in OneFactPCs, NEW rec,
         rec.pc \in OneFactPCs, rec.fact = task[t].fact, rec.copies = task[t].copies,
         rec.ids = task[t].ids
  PROVE  /\ HeldIn(rec) = {task[t].fact} /\ rec.ids[task[t].fact] = Old(t)
         /\ rec.pc \notin {"idle", "fetch", "counts"}
BY OneFactNames DEF HeldIn, OneFactPCs, Old

\* The task that goes on names documents of its fact.
LEMMA GoesOnNaming ==
  ASSUME Inv, NEW t \in Tasks, task[t].pc \in OneFactPCs, NEW rec, Become(t, rec),
         rec.pc \in OneFactPCs, rec.fact = task[t].fact, rec.copies = task[t].copies,
         rec.ids = task[t].ids,
         rec.doc # None => owner'[rec.doc] = task[t].fact,
         \A d \in Docs : owner[d] # None => owner'[d] = owner[d],
         \A d \in docs' : owner'[d] # None,
         \A f \in Stored' : DataId(f)' # None => owner'[DataId(f)'] = f
  PROVE  NamesOwn' /\ \A u \in Tasks : Hands(u)'
<1>1. rec.pc \notin {"idle", "fetch", "counts"} BY GoesOn
<1>2. \A f \in DOMAIN rec.ids : rec.ids[f] # None => owner'[rec.ids[f]] = f
  BY OneFactNames DEF Old
<1>3. rec.doc # None => rec.fact # None /\ owner'[rec.doc] = rec.fact
  BY OneFactNames
<1>4. QED BY <1>1, <1>2, <1>3, InvParts, NamesKept

LEMMA EndNaming ==
  ASSUME Inv, NEW t \in Tasks, End(t),
         \A d \in Docs : owner[d] # None => owner'[d] = owner[d],
         \A d \in docs' : owner'[d] # None,
         \A f \in Stored' : DataId(f)' # None => owner'[DataId(f)'] = f
  PROVE  NamesOwn' /\ \A u \in Tasks : Hands(u)'
<1>1. PICK rec : rec = Idle OBVIOUS
<1>2. Become(t, rec) BY <1>1 DEF End
<1>3. /\ \A f \in DOMAIN rec.ids : rec.ids[f] # None => owner'[rec.ids[f]] = f
      /\ rec.doc = None /\ rec.fact = None /\ rec.copies = Idle.copies
  BY <1>1 DEF Idle
<1>4. QED BY <1>2, <1>3, InvParts, NamesKept

\* The step that ends a call on one fact.
LEMMA EndInv ==
  ASSUME Inv, TypeInv', NEW t \in Tasks, task[t].pc \in OneFactPCs, End(t),
         NEW g, g = task[t].fact,
         \A d \in Docs : owner[d] # None => owner'[d] = owner[d],
         \A d \in docs' : owner'[d] # None,
         \A f \in Stored' : DataId(f)' # None => owner'[DataId(f)'] = f,
         disturbed \subseteq disturbed',
         \A f \in Facts \ {g} : SameStores(f),
         g \notin disturbed =>
           /\ OnlyLeft(g, {DataId(g)})'
           /\ (g \in Stored \ halfway => DataId(g) \in docs \cup {None})'
           /\ g \in erased' => g \notin (Stored \cup embedded)' /\ OnlyLeft(g, {})'
  PROVE  IInv'
<1>1. NamesOwn' /\ \A u \in Tasks : Hands(u)' BY EndNaming
<1>2. Become(t, Idle) /\ HeldIn(Idle) = {} BY HeldInIdle DEF End
<1>3. Held(t) = {g} /\ g \in Facts BY OneFactNames
<1>4. ASSUME g \notin disturbed PROVE FactInv(g)'
  <2>1. g \in Facts \ disturbed /\ g \in Held(t) BY <1>3, <1>4
  <2>2. QED BY <1>4, <2>1, EndAtHand
<1>5. \A f \in Facts \ disturbed' : f \in Held(t) \cup HeldIn(Idle) => FactInv(f)'
  BY <1>2, <1>3, <1>4
<1>6. PICK rec : rec = Idle OBVIOUS
<1>7. QED BY <1>1, <1>2, <1>3, <1>5, <1>6, StepInv

\* The step after which the call goes on.
LEMMA GoesOnInv ==
  ASSUME Inv, TypeInv', NEW t \in Tasks, task[t].pc \in OneFactPCs, NEW rec,
         Become(t, rec), rec.pc \in OneFactPCs, rec.fact = task[t].fact,
         rec.copies = task[t].copies, rec.ids = task[t].ids,
         NEW g, g = task[t].fact, rec.doc # None => owner'[rec.doc] = g,
         \A d \in Docs : owner[d] # None => owner'[d] = owner[d],
         \A d \in docs' : owner'[d] # None,
         \A f \in Stored' : DataId(f)' # None => owner'[DataId(f)'] = f,
         disturbed \subseteq disturbed', UNCHANGED erased,
         \A f \in Facts \ {g} : SameStores(f),
         g \notin disturbed =>
           Grip(rec, g)' /\ (g \in Stored \ halfway => DataId(g) \in docs \cup {None})'
  PROVE  IInv'
<1>1. NamesOwn' /\ \A u \in Tasks : Hands(u)' BY GoesOnNaming
<1>2. HeldIn(rec) = {g} BY GoesOn
<1>3. Held(t) = {g} /\ g \in Facts BY OneFactNames
<1>4. ASSUME g \notin disturbed PROVE FactInv(g)'
  <2>1. g \in Facts \ disturbed /\ g \in Held(t) BY <1>3, <1>4
  <2>2. (\A u \in Tasks \ {t} : g \notin Held(u)) /\ g \notin erased
    BY <2>1, Sole
  <2>3. TypeInv /\ g \in Facts /\ g \in HeldIn(rec) /\ g \notin erased'
    BY <1>2, <1>3, <2>2, InvParts
  <2>4. Grip(rec, g)' /\ (g \in Stored \ halfway => DataId(g) \in docs \cup {None})'
    BY <1>4
  <2>5. QED BY <2>2, <2>3, <2>4, AtHand
<1>5. \A f \in Facts \ disturbed' : f \in Held(t) \cup HeldIn(rec) => FactInv(f)'
  BY <1>2, <1>3, <1>4
<1>6. QED BY <1>1, <1>2, <1>3, <1>5, StepInv

LEMMA AddTextInv ==
  ASSUME Inv, NEW t \in Tasks, AddText(t)
  PROVE  IInv'
<1>0. TypeInv' BY AddTextStep DEF Inv
<1>1. PICK g : g = task[t].fact OBVIOUS
<1>2. /\ task[t].pc = "add" /\ task[t].pc \in OneFactPCs
      /\ UNCHANGED <<graph, embedded, erased, halfway, disturbed>>
  BY DEF AddText, OneFactPCs
<1>3. /\ task[t] \in TaskType /\ g \in Facts /\ Held(t) = {g}
      /\ Old(t) \in Docs \cup {None} /\ None \notin Docs /\ docs \subseteq Docs
      /\ Old(t) # None => owner[Old(t)] = g
  BY <1>1, <1>2, OneFactNames
<1>4. PICK old : old = Old(t) OBVIOUS
<1>5. ASSUME g \notin disturbed
      PROVE  /\ DataId(g) = old /\ OnlyLeft(g, {old})
             /\ g \in Stored \ halfway => DataId(g) \in docs \cup {None}
             /\ g \notin erased
  <2>1. Grip(task[t], g) /\ FactInv(g) /\ g \notin erased
    BY <1>3, <1>5, Sole
  <2>2. QED BY <1>1, <1>2, <1>4, <2>1 DEF Grip, FactInv, OnlyLeft, Old
<1>6. DataId(g)' = DataId(g) /\ (g \in Stored' <=> g \in Stored)
  BY <1>2 DEF DataId, Stored
<1>7. CASE \E id \in Docs \cup {None} :
             /\ CogneeAdd(task[t].fact, Old(t), id)
             /\ Become(t, [task[t] EXCEPT !.pc = "write", !.doc = id])
  <2>1. PICK id \in Docs \cup {None} :
          /\ CogneeAdd(g, Old(t), id)
          /\ Become(t, [task[t] EXCEPT !.pc = "write", !.doc = id])
    BY <1>1, <1>7
  <2>2. PICK rec : rec = [task[t] EXCEPT !.pc = "write", !.doc = id] OBVIOUS
  <2>3. /\ rec.pc = "write" /\ rec.pc \in OneFactPCs /\ rec.doc = id /\ Become(t, rec)
        /\ rec.fact = task[t].fact /\ rec.copies = task[t].copies
        /\ rec.ids = task[t].ids /\ rec.ids[g] = old
    BY <1>1, <1>3, <1>4, <2>1, <2>2 DEF TaskType, OneFactPCs, Old
  <2>4. /\ \A d \in Docs : owner[d] # None => owner'[d] = owner[d]
        /\ \A d \in docs' : owner'[d] # None
        /\ id # None => owner'[id] = g
        /\ \A f \in Facts \ {g}, d \in Docs :
             /\ owner'[d] = f <=> owner[d] = f
             /\ owner[d] = f => (d \in docs' <=> d \in docs)
        /\ \A d \in docs' : owner'[d] = g =>
             (d \in docs /\ owner[d] = g) \/ d = id \/ d \in reported'
        /\ docs \subseteq docs' /\ reported \subseteq reported'
        /\ id \in docs' \cup {None}
    BY <1>3, <2>1, CogneeAddOwn, InvParts
  <2>5. \A f \in Stored' : DataId(f)' # None => owner'[DataId(f)'] = f
    BY <1>2, <2>4, InvParts, NodesName
  <2>6. \A f \in Facts \ {g} : SameStores(f)
    BY <1>2, <2>4 DEF SameStores
  <2>7. ASSUME g \notin disturbed
        PROVE  Grip(rec, g)' /\ (g \in Stored \ halfway => DataId(g) \in docs \cup {None})'
    <3>1. \A d \in docs' : owner'[d] = g => d \in {old, id} \cup reported'
      BY <1>5, <2>4, <2>7 DEF OnlyLeft
    <3>2. Grip(rec, g)'
      BY <1>5, <1>6, <2>3, <2>4, <2>7, <3>1 DEF Grip, OnlyLeft, OneFactPCs
    <3>3. QED BY <1>2, <1>5, <1>6, <2>4, <2>7, <3>2
  <2>8. disturbed \subseteq disturbed' /\ UNCHANGED erased BY <1>2
  <2>9. QED BY <1>0, <1>1, <1>2, <2>3, <2>4, <2>5, <2>6, <2>7, <2>8, GoesOnInv
<1>8. CASE End(t) /\ UNCHANGED <<docs, owner, reported>>
  <2>1. \A f \in Stored' : DataId(f)' # None => owner'[DataId(f)'] = f
    BY <1>2, <1>8, InvParts, NodesName
  <2>2. \A d \in docs' : owner'[d] # None BY <1>8, InvParts DEF NamesOwn
  <2>3. \A f \in Facts : SameStores(f) BY <1>2, <1>8 DEF SameStores
  <2>4. ASSUME g \notin disturbed
        PROVE  /\ OnlyLeft(g, {DataId(g)})'
               /\ (g \in Stored \ halfway => DataId(g) \in docs \cup {None})'
               /\ g \notin erased'
    BY <1>2, <1>5, <1>6, <1>8, <2>4 DEF OnlyLeft
  <2>5. disturbed \subseteq disturbed' BY <1>2
  <2>6. \A d \in Docs : owner[d] # None => owner'[d] = owner[d] BY <1>8
  <2>7. QED BY <1>0, <1>1, <1>2, <1>8, <2>1, <2>2, <2>3, <2>4, <2>5, <2>6, EndInv
<1>9. QED BY <1>7, <1>8 DEF AddText

\* What a write of one node does to it.
LEMMA WrittenNode ==
  ASSUME Inv, NEW t \in Tasks, task[t].pc \in OneFactPCs,
         NEW g, g = task[t].fact, NEW doc, doc = task[t].doc, NEW out \in WriteOutcomes,
         AddDataPoints({g}, task[t].copies, NodeId(t), out)
  PROVE  /\ out = "failed" => graph' = graph
         /\ out # "failed" => graph'[g] # None /\ graph'[g].doc = doc
         /\ \A f \in Facts \ {g} : graph'[f] = graph[f]
         /\ \A f \in Facts \ {g} : f \in embedded' <=> f \in embedded
<1>1. /\ g \in Facts /\ doc \in Docs \cup {None} /\ task[t].copies[g] \in BOOLEAN
      /\ NodeId(t)[g] = doc
  BY OneFact, InvParts DEF TaskType, NodeId, Only
<1>2. [doc |-> NodeId(t)[g], archived |-> task[t].copies[g]] \in Node
  BY <1>1 DEF Node
<1>3. ASSUME out # "failed" PROVE graph'[g] # None /\ graph'[g].doc = doc
  <2>1. graph'[g] = [doc |-> NodeId(t)[g], archived |-> task[t].copies[g]]
    BY <1>1, <1>3 DEF AddDataPoints
  <2>2. QED BY <1>1, <1>2, <2>1, NoneIsNoNode
<1>4. QED BY <1>1, <1>3, InvParts DEF AddDataPoints, TypeOK

LEMMA WriteFactInv ==
  ASSUME Inv, NEW t \in Tasks, WriteFact(t)
  PROVE  IInv'
<1>0. TypeInv' BY WriteFactStep DEF Inv
<1>1. PICK g, old, doc : g = task[t].fact /\ old = Old(t) /\ doc = task[t].doc
  OBVIOUS
<1>2. /\ task[t].pc \in {"store", "write"} /\ task[t].pc \in OneFactPCs
      /\ UNCHANGED <<docs, owner, erased, halfway, disturbed>>
  BY DEF WriteFact, OneFactPCs
<1>3. /\ task[t] \in TaskType /\ g \in Facts /\ Held(t) = {g}
      /\ old \in Docs \cup {None} /\ doc \in Docs \cup {None}
      /\ None \notin Docs /\ docs \subseteq Docs
      /\ old # None => owner[old] = g
      /\ doc # None => owner[doc] = g
  BY <1>1, <1>2, OneFactNames
<1>4. PICK out \in WriteOutcomes :
        /\ AddDataPoints({g}, task[t].copies, NodeId(t), out)
        /\ IF out = "written" /\ Supersedes(t)
           THEN Become(t, [task[t] EXCEPT !.pc = "cascade"])
           ELSE End(t)
        /\ reported' = reported \cup
             ((IF out # "written" /\ Supersedes(t)
               THEN {IF out = "half" THEN old ELSE doc}
               ELSE IF out = "failed" THEN {doc} ELSE {}) \ {None})
  BY <1>1 DEF WriteFact, Report
<1>5. /\ out = "failed" => graph' = graph
      /\ out # "failed" => g \in Stored' /\ DataId(g)' = doc
      /\ \A f \in Facts \ {g} : graph'[f] = graph[f]
      /\ \A f \in Facts \ {g} : f \in embedded' <=> f \in embedded
  <2>1. /\ out = "failed" => graph' = graph
        /\ out # "failed" => graph'[g] # None /\ graph'[g].doc = doc
        /\ \A f \in Facts \ {g} : graph'[f] = graph[f]
        /\ \A f \in Facts \ {g} : f \in embedded' <=> f \in embedded
    BY <1>1, <1>2, <1>4, WrittenNode
  <2>2. QED BY <1>3, <2>1 DEF Stored, DataId
<1>6. \A f \in Facts \ {g} : SameStores(f)
  BY <1>2, <1>4, <1>5 DEF SameStores
<1>7. \A f \in Stored' : DataId(f)' # None => owner'[DataId(f)'] = f
  <2>1. CASE out = "failed"
    BY <1>2, <1>5, <2>1, InvParts, NodesName
  <2>2. CASE out # "failed"
    <3>1. ASSUME NEW f \in Stored', DataId(f)' # None, f # g
          PROVE  owner'[DataId(f)'] = f
      <4>1. f \in Stored /\ DataId(f)' = DataId(f)
        BY <1>5, <3>1 DEF Stored, DataId
      <4>2. QED BY <1>2, <3>1, <4>1, InvParts DEF NamesOwn
    <3>2. DataId(g)' # None => owner'[DataId(g)'] = g
      BY <1>2, <1>3, <1>5, <2>2
    <3>3. QED BY <3>1, <3>2
  <2>3. QED BY <2>1, <2>2
<1>8. /\ \A d \in docs' : owner'[d] # None
      /\ \A d \in Docs : owner[d] # None => owner'[d] = owner[d]
      /\ disturbed \subseteq disturbed' /\ UNCHANGED erased
  BY <1>2, InvParts DEF NamesOwn
<1>9. ASSUME g \notin disturbed
      PROVE  /\ DataId(g) = old /\ OnlyLeft(g, {old, doc})
             /\ doc \in docs \cup {None} \/ g \in halfway
             /\ g \in Stored \ halfway => DataId(g) \in docs \cup {None}
             /\ g \notin erased
  <2>1. Grip(task[t], g) /\ FactInv(g) /\ g \notin erased
    BY <1>3, <1>9, Sole
  <2>2. QED BY <1>1, <1>2, <2>1 DEF Grip, FactInv, Old
<1>10. ASSUME g \notin disturbed
       PROVE  /\ (g \in Stored \ halfway => DataId(g) \in docs \cup {None})'
              /\ OnlyLeft(g, {old, doc})'
  <2>1. CASE out = "failed"
    <3>1. DataId(g)' = DataId(g) /\ (g \in Stored' <=> g \in Stored)
      BY <1>5, <2>1 DEF DataId, Stored
    <3>2. QED BY <1>2, <1>4, <1>9, <1>10, <3>1 DEF OnlyLeft
  <2>2. CASE out # "failed"
    BY <1>2, <1>4, <1>5, <1>9, <1>10, <2>2 DEF OnlyLeft
  <2>3. QED BY <2>1, <2>2
<1>11. Supersedes(t) <=> old # None /\ old # doc BY <1>1 DEF Supersedes
<1>12. CASE out = "written" /\ Supersedes(t)
  <2>1. PICK rec : rec = [task[t] EXCEPT !.pc = "cascade"] OBVIOUS
  <2>2. /\ rec.pc = "cascade" /\ rec.pc \in OneFactPCs /\ rec.doc = doc /\ Become(t, rec)
        /\ rec.fact = task[t].fact /\ rec.copies = task[t].copies
        /\ rec.ids = task[t].ids /\ rec.ids[g] = old
    BY <1>1, <1>3, <1>4, <1>12, <2>1 DEF TaskType, OneFactPCs, Old
  <2>3. ASSUME g \notin disturbed PROVE Grip(rec, g)'
    BY <1>5, <1>10, <1>11, <1>12, <2>2, <2>3 DEF Grip, OneFactPCs
  <2>4. rec.doc # None => owner'[rec.doc] = g BY <1>2, <1>3, <2>2
  <2>5. QED
    BY <1>0, <1>1, <1>2, <1>6, <1>7, <1>8, <1>10, <2>2, <2>3, <2>4, GoesOnInv
<1>13. CASE ~(out = "written" /\ Supersedes(t))
  <2>1. ASSUME g \notin disturbed PROVE OnlyLeft(g, {DataId(g)})'
    <3>1. CASE out = "failed"
      <4>1. DataId(g)' = old /\ (doc = None \/ doc \in reported')
        BY <1>4, <1>5, <1>9, <2>1, <3>1 DEF DataId, Stored
      <4>2. QED BY <1>2, <1>3, <1>10, <2>1, <4>1 DEF OnlyLeft
    <3>2. CASE out # "failed"
      <4>1. DataId(g)' = doc BY <1>5, <3>2
      <4>2. old \in {None, doc} \/ old \in reported'
        BY <1>4, <1>11, <1>13, <3>2 DEF WriteOutcomes
      <4>3. QED BY <1>2, <1>3, <1>10, <2>1, <4>1, <4>2 DEF OnlyLeft
    <3>3. QED BY <3>1, <3>2
  <2>2. g \notin disturbed => g \notin erased' BY <1>2, <1>9
  <2>3. End(t) BY <1>4, <1>13
  <2>4. QED BY <1>0, <1>1, <1>2, <1>6, <1>7, <1>8, <1>10, <2>1, <2>2, <2>3, EndInv
<1>14. QED BY <1>12, <1>13

LEMMA CascadeOldInv ==
  ASSUME Inv, NEW t \in Tasks, CascadeOld(t)
  PROVE  IInv'
<1>0. TypeInv' BY CascadeOldStep DEF Inv
<1>1. PICK g, old, doc : g = task[t].fact /\ old = Old(t) /\ doc = task[t].doc
  OBVIOUS
<1>2. /\ task[t].pc = "cascade" /\ task[t].pc \in OneFactPCs /\ End(t)
      /\ UNCHANGED <<graph, embedded, owner, erased, halfway, disturbed>>
  BY DEF CascadeOld, OneFactPCs
<1>3. /\ task[t] \in TaskType /\ g \in Facts /\ Held(t) = {g}
      /\ old \in Docs \cup {None} /\ docs \subseteq Docs
      /\ old # None => owner[old] = g
  BY <1>1, <1>2, OneFactNames
<1>4. PICK ok \in BOOLEAN : CascadeCogneeData(old, ok)
  BY <1>1 DEF CascadeOld
<1>5. docs' = IF ok THEN docs \ {old} ELSE docs
  BY <1>4 DEF CascadeCogneeData
<1>6. \A f \in Stored' : DataId(f)' # None => owner'[DataId(f)'] = f
  BY <1>2, InvParts, NodesName
<1>7. /\ \A d \in docs' : owner'[d] # None
      /\ \A d \in Docs : owner[d] # None => owner'[d] = owner[d]
      /\ disturbed \subseteq disturbed'
  BY <1>2, <1>5, InvParts DEF NamesOwn
<1>8. reported \subseteq reported' /\ (ok \/ old = None \/ old \in reported')
  BY <1>4 DEF CascadeCogneeData, Report
<1>9. \A f \in Facts \ {g} : SameStores(f)
  BY <1>2, <1>3, <1>5, <1>8, ConstantsAssumption, InvParts DEF SameStores, NamesOwn
<1>10. ASSUME g \notin disturbed
       PROVE  /\ OnlyLeft(g, {DataId(g)})'
              /\ (g \in Stored \ halfway => DataId(g) \in docs \cup {None})'
              /\ g \notin erased'
  <2>1. Grip(task[t], g) /\ FactInv(g) /\ g \notin erased
    BY <1>3, <1>10, Sole
  <2>2. /\ DataId(g) = doc /\ old \notin {doc, None} /\ OnlyLeft(g, {old, doc})
        /\ g \in Stored \ halfway => DataId(g) \in docs \cup {None}
    BY <1>1, <1>2, <2>1 DEF Grip, FactInv, Old
  <2>3. DataId(g)' = doc /\ (g \in Stored' <=> g \in Stored)
    BY <1>2, <2>2 DEF DataId, Stored
  <2>4. QED BY <1>2, <1>5, <1>8, <2>1, <2>2, <2>3 DEF OnlyLeft
<1>11. QED BY <1>0, <1>1, <1>2, <1>6, <1>7, <1>9, <1>10, EndInv

\* The record of a delete that goes on to its next store.
LEMMA TriedRecord ==
  ASSUME Inv, NEW t \in Tasks, task[t].pc \in OneFactPCs, NEW ok \in BOOLEAN,
         NEW pc \in {"delete_embedding", "delete_doc"}, Tried(t, ok, pc)
  PROVE  \E rec :
           /\ Become(t, rec) /\ rec.pc = pc /\ rec.pc \in OneFactPCs
           /\ rec.fact = task[t].fact /\ rec.copies = task[t].copies
           /\ rec.ids = task[t].ids /\ rec.doc = task[t].doc
           /\ rec.clean <=> task[t].clean /\ ok
<1>1. PICK rec : rec = [task[t] EXCEPT !.pc = pc, !.clean = @ /\ ok] OBVIOUS
<1>2. task[t] \in TaskType BY OneFactNames
<1>3. Become(t, rec) BY <1>1 DEF Tried
<1>4. /\ rec.pc = pc /\ rec.fact = task[t].fact /\ rec.copies = task[t].copies
      /\ rec.ids = task[t].ids /\ rec.doc = task[t].doc
      /\ rec.clean = (task[t].clean /\ ok)
  BY <1>1, <1>2 DEF TaskType
<1>5. QED BY <1>3, <1>4 DEF OneFactPCs

\* A step of a delete that leaves the documents alone.
LEMMA DeleteGoesOn ==
  ASSUME Inv, TypeInv', NEW t \in Tasks, task[t].pc \in OneFactPCs, NEW rec,
         Become(t, rec), rec.pc \in OneFactPCs, rec.fact = task[t].fact,
         rec.copies = task[t].copies, rec.ids = task[t].ids, rec.doc = task[t].doc,
         NEW g, g = task[t].fact, UNCHANGED <<docs, owner, reported, erased, disturbed>>,
         \A f \in Facts \ {g} : graph'[f] = graph[f],
         \A f \in Facts \ {g} : f \in embedded' <=> f \in embedded,
         \A f \in Facts \ {g} : f \in halfway' <=> f \in halfway,
         graph'[g] \in {graph[g], None},
         g \notin disturbed =>
           Grip(rec, g)' /\ (g \in Stored \ halfway => DataId(g) \in docs \cup {None})'
  PROVE  IInv'
<1>1. g \in Facts BY OneFactNames
<1>2. \A f \in Facts \ {g} : SameStores(f) BY DEF SameStores
<1>3. \A f \in Stored' : DataId(f)' # None => owner'[DataId(f)'] = f
  <2>1. ASSUME NEW f \in Stored' PROVE f \in Stored /\ DataId(f)' = DataId(f)
    <3>1. f \in Facts /\ graph'[f] # None BY <2>1 DEF Stored
    <3>2. graph'[f] = graph[f] BY <1>1, <3>1
    <3>3. QED BY <3>1, <3>2 DEF Stored, DataId
  <2>2. QED BY <2>1, InvParts DEF NamesOwn
<1>4. /\ \A d \in docs' : owner'[d] # None
      /\ \A d \in Docs : owner[d] # None => owner'[d] = owner[d]
  BY InvParts DEF NamesOwn
<1>5. rec.doc # None => owner'[rec.doc] = g BY OneFactNames
<1>6. QED BY <1>2, <1>3, <1>4, <1>5, GoesOnInv

LEMMA DeleteNodeInv ==
  ASSUME Inv, NEW t \in Tasks, DeleteNode(t)
  PROVE  IInv'
<1>0. TypeInv' BY DeleteNodeStep DEF Inv
<1>1. PICK g, old : g = task[t].fact /\ old = Old(t) OBVIOUS
<1>2. /\ task[t].pc = "delete_node" /\ task[t].pc \in OneFactPCs
      /\ UNCHANGED <<embedded, docs, owner, reported, erased, disturbed>>
  BY DEF DeleteNode, OneFactPCs
<1>3. PICK ok \in BOOLEAN :
        /\ Tried(t, ok, "delete_embedding")
        /\ graph' = IF ok THEN [graph EXCEPT ![g] = None] ELSE graph
        /\ halfway' = IF ok THEN halfway ELSE halfway \cup {g}
  BY <1>1 DEF DeleteNode, Tried
<1>4. PICK rec :
        /\ Become(t, rec) /\ rec.pc = "delete_embedding" /\ rec.pc \in OneFactPCs
        /\ rec.fact = task[t].fact /\ rec.copies = task[t].copies
        /\ rec.ids = task[t].ids /\ rec.doc = task[t].doc
        /\ rec.clean <=> task[t].clean /\ ok
  BY <1>2, <1>3, TriedRecord
<1>5. g \in Facts /\ Held(t) = {g} BY <1>1, <1>2, OneFactNames
<1>6. /\ \A f \in Facts \ {g} : graph'[f] = graph[f]
      /\ graph'[g] = IF ok THEN None ELSE graph[g]
      /\ \A f \in Facts \ {g} : f \in halfway' <=> f \in halfway
  BY <1>3, <1>5, InvParts DEF TypeOK
<1>7. ASSUME g \notin disturbed
      PROVE  Grip(rec, g)' /\ (g \in Stored \ halfway => DataId(g) \in docs \cup {None})'
  <2>1. Grip(task[t], g) /\ FactInv(g) BY <1>5, <1>7, Sole
  <2>2. /\ DataId(g) = old /\ task[t].doc = old /\ rec.ids[g] = old
        /\ OnlyLeft(g, {old})
    BY <1>1, <1>2, <1>4, <2>1 DEF Grip, Old, OnlyLeft
  <2>3. /\ g \in Stored' => g \in halfway' /\ ~ok
        /\ DataId(g)' \in {old, None}
    BY <1>3, <1>6, <2>2 DEF Stored, DataId
  <2>4. QED BY <1>2, <1>4, <2>2, <2>3 DEF Grip, OnlyLeft, OneFactPCs
<1>8. QED BY <1>0, <1>1, <1>2, <1>4, <1>6, <1>7, DeleteGoesOn

LEMMA DeleteEmbeddingInv ==
  ASSUME Inv, NEW t \in Tasks, DeleteEmbedding(t)
  PROVE  IInv'
<1>0. TypeInv' BY DeleteEmbeddingStep DEF Inv
<1>1. PICK g, old : g = task[t].fact /\ old = Old(t) OBVIOUS
<1>2. /\ task[t].pc = "delete_embedding" /\ task[t].pc \in OneFactPCs
      /\ UNCHANGED <<graph, docs, owner, reported, erased, disturbed>>
  BY DEF DeleteEmbedding, OneFactPCs
<1>3. PICK ok \in BOOLEAN :
        /\ Tried(t, ok, "delete_doc")
        /\ embedded' = IF ok THEN embedded \ {g} ELSE embedded
        /\ halfway' = IF ok THEN halfway ELSE halfway \cup {g}
  BY <1>1 DEF DeleteEmbedding, Tried
<1>4. PICK rec :
        /\ Become(t, rec) /\ rec.pc = "delete_doc" /\ rec.pc \in OneFactPCs
        /\ rec.fact = task[t].fact /\ rec.copies = task[t].copies
        /\ rec.ids = task[t].ids /\ rec.doc = task[t].doc
        /\ rec.clean <=> task[t].clean /\ ok
  BY <1>2, <1>3, TriedRecord
<1>5. g \in Facts /\ Held(t) = {g} BY <1>1, <1>2, OneFactNames
<1>6. /\ \A f \in Facts \ {g} : graph'[f] = graph[f]
      /\ graph'[g] \in {graph[g], None}
      /\ \A f \in Facts \ {g} : f \in embedded' <=> f \in embedded
      /\ \A f \in Facts \ {g} : f \in halfway' <=> f \in halfway
  BY <1>2, <1>3
<1>7. ASSUME g \notin disturbed
      PROVE  Grip(rec, g)' /\ (g \in Stored \ halfway => DataId(g) \in docs \cup {None})'
  <2>1. Grip(task[t], g) /\ FactInv(g) BY <1>5, <1>7, Sole
  <2>2. /\ task[t].doc = old /\ rec.ids[g] = old /\ OnlyLeft(g, {old})
        /\ DataId(g) \in {old, None}
        /\ g \in Stored => g \in halfway /\ ~task[t].clean
    BY <1>1, <1>2, <1>4, <2>1 DEF Grip, Old, OnlyLeft
  <2>3. DataId(g)' = DataId(g) /\ (g \in Stored' <=> g \in Stored)
    BY <1>2 DEF Stored, DataId
  <2>4. g \in Stored' => g \in halfway' /\ ~rec.clean
    BY <1>3, <1>4, <2>2, <2>3
  <2>5. rec.clean => g \notin embedded' BY <1>3, <1>4
  <2>6. QED BY <1>2, <1>4, <2>2, <2>3, <2>4, <2>5 DEF Grip, OnlyLeft, OneFactPCs
<1>8. QED BY <1>0, <1>1, <1>2, <1>4, <1>6, <1>7, DeleteGoesOn

LEMMA DeleteDocInv ==
  ASSUME Inv, NEW t \in Tasks, DeleteDoc(t)
  PROVE  IInv'
<1>0. TypeInv' BY DeleteDocStep DEF Inv
<1>1. PICK g, old : g = task[t].fact /\ old = Old(t) OBVIOUS
<1>2. /\ task[t].pc = "delete_doc" /\ task[t].pc \in OneFactPCs /\ End(t)
      /\ UNCHANGED <<graph, embedded, owner, halfway, disturbed>>
  BY DEF DeleteDoc, OneFactPCs
<1>3. /\ g \in Facts /\ Held(t) = {g}
      /\ old \in Docs \cup {None} /\ None \notin Docs /\ docs \subseteq Docs
      /\ old # None => owner[old] = g
  BY <1>1, <1>2, OneFactNames
<1>4. PICK ok \in BOOLEAN :
        /\ IF old = None
           THEN ok /\ UNCHANGED <<docs, reported, faults>>
           ELSE CascadeCogneeData(old, ok)
        /\ erased' = IF task[t].clean /\ ok THEN erased \cup {g} ELSE erased
  BY <1>1 DEF DeleteDoc
<1>5. /\ docs' = docs \/ (ok /\ docs' = docs \ {old} /\ old # None)
      /\ reported \subseteq reported'
      /\ old = None \/ old \notin docs' \/ old \in reported'
  BY <1>4 DEF CascadeCogneeData, Report
<1>6. \A f \in Stored' : DataId(f)' # None => owner'[DataId(f)'] = f
  BY <1>2, InvParts, NodesName
<1>7. /\ \A d \in docs' : owner'[d] # None
      /\ \A d \in Docs : owner[d] # None => owner'[d] = owner[d]
      /\ disturbed \subseteq disturbed'
  BY <1>2, <1>5, InvParts DEF NamesOwn
<1>8. \A f \in Facts \ {g} : SameStores(f)
  BY <1>2, <1>3, <1>4, <1>5 DEF SameStores
<1>9. ASSUME g \notin disturbed
      PROVE  /\ OnlyLeft(g, {DataId(g)})'
             /\ (g \in Stored \ halfway => DataId(g) \in docs \cup {None})'
             /\ g \in erased' => g \notin (Stored \cup embedded)' /\ OnlyLeft(g, {})'
  <2>1. Grip(task[t], g) /\ FactInv(g) /\ g \notin erased
    BY <1>3, <1>9, Sole
  <2>2. /\ OnlyLeft(g, {old})
        /\ g \in Stored => g \in halfway /\ ~task[t].clean
        /\ task[t].clean => g \notin embedded
    BY <1>1, <1>2, <2>1 DEF Grip, Old, OnlyLeft
  <2>3. g \in Stored' <=> g \in Stored BY <1>2 DEF Stored
  <2>4. OnlyLeft(g, {})' BY <1>2, <1>3, <1>5, <2>2 DEF OnlyLeft
  <2>5. OnlyLeft(g, {DataId(g)})' BY <2>4 DEF OnlyLeft
  <2>6. g \in erased' => task[t].clean BY <1>4, <2>1
  <2>7. QED BY <1>2, <2>2, <2>3, <2>4, <2>5, <2>6
<1>10. QED BY <1>0, <1>1, <1>2, <1>6, <1>7, <1>8, <1>9, EndInv

\* A task that holds several facts, or none.
LEMMA SearchInv ==
  ASSUME Inv, NEW t \in Tasks, Search(t)
  PROVE  IInv'
<1>0. TypeInv' BY SearchStep DEF Inv
<1>1. PICK S \in SUBSET Stored :
        /\ IF S = {} THEN UNCHANGED task
           ELSE Become(t, [Idle EXCEPT !.pc = "fetch",
                             !.copies = [f \in S |-> graph[f].archived]])
        /\ Hold(t, S)
  BY DEF Search
<1>2. /\ task[t].pc = "idle" /\ S \subseteq Facts /\ disturbed \subseteq disturbed'
      /\ UNCHANGED <<graph, embedded, docs, owner, reported, erased, halfway>>
  BY <1>1 DEF Search, Begin, stores, Hold, Stored
<1>3. \A f \in Facts : SameStores(f) BY <1>2 DEF SameStores
<1>4. /\ \A f \in Stored' : DataId(f)' # None => owner'[DataId(f)'] = f
      /\ \A d \in docs' : owner'[d] # None
      /\ \A d \in Docs : owner[d] # None => owner'[d] = owner[d]
  <2>1. \A f \in Stored' : DataId(f)' # None => owner'[DataId(f)'] = f
    BY <1>2, InvParts, NodesName
  <2>2. QED BY <1>2, <2>1, InvParts DEF NamesOwn
<1>5. CASE S = {}
  <2>1. UNCHANGED task BY <1>1, <1>5
  <2>2. PICK rec : rec = task[t] OBVIOUS
  <2>3. Become(t, rec) /\ HeldIn(rec) = Held(t)
    BY <2>1, <2>2, InvParts, HeldType DEF Become, TypeOK
  <2>4. NamesOwn' /\ \A u \in Tasks : Hands(u)'
    <3>1. NamesOwn' BY <1>2, <2>1, InvParts DEF NamesOwn, Stored, DataId
    <3>2. QED BY <2>1, <3>1, InvParts DEF Hands
  <2>5. Held(t) = {} BY <1>2, IdleHolds
  <2>6. QED BY <1>0, <1>2, <1>3, <2>3, <2>4, <2>5, StepInv
<1>6. CASE S # {}
  <2>1. PICK rec : rec = [Idle EXCEPT !.pc = "fetch",
                            !.copies = [f \in S |-> graph[f].archived]]
    OBVIOUS
  <2>2. /\ Become(t, rec) /\ rec.pc = "fetch" /\ rec.fact = None /\ rec.doc = None
        /\ DOMAIN rec.copies = S /\ DOMAIN rec.ids = {} /\ HeldIn(rec) = S
    BY <1>1, <1>6, <2>1 DEF Idle, HeldIn
  <2>3. NamesOwn' /\ \A u \in Tasks : Hands(u)'
    BY <1>4, <2>2, InvParts, NamesKept
  <2>4. Held(t) = {} BY <1>2, IdleHolds
  <2>5. ASSUME NEW g \in S, g \notin disturbed' PROVE FactInv(g)'
    <3>1. g \in Facts \ disturbed BY <1>2, <2>5
    <3>2. \A u \in Tasks \ {t} : g \notin Held(u) BY <1>1, <2>5 DEF Hold
    <3>3. ~InUse(g) BY <2>4, <3>2 DEF InUse
    <3>4. FactInv(g) BY <3>1 DEF Inv, IInv
    <3>5. /\ OnlyLeft(g, {DataId(g)}) /\ g \notin erased
          /\ g \in Stored \ halfway => DataId(g) \in docs \cup {None}
      BY <3>3, <3>4 DEF FactInv
    <3>6. DataId(g)' = DataId(g) /\ (g \in Stored' <=> g \in Stored)
      BY <1>2 DEF DataId, Stored
    <3>7. Grip(rec, g)' BY <1>2, <2>2, <3>5, <3>6 DEF Grip, OnlyLeft, OneFactPCs
    <3>8. /\ (g \in Stored \ halfway => DataId(g) \in docs \cup {None})'
          /\ g \notin erased'
      BY <1>2, <3>5, <3>6
    <3>9. QED BY <2>2, <3>1, <3>2, <3>7, <3>8, InvParts, AtHand
  <2>6. QED BY <1>0, <1>2, <1>3, <2>2, <2>3, <2>4, <2>5, StepInv
<1>7. QED BY <1>5, <1>6

LEMMA FetchIdsInv ==
  ASSUME Inv, NEW t \in Tasks, FetchIds(t)
  PROVE  IInv'
<1>0. TypeInv' BY FetchIdsStep DEF Inv
<1>1. PICK S : S = DOMAIN task[t].copies OBVIOUS
<1>2. PICK ok \in BOOLEAN :
        /\ FetchedIds(S, ok)
        /\ Become(t, [task[t] EXCEPT !.pc = "counts", !.ids = DataIdMap(S, ok)])
  BY <1>1 DEF FetchIds
<1>3. /\ task[t].pc = "fetch"
      /\ UNCHANGED <<graph, embedded, docs, owner, erased, halfway, disturbed>>
  BY DEF FetchIds, stores
<1>4. task[t] \in TaskType /\ task[t].fact = None BY <1>3, InvParts DEF TypeOK, Hands
<1>5. Held(t) = S /\ S \subseteq Facts
  BY <1>1, <1>4, InvParts, HeldType DEF Held
<1>6. reported' = reported \cup ((IF ok THEN {} ELSE {DataId(f) : f \in S}) \ {None})
  BY <1>2 DEF FetchedIds, Report
<1>7. \A f \in Facts : SameStores(f) BY <1>3, <1>6 DEF SameStores
<1>8. /\ \A f \in Stored' : DataId(f)' # None => owner'[DataId(f)'] = f
      /\ \A d \in docs' : owner'[d] # None
      /\ \A d \in Docs : owner[d] # None => owner'[d] = owner[d]
  <2>1. \A f \in Stored' : DataId(f)' # None => owner'[DataId(f)'] = f
    BY <1>3, InvParts, NodesName
  <2>2. QED BY <1>3, <2>1, InvParts DEF NamesOwn
<1>9. PICK rec : rec = [task[t] EXCEPT !.pc = "counts", !.ids = DataIdMap(S, ok)]
  OBVIOUS
<1>10. /\ Become(t, rec) /\ rec.pc = "counts" /\ rec.fact = None
       /\ rec.doc = task[t].doc /\ rec.copies = task[t].copies
       /\ rec.ids = DataIdMap(S, ok) /\ HeldIn(rec) = S
  BY <1>1, <1>2, <1>4, <1>9 DEF TaskType, HeldIn
<1>11. rec.doc = None
  <2>1. task[t].doc # None => task[t].fact # None BY InvParts DEF NamesOwn
  <2>2. QED BY <1>4, <1>10, <2>1
<1>12. DOMAIN rec.ids = S /\ \A f \in S : rec.ids[f] = IF ok THEN DataId(f) ELSE None
  BY <1>10 DEF DataIdMap
<1>13. NamesOwn' /\ \A u \in Tasks : Hands(u)'
  <2>1. \A f \in DOMAIN rec.ids : rec.ids[f] # None => owner'[rec.ids[f]] = f
    <3>1. ASSUME NEW f \in S, DataId(f) # None PROVE owner[DataId(f)] = f
      <4>1. f \in Stored BY <3>1 DEF DataId
      <4>2. QED BY <3>1, <4>1, InvParts DEF NamesOwn
    <3>2. QED BY <1>3, <1>12, <3>1
  <2>2. QED BY <1>8, <1>10, <1>11, <2>1, InvParts, NamesKept
<1>14. ASSUME NEW g \in S, g \notin disturbed' PROVE FactInv(g)'
  <2>1. g \in Facts \ disturbed /\ g \in Held(t) BY <1>3, <1>5, <1>14
  <2>2. /\ Grip(task[t], g) /\ FactInv(g) /\ g \notin erased
        /\ \A u \in Tasks \ {t} : g \notin Held(u)
    BY <2>1, Sole
  <2>3. /\ OnlyLeft(g, {DataId(g)})
        /\ g \in Stored \ halfway => DataId(g) \in docs \cup {None}
    BY <1>3, <2>2 DEF Grip, FactInv
  <2>4. DataId(g)' = DataId(g) /\ (g \in Stored' <=> g \in Stored)
    BY <1>3 DEF DataId, Stored
  <2>5. ~ok => DataId(g) = None \/ DataId(g) \in reported' BY <1>6, <1>14
  <2>6. OnlyLeft(g, {rec.ids[g]})'
    <3>1. PICK id : id = rec.ids[g] OBVIOUS
    <3>2. None \notin Docs /\ docs \subseteq Docs
      BY ConstantsAssumption, InvParts DEF TypeOK
    <3>3. OnlyLeft(g, {id})'
      BY <1>3, <1>6, <1>12, <2>3, <2>5, <3>1, <3>2 DEF OnlyLeft
    <3>4. QED BY <3>1, <3>3
  <2>7. Grip(rec, g)'
    BY <1>10, <1>12, <2>4, <2>6 DEF Grip, OneFactPCs
  <2>8. /\ (g \in Stored \ halfway => DataId(g) \in docs \cup {None})'
        /\ g \notin erased'
    BY <1>3, <2>2, <2>3, <2>4
  <2>9. QED BY <1>10, <2>1, <2>2, <2>7, <2>8, InvParts, AtHand
<1>15. disturbed \subseteq disturbed' BY <1>3
<1>16. QED BY <1>0, <1>5, <1>7, <1>10, <1>13, <1>14, <1>15, StepInv

LEMMA UpdateUseCountsInv ==
  ASSUME Inv, NEW t \in Tasks, UpdateUseCounts(t)
  PROVE  IInv'
<1>0. TypeInv' BY UpdateUseCountsStep DEF Inv
<1>1. PICK S, ids : S = DOMAIN task[t].copies /\ ids = task[t].ids OBVIOUS
<1>2. /\ task[t].pc = "counts" /\ End(t)
      /\ UNCHANGED <<docs, owner, reported, erased, halfway, disturbed>>
  BY DEF UpdateUseCounts
<1>3. PICK out \in WriteOutcomes : AddDataPoints(S, task[t].copies, ids, out)
  BY <1>1 DEF UpdateUseCounts
<1>4. task[t] \in TaskType /\ task[t].fact = None /\ DOMAIN ids = S
  BY <1>1, <1>2, InvParts DEF TypeOK, Hands, TypeInv, Shape
<1>5. Held(t) = S /\ S \subseteq Facts
  BY <1>1, <1>4, InvParts, HeldType DEF Held
<1>6. \A f \in S : ids[f] \in Docs \cup {None} /\ task[t].copies[f] \in BOOLEAN
  BY <1>1, <1>4, CopiesElim, DataIdsElim DEF TaskType
<1>7. \A f \in S : ids[f] # None => owner[ids[f]] = f
  BY <1>1, <1>4, InvParts DEF NamesOwn
<1>8. /\ out = "failed" => graph' = graph
      /\ \A f \in Facts \ S : graph'[f] = graph[f]
      /\ \A f \in Facts \ S : f \in embedded' <=> f \in embedded
  BY <1>3, InvParts DEF AddDataPoints, TypeOK
<1>9. ASSUME out # "failed", NEW f \in S PROVE f \in Stored' /\ DataId(f)' = ids[f]
  <2>1. f \in Facts /\ graph'[f] = [doc |-> ids[f], archived |-> task[t].copies[f]]
    BY <1>3, <1>5, <1>9 DEF AddDataPoints
  <2>2. [doc |-> ids[f], archived |-> task[t].copies[f]] \in Node BY <1>6 DEF Node
  <2>3. QED BY <2>1, <2>2, NoneIsNoNode DEF Stored, DataId
<1>10. \A f \in Facts \ S : SameStores(f) BY <1>2, <1>8 DEF SameStores
<1>11. \A f \in Stored' : DataId(f)' # None => owner'[DataId(f)'] = f
  <2>1. CASE out = "failed" BY <1>2, <1>8, <2>1, InvParts, NodesName
  <2>2. CASE out # "failed"
    <3>1. ASSUME NEW f \in Stored', DataId(f)' # None, f \notin S
          PROVE  owner'[DataId(f)'] = f
      <4>1. f \in Stored /\ DataId(f)' = DataId(f)
        BY <1>8, <3>1 DEF Stored, DataId
      <4>2. QED BY <1>2, <3>1, <4>1, InvParts DEF NamesOwn
    <3>2. ASSUME NEW f \in S, DataId(f)' # None PROVE owner'[DataId(f)'] = f
      BY <1>2, <1>7, <1>9, <2>2, <3>2
    <3>3. QED BY <3>1, <3>2
  <2>3. QED BY <2>1, <2>2
<1>12. NamesOwn' /\ \A u \in Tasks : Hands(u)'
  <2>1. /\ \A d \in docs' : owner'[d] # None
        /\ \A d \in Docs : owner[d] # None => owner'[d] = owner[d]
    BY <1>2, InvParts DEF NamesOwn
  <2>2. QED BY <1>2, <1>11, <2>1, EndNaming
<1>13. ASSUME NEW g \in S, g \notin disturbed' PROVE FactInv(g)'
  <2>1. g \in Facts \ disturbed /\ g \in Held(t) BY <1>2, <1>5, <1>13
  <2>2. Grip(task[t], g) /\ FactInv(g) /\ g \notin erased BY <2>1, Sole
  <2>3. /\ ids[g] \in {DataId(g), None} /\ OnlyLeft(g, {ids[g]})
        /\ g \in Stored \ halfway => DataId(g) \in docs \cup {None}
    BY <1>1, <1>2, <2>2 DEF Grip, FactInv
  <2>4. PICK id : id = ids[g] OBVIOUS
  <2>5. OnlyLeft(g, {DataId(g)})' /\ (g \in Stored \ halfway => DataId(g) \in docs \cup {None})'
    <3>1. CASE out = "failed"
      <4>1. DataId(g)' = DataId(g) /\ (g \in Stored' <=> g \in Stored)
        BY <1>8, <3>1 DEF DataId, Stored
      <4>2. None \notin Docs /\ docs \subseteq Docs
        BY ConstantsAssumption, InvParts DEF TypeOK
      <4>3. QED BY <1>2, <2>3, <4>1, <4>2 DEF OnlyLeft
    <3>2. CASE out # "failed"
      <4>1. DataId(g)' = id BY <1>9, <2>4, <3>2
      <4>2. OnlyLeft(g, {DataId(g)})' BY <1>2, <2>3, <2>4, <4>1 DEF OnlyLeft
      <4>3. g \notin Stored => DataId(g) = None BY DEF DataId
      <4>4. QED BY <1>2, <2>3, <2>4, <4>1, <4>2, <4>3
    <3>3. QED BY <3>1, <3>2
  <2>6. g \notin erased' BY <1>2, <2>2
  <2>7. QED BY <1>2, <2>1, <2>5, <2>6, EndAtHand
<1>14. Become(t, Idle) /\ HeldIn(Idle) = {} BY <1>2, HeldInIdle DEF End
<1>15. PICK rec : rec = Idle OBVIOUS
<1>16. disturbed \subseteq disturbed' BY <1>2
<1>17. QED BY <1>0, <1>5, <1>10, <1>12, <1>13, <1>14, <1>15, <1>16, StepInv

\* What the process held when it stopped is disturbed; of the rest nothing changes.
LEMMA RestartInv ==
  ASSUME Inv, Restart
  PROVE  IInv'
<1>1. /\ disturbed' = disturbed \cup {f \in Facts : InUse(f)}
      /\ task' = [t \in Tasks |-> Idle]
      /\ UNCHANGED <<graph, embedded, docs, owner, reported, erased, halfway>>
  BY DEF Restart, stores
<1>2. TypeInv' BY RestartType DEF Inv
<1>3. NamesOwn' /\ \A u \in Tasks : Hands(u)'
  <2>1. \A f \in Stored' : DataId(f)' # None => owner'[DataId(f)'] = f
    BY <1>1, InvParts, NodesName
  <2>2. \A d \in docs' : owner'[d] # None BY <1>1, InvParts DEF NamesOwn
  <2>3. QED BY <1>1, <2>1, <2>2 DEF NamesOwn, Hands, Idle
<1>4. ASSUME NEW f \in Facts \ disturbed' PROVE FactInv(f)'
  <2>1. f \in Facts \ disturbed /\ \A u \in Tasks : f \notin Held(u)
    BY <1>1, <1>4 DEF InUse
  <2>2. SameStores(f) BY <1>1 DEF SameStores
  <2>3. \A u \in Tasks : f \notin Held(u)' BY <1>1 DEF Held, Idle
  <2>4. FactInv(f) BY <2>1 DEF Inv, IInv
  <2>5. QED BY <1>2, <2>1, <2>2, <2>3, <2>4, FactFrame, InvParts
<1>5. QED BY <1>2, <1>3, <1>4 DEF IInv, TypeInv

LEMMA FacadeInv ==
  ASSUME Inv, NEW t \in Tasks, FacadeStep(t)
  PROVE  IInv'
<1>1. CASE Amend(t) \/ Update(t) \/ Delete(t)
  BY <1>1, ReadFactInv DEF Amend, Update, Delete, Begin
<1>2. QED
  BY <1>1, StoreInv, SearchInv, AddTextInv, WriteFactInv, CascadeOldInv,
     DeleteNodeInv, DeleteEmbeddingInv, DeleteDocInv, FetchIdsInv,
     UpdateUseCountsInv DEF FacadeStep

LEMMA InitInv == Init => Inv
<1> SUFFICES ASSUME Init PROVE Inv
  OBVIOUS
<1>1. TypeInv BY InitType
<1>2. PICK S \in SUBSET Facts : Existing \in [S -> Docs]
  BY ConstantsAssumption
<1>3. /\ None \notin Facts \cup Docs /\ DOMAIN Existing = S
      /\ \A f \in S : Existing[f] \in Docs
  BY <1>2, ConstantsAssumption
<1>4. \A t \in Tasks : task[t] = Idle /\ Held(t) = {} BY DEF Init, Held, Idle
<1>5. \A f \in Facts : f \in Stored <=> f \in S
  <2>1. \A f \in Facts : graph[f] = IF f \in S
                                  THEN [doc |-> Existing[f], archived |-> FALSE] ELSE None
    BY <1>3 DEF Init
  <2>2. \A f \in S : [doc |-> Existing[f], archived |-> FALSE] \in Node
    BY <1>3 DEF Node
  <2>3. QED BY <2>1, <2>2, NoneIsNoNode DEF Stored
<1>6. \A f \in Facts : DataId(f) = IF f \in S THEN Existing[f] ELSE None
  BY <1>3, <1>5 DEF Init, DataId
<1>7. /\ \A f \in Facts, d \in Docs : owner[d] = f <=> f \in S /\ Existing[f] = d
      /\ docs = {Existing[f] : f \in S} /\ erased = {}
  BY <1>3 DEF Init
<1>8. NamesOwn
  <2>1. \A d \in docs : owner[d] # None BY <1>2, <1>3, <1>7
  <2>2. \A f \in Stored : DataId(f) # None => owner[DataId(f)] = f
    BY <1>2, <1>3, <1>5, <1>6, <1>7 DEF Stored
  <2>3. QED BY <1>4, <2>1, <2>2 DEF NamesOwn, Idle
<1>9. \A t \in Tasks : Hands(t) BY <1>4 DEF Hands, Idle
<1>10. ASSUME NEW f \in Facts PROVE FactInv(f)
  <2>1. OnlyLeft(f, {DataId(f)}) BY <1>2, <1>3, <1>6, <1>7 DEF OnlyLeft
  <2>2. f \in Stored \ halfway => DataId(f) \in docs \cup {None}
    BY <1>2, <1>5, <1>6, <1>7
  <2>3. QED BY <1>4, <1>7, <2>1, <2>2 DEF FactInv
<1>11. QED BY <1>1, <1>8, <1>9, <1>10 DEF Inv, IInv, TypeInv

\* What is said of every fact that no two calls held at once is invariant.
THEOREM FactsInvariant == Spec => []IInv
<1>1. Inv /\ [Next]_vars => Inv'
  <2> SUFFICES ASSUME Inv, [Next]_vars PROVE Inv'
    OBVIOUS
  <2>1. TypeInv'
    <3>1. CASE UNCHANGED vars
      BY <3>1, InvParts DEF vars, stores, history, TypeInv, TypeOK, Shape
    <3>2. QED BY <3>1, FacadeType, RestartType, InvParts DEF Next
  <2>2. IInv'
    <3>1. CASE UNCHANGED vars
      <4>1. /\ UNCHANGED <<graph, embedded, docs, owner, reported, erased, halfway,
                           disturbed, task>>
        BY <3>1 DEF vars, stores, history
      <4>2. NamesOwn' BY <4>1, InvParts DEF NamesOwn, Stored, DataId
      <4>3. \A u \in Tasks : Hands(u)' BY <4>1, InvParts DEF Hands
      <4>4. ASSUME NEW f \in Facts \ disturbed' PROVE FactInv(f)'
        <5>1. SameStores(f) BY <4>1 DEF SameStores
        <5>2. \A u \in Tasks : f \in Held(u)' <=> f \in Held(u) BY <4>1 DEF Held
        <5>3. FactInv(f) BY <4>1 DEF Inv, IInv
        <5>4. \A u \in Tasks : task'[u] = task[u] BY <4>1
        <5>5. QED BY <2>1, <5>1, <5>2, <5>3, <5>4, FactFrame, InvParts
      <4>5. QED BY <2>1, <4>2, <4>3, <4>4 DEF IInv, TypeInv
    <3>2. QED BY <3>1, FacadeInv, RestartInv DEF Next
  <2>3. QED BY <2>1, <2>2 DEF Inv
<1>2. Inv => IInv BY DEF Inv
<1>3. QED BY InitInv, <1>1, <1>2, PTL DEF Spec

\* No document is left that nothing leads to: it is the one the node of its fact
\* names, or it was given up openly (the data id carried through every rewrite).
THEOREM NoSilentLeakHolds == Spec => []NoSilentLeak
<1>1. IInv => NoSilentLeak
  <2> SUFFICES ASSUME IInv, NEW d \in docs, Settled(owner[d])
               PROVE  DataId(owner[d]) = d \/ d \in reported
    BY DEF NoSilentLeak
  <2>1. PICK f : f = owner[d] OBVIOUS
  <2>2. f \in Facts BY <2>1 DEF IInv, TypeOK, NamesOwn
  <2>3. f \notin disturbed /\ ~InUse(f) BY <2>1 DEF Settled
  <2>4. OnlyLeft(f, {DataId(f)}) BY <2>2, <2>3 DEF IInv, FactInv
  <2>5. QED BY <2>1, <2>4 DEF OnlyLeft
<1>2. QED BY <1>1, FactsInvariant, PTL

\* A delete that reported every layer as done left nothing of the fact.
THEOREM ErasedHolds == Spec => []ErasedLeavesNothing
<1>1. IInv => ErasedLeavesNothing
  <2> SUFFICES ASSUME IInv, NEW f \in erased, Settled(f)
               PROVE  /\ f \notin Stored /\ f \notin embedded
                      /\ \A d \in docs : owner[d] = f => d \in reported
    BY DEF ErasedLeavesNothing
  <2>1. f \in Facts \ disturbed BY DEF IInv, TypeOK, Settled
  <2>2. FactInv(f) BY <2>1 DEF IInv
  <2>3. QED BY <2>2 DEF FactInv, OnlyLeft
<1>2. QED BY <1>1, FactsInvariant, PTL

\* The node of a live fact names a document that exists, unless a step of the
\* delete of that fact failed before.
THEOREM DataIdsLiveHolds == Spec => []DataIdsLive
<1>1. IInv => DataIdsLive
  <2> SUFFICES ASSUME IInv, NEW f \in Live \ halfway, Settled(f)
               PROVE  DataId(f) \in docs \cup {None}
    BY DEF DataIdsLive
  <2>1. f \in Facts \ disturbed /\ f \in Stored \ halfway
    BY DEF Live, Stored, Settled
  <2>2. FactInv(f) BY <2>1 DEF IInv
  <2>3. QED BY <2>1, <2>2 DEF FactInv
<1>2. QED BY <1>1, FactsInvariant, PTL
------------------------------------------------------------------------------
(* Consolidation                                                           *)

\* run has a record for every task; what is in it does not matter here.
RunIsFunction == run = [t \in Tasks |-> run[t]]

HoldsLock == \A t \in Tasks : Running(t) /\ t \notin late => lock = t

LockInv == RunIsFunction /\ HoldsLock

\* A step of a run that neither starts nor ends it leaves the lock alone.
LEMMA StepOfRun ==
  ASSUME NEW t \in Tasks, NEW rec,
         LockInv, Running(t), Go(t, rec), UNCHANGED <<lock, late>>
  PROVE  LockInv'
<1>1. RunIsFunction' BY DEF LockInv, RunIsFunction, Go
<1>2. ASSUME NEW u \in Tasks, Running(u)'
      PROVE  Running(u)
  <2>1. CASE u = t BY <2>1
  <2>2. CASE u # t BY <1>2, <2>2 DEF LockInv, RunIsFunction, Go, Running
  <2>3. QED BY <2>1, <2>2
<1>3. HoldsLock' BY <1>2 DEF LockInv, HoldsLock
<1>4. QED BY <1>1, <1>3 DEF LockInv

LEMMA RunStarts ==
  ASSUME NEW t \in Tasks, LockInv, StartRun(t)
  PROVE  LockInv'
<1>1. RunIsFunction' BY DEF LockInv, RunIsFunction, StartRun, Go
<1>2. \A u \in Tasks : Running(u) => u \in late
  BY StagesAssumption DEF LockInv, HoldsLock, StartRun
<1>3. lock' = t /\ late' = late \ {t} BY DEF StartRun
<1>4. ASSUME NEW u \in Tasks, u # t, Running(u)'
      PROVE  u \in late'
  <2>1. Running(u) BY <1>4 DEF LockInv, RunIsFunction, StartRun, Go, Running
  <2>2. QED BY <1>2, <1>3, <1>4, <2>1
<1>5. HoldsLock' BY <1>3, <1>4 DEF HoldsLock
<1>6. QED BY <1>1, <1>5 DEF LockInv

LEMMA RunFinishes ==
  ASSUME NEW t \in Tasks, LockInv, FinishRun(t)
  PROVE  LockInv'
<1>1. RunIsFunction' BY DEF LockInv, RunIsFunction, FinishRun, Go
<1>2. late' = late /\ lock' \in {lock, Released(t)} BY DEF FinishRun
<1>3. ~Running(t)'
  BY DEF LockInv, RunIsFunction, FinishRun, Go, Running, NotRunning
<1>4. ASSUME NEW u \in Tasks, Running(u)', u \notin late'
      PROVE  lock' = u
  <2>1. u # t BY <1>3, <1>4
  <2>2. Running(u) BY <1>4, <2>1 DEF LockInv, RunIsFunction, FinishRun, Go, Running
  <2>3. lock = u BY <1>2, <1>4, <2>2 DEF LockInv, HoldsLock
  <2>4. QED BY <1>2, <2>1, <2>3 DEF Released
<1>5. HoldsLock' BY <1>4 DEF HoldsLock
<1>6. QED BY <1>1, <1>5 DEF LockInv

\* The steps of RunStep other than StartRun, RefuseRun and FinishRun.
LEMMA StageSteps ==
  ASSUME NEW t \in Tasks, LockInv,
         \/ Canonicalize(t) \/ EndClusters(t) \/ StoreCanonical(t) \/ Preload(t)
         \/ Archive(t) \/ Unembed(t) \/ CascadeSuperseded(t)
         \/ RunStage(t) \/ Decay(t) \/ FetchRunIds(t) \/ ApplyFactUpserts(t)
  PROVE  LockInv'
<1>1. Running(t)
  BY DEF Running, At, Reached, Canonicalize, EndClusters, StoreCanonical, Preload,
         Archive, Unembed, CascadeSuperseded, RunStage, Decay, FetchRunIds,
         ApplyFactUpserts
<1>2. UNCHANGED <<lock, late>>
  BY DEF Canonicalize, EndClusters, StoreCanonical, Preload, Archive, Unembed,
         CascadeSuperseded, RunStage, Decay, FetchRunIds, ApplyFactUpserts
<1>3. CASE Canonicalize(t)
  BY <1>1, <1>2, <1>3, StepOfRun DEF Canonicalize
<1>4. CASE EndClusters(t)
  BY <1>1, <1>2, <1>4, StepOfRun DEF EndClusters, NextStage, Goto
<1>5. CASE StoreCanonical(t)
  BY <1>1, <1>2, <1>5, StepOfRun DEF StoreCanonical, NextCluster, Goto
<1>6. CASE Preload(t)
  BY <1>1, <1>2, <1>6, StepOfRun DEF Preload
<1>7. CASE Archive(t)
  BY <1>1, <1>2, <1>7, StepOfRun DEF Archive, Goto
<1>8. CASE Unembed(t)
  BY <1>1, <1>2, <1>8, StepOfRun DEF Unembed
<1>9. CASE CascadeSuperseded(t)
  BY <1>1, <1>2, <1>9, StepOfRun DEF CascadeSuperseded, NextCluster
<1>10. CASE RunStage(t)
  BY <1>1, <1>2, <1>10, StepOfRun DEF RunStage, WriteBack, NextStage, Goto
<1>11. CASE Decay(t)
  BY <1>1, <1>2, <1>11, StepOfRun DEF Decay, WriteBack, NextStage, Goto
<1>12. CASE FetchRunIds(t)
  BY <1>1, <1>2, <1>12, StepOfRun DEF FetchRunIds, Goto
<1>13. CASE ApplyFactUpserts(t)
  BY <1>1, <1>2, <1>13, StepOfRun DEF ApplyFactUpserts, NextStage, Goto
<1>14. QED
  BY <1>3, <1>4, <1>5, <1>6, <1>7, <1>8, <1>9, <1>10, <1>11, <1>12, <1>13

\* HoldsLock is an invariant: a run whose lock has not expired holds it.
THEOREM LockTheorem == RunSpec => []LockInv
<1>1. RunInit => LockInv
  BY DEF RunInit, LockInv, RunIsFunction, HoldsLock, Running, NotRunning
<1>2. LockInv /\ [RunNext]_allVars => LockInv'
  <2> SUFFICES ASSUME LockInv, [RunNext]_allVars PROVE LockInv'
    OBVIOUS
  <2>1. CASE UNCHANGED runVars
    BY <2>1 DEF runVars, LockInv, RunIsFunction, HoldsLock, Running
  <2>2. CASE RestartAll
    BY <2>2 DEF RestartAll, LockInv, RunIsFunction, HoldsLock, Running, NotRunning
  <2>3. CASE LockExpires
    BY <2>3 DEF LockExpires, LockInv, RunIsFunction, HoldsLock, Running
  <2>4. ASSUME NEW t \in Tasks, RunStep(t) PROVE LockInv'
    <3>1. CASE RefuseRun(t) BY <2>1, <3>1 DEF RefuseRun, allVars, runVars
    <3>2. QED BY <2>4, <3>1, RunStarts, RunFinishes, StageSteps DEF RunStep
  <2>5. QED BY <2>1, <2>2, <2>3, <2>4 DEF RunNext, allVars
<1>3. QED BY <1>1, <1>2, PTL DEF RunSpec

\* Two runs go on together only if the lock of one of them expired under it
\* (AD-10), for any number of tasks and of restarts.
THEOREM OneRunTheorem == RunSpec => []OneRun
<1>1. LockInv => OneRun BY DEF LockInv, HoldsLock, OneRun
<1>2. QED BY <1>1, LockTheorem, PTL

------------------------------------------------------------------------------
(* Types.                                                                  *)

\* What a run with the position r remembers in its record c.
RecShape(c, r) ==
  /\ r.at # "none" <=> c.pc = "run"
  /\ r.at # "none" => r.stage \in 2..7
  /\ r.stage = 7 => r.at = "begin"
  /\ r.at \in {"canonical", "preload", "archive", "unembed", "cascade"} =>
       c.fact \in Facts /\ r.stage = 2
  /\ r.at \in {"canonical", "preload", "archive", "unembed"} =>
       r.members \subseteq DOMAIN c.copies
  /\ r.at \in {"archive", "unembed"} => r.members \subseteq DOMAIN c.ids
  /\ r.at = "upsert" => DOMAIN c.ids = DOMAIN c.copies

RunTypeInv ==
  TypeInv /\ RunTypeOK /\ \A t \in Tasks : RecShape(task[t], run[t])

LEMMA NoneIsNoTask == None \notin Tasks
BY StagesAssumption

LEMMA StageAfterType ==
  ASSUME NEW n \in 0..6
  PROVE  StageAfter(n) \in 2..7
<1> DEFINE S == Stages \cup {7}
           First(k) == k > n /\ \A m \in S : m > n => k <= m
<1>1. S \subseteq 2..7 BY StagesAssumption
<1>2. \E k \in S : First(k)
  <2>1. CASE 2 \in S /\ 2 > n BY <1>1, <2>1
  <2>2. CASE ~(2 \in S /\ 2 > n) /\ 3 \in S /\ 3 > n BY <1>1, <2>2
  <2>3. CASE /\ ~(2 \in S /\ 2 > n) /\ ~(3 \in S /\ 3 > n)
             /\ 4 \in S /\ 4 > n
    BY <1>1, <2>3
  <2>4. CASE /\ ~(2 \in S /\ 2 > n) /\ ~(3 \in S /\ 3 > n)
             /\ ~(4 \in S /\ 4 > n) /\ 5 \in S /\ 5 > n
    BY <1>1, <2>4
  <2>5. CASE /\ ~(2 \in S /\ 2 > n) /\ ~(3 \in S /\ 3 > n)
             /\ ~(4 \in S /\ 4 > n) /\ ~(5 \in S /\ 5 > n) /\ 6 \in S /\ 6 > n
    BY <1>1, <2>5
  <2>6. CASE /\ ~(2 \in S /\ 2 > n) /\ ~(3 \in S /\ 3 > n)
             /\ ~(4 \in S /\ 4 > n) /\ ~(5 \in S /\ 5 > n) /\ ~(6 \in S /\ 6 > n)
    <3>1. First(7) BY <1>1, <2>6
    <3>2. QED BY <3>1
  <2>7. QED BY <2>1, <2>2, <2>3, <2>4, <2>5, <2>6
<1>3. StageAfter(n) \in S BY <1>2 DEF StageAfter
<1>4. QED BY <1>1, <1>3

\* A step of a run that keeps its record and its position in shape.
LEMMA RunStepType ==
  ASSUME RunTypeInv, NEW t \in Tasks,
         NEW c \in TaskType, task' = [task EXCEPT ![t] = c],
         NEW r \in RunType, run' = [run EXCEPT ![t] = r],
         c.pc \in {"run", "idle"}, RecShape(c, r)
  PROVE  /\ task' \in [Tasks -> TaskType] /\ \A u \in Tasks : Shape(u)'
         /\ run' \in [Tasks -> RunType]
         /\ \A u \in Tasks : RecShape(task'[u], run'[u])
<1>1. task' \in [Tasks -> TaskType] /\ \A u \in Tasks : Shape(u)'
  <2>1. Become(t, c) BY DEF Become
  <2>2. QED BY <2>1, BecomeType DEF RunTypeInv, OneFactPCs
<1>2. run' \in [Tasks -> RunType] BY DEF RunTypeInv, RunTypeOK
<1>3. ASSUME NEW u \in Tasks PROVE RecShape(task'[u], run'[u])
  <2>1. CASE u = t
    <3>1. task'[u] = c /\ run'[u] = r
      BY <2>1 DEF RunTypeInv, RunTypeOK, TypeInv, TypeOK
    <3>2. QED BY <3>1
  <2>2. CASE u # t
    <3>1. task'[u] = task[u] /\ run'[u] = run[u]
      BY <2>2 DEF RunTypeInv, RunTypeOK, TypeInv, TypeOK
    <3>2. QED BY <3>1 DEF RunTypeInv
  <2>3. QED BY <2>1, <2>2
<1>4. QED BY <1>1, <1>2, <1>3

\* A step of the facade is not a step of a run, and starts none.
LEMMA FacadeFrame ==
  ASSUME TypeInv, NEW t \in Tasks, FacadeStep(t)
  PROVE  /\ task[t].pc # "run" /\ task'[t].pc # "run"
         /\ \A u \in Tasks \ {t} : task'[u] = task[u]
<1>1. task[t].pc # "run"
  BY DEF FacadeStep, Store, Amend, Update, Delete, Search, AddText, WriteFact,
         CascadeOld, DeleteNode, DeleteEmbedding, DeleteDoc, FetchIds,
         UpdateUseCounts, Begin
<1>2. task \in [Tasks -> TaskType] BY DEF TypeInv, TypeOK
<1>3. ASSUME NEW c, Become(t, c), c.pc # "run"
      PROVE  task'[t].pc # "run" /\ \A u \in Tasks \ {t} : task'[u] = task[u]
  BY <1>2, <1>3 DEF Become
<1>4. Idle.pc # "run" BY DEF Idle
<1>5. CASE Store(t)
  <2>1. PICK f \in Facts, id \in Docs \cup {None} :
          Become(t, [Idle EXCEPT !.pc = "store", !.fact = f, !.doc = id,
                       !.copies = Only(f, FALSE), !.ids = Only(f, None)])
    BY <1>5 DEF Store
  <2>2. [Idle EXCEPT !.pc = "store", !.fact = f, !.doc = id,
           !.copies = Only(f, FALSE), !.ids = Only(f, None)].pc = "store"
    BY DEF Idle
  <2>3. QED BY <1>1, <1>3, <2>1, <2>2
<1>6. CASE Amend(t) \/ Update(t) \/ Delete(t)
  <2>1. PICK pc \in {"write", "add", "delete_node"} : ReadFact(t, pc)
    BY <1>6 DEF Amend, Update, Delete
  <2>2. PICK f \in Stored :
          Become(t, [Idle EXCEPT !.pc = pc, !.fact = f, !.doc = graph[f].doc,
                       !.copies = Only(f, graph[f].archived),
                       !.ids = Only(f, graph[f].doc)])
    BY <2>1 DEF ReadFact
  <2>3. [Idle EXCEPT !.pc = pc, !.fact = f, !.doc = graph[f].doc,
           !.copies = Only(f, graph[f].archived),
           !.ids = Only(f, graph[f].doc)].pc = pc
    BY DEF Idle
  <2>4. QED BY <1>1, <1>3, <2>2, <2>3
<1>7. CASE Search(t)
  <2>1. PICK S \in SUBSET Stored :
          IF S = {} THEN UNCHANGED task
          ELSE Become(t, [Idle EXCEPT !.pc = "fetch",
                            !.copies = [f \in S |-> graph[f].archived]])
    BY <1>7 DEF Search
  <2>2. [Idle EXCEPT !.pc = "fetch",
           !.copies = [f \in S |-> graph[f].archived]].pc = "fetch"
    BY DEF Idle
  <2>3. QED BY <1>1, <1>3, <2>1, <2>2
<1>8. CASE AddText(t)
  <2>1. \A id : [task[t] EXCEPT !.pc = "write", !.doc = id].pc = "write"
    BY <1>2 DEF TaskType
  <2>2. CASE End(t) BY <1>1, <1>3, <1>4, <2>2 DEF End
  <2>3. CASE ~End(t)
    <3>1. PICK id \in Docs \cup {None} :
            Become(t, [task[t] EXCEPT !.pc = "write", !.doc = id])
      BY <1>8, <2>3 DEF AddText
    <3>2. QED BY <1>1, <1>3, <2>1, <3>1
  <2>4. QED BY <2>2, <2>3
<1>9. CASE WriteFact(t)
  <2>1. [task[t] EXCEPT !.pc = "cascade"].pc = "cascade" BY <1>2 DEF TaskType
  <2>2. End(t) \/ Become(t, [task[t] EXCEPT !.pc = "cascade"])
    BY <1>9 DEF WriteFact
  <2>3. QED BY <1>1, <1>3, <1>4, <2>1, <2>2 DEF End
<1>10. CASE CascadeOld(t) \/ DeleteDoc(t) \/ UpdateUseCounts(t)
  BY <1>1, <1>3, <1>4, <1>10 DEF CascadeOld, DeleteDoc, UpdateUseCounts, End
<1>11. CASE DeleteNode(t) \/ DeleteEmbedding(t)
  <2>1. PICK ok \in BOOLEAN, pc \in {"delete_embedding", "delete_doc"} : Tried(t, ok, pc)
    BY <1>11 DEF DeleteNode, DeleteEmbedding
  <2>2. [task[t] EXCEPT !.pc = pc, !.clean = @ /\ ok].pc = pc BY <1>2 DEF TaskType
  <2>3. QED BY <1>1, <1>3, <2>1, <2>2 DEF Tried
<1>12. CASE FetchIds(t)
  <2>1. PICK ok \in BOOLEAN :
          Become(t, [task[t] EXCEPT !.pc = "counts",
                       !.ids = DataIdMap(DOMAIN task[t].copies, ok)])
    BY <1>12 DEF FetchIds
  <2>2. [task[t] EXCEPT !.pc = "counts",
           !.ids = DataIdMap(DOMAIN task[t].copies, ok)].pc = "counts"
    BY <1>2 DEF TaskType
  <2>3. QED BY <1>1, <1>3, <2>1, <2>2
<1>13. QED
  BY <1>5, <1>6, <1>7, <1>8, <1>9, <1>10, <1>11, <1>12 DEF FacadeStep

\* What RunTypeInv says of the run of one task.
LEMMA RunRecord ==
  ASSUME RunTypeInv, NEW t \in Tasks
  PROVE  /\ task[t] \in TaskType /\ run[t] \in RunType
         /\ RecShape(task[t], run[t])
         /\ DOMAIN task[t].copies \in SUBSET Facts
         /\ \A f \in DOMAIN task[t].copies : task[t].copies[f] \in BOOLEAN
         /\ DOMAIN task[t].ids \in SUBSET Facts
         /\ \A f \in DOMAIN task[t].ids : task[t].ids[f] \in Docs \cup {None}
<1>1. /\ task[t] \in TaskType /\ run[t] \in RunType
      /\ RecShape(task[t], run[t])
  BY DEF RunTypeInv, RunTypeOK, TypeInv, TypeOK
<1>2. task[t].copies \in Copies /\ task[t].ids \in DataIds BY <1>1 DEF TaskType
<1>3. QED BY <1>1, <1>2, CopiesElim, DataIdsElim

\* A step that changes the position of a run and not its record.
LEMMA PositionType ==
  ASSUME RunTypeInv, NEW t \in Tasks, UNCHANGED task,
         NEW r \in RunType, Go(t, r), r.at # "none", Running(t),
         RecShape(task[t], r)
  PROVE  /\ task' \in [Tasks -> TaskType] /\ \A u \in Tasks : Shape(u)'
         /\ run' \in [Tasks -> RunType]
         /\ \A u \in Tasks : RecShape(task'[u], run'[u])
<1>1. task[t] \in TaskType /\ task[t].pc = "run" BY RunRecord DEF Running, RecShape
<1>2. task' = [task EXCEPT ![t] = task[t]] BY DEF RunTypeInv, TypeInv, TypeOK
<1>3. run' = [run EXCEPT ![t] = r] BY DEF Go
<1>4. QED BY <1>1, <1>2, <1>3, RunStepType

\* The same, to an await at which nothing more than the record of a run is kept.
LEMMA PlainType ==
  ASSUME RunTypeInv, NEW t \in Tasks, UNCHANGED task, Running(t),
         NEW stage \in 2..7, NEW at \in {"begin", "fetch"}, Goto(t, stage, at),
         stage = 7 => at = "begin"
  PROVE  /\ task' \in [Tasks -> TaskType] /\ \A u \in Tasks : Shape(u)'
         /\ run' \in [Tasks -> RunType]
         /\ \A u \in Tasks : RecShape(task'[u], run'[u])
<1> DEFINE r == [run[t] EXCEPT !.stage = stage, !.at = at]
<1>1. run[t] \in RunType /\ RecShape(task[t], run[t]) BY RunRecord
<1>2. r \in RunType /\ r.stage = stage /\ r.at = at
  <2>1. stage \in 0..7 OBVIOUS
  <2>2. QED BY <1>1, <2>1 DEF RunType
<1>3. Go(t, r) BY DEF Goto
<1> HIDE DEF r
<1>4. RecShape(task[t], r) BY <1>1, <1>2 DEF RecShape, Running
<1>5. QED BY <1>2, <1>3, <1>4, PositionType

LEMMA StartRunType ==
  ASSUME RunTypeInv, NEW t \in Tasks, StartRun(t)
  PROVE  RunTypeInv'
<1>1. PICK S \in SUBSET Live :
        /\ Outcome(S = Live)
        /\ Become(t, [Idle EXCEPT !.pc = "run", !.copies = [f \in S |-> FALSE]])
        /\ Hold(t, S)
  BY DEF StartRun
<1>2. S \in SUBSET Facts BY DEF Live, Stored
<1>3. faults' \in 0..MaxFaults
  <2>1. (S = Live) \in BOOLEAN OBVIOUS
  <2>2. QED BY <1>1, <2>1, OutcomeType DEF RunTypeInv, TypeInv
<1>4. disturbed' \subseteq Facts BY <1>1, <1>2, HoldType DEF RunTypeInv, TypeInv
<1> DEFINE c == [Idle EXCEPT !.pc = "run", !.copies = [f \in S |-> FALSE]]
           r == [NotRunning EXCEPT !.stage = StageAfter(1), !.at = "begin"]
<1>5. c \in TaskType /\ c.pc = "run"
  <2>1. [f \in S |-> FALSE] \in [S -> BOOLEAN] OBVIOUS
  <2>2. [f \in S |-> FALSE] \in Copies BY <1>2, <2>1, CopiesIntro
  <2>3. QED BY <2>2, IdleType DEF TaskType, PCs
<1>6. r \in RunType /\ r.at = "begin" /\ r.stage \in 2..7
  <2>1. StageAfter(1) \in 2..7 BY StageAfterType
  <2>2. StageAfter(1) \in 0..7 BY <2>1
  <2>3. QED BY <2>1, <2>2 DEF RunType, NotRunning
<1>7. task' = [task EXCEPT ![t] = c] /\ run' = [run EXCEPT ![t] = r]
  BY <1>1 DEF Become, StartRun, Go
<1> HIDE DEF c, r
<1>8. RecShape(c, r) BY <1>5, <1>6 DEF RecShape
<1>9. /\ task' \in [Tasks -> TaskType] /\ \A u \in Tasks : Shape(u)'
      /\ run' \in [Tasks -> RunType]
      /\ \A u \in Tasks : RecShape(task'[u], run'[u])
  BY <1>5, <1>6, <1>7, <1>8, RunStepType
<1>10. QED
  BY <1>3, <1>4, <1>9 DEF StartRun, RunTypeInv, TypeInv, TypeOK, RunTypeOK, stores

LEMMA FinishRunType ==
  ASSUME RunTypeInv, NEW t \in Tasks, FinishRun(t)
  PROVE  RunTypeInv'
<1>1. PICK ok \in BOOLEAN :
        /\ Outcome(ok)
        /\ lock' = IF ok THEN Released(t) ELSE lock
  BY DEF FinishRun
<1>2. faults' \in 0..MaxFaults BY <1>1, OutcomeType DEF RunTypeInv, TypeInv
<1>3. lock' \in Tasks \cup {None} BY <1>1 DEF Released, RunTypeInv, RunTypeOK
<1>4. NotRunning \in RunType BY DEF RunType, NotRunning
<1>5. RecShape(Idle, NotRunning) BY DEF RecShape, Idle, NotRunning
<1>6. task' = [task EXCEPT ![t] = Idle] /\ run' = [run EXCEPT ![t] = NotRunning]
  BY DEF FinishRun, End, Become, Go
<1>7. /\ task' \in [Tasks -> TaskType] /\ \A u \in Tasks : Shape(u)'
      /\ run' \in [Tasks -> RunType]
      /\ \A u \in Tasks : RecShape(task'[u], run'[u])
  BY <1>4, <1>5, <1>6, IdleType, RunStepType
<1>8. QED
  BY <1>2, <1>3, <1>7 DEF FinishRun, RunTypeInv, TypeInv, TypeOK, RunTypeOK, stores

LEMMA CanonicalizeType ==
  ASSUME RunTypeInv, NEW t \in Tasks, Canonicalize(t)
  PROVE  RunTypeInv'
<1>1. PICK M \in SUBSET {f \in DOMAIN task[t].copies : ~task[t].copies[f]},
           f \in Facts, id \in Docs \cup {None} :
        /\ CogneeAdd(f, None, id)
        /\ Become(t, [task[t] EXCEPT !.fact = f, !.doc = id])
        /\ Go(t, [run[t] EXCEPT !.at = "canonical", !.members = M])
  BY DEF Canonicalize
<1>2. /\ docs' \subseteq Docs /\ owner' \in [Docs -> Facts \cup {None}]
      /\ reported' \subseteq Docs /\ faults' \in 0..MaxFaults
  BY <1>1, CogneeAddType DEF RunTypeInv, TypeInv
<1>3. /\ task[t] \in TaskType /\ run[t] \in RunType /\ RecShape(task[t], run[t])
      /\ DOMAIN task[t].copies \in SUBSET Facts
  BY RunRecord
<1>4. run[t].stage = 2 /\ run[t].at = "begin"
  BY DEF Canonicalize, Reached, At
<1> DEFINE c == [task[t] EXCEPT !.fact = f, !.doc = id]
           r == [run[t] EXCEPT !.at = "canonical", !.members = M]
<1>5. /\ c \in TaskType /\ c.pc = "run" /\ c.fact = f
      /\ c.copies = task[t].copies
  BY <1>3, <1>4 DEF TaskType, RecShape
<1>6. /\ r \in RunType /\ r.at = "canonical" /\ r.stage = 2 /\ r.members = M
  BY <1>3, <1>4 DEF RunType
<1>7. task' = [task EXCEPT ![t] = c] /\ run' = [run EXCEPT ![t] = r]
  BY <1>1 DEF Become, Go
<1> HIDE DEF c, r
<1>8. RecShape(c, r) BY <1>5, <1>6 DEF RecShape
<1>9. /\ task' \in [Tasks -> TaskType] /\ \A u \in Tasks : Shape(u)'
      /\ run' \in [Tasks -> RunType]
      /\ \A u \in Tasks : RecShape(task'[u], run'[u])
  BY <1>5, <1>6, <1>7, <1>8, RunStepType
<1>10. QED
  BY <1>2, <1>9 DEF Canonicalize, RunTypeInv, TypeInv, TypeOK, RunTypeOK

LEMMA NextStageType ==
  ASSUME RunTypeInv, NEW t \in Tasks, UNCHANGED task, Running(t),
         run[t].stage \in 0..6, NextStage(t)
  PROVE  /\ task' \in [Tasks -> TaskType] /\ \A u \in Tasks : Shape(u)'
         /\ run' \in [Tasks -> RunType]
         /\ \A u \in Tasks : RecShape(task'[u], run'[u])
<1>1. StageAfter(run[t].stage) \in 2..7 BY StageAfterType
<1>2. QED BY <1>1, PlainType DEF NextStage

LEMMA EndClustersType ==
  ASSUME RunTypeInv, NEW t \in Tasks, EndClusters(t)
  PROVE  RunTypeInv'
<1>1. Running(t) /\ run[t].stage \in 0..6
  BY DEF EndClusters, Reached, At, Running
<1>2. /\ task' \in [Tasks -> TaskType] /\ \A u \in Tasks : Shape(u)'
      /\ run' \in [Tasks -> RunType]
      /\ \A u \in Tasks : RecShape(task'[u], run'[u])
  BY <1>1, NextStageType DEF EndClusters, vars
<1>3. QED
  BY <1>2 DEF EndClusters, RunTypeInv, TypeInv, TypeOK, RunTypeOK, vars, stores, history

LEMMA NextClusterType ==
  ASSUME RunTypeInv, NEW t \in Tasks, Running(t), NextCluster(t)
  PROVE  /\ task' \in [Tasks -> TaskType] /\ \A u \in Tasks : Shape(u)'
         /\ run' \in [Tasks -> RunType]
         /\ \A u \in Tasks : RecShape(task'[u], run'[u])
<1> DEFINE c == [task[t] EXCEPT !.fact = None, !.doc = None, !.ids = Idle.ids]
           r == [NotRunning EXCEPT !.stage = 2, !.at = "begin"]
<1>1. c \in TaskType /\ c.pc = "run"
  <2>1. Idle.ids \in DataIds BY IdleType DEF TaskType
  <2>2. QED BY <2>1, RunRecord DEF TaskType, RecShape, Running
<1>2. r \in RunType /\ r.at = "begin" /\ r.stage = 2
  <2>1. 2 \in 0..7 OBVIOUS
  <2>2. QED BY <2>1 DEF RunType, NotRunning
<1>3. task' = [task EXCEPT ![t] = c] /\ run' = [run EXCEPT ![t] = r]
  BY DEF NextCluster, Become, Go
<1> HIDE DEF c, r
<1>4. RecShape(c, r) BY <1>1, <1>2 DEF RecShape
<1>5. QED BY <1>1, <1>2, <1>3, <1>4, RunStepType

LEMMA StoreCanonicalType ==
  ASSUME RunTypeInv, NEW t \in Tasks, StoreCanonical(t)
  PROVE  RunTypeInv'
<1>1. PICK out \in WriteOutcomes :
        /\ AddDataPoints({task[t].fact}, Only(task[t].fact, FALSE), NodeId(t), out)
        /\ IF out = "written"
           THEN Goto(t, 2, "preload") /\ Report({}) /\ UNCHANGED task
           ELSE NextCluster(t) /\ Report({task[t].doc})
  BY DEF StoreCanonical
<1>2. run[t].stage = 2 /\ run[t].at = "canonical" /\ Running(t)
  BY DEF StoreCanonical, At, Running
<1>3. /\ task[t] \in TaskType /\ run[t] \in RunType /\ RecShape(task[t], run[t])
      /\ task[t].fact \in Facts /\ task[t].doc \in Docs \cup {None}
  BY <1>2, RunRecord DEF RecShape, TaskType
<1>4. /\ graph' \in [Facts -> Node \cup {None}] /\ embedded' \subseteq Facts
      /\ faults' \in 0..MaxFaults
  <2>1. {task[t].fact} \in SUBSET Facts BY <1>3
  <2>2. \A f \in {task[t].fact} :
          /\ Only(task[t].fact, FALSE)[f] \in BOOLEAN
          /\ NodeId(t)[f] \in Docs \cup {None}
    BY <1>3 DEF Only, NodeId
  <2>3. QED BY <1>1, <2>1, <2>2, AddDataPointsType DEF RunTypeInv, TypeInv
<1>5. /\ task' \in [Tasks -> TaskType] /\ \A u \in Tasks : Shape(u)'
      /\ run' \in [Tasks -> RunType]
      /\ \A u \in Tasks : RecShape(task'[u], run'[u])
  <2>1. CASE Goto(t, 2, "preload") /\ UNCHANGED task
    <3> DEFINE r == [run[t] EXCEPT !.stage = 2, !.at = "preload"]
    <3>1. /\ r \in RunType /\ r.at = "preload" /\ r.stage = 2
          /\ r.members = run[t].members
      <4>1. 2 \in 0..7 OBVIOUS
      <4>2. QED BY <1>3, <4>1 DEF RunType
    <3>2. Go(t, r) BY <2>1 DEF Goto
    <3> HIDE DEF r
    <3>3. RecShape(task[t], r) BY <1>2, <1>3, <3>1 DEF RecShape
    <3>4. QED BY <1>2, <2>1, <3>1, <3>2, <3>3, PositionType
  <2>2. CASE NextCluster(t) BY <1>2, <2>2, NextClusterType
  <2>3. QED BY <1>1, <2>1, <2>2
<1>6. reported' \subseteq Docs
  BY <1>1, <1>3 DEF Report, RunTypeInv, TypeInv, TypeOK
<1>7. QED
  BY <1>4, <1>5, <1>6 DEF StoreCanonical, RunTypeInv, TypeInv, TypeOK, RunTypeOK

LEMMA PreloadType ==
  ASSUME RunTypeInv, NEW t \in Tasks, Preload(t)
  PROVE  RunTypeInv'
<1> DEFINE Ids(lost) ==
      [m \in Members(t) |-> IF m \in lost THEN None ELSE DataId(m)]
<1>1. PICK lost \in SUBSET Members(t) :
        /\ Outcome(lost = {})
        /\ Report({DataId(m) : m \in lost})
        /\ Become(t, [task[t] EXCEPT !.ids = Ids(lost)])
        /\ Go(t, [run[t] EXCEPT !.at = "archive", !.old = Superseded(t, Ids(lost))])
  BY DEF Preload
<1>2. run[t].stage = 2 /\ run[t].at = "preload" BY DEF Preload, At
<1>3. /\ task[t] \in TaskType /\ run[t] \in RunType /\ RecShape(task[t], run[t])
      /\ DOMAIN task[t].copies \in SUBSET Facts
      /\ Members(t) \in SUBSET Facts
  BY RunRecord DEF RunType, Members
<1>4. \A m \in Members(t) : DataId(m) \in Docs \cup {None}
  BY <1>3, DataIdType DEF RunTypeInv, TypeInv
<1>5. Ids(lost) \in [Members(t) -> Docs \cup {None}] BY <1>4
<1>6. faults' \in 0..MaxFaults
  <2>1. (lost = {}) \in BOOLEAN OBVIOUS
  <2>2. QED BY <1>1, <2>1, OutcomeType DEF RunTypeInv, TypeInv
<1>7. reported' \subseteq Docs
  <2>1. {DataId(m) : m \in lost} \ {None} \subseteq Docs BY <1>4
  <2>2. QED BY <1>1, <2>1 DEF Report, RunTypeInv, TypeInv, TypeOK
<1> DEFINE ids == Ids(lost)
           c == [task[t] EXCEPT !.ids = ids]
           r == [run[t] EXCEPT !.at = "archive", !.old = Superseded(t, ids)]
<1>8. task' = [task EXCEPT ![t] = c] /\ run' = [run EXCEPT ![t] = r]
  BY <1>1 DEF Become, Go
<1>9. ids \in [Members(t) -> Docs \cup {None}] BY <1>5
<1> HIDE DEF Ids, ids
<1>10. ids \in DataIds BY <1>3, <1>9, DataIdsIntro
<1>11. Superseded(t, ids) \subseteq Docs BY <1>9 DEF Superseded
<1>12. /\ c \in TaskType /\ c.pc = task[t].pc /\ c.fact = task[t].fact
       /\ c.copies = task[t].copies /\ c.ids = ids
  BY <1>3, <1>10 DEF TaskType
<1>13. /\ r \in RunType /\ r.at = "archive" /\ r.stage = 2
       /\ r.members = run[t].members
  BY <1>2, <1>3, <1>11 DEF RunType
<1> HIDE DEF c, r
<1>14. RecShape(c, r) BY <1>2, <1>3, <1>9, <1>12, <1>13 DEF RecShape, Members
<1>15. c.pc = "run" BY <1>13, <1>14 DEF RecShape
<1>16. /\ task' \in [Tasks -> TaskType] /\ \A u \in Tasks : Shape(u)'
       /\ run' \in [Tasks -> RunType]
       /\ \A u \in Tasks : RecShape(task'[u], run'[u])
  BY <1>8, <1>12, <1>13, <1>14, <1>15, RunStepType
<1>17. QED
  BY <1>6, <1>7, <1>16 DEF Preload, RunTypeInv, TypeInv, TypeOK, RunTypeOK, stores

LEMMA ArchiveType ==
  ASSUME RunTypeInv, NEW t \in Tasks, Archive(t)
  PROVE  RunTypeInv'
<1>1. PICK m \in Members(t), out \in WriteOutcomes :
        /\ AddDataPoints({m}, Only(m, TRUE), task[t].ids, out)
        /\ halfway' = IF out = "written" THEN halfway ELSE halfway \cup {m}
        /\ Become(t, [task[t] EXCEPT !.copies[m] = TRUE])
  BY DEF Archive
<1>2. run[t].stage = 2 /\ run[t].at = "archive" BY DEF Archive, At
<1>3. /\ task[t] \in TaskType /\ run[t] \in RunType /\ RecShape(task[t], run[t])
      /\ m \in Facts /\ m \in DOMAIN task[t].copies
      /\ task[t].ids[m] \in Docs \cup {None}
      /\ DOMAIN task[t].copies \in SUBSET Facts
      /\ \A f \in DOMAIN task[t].copies : task[t].copies[f] \in BOOLEAN
  BY <1>2, RunRecord DEF RecShape, RunType, Members
<1>4. /\ graph' \in [Facts -> Node \cup {None}] /\ embedded' \subseteq Facts
      /\ faults' \in 0..MaxFaults
  <2>1. {m} \in SUBSET Facts BY <1>3
  <2>2. \A f \in {m} : Only(m, TRUE)[f] \in BOOLEAN /\ task[t].ids[f] \in Docs \cup {None}
    BY <1>3 DEF Only
  <2>3. QED BY <1>1, <2>1, <2>2, AddDataPointsType DEF RunTypeInv, TypeInv
<1>5. halfway' \subseteq Facts
  BY <1>1, <1>3 DEF RunTypeInv, TypeInv, TypeOK
<1> DEFINE new == [task[t].copies EXCEPT ![m] = TRUE]
           c == [task[t] EXCEPT !.copies = new]
           r == [run[t] EXCEPT !.stage = 2, !.at = "unembed"]
<1>6. new \in Copies /\ DOMAIN new = DOMAIN task[t].copies
  <2>1. task[t].copies \in [DOMAIN task[t].copies -> BOOLEAN]
    BY <1>3, CopiesElim DEF TaskType
  <2>2. new \in [DOMAIN task[t].copies -> BOOLEAN] BY <2>1
  <2>3. QED BY <1>3, <2>2, CopiesIntro
<1>7. task' = [task EXCEPT ![t] = c] /\ run' = [run EXCEPT ![t] = r]
  BY <1>1 DEF Archive, Become, Goto, Go
<1> HIDE DEF new
<1>8. /\ c \in TaskType /\ c.pc = task[t].pc /\ c.fact = task[t].fact
      /\ c.copies = new /\ c.ids = task[t].ids
  BY <1>3, <1>6 DEF TaskType
<1>9. /\ r \in RunType /\ r.at = "unembed" /\ r.stage = 2
      /\ r.members = run[t].members
  <2>1. 2 \in 0..7 OBVIOUS
  <2>2. QED BY <1>3, <2>1 DEF RunType
<1> HIDE DEF c, r
<1>10. RecShape(c, r) BY <1>2, <1>3, <1>6, <1>8, <1>9 DEF RecShape
<1>11. c.pc = "run" BY <1>9, <1>10 DEF RecShape
<1>12. /\ task' \in [Tasks -> TaskType] /\ \A u \in Tasks : Shape(u)'
       /\ run' \in [Tasks -> RunType]
       /\ \A u \in Tasks : RecShape(task'[u], run'[u])
  BY <1>7, <1>8, <1>9, <1>10, <1>11, RunStepType
<1>13. QED
  BY <1>4, <1>5, <1>12 DEF Archive, RunTypeInv, TypeInv, TypeOK, RunTypeOK

LEMMA UnembedType ==
  ASSUME RunTypeInv, NEW t \in Tasks, Unembed(t)
  PROVE  RunTypeInv'
<1>1. PICK m \in Members(t), ok \in BOOLEAN :
        /\ Outcome(ok)
        /\ embedded' = IF ok THEN embedded \ {m} ELSE embedded
        /\ Go(t, [run[t] EXCEPT
                    !.at = IF Members(t) = {m} THEN "cascade" ELSE "archive",
                    !.members = @ \ {m}])
  BY DEF Unembed
<1>2. /\ run[t].stage = 2 /\ run[t].at = "unembed" /\ Running(t)
      /\ UNCHANGED task
  BY DEF Unembed, At, Running
<1>3. /\ task[t] \in TaskType /\ run[t] \in RunType /\ RecShape(task[t], run[t])
  BY RunRecord
<1>4. faults' \in 0..MaxFaults BY <1>1, OutcomeType DEF RunTypeInv, TypeInv
<1>5. embedded' \subseteq Facts BY <1>1 DEF RunTypeInv, TypeInv, TypeOK
<1> DEFINE at == IF Members(t) = {m} THEN "cascade" ELSE "archive"
           r == [run[t] EXCEPT !.at = at, !.members = @ \ {m}]
<1>6. Go(t, r) BY <1>1
<1>7. at \in {"archive", "cascade"} OBVIOUS
<1> HIDE DEF at
<1>8. /\ r \in RunType /\ r.at = at /\ r.stage = 2
      /\ r.members = run[t].members \ {m}
  BY <1>2, <1>3, <1>7 DEF RunType
<1> HIDE DEF r
<1>9. RecShape(task[t], r) BY <1>2, <1>3, <1>7, <1>8 DEF RecShape
<1>10. r.at # "none" BY <1>7, <1>8
<1>11. /\ task' \in [Tasks -> TaskType] /\ \A u \in Tasks : Shape(u)'
       /\ run' \in [Tasks -> RunType]
       /\ \A u \in Tasks : RecShape(task'[u], run'[u])
  BY <1>2, <1>6, <1>8, <1>9, <1>10, PositionType
<1>12. QED
  BY <1>4, <1>5, <1>11 DEF Unembed, RunTypeInv, TypeInv, TypeOK, RunTypeOK

LEMMA CascadeSupersededType ==
  ASSUME RunTypeInv, NEW t \in Tasks, CascadeSuperseded(t)
  PROVE  RunTypeInv'
<1>1. run[t].stage = 2 /\ run[t].at = "cascade" /\ Running(t)
  BY DEF CascadeSuperseded, At, Running
<1>2. CASE NextCluster(t) /\ UNCHANGED <<docs, reported, faults>>
  <2>1. /\ task' \in [Tasks -> TaskType] /\ \A u \in Tasks : Shape(u)'
        /\ run' \in [Tasks -> RunType]
        /\ \A u \in Tasks : RecShape(task'[u], run'[u])
    BY <1>1, <1>2, NextClusterType
  <2>2. QED
    BY <1>2, <2>1 DEF CascadeSuperseded, RunTypeInv, TypeInv, TypeOK, RunTypeOK
<1>3. CASE \E d \in run[t].old, ok \in BOOLEAN :
             /\ CascadeCogneeData(d, ok)
             /\ Go(t, [run[t] EXCEPT !.old = @ \ {d}])
             /\ UNCHANGED task
  <2>1. PICK d \in run[t].old, ok \in BOOLEAN :
          /\ CascadeCogneeData(d, ok)
          /\ Go(t, [run[t] EXCEPT !.old = @ \ {d}])
          /\ UNCHANGED task
    BY <1>3
  <2>2. /\ task[t] \in TaskType /\ run[t] \in RunType /\ RecShape(task[t], run[t])
        /\ d \in Docs \cup {None}
    BY RunRecord DEF RunType
  <2>3. docs' \subseteq docs /\ reported' \subseteq Docs /\ faults' \in 0..MaxFaults
    BY <2>1, <2>2, CascadeType DEF RunTypeInv, TypeInv
  <2> DEFINE r == [run[t] EXCEPT !.old = @ \ {d}]
  <2>4. /\ r \in RunType /\ r.at = "cascade" /\ r.stage = 2
        /\ r.members = run[t].members
    BY <1>1, <2>2 DEF RunType
  <2>5. Go(t, r) BY <2>1
  <2> HIDE DEF r
  <2>6. RecShape(task[t], r) BY <1>1, <2>2, <2>4 DEF RecShape
  <2>7. /\ task' \in [Tasks -> TaskType] /\ \A u \in Tasks : Shape(u)'
        /\ run' \in [Tasks -> RunType]
        /\ \A u \in Tasks : RecShape(task'[u], run'[u])
    BY <1>1, <2>1, <2>4, <2>5, <2>6, PositionType
  <2>8. QED
    BY <2>3, <2>7 DEF CascadeSuperseded, RunTypeInv, TypeInv, TypeOK, RunTypeOK
<1>4. QED BY <1>2, <1>3 DEF CascadeSuperseded

\* A step of a stage that changes no fact in memory.
LEMMA WriteBackType ==
  ASSUME RunTypeInv, NEW t \in Tasks, UNCHANGED task, Running(t),
         run[t].stage \in 2..6, WriteBack(t) \/ NextStage(t)
  PROVE  /\ task' \in [Tasks -> TaskType] /\ \A u \in Tasks : Shape(u)'
         /\ run' \in [Tasks -> RunType]
         /\ \A u \in Tasks : RecShape(task'[u], run'[u])
<1>1. run[t].stage \in 0..6 /\ run[t].stage \in 2..7 /\ run[t].stage # 7
  OBVIOUS
<1>2. CASE NextStage(t) BY <1>1, <1>2, NextStageType
<1>3. CASE Goto(t, run[t].stage, "fetch") BY <1>1, <1>3, PlainType
<1>4. QED BY <1>2, <1>3 DEF WriteBack

LEMMA RunStageType ==
  ASSUME RunTypeInv, NEW t \in Tasks, RunStage(t)
  PROVE  RunTypeInv'
<1>1. /\ Running(t) /\ run[t].stage \in 2..6 /\ UNCHANGED task
      /\ WriteBack(t) \/ NextStage(t)
  <2>1. PICK stage \in {3, 5, 6} : At(t, stage, "begin")
    BY DEF RunStage, Reached
  <2>2. run[t].stage \in 2..6 /\ Running(t) BY <2>1 DEF At, Running
  <2>3. QED BY <2>2 DEF RunStage
<1>2. faults' \in 0..MaxFaults
  BY OutcomeType DEF RunStage, RunTypeInv, TypeInv
<1>3. /\ task' \in [Tasks -> TaskType] /\ \A u \in Tasks : Shape(u)'
      /\ run' \in [Tasks -> RunType]
      /\ \A u \in Tasks : RecShape(task'[u], run'[u])
  BY <1>1, WriteBackType
<1>4. QED
  BY <1>2, <1>3 DEF RunStage, RunTypeInv, TypeInv, TypeOK, RunTypeOK, stores

\* What decay leaves in memory.
LEMMA DecayedType ==
  ASSUME RunTypeInv, NEW t \in Tasks, NEW A \in SUBSET DOMAIN task[t].copies
  PROVE  LET new == [f \in DOMAIN task[t].copies |-> task[t].copies[f] \/ f \in A]
         IN  new \in Copies /\ DOMAIN new = DOMAIN task[t].copies
<1>1. DOMAIN task[t].copies \in SUBSET Facts BY RunRecord
<1>2. [f \in DOMAIN task[t].copies |-> task[t].copies[f] \/ f \in A]
        \in [DOMAIN task[t].copies -> BOOLEAN]
  OBVIOUS
<1>3. QED BY <1>1, <1>2, CopiesIntro

LEMMA DecayType ==
  ASSUME RunTypeInv, NEW t \in Tasks, Decay(t)
  PROVE  RunTypeInv'
<1>1. run[t].stage = 4 /\ run[t].at = "begin" /\ Running(t)
  BY DEF Decay, Reached, At, Running
<1>2. run[t].stage \in 2..6 /\ run[t].stage \in 0..6 /\ run[t].stage \in 0..7
  BY <1>1
<1>3. CASE Outcome(FALSE) /\ NextStage(t) /\ UNCHANGED <<embedded, task>>
  <2>1. /\ task' \in [Tasks -> TaskType] /\ \A u \in Tasks : Shape(u)'
        /\ run' \in [Tasks -> RunType]
        /\ \A u \in Tasks : RecShape(task'[u], run'[u])
    BY <1>1, <1>2, <1>3, WriteBackType
  <2>2. faults' \in 0..MaxFaults BY <1>3, OutcomeType DEF RunTypeInv, TypeInv
  <2>3. QED
    BY <1>3, <2>1, <2>2 DEF Decay, RunTypeInv, TypeInv, TypeOK, RunTypeOK
<1>4. CASE ~(Outcome(FALSE) /\ NextStage(t) /\ UNCHANGED <<embedded, task>>)
  <2>1. PICK A \in SUBSET DOMAIN task[t].copies :
          /\ \E kept \in SUBSET A :
               /\ Outcome(kept = {})
               /\ embedded' = embedded \ (A \ kept)
          /\ Become(t, [task[t] EXCEPT
                          !.copies = [f \in DOMAIN @ |-> @[f] \/ f \in A]])
          /\ WriteBack(t)
    BY <1>4 DEF Decay
  <2>2. embedded' \subseteq Facts
    BY <2>1 DEF RunTypeInv, TypeInv, TypeOK
  <2>3. faults' \in 0..MaxFaults
    <3>1. PICK kept \in SUBSET A : Outcome(kept = {}) BY <2>1
    <3>2. (kept = {}) \in BOOLEAN OBVIOUS
    <3>3. QED BY <3>1, <3>2, OutcomeType DEF RunTypeInv, TypeInv
  <2> DEFINE new == [f \in DOMAIN task[t].copies |-> task[t].copies[f] \/ f \in A]
             c == [task[t] EXCEPT !.copies = new]
  <2>4. new \in Copies /\ DOMAIN new = DOMAIN task[t].copies BY DecayedType
  <2>5. task' = [task EXCEPT ![t] = c]
    <3>1. task[t] \in TaskType BY RunRecord
    <3>2. [task[t] EXCEPT !.copies = [f \in DOMAIN @ |-> @[f] \/ f \in A]] = c
      BY <3>1 DEF TaskType
    <3>3. QED BY <2>1, <3>2 DEF Become
  <2> HIDE DEF new
  <2>6. /\ c \in TaskType /\ c.pc = task[t].pc /\ c.copies = new
    BY <2>4, RunRecord DEF TaskType
  <2>7. c.pc = "run" BY <1>1, <2>6, RunRecord DEF RecShape
  <2> HIDE DEF c
  <2>8. PICK stage \in 2..7, at \in {"begin", "fetch"} :
          Goto(t, stage, at) /\ (stage = 7 => at = "begin")
    <3>1. CASE NextStage(t)
      <4>1. StageAfter(run[t].stage) \in 2..7 BY <1>2, StageAfterType
      <4>2. QED BY <3>1, <4>1 DEF NextStage
    <3>2. CASE Goto(t, run[t].stage, "fetch") BY <1>1, <3>2
    <3>3. QED BY <2>1, <3>1, <3>2 DEF WriteBack
  <2> DEFINE r == [run[t] EXCEPT !.stage = stage, !.at = at]
  <2>9. run' = [run EXCEPT ![t] = r] BY <2>8 DEF Goto, Go
  <2>10. r \in RunType /\ r.stage = stage /\ r.at = at
    <3>1. stage \in 0..7 OBVIOUS
    <3>2. QED BY <3>1, RunRecord DEF RunType
  <2> HIDE DEF r
  <2>11. RecShape(c, r) BY <2>7, <2>8, <2>10 DEF RecShape
  <2>12. /\ task' \in [Tasks -> TaskType] /\ \A u \in Tasks : Shape(u)'
         /\ run' \in [Tasks -> RunType]
         /\ \A u \in Tasks : RecShape(task'[u], run'[u])
    BY <2>5, <2>6, <2>7, <2>9, <2>10, <2>11, RunStepType
  <2>13. QED
    BY <2>2, <2>3, <2>12 DEF Decay, RunTypeInv, TypeInv, TypeOK, RunTypeOK
<1>5. QED BY <1>3, <1>4

LEMMA FetchRunIdsType ==
  ASSUME RunTypeInv, NEW t \in Tasks, FetchRunIds(t)
  PROVE  RunTypeInv'
<1> DEFINE S == DOMAIN task[t].copies
<1>1. /\ task[t] \in TaskType /\ run[t] \in RunType /\ RecShape(task[t], run[t])
      /\ S \in SUBSET Facts
  BY RunRecord
<1>2. PICK ok \in BOOLEAN :
        /\ FetchedIds(S, ok)
        /\ Become(t, [task[t] EXCEPT !.ids = DataIdMap(S, ok)])
  BY DEF FetchRunIds
<1>3. reported' \subseteq Docs /\ faults' \in 0..MaxFaults
  BY <1>1, <1>2, FetchedIdsType DEF RunTypeInv, TypeInv
<1>4. run[t].at = "fetch" BY DEF FetchRunIds
<1> DEFINE c == [task[t] EXCEPT !.ids = DataIdMap(S, ok)]
           r == [run[t] EXCEPT !.stage = run[t].stage, !.at = "upsert"]
<1>5. DataIdMap(S, ok) \in DataIds /\ DOMAIN DataIdMap(S, ok) = S
  BY <1>1, DataIdMapType DEF RunTypeInv, TypeInv
<1>6. task' = [task EXCEPT ![t] = c] /\ run' = [run EXCEPT ![t] = r]
  BY <1>2 DEF FetchRunIds, Become, Goto, Go
<1>7. /\ c \in TaskType /\ c.pc = task[t].pc /\ DOMAIN c.ids = DOMAIN c.copies
  BY <1>1, <1>5 DEF TaskType
<1>8. r \in RunType /\ r.stage = run[t].stage /\ r.at = "upsert"
  BY <1>1 DEF RunType
<1> HIDE DEF c, r
<1>9. RecShape(c, r) BY <1>1, <1>4, <1>7, <1>8 DEF RecShape
<1>10. c.pc = "run" BY <1>8, <1>9 DEF RecShape
<1>11. /\ task' \in [Tasks -> TaskType] /\ \A u \in Tasks : Shape(u)'
       /\ run' \in [Tasks -> RunType]
       /\ \A u \in Tasks : RecShape(task'[u], run'[u])
  BY <1>6, <1>7, <1>8, <1>9, <1>10, RunStepType
<1>12. QED
  BY <1>3, <1>11 DEF FetchRunIds, RunTypeInv, TypeInv, TypeOK, RunTypeOK, stores

LEMMA ApplyFactUpsertsType ==
  ASSUME RunTypeInv, NEW t \in Tasks, ApplyFactUpserts(t)
  PROVE  RunTypeInv'
<1> DEFINE S == DOMAIN task[t].copies
<1>1. run[t].at = "upsert" BY DEF ApplyFactUpserts
<1>2. /\ task[t] \in TaskType /\ run[t] \in RunType /\ RecShape(task[t], run[t])
      /\ S \in SUBSET Facts
      /\ \A f \in S : task[t].copies[f] \in BOOLEAN /\ task[t].ids[f] \in Docs \cup {None}
  BY <1>1, RunRecord DEF RecShape
<1>3. PICK out \in WriteOutcomes : AddDataPoints(S, ArchivedFlags(t), task[t].ids, out)
  BY DEF ApplyFactUpserts
<1>4. /\ graph' \in [Facts -> Node \cup {None}] /\ embedded' \subseteq Facts
      /\ faults' \in 0..MaxFaults
  BY <1>2, <1>3, AddDataPointsType DEF RunTypeInv, TypeInv, ArchivedFlags
<1>5. run[t].stage \in 0..6 /\ run[t].stage \in 2..6
  <2>1. run[t].stage \in 2..7 /\ run[t].stage # 7 BY <1>1, <1>2 DEF RecShape
  <2>2. QED BY <2>1
<1> DEFINE c == [task[t] EXCEPT !.ids = Idle.ids]
           n == StageAfter(run[t].stage)
           r == [run[t] EXCEPT !.stage = n, !.at = "begin"]
<1>6. task' = [task EXCEPT ![t] = c] /\ run' = [run EXCEPT ![t] = r]
  BY DEF ApplyFactUpserts, Become, NextStage, Goto, Go
<1>7. n \in 2..7 /\ n \in 0..7
  <2>1. n \in 2..7 BY <1>5, StageAfterType
  <2>2. QED BY <2>1
<1> HIDE DEF n
<1>8. c \in TaskType /\ c.pc = task[t].pc
  <2>1. Idle.ids \in DataIds BY IdleType DEF TaskType
  <2>2. QED BY <1>2, <2>1 DEF TaskType
<1>9. r \in RunType /\ r.stage = n /\ r.at = "begin" BY <1>2, <1>7 DEF RunType
<1> HIDE DEF c, r
<1>10. c.pc = "run" BY <1>1, <1>2, <1>8 DEF RecShape
<1>11. RecShape(c, r) BY <1>7, <1>9, <1>10 DEF RecShape
<1>12. /\ task' \in [Tasks -> TaskType] /\ \A u \in Tasks : Shape(u)'
       /\ run' \in [Tasks -> RunType]
       /\ \A u \in Tasks : RecShape(task'[u], run'[u])
  BY <1>6, <1>8, <1>9, <1>10, <1>11, RunStepType
<1>13. QED
  BY <1>4, <1>12 DEF ApplyFactUpserts, RunTypeInv, TypeInv, TypeOK, RunTypeOK

LEMMA LockExpiresType ==
  ASSUME RunTypeInv, LockExpires
  PROVE  RunTypeInv'
<1>1. faults' \in 0..MaxFaults
  BY OutcomeType DEF LockExpires, RunTypeInv, TypeInv
<1>2. lock' \in Tasks \cup {None} /\ late' \subseteq Tasks
  BY DEF LockExpires, RunTypeInv, RunTypeOK
<1>3. QED
  BY <1>1, <1>2 DEF LockExpires, RunTypeInv, TypeInv, TypeOK, Shape, RunTypeOK, stores

LEMMA RestartAllType ==
  ASSUME RunTypeInv, RestartAll
  PROVE  RunTypeInv'
<1>1. TypeInv' BY RestartType DEF RestartAll, RunTypeInv
<1>2. NotRunning \in RunType BY DEF RunType, NotRunning
<1>3. RunTypeOK' BY <1>2 DEF RestartAll, RunTypeInv, RunTypeOK
<1>4. RecShape(Idle, NotRunning) BY DEF RecShape, Idle, NotRunning
<1>5. \A t \in Tasks : RecShape(task'[t], run'[t])
  BY <1>4 DEF RestartAll, Restart
<1>6. QED BY <1>1, <1>3, <1>5 DEF RunTypeInv

LEMMA FacadeStepRunType ==
  ASSUME RunTypeInv, NEW t \in Tasks, FacadeStep(t), UNCHANGED runVars
  PROVE  RunTypeInv'
<1>1. TypeInv' BY FacadeType DEF RunTypeInv
<1>2. run' = run /\ RunTypeOK' BY DEF runVars, RunTypeInv, RunTypeOK
<1>3. ASSUME NEW u \in Tasks PROVE RecShape(task'[u], run'[u])
  <2>1. CASE u # t BY <1>2, <2>1, FacadeFrame DEF RunTypeInv
  <2>2. CASE u = t
    <3>1. task[t].pc # "run" /\ task'[t].pc # "run" BY FacadeFrame DEF RunTypeInv
    <3>2. run[t].at = "none" /\ RecShape(task[t], run[t])
      BY <3>1, RunRecord DEF RecShape
    <3>3. QED BY <1>2, <2>2, <3>1, <3>2 DEF RecShape
  <2>3. QED BY <2>1, <2>2
<1>4. QED BY <1>1, <1>2, <1>3 DEF RunTypeInv

LEMMA RunNextType == RunTypeInv /\ [RunNext]_allVars => RunTypeInv'
<1> SUFFICES ASSUME RunTypeInv, [RunNext]_allVars PROVE RunTypeInv'
  OBVIOUS
<1>1. CASE UNCHANGED allVars
  BY <1>1 DEF allVars, vars, stores, history, runVars, RunTypeInv, TypeInv, TypeOK,
              Shape, RunTypeOK
<1>2. ASSUME NEW t \in Tasks, RunStep(t) PROVE RunTypeInv'
  <2>1. CASE RefuseRun(t) BY <1>1, <2>1 DEF RefuseRun
  <2>2. QED
    BY <1>2, <2>1, StartRunType, FinishRunType, CanonicalizeType, EndClustersType,
       StoreCanonicalType, PreloadType, ArchiveType, UnembedType,
       CascadeSupersededType, RunStageType, DecayType, FetchRunIdsType,
       ApplyFactUpsertsType DEF RunStep
<1>3. QED
  BY <1>1, <1>2, LockExpiresType, RestartAllType, FacadeStepRunType DEF RunNext

LEMMA RunInitType == RunInit => RunTypeInv
<1> SUFFICES ASSUME RunInit PROVE RunTypeInv
  OBVIOUS
<1>1. TypeInv BY InitType DEF RunInit
<1>2. NotRunning \in RunType BY DEF RunType, NotRunning
<1>3. RunTypeOK BY <1>2 DEF RunInit, RunTypeOK
<1>4. RecShape(Idle, NotRunning) BY DEF RecShape, Idle, NotRunning
<1>5. \A t \in Tasks : RecShape(task[t], run[t]) BY <1>4 DEF RunInit, Init
<1>6. QED BY <1>1, <1>3, <1>5 DEF RunTypeInv

\* With runs, failures and expiries of the lock too, the stores, the tasks and
\* the runs keep their types.
THEOREM RunTypeCorrect == RunSpec => [](TypeOK /\ RunTypeOK)
<1>1. RunTypeInv => TypeOK /\ RunTypeOK BY DEF RunTypeInv, TypeInv
<1>2. QED BY RunInitType, RunNextType, <1>1, PTL DEF RunSpec

------------------------------------------------------------------------------
(* The canonical fact comes first.                                         *)

\* Two tasks that hold a fact have disturbed it.
SharedDisturbed ==
  \A t, u \in Tasks : t # u => Held(t) \cap Held(u) \subseteq disturbed

CanonicalInv == RunTypeInv /\ SharedDisturbed /\ CanonicalFirst

\* What a task takes into its hands it shares only with leave.
LEMMA TakesHold ==
  ASSUME RunTypeInv, SharedDisturbed, NEW t \in Tasks, NEW S,
         \A u \in Tasks \ {t} : task'[u] = task[u],
         Held(t)' \subseteq Held(t) \cup S,
         disturbed \subseteq disturbed',
         \A f \in S : \A u \in Tasks \ {t} : f \in Held(u) => f \in disturbed'
  PROVE  SharedDisturbed'
<1>1. \A u \in Tasks \ {t} : Held(u)' = Held(u) BY DEF Held
<1>2. ASSUME NEW u \in Tasks \ {t}
      PROVE  Held(t)' \cap Held(u)' \subseteq disturbed'
  BY <1>1 DEF SharedDisturbed
<1>3. ASSUME NEW u \in Tasks \ {t}, NEW w \in Tasks \ {t}, u # w
      PROVE  Held(u)' \cap Held(w)' \subseteq disturbed'
  BY <1>1, <1>3 DEF SharedDisturbed
<1>4. QED BY <1>2, <1>3 DEF SharedDisturbed

\* A record that holds no more than the one before it.
LEMMA KeepsHold ==
  ASSUME RunTypeInv, SharedDisturbed, NEW t \in Tasks, NEW c, Become(t, c),
         DOMAIN c.copies \subseteq DOMAIN task[t].copies,
         c.fact \in {task[t].fact, None},
         UNCHANGED disturbed
  PROVE  SharedDisturbed'
<1>1. task' = [task EXCEPT ![t] = c] /\ task \in [Tasks -> TaskType]
  BY DEF Become, RunTypeInv, TypeInv, TypeOK
<1>2. task'[t] = c /\ \A u \in Tasks \ {t} : task'[u] = task[u] BY <1>1
<1>3. Held(t)' \subseteq Held(t) \cup {} BY <1>2 DEF Held
<1>4. QED BY <1>2, <1>3, TakesHold

LEMMA IdleHoldsNothing == DOMAIN Idle.copies = {} /\ Idle.fact = None
BY DEF Idle

LEMMA EndKeepsHold ==
  ASSUME RunTypeInv, SharedDisturbed, NEW t \in Tasks, End(t), UNCHANGED disturbed
  PROVE  SharedDisturbed'
BY KeepsHold, IdleHoldsNothing DEF End

\* A record that holds the facts S, which Hold has noted.
LEMMA NotesHold ==
  ASSUME RunTypeInv, SharedDisturbed, NEW t \in Tasks, NEW S \in SUBSET Facts,
         NEW c, Become(t, c), Hold(t, S),
         DOMAIN c.copies \cup ({c.fact} \ {None}) \subseteq S
  PROVE  SharedDisturbed'
<1>1. task' = [task EXCEPT ![t] = c] /\ task \in [Tasks -> TaskType]
  BY DEF Become, RunTypeInv, TypeInv, TypeOK
<1>2. task'[t] = c /\ \A u \in Tasks \ {t} : task'[u] = task[u] BY <1>1
<1>3. Held(t)' \subseteq Held(t) \cup S BY <1>2 DEF Held
<1>4. /\ disturbed \subseteq disturbed'
      /\ \A f \in S : \A u \in Tasks \ {t} : f \in Held(u) => f \in disturbed'
  BY DEF Hold
<1>5. QED BY <1>2, <1>3, <1>4, TakesHold

\* A record that holds a fact made by uuid4 besides those it held.
LEMMA FreshHold ==
  ASSUME RunTypeInv, SharedDisturbed, NEW t \in Tasks, NEW f, FreshFact(f),
         NEW c, Become(t, c), UNCHANGED disturbed,
         DOMAIN c.copies \cup ({c.fact} \ {None}) \subseteq Held(t) \cup {f}
  PROVE  SharedDisturbed'
<1>1. task' = [task EXCEPT ![t] = c] /\ task \in [Tasks -> TaskType]
  BY DEF Become, RunTypeInv, TypeInv, TypeOK
<1>2. task'[t] = c /\ \A u \in Tasks \ {t} : task'[u] = task[u] BY <1>1
<1>3. Held(t)' \subseteq Held(t) \cup {f} BY <1>2 DEF Held
<1>4. /\ disturbed \subseteq disturbed'
      /\ \A g \in {f} : \A u \in Tasks \ {t} : g \in Held(u) => g \in disturbed'
  BY DEF FreshFact, InUse
<1>5. QED BY <1>2, <1>3, <1>4, TakesHold

LEMMA FacadeShared ==
  ASSUME RunTypeInv, SharedDisturbed, NEW t \in Tasks, FacadeStep(t)
  PROVE  SharedDisturbed' /\ disturbed \subseteq disturbed'
<1>1. task[t] \in TaskType BY RunRecord
<1>2. CASE Store(t)
  <2>1. PICK f \in Facts, id \in Docs \cup {None} :
          /\ FreshFact(f)
          /\ Become(t, [Idle EXCEPT !.pc = "store", !.fact = f, !.doc = id,
                          !.copies = Only(f, FALSE), !.ids = Only(f, None)])
    BY <1>2 DEF Store
  <2> DEFINE c == [Idle EXCEPT !.pc = "store", !.fact = f, !.doc = id,
                     !.copies = Only(f, FALSE), !.ids = Only(f, None)]
  <2>2. DOMAIN c.copies \cup ({c.fact} \ {None}) \subseteq Held(t) \cup {f}
    BY DEF Idle, Only
  <2>3. Become(t, c) BY <2>1
  <2> HIDE DEF c
  <2>4. QED BY <1>2, <2>1, <2>2, <2>3, FreshHold DEF Store
<1>3. CASE Amend(t) \/ Update(t) \/ Delete(t)
  <2>1. PICK pc \in {"write", "add", "delete_node"} : ReadFact(t, pc)
    BY <1>3 DEF Amend, Update, Delete
  <2>2. PICK f \in Stored :
          /\ Become(t, [Idle EXCEPT !.pc = pc, !.fact = f, !.doc = graph[f].doc,
                          !.copies = Only(f, graph[f].archived),
                          !.ids = Only(f, graph[f].doc)])
          /\ Hold(t, {f})
    BY <2>1 DEF ReadFact
  <2>3. {f} \in SUBSET Facts BY DEF Stored
  <2> DEFINE c == [Idle EXCEPT !.pc = pc, !.fact = f, !.doc = graph[f].doc,
                     !.copies = Only(f, graph[f].archived),
                     !.ids = Only(f, graph[f].doc)]
  <2>4. DOMAIN c.copies \cup ({c.fact} \ {None}) \subseteq {f} BY DEF Idle, Only
  <2>5. Become(t, c) BY <2>2
  <2> HIDE DEF c
  <2>6. SharedDisturbed' BY <2>2, <2>3, <2>4, <2>5, NotesHold
  <2>7. QED BY <2>2, <2>6 DEF Hold
<1>4. CASE Search(t)
  <2>1. PICK S \in SUBSET Stored :
          /\ IF S = {} THEN UNCHANGED task
             ELSE Become(t, [Idle EXCEPT !.pc = "fetch",
                               !.copies = [f \in S |-> graph[f].archived]])
          /\ Hold(t, S)
    BY <1>4 DEF Search
  <2>2. S \in SUBSET Facts BY DEF Stored
  <2>3. disturbed \subseteq disturbed' BY <2>1 DEF Hold
  <2>4. CASE UNCHANGED task
    <3>1. \A u \in Tasks : Held(u)' = Held(u) BY <2>4 DEF Held
    <3>2. SharedDisturbed' BY <2>3, <3>1 DEF SharedDisturbed
    <3>3. QED BY <2>3, <3>2
  <2>5. CASE ~UNCHANGED task
    <3> DEFINE c == [Idle EXCEPT !.pc = "fetch",
                       !.copies = [f \in S |-> graph[f].archived]]
    <3>1. DOMAIN c.copies \cup ({c.fact} \ {None}) \subseteq S BY DEF Idle
    <3>2. Become(t, c) BY <2>1, <2>5
    <3> HIDE DEF c
    <3>3. QED BY <2>1, <2>2, <2>3, <3>1, <3>2, NotesHold
  <2>6. QED BY <2>4, <2>5
<1>5. CASE AddText(t)
  <2>1. CASE End(t) BY <1>5, <2>1, EndKeepsHold DEF AddText
  <2>2. CASE ~End(t)
    <3>1. PICK id \in Docs \cup {None} :
            Become(t, [task[t] EXCEPT !.pc = "write", !.doc = id])
      BY <1>5, <2>2 DEF AddText
    <3> DEFINE c == [task[t] EXCEPT !.pc = "write", !.doc = id]
    <3>2. c.copies = task[t].copies /\ c.fact = task[t].fact BY <1>1 DEF TaskType
    <3>3. Become(t, c) BY <3>1
    <3> HIDE DEF c
    <3>4. QED BY <1>5, <3>2, <3>3, KeepsHold DEF AddText
  <2>3. QED BY <2>1, <2>2
<1>6. CASE WriteFact(t)
  <2> DEFINE c == [task[t] EXCEPT !.pc = "cascade"]
  <2>1. End(t) \/ Become(t, c) BY <1>6 DEF WriteFact
  <2>2. c.copies = task[t].copies /\ c.fact = task[t].fact BY <1>1 DEF TaskType
  <2> HIDE DEF c
  <2>3. QED BY <1>6, <2>1, <2>2, KeepsHold, EndKeepsHold DEF WriteFact
<1>7. CASE CascadeOld(t) \/ DeleteDoc(t) \/ UpdateUseCounts(t)
  BY <1>7, EndKeepsHold DEF CascadeOld, DeleteDoc, UpdateUseCounts
<1>8. CASE DeleteNode(t) \/ DeleteEmbedding(t)
  <2>1. PICK ok \in BOOLEAN, pc \in {"delete_embedding", "delete_doc"} : Tried(t, ok, pc)
    BY <1>8 DEF DeleteNode, DeleteEmbedding
  <2> DEFINE c == [task[t] EXCEPT !.pc = pc, !.clean = @ /\ ok]
  <2>2. Become(t, c) BY <2>1 DEF Tried
  <2>3. c.copies = task[t].copies /\ c.fact = task[t].fact BY <1>1 DEF TaskType
  <2> HIDE DEF c
  <2>4. QED BY <1>8, <2>2, <2>3, KeepsHold DEF DeleteNode, DeleteEmbedding
<1>9. CASE FetchIds(t)
  <2>1. PICK ok \in BOOLEAN :
          Become(t, [task[t] EXCEPT !.pc = "counts",
                       !.ids = DataIdMap(DOMAIN task[t].copies, ok)])
    BY <1>9 DEF FetchIds
  <2> DEFINE c == [task[t] EXCEPT !.pc = "counts",
                     !.ids = DataIdMap(DOMAIN task[t].copies, ok)]
  <2>2. Become(t, c) BY <2>1
  <2>3. c.copies = task[t].copies /\ c.fact = task[t].fact BY <1>1 DEF TaskType
  <2> HIDE DEF c
  <2>4. QED BY <1>9, <2>2, <2>3, KeepsHold DEF FetchIds
<1>10. QED
  BY <1>2, <1>3, <1>4, <1>5, <1>6, <1>7, <1>8, <1>9 DEF FacadeStep

\* A write takes no node away.
LEMMA WriteKeepsStored ==
  ASSUME RunTypeInv, NEW S \in SUBSET Facts, NEW archived, NEW ids, NEW out,
         \A f \in S : archived[f] \in BOOLEAN /\ ids[f] \in Docs \cup {None},
         AddDataPoints(S, archived, ids, out)
  PROVE  Stored \subseteq Stored'
<1>1. TypeOK BY DEF RunTypeInv, TypeInv
<1>2. \A f \in Stored : graph'[f] # None BY <1>1, AddDataPointsType
<1>3. QED BY <1>2 DEF Stored

\* Only the delete of a fact takes its node away.
LEMMA FacadeStored ==
  ASSUME RunTypeInv, NEW t \in Tasks, FacadeStep(t), NEW f \in Stored
  PROVE  f \in Held(t) \/ f \in Stored'
<1>1. f \in Facts BY DEF Stored
<1>2. CASE graph' = graph BY <1>2 DEF Stored
<1>3. CASE DeleteNode(t)
  <2>1. PICK ok \in BOOLEAN :
          graph' = IF ok THEN [graph EXCEPT ![task[t].fact] = None] ELSE graph
    BY <1>3 DEF DeleteNode
  <2>2. CASE f = task[t].fact
    BY <1>1, <2>2, ConstantsAssumption DEF Held
  <2>3. CASE f # task[t].fact
    BY <1>1, <2>1, <2>3 DEF Stored, RunTypeInv, TypeInv, TypeOK
  <2>4. QED BY <2>2, <2>3
<1>4. CASE WriteFact(t)
  <2>1. /\ task[t] \in TaskType /\ task[t].fact \in Facts
        /\ task[t].copies[task[t].fact] \in BOOLEAN
    BY <1>4, OneFact DEF WriteFact, OneFactPCs, RunTypeInv
  <2>2. \A g \in {task[t].fact} :
          task[t].copies[g] \in BOOLEAN /\ NodeId(t)[g] \in Docs \cup {None}
    BY <2>1 DEF NodeId, Only, TaskType
  <2>3. PICK out \in WriteOutcomes :
          AddDataPoints({task[t].fact}, task[t].copies, NodeId(t), out)
    BY <1>4 DEF WriteFact
  <2>4. {task[t].fact} \in SUBSET Facts BY <2>1
  <2>5. QED BY <2>2, <2>3, <2>4, WriteKeepsStored
<1>5. CASE UpdateUseCounts(t)
  <2>1. DOMAIN task[t].ids = DOMAIN task[t].copies
    BY <1>5 DEF UpdateUseCounts, RunTypeInv, TypeInv, Shape
  <2>2. \A g \in DOMAIN task[t].copies :
          task[t].copies[g] \in BOOLEAN /\ task[t].ids[g] \in Docs \cup {None}
    BY <2>1, RunRecord
  <2>3. PICK out \in WriteOutcomes :
          AddDataPoints(DOMAIN task[t].copies, task[t].copies, task[t].ids, out)
    BY <1>5 DEF UpdateUseCounts
  <2>4. QED BY <2>2, <2>3, RunRecord, WriteKeepsStored
<1>6. CASE \/ Store(t) \/ Amend(t) \/ Update(t) \/ Delete(t) \/ Search(t)
           \/ AddText(t) \/ CascadeOld(t) \/ DeleteEmbedding(t) \/ DeleteDoc(t)
           \/ FetchIds(t)
  <2>1. graph' = graph
    BY <1>6 DEF Store, Amend, Update, Delete, ReadFact, Search, AddText, CascadeOld,
                DeleteEmbedding, DeleteDoc, FetchIds, stores
  <2>2. QED BY <1>2, <2>1
<1>7. QED BY <1>3, <1>4, <1>5, <1>6 DEF FacadeStep

\* The awaits at which the canonical fact is written and its cluster goes.
AfterCanonical == {"preload", "archive", "unembed", "cascade"}

LEMMA FacadeCanonical ==
  ASSUME CanonicalInv, NEW t \in Tasks, FacadeStep(t), UNCHANGED runVars
  PROVE  CanonicalInv'
<1>1. RunTypeInv' BY FacadeStepRunType DEF CanonicalInv
<1>2. SharedDisturbed' /\ disturbed \subseteq disturbed'
  BY FacadeShared DEF CanonicalInv
<1>3. ASSUME NEW u \in Tasks, run'[u].at \in AfterCanonical
      PROVE  task'[u].fact \in Stored' \cup disturbed'
  <2>1. run[u].at \in AfterCanonical BY <1>3 DEF runVars
  <2>2. /\ task[u].pc = "run" /\ task[u].fact \in Facts
        /\ task[u].fact \in Stored \cup disturbed
    BY <2>1, RunRecord DEF AfterCanonical, RecShape, CanonicalInv, CanonicalFirst
  <2>3. u # t /\ task'[u] = task[u]
    <3>1. u # t BY <2>2, FacadeFrame DEF CanonicalInv, RunTypeInv
    <3>2. QED BY <3>1, FacadeFrame DEF CanonicalInv, RunTypeInv
  <2>4. task[u].fact \in Held(u) BY <2>2, ConstantsAssumption DEF Held
  <2>5. CASE task[u].fact \in Held(t)
    BY <1>2, <2>3, <2>4, <2>5 DEF CanonicalInv, SharedDisturbed
  <2>6. CASE task[u].fact \notin Held(t)
    BY <1>2, <2>2, <2>3, <2>6, FacadeStored DEF CanonicalInv
  <2>7. QED BY <2>5, <2>6
<1>4. QED BY <1>1, <1>2, <1>3 DEF CanonicalInv, CanonicalFirst, AfterCanonical

LEMMA SameHold ==
  ASSUME SharedDisturbed, UNCHANGED <<task, disturbed>>
  PROVE  SharedDisturbed'
<1>1. \A u \in Tasks : Held(u)' = Held(u) BY DEF Held
<1>2. QED BY <1>1 DEF SharedDisturbed

LEMMA RunShared ==
  ASSUME RunTypeInv, SharedDisturbed, NEW t \in Tasks, RunStep(t)
  PROVE  SharedDisturbed' /\ disturbed \subseteq disturbed'
<1>1. task[t] \in TaskType BY RunRecord
<1>2. CASE StartRun(t)
  <2>1. PICK S \in SUBSET Live :
          /\ Become(t, [Idle EXCEPT !.pc = "run", !.copies = [f \in S |-> FALSE]])
          /\ Hold(t, S)
    BY <1>2 DEF StartRun
  <2>2. S \in SUBSET Facts BY DEF Live, Stored
  <2> DEFINE c == [Idle EXCEPT !.pc = "run", !.copies = [f \in S |-> FALSE]]
  <2>3. DOMAIN c.copies \cup ({c.fact} \ {None}) \subseteq S BY DEF Idle
  <2>4. Become(t, c) BY <2>1
  <2> HIDE DEF c
  <2>5. SharedDisturbed' BY <2>1, <2>2, <2>3, <2>4, NotesHold
  <2>6. QED BY <2>1, <2>5 DEF Hold
<1>3. CASE Canonicalize(t)
  <2>1. PICK f \in Facts, id \in Docs \cup {None} :
          /\ FreshFact(f)
          /\ Become(t, [task[t] EXCEPT !.fact = f, !.doc = id])
    BY <1>3 DEF Canonicalize
  <2> DEFINE c == [task[t] EXCEPT !.fact = f, !.doc = id]
  <2>2. DOMAIN c.copies \cup ({c.fact} \ {None}) \subseteq Held(t) \cup {f}
    BY <1>1 DEF TaskType, Held
  <2>3. Become(t, c) BY <2>1
  <2> HIDE DEF c
  <2>4. QED BY <1>3, <2>1, <2>2, <2>3, FreshHold DEF Canonicalize
<1>4. CASE FinishRun(t) BY <1>4, EndKeepsHold DEF FinishRun
<1>5. CASE NextCluster(t) /\ UNCHANGED disturbed
  <2> DEFINE c == [task[t] EXCEPT !.fact = None, !.doc = None, !.ids = Idle.ids]
  <2>1. c.copies = task[t].copies /\ c.fact = None BY <1>1 DEF TaskType
  <2>2. Become(t, c) BY <1>5 DEF NextCluster
  <2> HIDE DEF c
  <2>3. QED BY <1>5, <2>1, <2>2, KeepsHold
<1>6. CASE UNCHANGED <<task, disturbed>> BY <1>6, SameHold
<1>7. CASE Preload(t) \/ FetchRunIds(t) \/ ApplyFactUpserts(t)
  <2>1. PICK ids : Become(t, [task[t] EXCEPT !.ids = ids])
    <3>1. CASE Preload(t) BY <3>1 DEF Preload
    <3>2. CASE FetchRunIds(t) BY <3>2 DEF FetchRunIds
    <3>3. CASE ApplyFactUpserts(t) BY <3>3 DEF ApplyFactUpserts
    <3>4. QED BY <1>7, <3>1, <3>2, <3>3
  <2> DEFINE c == [task[t] EXCEPT !.ids = ids]
  <2>2. c.copies = task[t].copies /\ c.fact = task[t].fact BY <1>1 DEF TaskType
  <2>3. Become(t, c) BY <2>1
  <2> HIDE DEF c
  <2>4. UNCHANGED disturbed BY <1>7 DEF Preload, FetchRunIds, ApplyFactUpserts
  <2>5. QED BY <2>2, <2>3, <2>4, KeepsHold
<1>8. CASE Archive(t)
  <2>1. PICK m \in Members(t) : Become(t, [task[t] EXCEPT !.copies[m] = TRUE])
    BY <1>8 DEF Archive
  <2> DEFINE c == [task[t] EXCEPT !.copies[m] = TRUE]
  <2>2. DOMAIN c.copies = DOMAIN task[t].copies /\ c.fact = task[t].fact
    BY <1>1 DEF TaskType
  <2>3. Become(t, c) BY <2>1
  <2> HIDE DEF c
  <2>4. QED BY <1>8, <2>2, <2>3, KeepsHold DEF Archive
<1>9. CASE Decay(t) /\ ~UNCHANGED task
  <2>1. PICK A \in SUBSET DOMAIN task[t].copies :
          Become(t, [task[t] EXCEPT !.copies = [f \in DOMAIN @ |-> @[f] \/ f \in A]])
    BY <1>9 DEF Decay
  <2> DEFINE c == [task[t] EXCEPT !.copies = [f \in DOMAIN @ |-> @[f] \/ f \in A]]
  <2>2. DOMAIN c.copies = DOMAIN task[t].copies /\ c.fact = task[t].fact
    BY <1>1 DEF TaskType
  <2>3. Become(t, c) BY <2>1
  <2> HIDE DEF c
  <2>4. QED BY <1>9, <2>2, <2>3, KeepsHold DEF Decay
<1>10. CASE \/ RefuseRun(t) \/ EndClusters(t) \/ StoreCanonical(t) \/ Unembed(t)
            \/ CascadeSuperseded(t) \/ RunStage(t) \/ Decay(t)
  <2>1. UNCHANGED disturbed
    BY <1>10 DEF RefuseRun, EndClusters, StoreCanonical, Unembed, CascadeSuperseded,
                 RunStage, Decay, allVars, vars, history
  <2>2. \/ UNCHANGED task \/ NextCluster(t) \/ Decay(t)
    BY <1>10 DEF RefuseRun, EndClusters, StoreCanonical, Unembed, CascadeSuperseded,
                 RunStage, allVars, vars
  <2>3. QED BY <1>5, <1>6, <1>9, <2>1, <2>2
<1>11. QED BY <1>2, <1>3, <1>4, <1>7, <1>8, <1>10 DEF RunStep

LEMMA RunStored ==
  ASSUME RunTypeInv, NEW t \in Tasks, RunStep(t)
  PROVE  Stored \subseteq Stored'
<1>1. CASE graph' = graph BY <1>1 DEF Stored
<1>2. CASE StoreCanonical(t)
  <2>1. run[t].at = "canonical" BY <1>2 DEF StoreCanonical, At
  <2>2. task[t].fact \in Facts /\ task[t].doc \in Docs \cup {None}
    BY <2>1, RunRecord DEF RecShape, TaskType
  <2>3. \A f \in {task[t].fact} :
          /\ Only(task[t].fact, FALSE)[f] \in BOOLEAN
          /\ NodeId(t)[f] \in Docs \cup {None}
    BY <2>2 DEF Only, NodeId
  <2>4. PICK out \in WriteOutcomes :
          AddDataPoints({task[t].fact}, Only(task[t].fact, FALSE), NodeId(t), out)
    BY <1>2 DEF StoreCanonical
  <2>5. {task[t].fact} \in SUBSET Facts BY <2>2
  <2>6. QED BY <2>3, <2>4, <2>5, WriteKeepsStored
<1>3. CASE Archive(t)
  <2>1. run[t].at = "archive" BY <1>3 DEF Archive, At
  <2>2. PICK m \in Members(t), out \in WriteOutcomes :
          AddDataPoints({m}, Only(m, TRUE), task[t].ids, out)
    BY <1>3 DEF Archive
  <2>3. m \in Facts /\ task[t].ids[m] \in Docs \cup {None}
    BY <2>1, RunRecord DEF RecShape, RunType, Members
  <2>4. \A f \in {m} : Only(m, TRUE)[f] \in BOOLEAN /\ task[t].ids[f] \in Docs \cup {None}
    BY <2>3 DEF Only
  <2>5. {m} \in SUBSET Facts BY <2>3
  <2>6. QED BY <2>2, <2>4, <2>5, WriteKeepsStored
<1>4. CASE ApplyFactUpserts(t)
  <2>1. run[t].at = "upsert" BY <1>4 DEF ApplyFactUpserts
  <2>2. /\ DOMAIN task[t].copies \in SUBSET Facts
        /\ \A f \in DOMAIN task[t].copies :
             ArchivedFlags(t)[f] \in BOOLEAN /\ task[t].ids[f] \in Docs \cup {None}
    BY <2>1, RunRecord DEF RecShape, ArchivedFlags
  <2>3. PICK out \in WriteOutcomes :
          AddDataPoints(DOMAIN task[t].copies, ArchivedFlags(t), task[t].ids, out)
    BY <1>4 DEF ApplyFactUpserts
  <2>4. QED BY <2>2, <2>3, WriteKeepsStored
<1>5. CASE \/ StartRun(t) \/ RefuseRun(t) \/ FinishRun(t) \/ Canonicalize(t)
           \/ EndClusters(t) \/ Preload(t) \/ Unembed(t) \/ CascadeSuperseded(t)
           \/ RunStage(t) \/ Decay(t) \/ FetchRunIds(t)
  <2>1. graph' = graph
    BY <1>5 DEF StartRun, RefuseRun, FinishRun, Canonicalize, EndClusters, Preload,
                Unembed, CascadeSuperseded, RunStage, Decay, FetchRunIds, allVars,
                vars, stores
  <2>2. QED BY <1>1, <2>1
<1>6. QED BY <1>2, <1>3, <1>4, <1>5 DEF RunStep

\* A run that goes on about another await keeps its fact, or has just written it.
LEMMA RunPosition ==
  ASSUME RunTypeInv, NEW t \in Tasks, RunStep(t), run'[t].at \in AfterCanonical
  PROVE  \/ task'[t].fact \in Stored'
         \/ task'[t].fact = task[t].fact /\ run[t].at \in AfterCanonical
<1>1. /\ task[t] \in TaskType /\ run[t] \in RunType /\ RecShape(task[t], run[t])
      /\ task \in [Tasks -> TaskType] /\ run \in [Tasks -> RunType]
  BY RunRecord DEF RunTypeInv, RunTypeOK, TypeInv, TypeOK
<1>2. ASSUME NEW r, Go(t, r) PROVE r.at \in AfterCanonical
  BY <1>1, <1>2 DEF Go
<1>3. ~NextStage(t) /\ ~WriteBack(t)
  <2>1. ASSUME NEW stage, NEW at \in {"begin", "fetch"} PROVE ~Goto(t, stage, at)
    <3>1. [run[t] EXCEPT !.stage = stage, !.at = at].at = at BY <1>1 DEF RunType
    <3>2. QED BY <1>2, <3>1 DEF Goto, AfterCanonical
  <2>2. QED BY <2>1 DEF NextStage, WriteBack
<1>4. ~NextCluster(t)
  <2>1. [NotRunning EXCEPT !.stage = 2, !.at = "begin"].at = "begin"
    BY DEF NotRunning
  <2>2. QED BY <1>2, <2>1 DEF NextCluster, AfterCanonical
<1>5. CASE \/ StartRun(t) \/ FinishRun(t) \/ Canonicalize(t) \/ EndClusters(t)
           \/ RunStage(t) \/ Decay(t) \/ FetchRunIds(t) \/ ApplyFactUpserts(t)
  <2>1. [NotRunning EXCEPT !.stage = StageAfter(1), !.at = "begin"].at = "begin"
    BY DEF NotRunning
  <2>2. ~StartRun(t) BY <1>2, <2>1 DEF StartRun, AfterCanonical
  <2>3. ~FinishRun(t) BY <1>2 DEF FinishRun, NotRunning, AfterCanonical
  <2>4. \A M : [run[t] EXCEPT !.at = "canonical", !.members = M].at = "canonical"
    BY <1>1 DEF RunType
  <2>5. ~Canonicalize(t) BY <1>2, <2>4 DEF Canonicalize, AfterCanonical
  <2>6. [run[t] EXCEPT !.stage = run[t].stage, !.at = "upsert"].at = "upsert"
    BY <1>1 DEF RunType
  <2>7. ~FetchRunIds(t) BY <1>2, <2>6 DEF FetchRunIds, Goto, AfterCanonical
  <2>8. QED
    BY <1>3, <1>5, <2>2, <2>3, <2>5, <2>7
       DEF EndClusters, RunStage, Decay, ApplyFactUpserts
<1>6. CASE RefuseRun(t) BY <1>6 DEF RefuseRun, allVars, vars, runVars
<1>7. CASE StoreCanonical(t)
  <2>1. task[t].fact \in Facts /\ task[t].doc \in Docs \cup {None}
    BY <1>1, <1>7 DEF StoreCanonical, At, RecShape, TaskType
  <2>2. /\ AddDataPoints({task[t].fact}, Only(task[t].fact, FALSE), NodeId(t), "written")
        /\ UNCHANGED task
    BY <1>4, <1>7 DEF StoreCanonical
  <2>3. graph' = [f \in Facts |->
                   IF f \in {task[t].fact}
                   THEN [doc |-> NodeId(t)[f], archived |-> Only(task[t].fact, FALSE)[f]]
                   ELSE graph[f]]
    BY <2>2 DEF AddDataPoints
  <2>4. [doc |-> NodeId(t)[task[t].fact],
         archived |-> Only(task[t].fact, FALSE)[task[t].fact]] \in Node
    BY <2>1 DEF NodeId, Only, Node
  <2>5. graph'[task[t].fact] # None BY <2>1, <2>3, <2>4, NoneIsNoNode
  <2>6. QED BY <2>1, <2>2, <2>5 DEF Stored
<1>8. CASE Preload(t) \/ Archive(t) \/ Unembed(t) \/ CascadeSuperseded(t)
  <2>1. run[t].at \in AfterCanonical
    BY <1>8 DEF Preload, Archive, Unembed, CascadeSuperseded, At, AfterCanonical
  <2>2. task'[t].fact = task[t].fact
    <3>1. CASE Preload(t)
      <4>1. PICK ids : Become(t, [task[t] EXCEPT !.ids = ids]) BY <3>1 DEF Preload
      <4>2. [task[t] EXCEPT !.ids = ids].fact = task[t].fact BY <1>1 DEF TaskType
      <4>3. QED BY <1>1, <4>1, <4>2 DEF Become
    <3>2. CASE Archive(t)
      <4>1. PICK m : Become(t, [task[t] EXCEPT !.copies[m] = TRUE])
        BY <3>2 DEF Archive
      <4>2. [task[t] EXCEPT !.copies[m] = TRUE].fact = task[t].fact
        BY <1>1 DEF TaskType
      <4>3. QED BY <1>1, <4>1, <4>2 DEF Become
    <3>3. CASE Unembed(t) \/ CascadeSuperseded(t)
      BY <1>4, <3>3 DEF Unembed, CascadeSuperseded
    <3>4. QED BY <1>8, <3>1, <3>2, <3>3
  <2>3. QED BY <2>1, <2>2
<1>9. QED BY <1>5, <1>6, <1>7, <1>8 DEF RunStep

\* A step of a run is not a step of another one.
LEMMA RunFrame ==
  ASSUME RunTypeInv, NEW t \in Tasks, RunStep(t)
  PROVE  \A u \in Tasks \ {t} : task'[u] = task[u] /\ run'[u] = run[u]
<1>1. task \in [Tasks -> TaskType] /\ run \in [Tasks -> RunType]
  BY DEF RunTypeInv, RunTypeOK, TypeInv, TypeOK
<1>2. \/ UNCHANGED task \/ \E c : Become(t, c)
  BY DEF RunStep, StartRun, RefuseRun, FinishRun, Canonicalize, EndClusters,
         StoreCanonical, NextCluster, Preload, Archive, Unembed, CascadeSuperseded,
         RunStage, Decay, FetchRunIds, ApplyFactUpserts, End, allVars, vars
<1>3. \/ UNCHANGED run \/ \E r : Go(t, r)
  BY DEF RunStep, StartRun, RefuseRun, FinishRun, Canonicalize, EndClusters,
         StoreCanonical, NextCluster, Preload, Archive, Unembed, CascadeSuperseded,
         RunStage, Decay, FetchRunIds, ApplyFactUpserts, WriteBack, NextStage, Goto,
         allVars, runVars
<1>4. \A u \in Tasks \ {t} : task'[u] = task[u] BY <1>1, <1>2 DEF Become
<1>5. \A u \in Tasks \ {t} : run'[u] = run[u] BY <1>1, <1>3 DEF Go
<1>6. QED BY <1>4, <1>5

LEMMA RunCanonical ==
  ASSUME CanonicalInv, NEW t \in Tasks, RunStep(t), RunTypeInv'
  PROVE  CanonicalInv'
<1>1. SharedDisturbed' /\ disturbed \subseteq disturbed'
  BY RunShared DEF CanonicalInv
<1>2. Stored \subseteq Stored' BY RunStored DEF CanonicalInv
<1>3. ASSUME NEW u \in Tasks, run'[u].at \in AfterCanonical
      PROVE  task'[u].fact \in Stored' \cup disturbed'
  <2>1. CASE u # t
    BY <1>1, <1>2, <1>3, <2>1, RunFrame
       DEF CanonicalInv, CanonicalFirst, AfterCanonical
  <2>2. CASE u = t
    <3>1. \/ task'[t].fact \in Stored'
          \/ task'[t].fact = task[t].fact /\ run[t].at \in AfterCanonical
      BY <1>3, <2>2, RunPosition DEF CanonicalInv
    <3>2. QED
      BY <1>1, <1>2, <2>2, <3>1 DEF CanonicalInv, CanonicalFirst, AfterCanonical
  <2>3. QED BY <2>1, <2>2
<1>4. QED BY <1>1, <1>3 DEF CanonicalInv, CanonicalFirst, AfterCanonical

\* No member of a cluster is archived, and no document of one deleted, before
\* the canonical fact that stands for it is in the graph; it is still there,
\* unless a call that overlapped with the run on that very fact deleted it.
THEOREM CanonicalTheorem == RunSpec => []CanonicalFirst
<1>1. RunInit => CanonicalInv
  <2> SUFFICES ASSUME RunInit PROVE CanonicalInv
    OBVIOUS
  <2>1. RunTypeInv BY RunInitType
  <2>2. \A t \in Tasks : Held(t) = {}
    BY IdleHoldsNothing DEF RunInit, Init, Held
  <2>3. SharedDisturbed BY <2>2 DEF SharedDisturbed
  <2>4. CanonicalFirst BY DEF RunInit, CanonicalFirst, NotRunning
  <2>5. QED BY <2>1, <2>3, <2>4 DEF CanonicalInv
<1>2. CanonicalInv /\ [RunNext]_allVars => CanonicalInv'
  <2> SUFFICES ASSUME CanonicalInv, [RunNext]_allVars PROVE CanonicalInv'
    OBVIOUS
  <2>1. RunTypeInv' BY RunNextType DEF CanonicalInv
  <2>2. CASE UNCHANGED <<vars, run>>
    <3>1. SharedDisturbed' BY <2>2, SameHold DEF vars, history, CanonicalInv
    <3>2. CanonicalFirst'
      BY <2>2 DEF vars, stores, history, CanonicalInv, CanonicalFirst, Stored
    <3>3. QED BY <2>1, <3>1, <3>2 DEF CanonicalInv
  <2>3. CASE RestartAll
    <3>1. \A t \in Tasks : Held(t)' = {}
      BY <2>3, IdleHoldsNothing DEF RestartAll, Restart, Held
    <3>2. SharedDisturbed' BY <3>1 DEF SharedDisturbed
    <3>3. CanonicalFirst' BY <2>3 DEF RestartAll, CanonicalFirst, NotRunning
    <3>4. QED BY <2>1, <3>2, <3>3 DEF CanonicalInv
  <2>4. CASE LockExpires
    <3>1. UNCHANGED <<task, run, disturbed, graph>>
      BY <2>4 DEF LockExpires, stores
    <3>2. SharedDisturbed' BY <3>1, SameHold DEF CanonicalInv
    <3>3. CanonicalFirst' BY <3>1 DEF CanonicalInv, CanonicalFirst, Stored
    <3>4. QED BY <2>1, <3>2, <3>3 DEF CanonicalInv
  <2>5. ASSUME NEW t \in Tasks, RunStep(t) PROVE CanonicalInv'
    BY <2>1, <2>5, RunCanonical
  <2>6. ASSUME NEW t \in Tasks, FacadeStep(t), UNCHANGED runVars PROVE CanonicalInv'
    BY <2>6, FacadeCanonical
  <2>7. QED
    BY <2>2, <2>3, <2>4, <2>5, <2>6 DEF RunNext, allVars, runVars
<1>3. CanonicalInv => CanonicalFirst BY DEF CanonicalInv
<1>4. QED BY <1>1, <1>2, <1>3, PTL DEF RunSpec

=============================================================================
