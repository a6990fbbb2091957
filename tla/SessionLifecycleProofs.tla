----------------------- MODULE SessionLifecycleProofs -----------------------
(* Theorems about SessionLifecycle, for every set of tasks, calls and items *)
(* and every bound.                                                        *)
EXTENDS SessionLifecycle, TLAPS

------------------------------------------------------------------------------
(* What every step uses                                                    *)

TasksSound ==
  \A t \in Tasks : /\ WellPlaced(task[t]) /\ Holds(task[t])
                   /\ ~raced /\ task[t].old # None => Agrees(task[t])

LEMMA Bounds ==
  CompactAt \in Nat \ {0} /\ Reminder \in Nat \ {0} /\ MaxFaults \in Nat
<1>. QED BY ConstantsAssumption DEF ConstantsAssumption

LEMMA InvParts ==
  ASSUME IInv
  PROVE  /\ TypeOK
         /\ compactAt <= turns
         /\ ctx # None /\ ~raced => Told(ctx)
         /\ TasksSound
<1>. QED BY DEF IInv, TasksSound

LEMMA TaskOf ==
  ASSUME IInv, NEW t \in Tasks
  PROVE  /\ task[t] \in TaskType
         /\ WellPlaced(task[t])
         /\ Holds(task[t])
         /\ ~raced /\ task[t].old # None => Agrees(task[t])
<1>. QED BY InvParts DEF TypeOK, TasksSound

LEMMA IdleSound ==
  Idle \in TaskType /\ WellPlaced(Idle) /\ Holds(Idle) /\ Idle.old = None
<1>1. Idle \in TaskType
  <2>1. "idle" \in PCs
    BY DEF PCs
  <2>2. None \in Context \cup {None} /\ None \in (SUBSET Items) \cup {None}
    OBVIOUS
  <2>. QED BY <2>1, <2>2 DEF Idle, TaskType
<1>2. WellPlaced(Idle)
  BY DEF Idle, WellPlaced
<1>3. Holds(Idle)
  BY DEF Idle, Holds
<1>. QED BY <1>1, <1>2, <1>3 DEF Idle

LEMMA OutcomeType ==
  ASSUME TypeOK, NEW ok, ok \in BOOLEAN, Outcome(ok)
  PROVE  faults' \in 0..MaxFaults
<1>. QED BY Bounds DEF TypeOK, Outcome

LEMMA NewContextType == NewContext \in Context
<1>. QED BY DEF NewContext, Context

\* A step of t that leaves the context and the history as they are need only say
\* what has become of t.
LEMMA LocalStep ==
  ASSUME IInv, NEW t \in Tasks, NEW rec \in TaskType,
         task' = [task EXCEPT ![t] = rec], WellPlaced(rec), Holds(rec),
         ~raced /\ rec.old # None => Agrees(rec),
         UNCHANGED <<ctx, raced, counted>>,
         messages' \in 0..CompactAt + 1, snapshot' \in (SUBSET Items) \cup {None},
         rules' \in BOOLEAN, unruly' \in BOOLEAN, faults' \in 0..MaxFaults
  PROVE  IInv'
<1>1. /\ ctx' = ctx /\ raced' = raced /\ turns' = turns /\ compacted' = compacted
      /\ compactAt' = compactAt /\ goalAt' = goalAt /\ unshown' = unshown
  BY DEF counted
<1>2. TypeOK'
  BY <1>1, InvParts DEF TypeOK
<1>3. \A x : Agrees(x)' <=> Agrees(x)
  BY <1>1 DEF Agrees, Told, Forgets, Reached
<1>4. Told(ctx)' <=> Told(ctx)
  BY <1>1 DEF Told, Forgets, Reached
<1>5. \A u \in Tasks : task'[u] = IF u = t THEN rec ELSE task[u]
  BY InvParts DEF TypeOK
<1>6. ASSUME NEW u \in Tasks
      PROVE  (/\ WellPlaced(task[u]) /\ Holds(task[u])
              /\ ~raced /\ task[u].old # None => Agrees(task[u]))'
  <2>1. PICK x : x = task'[u]
    OBVIOUS
  <2>2. WellPlaced(x) /\ Holds(x) /\ (~raced /\ x.old # None => Agrees(x))
    <3>1. CASE u = t
      BY <3>1, <2>1, <1>5
    <3>2. CASE u # t
      BY <3>2, <2>1, <1>5, TaskOf
    <3>. QED BY <3>1, <3>2
  <2>3. ~raced' /\ x.old # None => Agrees(x)'
    BY <2>2, <1>1, <1>3
  <2>4. (~raced /\ task[u].old # None => Agrees(task[u]))'
    BY <2>1, <2>3 DEF Agrees, Told, Forgets, Reached
  <2>. QED BY <2>1, <2>2, <2>4 DEF WellPlaced, Holds
<1>7. compactAt' <= turns' /\ (ctx' # None /\ ~raced' => Told(ctx)')
  BY <1>1, <1>4, InvParts
<1>. QED BY <1>2, <1>6, <1>7 DEF IInv

\* A step of t that writes the context: either some other handler holds a copy,
\* and the write is a race, or t is the only one in flight.
LEMMA WrittenStep ==
  ASSUME IInv, NEW t \in Tasks, NEW rec \in TaskType,
         task' = [task EXCEPT ![t] = rec], WellPlaced(rec), Holds(rec),
         ~raced' /\ rec.old # None => rec.pc = "after_save",
         raced' \in BOOLEAN, raced' \/ Others(t) = {},
         ctx' \in Context \cup {None},
         ctx' # None /\ ~raced' => Told(ctx)',
         UNCHANGED <<messages, snapshot>>,
         rules' \in BOOLEAN, unruly' \in BOOLEAN, unshown' \in BOOLEAN,
         faults' \in 0..MaxFaults,
         turns' \in Nat, compacted' \in Nat, compactAt' \in Nat,
         compactAt' <= turns', goalAt' \in Nat \cup {-1}
  PROVE  IInv'
<1>1. TypeOK'
  BY InvParts DEF TypeOK
<1>2. \A u \in Tasks : task'[u] = IF u = t THEN rec ELSE task[u]
  BY InvParts DEF TypeOK
<1>3. ASSUME NEW u \in Tasks
      PROVE  (/\ WellPlaced(task[u]) /\ Holds(task[u])
              /\ ~raced /\ task[u].old # None => Agrees(task[u]))'
  <2>1. PICK x : x = task'[u]
    OBVIOUS
  <2>2. WellPlaced(x) /\ Holds(x) /\ (~raced' /\ x.old # None => x.pc = "after_save")
    <3>1. CASE u = t
      BY <3>1, <2>1, <1>2
    <3>2. CASE u # t
      <4>1. x = task[u]
        BY <3>2, <2>1, <1>2
      <4>2. ASSUME ~raced'
            PROVE  x.old = None
        <5>1. task[u].pc = "idle"
          BY <4>2, <3>2 DEF Others
        <5>. QED BY <4>1, <5>1, TaskOf, IdleSound DEF WellPlaced
      <4>. QED BY <4>1, <4>2, TaskOf
    <3>. QED BY <3>1, <3>2
  <2>3. (~raced /\ task[u].old # None => Agrees(task[u]))'
    BY <2>1, <2>2 DEF Agrees
  <2>. QED BY <2>1, <2>2, <2>3 DEF WellPlaced, Holds
<1>. QED BY <1>1, <1>3 DEF IInv

------------------------------------------------------------------------------
(* The steps that read the context                                         *)

LEMMA InitSound == ASSUME Init PROVE IInv
<1>1. TypeOK
  <2>1. task \in [Tasks -> TaskType]
    BY IdleSound DEF Init
  <2>2. messages \in 0..CompactAt + 1 /\ faults \in 0..MaxFaults
    BY Bounds DEF Init
  <2>3. {turns, compacted, compactAt} \subseteq Nat /\ goalAt \in Nat \cup {-1}
    BY DEF Init
  <2>4. ctx \in Context \cup {None} /\ snapshot \in (SUBSET Items) \cup {None}
    BY DEF Init
  <2>5. rules \in BOOLEAN /\ raced \in BOOLEAN /\ unruly \in BOOLEAN /\ unshown \in BOOLEAN
    BY DEF Init
  <2>. QED BY <2>1, <2>2, <2>3, <2>4, <2>5 DEF TypeOK
<1>2. \A t \in Tasks : task[t] = Idle
  BY DEF Init
<1>3. \A t \in Tasks : WellPlaced(task[t]) /\ Holds(task[t]) /\ task[t].old = None
  BY <1>2, IdleSound
<1>. QED BY <1>1, <1>3 DEF Init, IInv

\* The state but for the tasks, where a step leaves it alone.
LEMMA SameRest ==
  ASSUME IInv
  PROVE  /\ messages \in 0..CompactAt + 1 /\ snapshot \in (SUBSET Items) \cup {None}
         /\ rules \in BOOLEAN /\ raced \in BOOLEAN /\ unruly \in BOOLEAN
         /\ unshown \in BOOLEAN /\ faults \in 0..MaxFaults
         /\ turns \in Nat /\ compacted \in Nat /\ compactAt \in Nat /\ compactAt <= turns
         /\ goalAt \in Nat \cup {-1} /\ ctx \in Context \cup {None}
<1>. QED BY InvParts DEF TypeOK

LEMMA BeginSound == ASSUME IInv, NEW t \in Tasks, Begin(t) PROVE IInv'
<1>1. PICK op \in Handlers : Become(t, [Idle EXCEPT !.op = op, !.pc = "load"])
  BY DEF Begin
<1>2. PICK rec : rec = [Idle EXCEPT !.op = op, !.pc = "load"]
  OBVIOUS
<1>3. rec \in TaskType
  BY <1>2, IdleSound DEF TaskType, Handlers, AllCalls, PCs
<1>4. WellPlaced(rec) /\ Holds(rec) /\ rec.old = None
  BY <1>2 DEF Idle, WellPlaced, Holds, Handlers
<1>5. task' = [task EXCEPT ![t] = rec]
  BY <1>1, <1>2 DEF Become
<1>. QED BY <1>3, <1>4, <1>5, SameRest, LocalStep DEF Begin, redis, counted

\* What a handler does with a context it found, and that it may.
LEMMA ProceedSound ==
  ASSUME IInv, NEW t \in Tasks, NEW found \in Context \cup {None},
         task[t].pc \in {"load", "reload"},
         task[t].op \in {"ingest", "assemble", "compact", "after_turn", "window",
                         "nested_ingest"},
         found = None => task[t].op \in {"ingest", "nested_ingest"},
         ~raced /\ found # None => Told(found),
         Proceed(t, found)
  PROVE  \E rec \in TaskType :
           /\ task' = [task EXCEPT ![t] = rec] /\ WellPlaced(rec) /\ Holds(rec)
           /\ ~raced /\ rec.old # None => Agrees(rec)
<1>1. PICK x : x = task[t]
  OBVIOUS
<1>2. x \in TaskType /\ WellPlaced(x) /\ Holds(x) /\ (~raced /\ x.old # None => Agrees(x))
  BY <1>1, TaskOf
<1>3. ASSUME NEW pc \in {"push", "working_set", "engine", "messages", "save", "turn"},
             NEW rec, rec = [x EXCEPT !.old = found, !.pc = pc],
             \/ x.op = "ingest" /\ pc = "push"
             \/ x.op = "assemble" /\ pc = "working_set"
             \/ x.op = "compact" /\ pc \in {"engine", "messages"}
             \/ x.op = "window" /\ pc = "save"
             \/ x.op = "after_turn" /\ pc = "turn"
      PROVE  /\ rec \in TaskType /\ WellPlaced(rec) /\ Holds(rec)
             /\ ~raced /\ rec.old # None => Agrees(rec)
  <2>1. rec \in TaskType
    BY <1>2, <1>3 DEF TaskType, PCs
  <2>2. rec.pc = pc /\ rec.op = x.op /\ rec.old = found /\ rec.back = x.back /\ rec.did = x.did
    BY <1>2, <1>3 DEF TaskType
  <2>3. x.did \notin {"left_out", "shown", "lost", "unread", "compacted"}
    BY <1>1, <1>2 DEF Holds
  <2>4. WellPlaced(rec)
    BY <1>1, <1>2, <1>3, <2>2 DEF WellPlaced
  <2>5. Holds(rec)
    <3>1. x.back # "nested_ingest"
      BY <1>2, <1>3 DEF WellPlaced
    <3>. QED BY <1>3, <1>1, <2>2, <2>3, <3>1 DEF Holds
  <2>6. ~raced /\ found # None => Agrees(rec)
    BY <1>3, <2>2 DEF Agrees
  <2>. QED BY <2>1, <2>2, <2>4, <2>5, <2>6
<1>4. CASE x.op = "nested_ingest"
  <2>1. PICK rec : rec = [x EXCEPT !.pc = "push"]
    OBVIOUS
  <2>2. task' = [task EXCEPT ![t] = rec]
    BY <1>1, <1>4, <2>1 DEF Proceed, Goto, Become
  <2>3. rec \in TaskType /\ rec.pc = "push" /\ rec.op = x.op /\ rec.old = x.old
        /\ rec.back = x.back /\ rec.did = x.did
    BY <1>2, <2>1 DEF TaskType, PCs
  <2>4. WellPlaced(rec) /\ Holds(rec)
    BY <1>1, <1>2, <1>4, <2>3 DEF WellPlaced, Holds
  <2>5. ~raced /\ rec.old # None => Agrees(rec)
    BY <1>1, <1>2, <1>4, <2>3 DEF Agrees
  <2>. QED BY <2>2, <2>3, <2>4, <2>5
<1>5. CASE x.op = "after_turn" /\ Become(t, [x EXCEPT !.old = found, !.op = "nested_ingest"])
  <2>1. PICK rec : rec = [x EXCEPT !.old = found, !.op = "nested_ingest"]
    OBVIOUS
  <2>2. task' = [task EXCEPT ![t] = rec]
    BY <1>5, <2>1 DEF Become
  <2>3. rec \in TaskType /\ rec.pc = x.pc /\ rec.op = "nested_ingest" /\ rec.old = found
        /\ rec.back = x.back /\ rec.did = x.did
    BY <1>2, <2>1 DEF TaskType
  <2>4. WellPlaced(rec) /\ Holds(rec)
    BY <1>1, <1>2, <1>5, <2>3 DEF WellPlaced, Holds
  <2>5. ~raced /\ rec.old # None => Agrees(rec)
    BY <1>1, <2>3 DEF Agrees
  <2>. QED BY <2>2, <2>3, <2>4, <2>5
<1>6. CASE ~(x.op = "nested_ingest")
           /\ ~(x.op = "after_turn" /\ Become(t, [x EXCEPT !.old = found, !.op = "nested_ingest"]))
  <2>1. PICK pc \in {"push", "working_set", "engine", "messages", "save", "turn"} :
          /\ Become(t, [x EXCEPT !.old = found, !.pc = pc])
          /\ \/ x.op = "ingest" /\ pc = "push"
             \/ x.op = "assemble" /\ pc = "working_set"
             \/ x.op = "compact" /\ pc \in {"engine", "messages"}
             \/ x.op = "window" /\ pc = "save"
             \/ x.op = "after_turn" /\ pc = "turn"
    <3>1. CASE x.op = "ingest"
      BY <3>1, <1>1 DEF Proceed, Become
    <3>2. CASE x.op = "assemble"
      BY <3>2, <1>1 DEF Proceed, Become
    <3>3. CASE x.op = "compact"
      BY <3>3, <1>1 DEF Proceed, Become
    <3>4. CASE x.op = "window"
      BY <3>4, <1>1 DEF Proceed, Become
    <3>5. CASE x.op = "after_turn"
      BY <3>5, <1>1, <1>6 DEF Proceed, Become
    <3>. QED BY <3>1, <3>2, <3>3, <3>4, <3>5, <1>1, <1>6
  <2>2. PICK rec : rec = [x EXCEPT !.old = found, !.pc = pc]
    OBVIOUS
  <2>3. /\ rec \in TaskType /\ WellPlaced(rec) /\ Holds(rec)
        /\ ~raced /\ rec.old # None => Agrees(rec)
    BY <1>3, <2>1, <2>2
  <2>. QED BY <2>1, <2>2, <2>3 DEF Become
<1>. QED BY <1>4, <1>5, <1>6

\* A task record that is only moved to another step or caller.
LEMMA LoadSound == ASSUME IInv, NEW t \in Tasks, Load(t) PROVE IInv'
<1>1. PICK ok \in BOOLEAN :
        LET found == IF ok THEN ctx ELSE None
        IN /\ Outcome(ok)
           /\ CASE task[t].op = "bootstrap" /\ found # None -> Back(t)
                [] task[t].op = "bootstrap" /\ found = None ->
                     Become(t, [task[t] EXCEPT !.pc = "boot_rules", !.blind = ~ok])
                [] OTHER -> IF found = None THEN AutoBootstrap(t) ELSE Proceed(t, found)
  BY DEF Load
<1>2. PICK found : found = IF ok THEN ctx ELSE None
  OBVIOUS
<1>3. found \in Context \cup {None} /\ (~raced /\ found # None => Told(found))
  BY <1>2, SameRest, InvParts
<1>4. PICK x : x = task[t]
  OBVIOUS
<1>5. x \in TaskType /\ WellPlaced(x) /\ Holds(x) /\ (~raced /\ x.old # None => Agrees(x))
  BY <1>4, TaskOf
<1>6. x.pc = "load" /\ x.op \in Handlers \cup {"nested_ingest"}
  BY <1>4, <1>5 DEF Load, WellPlaced
<1>7. x.did \notin {"left_out", "shown", "lost", "unread", "compacted"}
  BY <1>5, <1>6 DEF Holds
<1>8. \E rec \in TaskType :
        /\ task' = [task EXCEPT ![t] = rec] /\ WellPlaced(rec) /\ Holds(rec)
        /\ ~raced /\ rec.old # None => Agrees(rec)
  <2>1. CASE x.op = "bootstrap" /\ found # None
    <3>1. Back(t)
      BY <1>1, <1>2, <1>4, <2>1
    <3>2. CASE x.back = "none"
      BY <3>1, <3>2, <1>4, IdleSound DEF Back, End, Become
    <3>3. CASE x.back # "none"
      <4>1. PICK rec : rec = [x EXCEPT !.op = x.back, !.back = "none",
                                !.pc = "reload", !.blind = FALSE]
        OBVIOUS
      <4>2. task' = [task EXCEPT ![t] = rec]
        BY <3>1, <3>3, <1>4, <4>1 DEF Back, Become
      <4>3. /\ rec.pc = "reload" /\ rec.op = x.back /\ rec.old = x.old /\ rec.did = x.did
            /\ rec.back = "none" /\ x.back \in {"ingest", "assemble", "nested_ingest"}
        BY <1>5, <4>1, <3>3, <2>1 DEF TaskType, WellPlaced
      <4>4. rec \in TaskType
        BY <1>5, <4>1, <4>3 DEF TaskType, PCs, AllCalls
      <4>5. WellPlaced(rec) /\ Holds(rec)
        BY <4>3, <1>5, <1>7, <2>1 DEF WellPlaced, Holds
      <4>6. ~raced /\ rec.old # None => Agrees(rec)
        BY <4>3, <1>5, <1>6, <2>1 DEF Agrees
      <4>. QED BY <4>2, <4>4, <4>5, <4>6
    <3>. QED BY <3>2, <3>3
  <2>2. CASE x.op = "bootstrap" /\ found = None
    <3>1. PICK rec : rec = [x EXCEPT !.pc = "boot_rules", !.blind = ~ok]
      OBVIOUS
    <3>2. task' = [task EXCEPT ![t] = rec]
      BY <1>1, <1>2, <1>4, <2>2, <3>1 DEF Become
    <3>3. /\ rec.pc = "boot_rules" /\ rec.op = x.op /\ rec.old = x.old /\ rec.did = x.did
          /\ rec.back = x.back
      BY <1>5, <3>1 DEF TaskType
    <3>4. rec \in TaskType
      BY <1>5, <3>1 DEF TaskType, PCs
    <3>5. WellPlaced(rec) /\ Holds(rec)
      BY <3>3, <1>5, <1>7, <2>2 DEF WellPlaced, Holds
    <3>6. ~raced /\ rec.old # None => Agrees(rec)
      BY <3>3, <1>5, <1>6, <2>2 DEF Agrees
    <3>. QED BY <3>2, <3>4, <3>5, <3>6
  <2>3. CASE x.op # "bootstrap" /\ found = None
    <3>1. AutoBootstrap(t)
      BY <1>1, <1>2, <1>4, <2>3
    <3>2. CASE x.op \in {"ingest", "assemble", "nested_ingest"}
      <4>1. PICK rec : rec = [x EXCEPT !.op = "bootstrap", !.back = x.op]
        OBVIOUS
      <4>2. task' = [task EXCEPT ![t] = rec]
        BY <3>1, <3>2, <1>4, <4>1 DEF AutoBootstrap, Become
      <4>3. /\ rec.pc = "load" /\ rec.op = "bootstrap" /\ rec.old = x.old /\ rec.did = x.did
            /\ rec.back = x.op
        BY <1>5, <1>6, <4>1 DEF TaskType
      <4>4. rec \in TaskType
        BY <1>5, <3>2, <4>1 DEF TaskType, AllCalls
      <4>5. x.op # "nested_ingest" => x.old = None
        BY <3>2, <1>5, <1>6 DEF Holds, WellPlaced
      <4>6. WellPlaced(rec) /\ Holds(rec)
        BY <4>3, <4>5, <1>5, <1>7, <3>2 DEF WellPlaced, Holds, Handlers
      <4>7. ~raced /\ rec.old # None => Agrees(rec)
        BY <4>3, <1>5, <1>6, <2>3 DEF Agrees
      <4>. QED BY <4>2, <4>4, <4>6, <4>7
    <3>3. CASE x.op \notin {"ingest", "assemble", "nested_ingest"}
      BY <3>1, <3>3, <1>4, IdleSound DEF AutoBootstrap, End, Become
    <3>. QED BY <3>2, <3>3
  <2>4. CASE x.op # "bootstrap" /\ found # None
    <3>1. Proceed(t, found)
      BY <1>1, <1>2, <1>4, <2>4
    <3>. QED BY <3>1, <1>3, <1>4, <1>6, <2>4, ProceedSound DEF Handlers
  <2>. QED BY <2>1, <2>2, <2>3, <2>4
<1>9. faults' \in 0..MaxFaults
  BY <1>1, InvParts, OutcomeType
<1>. QED BY <1>8, <1>9, SameRest, LocalStep DEF Load, redis, counted

LEMMA ReloadSound == ASSUME IInv, NEW t \in Tasks, Reload(t) PROVE IInv'
<1>1. PICK ok \in BOOLEAN :
        LET found == IF ok THEN ctx ELSE None
        IN /\ Outcome(ok)
           /\ IF task[t].op = "assemble" /\ found = None THEN End(t) ELSE Proceed(t, found)
  BY DEF Reload
<1>2. PICK found : found = IF ok THEN ctx ELSE None
  OBVIOUS
<1>3. found \in Context \cup {None} /\ (~raced /\ found # None => Told(found))
  BY <1>2, SameRest, InvParts
<1>4. task[t].pc = "reload" /\ task[t].op \in {"ingest", "assemble", "nested_ingest"}
  BY TaskOf DEF Reload, WellPlaced
<1>5. \E rec \in TaskType :
        /\ task' = [task EXCEPT ![t] = rec] /\ WellPlaced(rec) /\ Holds(rec)
        /\ ~raced /\ rec.old # None => Agrees(rec)
  <2>1. CASE task[t].op = "assemble" /\ found = None
    BY <1>1, <1>2, <2>1, IdleSound DEF End, Become
  <2>2. CASE ~(task[t].op = "assemble" /\ found = None)
    <3>1. Proceed(t, found)
      BY <1>1, <1>2, <2>2
    <3>. QED BY <3>1, <1>3, <1>4, <2>2, ProceedSound
  <2>. QED BY <2>1, <2>2
<1>6. faults' \in 0..MaxFaults
  BY <1>1, InvParts, OutcomeType
<1>. QED BY <1>5, <1>6, SameRest, LocalStep DEF Reload, redis, counted

------------------------------------------------------------------------------
(* The steps that only move a handler on                                   *)

LEMMA BootRulesSound == ASSUME IInv, NEW t \in Tasks, BootRules(t) PROVE IInv'
<1>1. PICK ok \in BOOLEAN : Outcome(ok) /\ rules' = (rules \/ ok) /\ unruly' = ~rules'
  BY DEF BootRules
<1>2. PICK x : x = task[t]
  OBVIOUS
<1>3. x \in TaskType /\ WellPlaced(x) /\ Holds(x) /\ (~raced /\ x.old # None => Agrees(x))
  BY <1>2, TaskOf
<1>4. x.pc = "boot_rules"
  BY <1>2 DEF BootRules
<1>5. PICK rec : rec = [x EXCEPT !.pc = "boot_save"]
  OBVIOUS
<1>6. task' = [task EXCEPT ![t] = rec]
  BY <1>2, <1>5 DEF BootRules, Goto, Become
<1>7. /\ rec \in TaskType /\ rec.pc = "boot_save" /\ rec.op = x.op /\ rec.back = x.back
      /\ rec.old = x.old /\ rec.did = x.did
  BY <1>3, <1>5 DEF TaskType, PCs
<1>8. WellPlaced(rec) /\ Holds(rec)
  BY <1>3, <1>4, <1>7 DEF WellPlaced, Holds
<1>9. ~raced /\ rec.old # None => Agrees(rec)
  BY <1>3, <1>4, <1>7 DEF Agrees
<1>10. faults' \in 0..MaxFaults
  BY <1>1, InvParts, OutcomeType
<1>11. rules' \in BOOLEAN /\ unruly' \in BOOLEAN
  BY <1>1, SameRest
<1>. QED BY <1>6, <1>7, <1>8, <1>9, <1>10, <1>11, SameRest, LocalStep
         DEF BootRules, redis, counted

LEMMA RefreshSound == ASSUME IInv, NEW t \in Tasks, RefreshRules(t) PROVE IInv'
<1>1. PICK ok \in BOOLEAN : Outcome(ok) /\ rules' = (rules \/ ok)
  BY DEF RefreshRules
<1>2. faults' \in 0..MaxFaults /\ rules' \in BOOLEAN
  BY <1>1, InvParts, OutcomeType, SameRest
<1>3. task' = [task EXCEPT ![t] = task[t]]
  BY InvParts DEF RefreshRules, TypeOK
<1>. QED BY <1>2, <1>3, TaskOf, SameRest, LocalStep DEF RefreshRules, redis, counted

LEMMA PushSound == ASSUME IInv, NEW t \in Tasks, Push(t) PROVE IInv'
<1>1. PICK ok \in BOOLEAN :
        Outcome(ok) /\ messages' = IF ok /\ messages <= CompactAt THEN messages + 1 ELSE messages
  BY DEF Push
<1>2. faults' \in 0..MaxFaults
  BY <1>1, InvParts, OutcomeType
<1>3. messages' \in 0..CompactAt + 1
  BY <1>1, SameRest, Bounds
<1>4. PICK x : x = task[t]
  OBVIOUS
<1>5. x \in TaskType /\ WellPlaced(x) /\ Holds(x) /\ (~raced /\ x.old # None => Agrees(x))
  BY <1>4, TaskOf
<1>6. x.pc = "push" /\ x.op \in {"ingest", "nested_ingest"}
  BY <1>4, <1>5 DEF Push, WellPlaced
<1>7. \E rec \in TaskType :
        /\ task' = [task EXCEPT ![t] = rec] /\ WellPlaced(rec) /\ Holds(rec)
        /\ ~raced /\ rec.old # None => Agrees(rec)
  <2>1. CASE x.op = "nested_ingest"
    <3>1. PICK rec : rec = [x EXCEPT !.op = "after_turn", !.pc = "turn"]
      OBVIOUS
    <3>2. task' = [task EXCEPT ![t] = rec]
      BY <1>4, <2>1, <3>1 DEF Push, Become
    <3>3. /\ rec \in TaskType /\ rec.pc = "turn" /\ rec.op = "after_turn"
          /\ rec.back = x.back /\ rec.old = x.old /\ rec.did = x.did
      BY <1>5, <3>1 DEF TaskType, PCs, AllCalls
    <3>4. WellPlaced(rec) /\ Holds(rec)
      BY <3>3, <1>5, <1>6, <2>1 DEF WellPlaced, Holds
    <3>5. ~raced /\ rec.old # None => Agrees(rec)
      BY <3>3, <1>5, <1>6, <2>1 DEF Agrees
    <3>. QED BY <3>2, <3>3, <3>4, <3>5
  <2>2. CASE x.op # "nested_ingest" /\ x.old = None
    BY <2>2, <1>4, IdleSound DEF Push, End, Become
  <2>3. CASE x.op # "nested_ingest" /\ x.old # None
    <3>1. PICK rec : rec = [x EXCEPT !.pc = "save"]
      OBVIOUS
    <3>2. task' = [task EXCEPT ![t] = rec]
      BY <1>4, <2>3, <3>1 DEF Push, Goto, Become
    <3>3. /\ rec \in TaskType /\ rec.pc = "save" /\ rec.op = x.op
          /\ rec.back = x.back /\ rec.old = x.old /\ rec.did = x.did
      BY <1>5, <3>1 DEF TaskType, PCs
    <3>4. WellPlaced(rec) /\ Holds(rec)
      BY <3>3, <1>5, <1>6, <2>3 DEF WellPlaced, Holds
    <3>5. ~raced /\ rec.old # None => Agrees(rec)
      BY <3>3, <1>5, <1>6, <2>3 DEF Agrees
    <3>. QED BY <3>2, <3>3, <3>4, <3>5
  <2>. QED BY <2>1, <2>2, <2>3
<1>. QED BY <1>2, <1>3, <1>7, SameRest, LocalStep DEF Push, redis, counted

LEMMA BuildSound == ASSUME IInv, NEW t \in Tasks, BuildWorkingSet(t) PROVE IInv'
<1>1. PICK items \in (SUBSET Items) \cup {None} :
        /\ Outcome(items # None)
        /\ Become(t, [task[t] EXCEPT !.pc = "show", !.items = items])
  BY DEF BuildWorkingSet
<1>2. faults' \in 0..MaxFaults
  BY <1>1, InvParts, OutcomeType
<1>3. PICK x : x = task[t]
  OBVIOUS
<1>4. /\ x \in TaskType /\ WellPlaced(x) /\ Holds(x) /\ (~raced /\ x.old # None => Agrees(x))
      /\ x.pc = "working_set"
  BY <1>3, TaskOf DEF BuildWorkingSet
<1>5. PICK rec : rec = [x EXCEPT !.pc = "show", !.items = items]
  OBVIOUS
<1>6. task' = [task EXCEPT ![t] = rec]
  BY <1>1, <1>3, <1>5 DEF Become
<1>7. /\ rec \in TaskType /\ rec.pc = "show" /\ rec.op = x.op /\ rec.back = x.back
      /\ rec.old = x.old /\ rec.did = x.did
  BY <1>4, <1>5 DEF TaskType, PCs
<1>8. WellPlaced(rec) /\ Holds(rec)
  BY <1>4, <1>7 DEF WellPlaced, Holds
<1>9. ~raced /\ rec.old # None => Agrees(rec)
  BY <1>4, <1>7 DEF Agrees
<1>. QED BY <1>2, <1>6, <1>7, <1>8, <1>9, SameRest, LocalStep
         DEF BuildWorkingSet, redis, counted

LEMMA ShowSound == ASSUME IInv, NEW t \in Tasks, Show(t) PROVE IInv'
<1>1. PICK x : x = task[t]
  OBVIOUS
<1>2. /\ x \in TaskType /\ WellPlaced(x) /\ Holds(x) /\ (~raced /\ x.old # None => Agrees(x))
      /\ x.pc = "show" /\ x.op = "assemble"
  BY <1>1, TaskOf DEF Show, WellPlaced
<1>3. x.old \in Context /\ x.items \in (SUBSET Items) \cup {None}
  BY <1>2 DEF Holds, TaskType
<1>a. PICK pressing, read, built, cached \in BOOLEAN :
       LET old    == task[t].old
           items  == task[t].items
           due    == read /\ Due(old, pressing)
           noted  == [old EXCEPT !.goal = IF due THEN old.turn ELSE @]
       IN /\ Outcome(read /\ built /\ cached)
          /\ snapshot' = IF items # None /\ cached THEN items ELSE snapshot
          /\ Become(t, [task[t] EXCEPT !.pc = "save",
               !.old = IF items = None THEN noted
                       ELSE [noted EXCEPT !.shown = Injected(old, items), !.snap = TRUE],
               !.did = CASE ~read -> "unread"
                         [] read /\ ~due -> "left_out"
                         [] due /\ items # None /\ built -> "shown"
                         [] OTHER -> "lost"])
  BY DEF Show
<1>b. PICK due \in BOOLEAN : due = (read /\ Due(x.old, pressing))
  OBVIOUS
<1>c. PICK noted : noted = [x.old EXCEPT !.goal = IF due THEN x.old.turn ELSE @]
  OBVIOUS
<1>d. PICK old : old = IF x.items = None THEN noted
                       ELSE [noted EXCEPT !.shown = Injected(x.old, x.items), !.snap = TRUE]
  OBVIOUS
<1>e. PICK did : did = CASE ~read -> "unread"
                         [] read /\ ~due -> "left_out"
                         [] due /\ x.items # None /\ built -> "shown"
                         [] OTHER -> "lost"
  OBVIOUS
<1>f. PICK rec : rec = [x EXCEPT !.pc = "save", !.old = old, !.did = did]
  OBVIOUS
<1>4. /\ Outcome(read /\ built /\ cached)
      /\ snapshot' = IF x.items # None /\ cached THEN x.items ELSE snapshot
      /\ task' = [task EXCEPT ![t] = rec]
  BY <1>1, <1>a, <1>b, <1>c, <1>d, <1>e, <1>f DEF Become
<1>5. faults' \in 0..MaxFaults
  BY <1>4, InvParts, OutcomeType
<1>6. snapshot' \in (SUBSET Items) \cup {None}
  BY <1>3, <1>4, SameRest
<1>7. /\ noted \in Context /\ noted.turn = x.old.turn /\ noted.compacts = x.old.compacts
      /\ noted.shown = x.old.shown /\ noted.goal = IF due THEN x.old.turn ELSE x.old.goal
  BY <1>3, <1>c DEF Context
<1>8. Injected(x.old, x.items) \in [Items -> Nat \cup {-1}]
  BY <1>3 DEF Injected, Context
<1>9. /\ old \in Context /\ old.turn = x.old.turn /\ old.compacts = x.old.compacts
      /\ old.goal = noted.goal
      /\ old.shown = IF x.items = None THEN x.old.shown ELSE Injected(x.old, x.items)
  BY <1>d, <1>7, <1>8 DEF Context
<1>10. did \in {"left_out", "shown", "lost", "unread"}
  BY <1>e
<1>11. /\ rec \in TaskType /\ rec.pc = "save" /\ rec.op = x.op /\ rec.back = x.back
       /\ rec.old = old /\ rec.did = did
  BY <1>2, <1>f, <1>9, <1>10 DEF TaskType, PCs
<1>12. WellPlaced(rec) /\ Holds(rec)
  BY <1>2, <1>9, <1>10, <1>11, NoneAssumption DEF WellPlaced, Holds
<1>13. ASSUME ~raced PROVE Agrees(rec)
  <2>1. Told(x.old)
    BY <1>2, <1>13, <1>3, NoneAssumption DEF Agrees
  <2>2. turns \in Nat /\ compactAt \in Nat /\ compactAt <= turns
    BY SameRest
  <2>3. old.turn = turns /\ old.compacts = compacted
    BY <2>1, <1>9 DEF Told
  <2>4. Forgets(old)
    <3>1. ASSUME NEW i \in Items, old.shown[i] # -1
          PROVE  old.shown[i] >= compactAt
      <4>1. old.shown[i] \in {x.old.shown[i], x.old.turn}
        BY <1>9 DEF Injected
      <4>. QED BY <4>1, <3>1, <2>1, <2>2 DEF Told, Forgets
    <3>2. old.goal # -1 => old.goal >= compactAt
      BY <1>7, <1>9, <2>1, <2>2 DEF Told, Forgets
    <3>. QED BY <3>1, <3>2 DEF Forgets
  <2>5. did = "shown" => old.goal = turns
    BY <1>e, <1>7, <1>9, <2>1 DEF Told
  <2>6. did \in {"left_out", "unread"} => ~due
    BY <1>b, <1>e
  <2>7. did \in {"left_out", "unread"} => Reached(old)
    BY <2>6, <1>7, <1>9, <2>1 DEF Told, Reached
  <2>8. did = "left_out" => old.goal # -1 /\ turns - old.goal < Reminder
    <3>1. SUFFICES ASSUME did = "left_out"
                   PROVE  old.goal # -1 /\ turns - old.goal < Reminder
      OBVIOUS
    <3>2. old.goal = x.old.goal /\ x.old.turn = turns
      BY <3>1, <2>6, <1>7, <1>9, <2>1 DEF Told
    <3>3. ~Due(x.old, pressing)
      BY <3>1, <1>b, <1>e
    <3>4. x.old.goal \in Nat \cup {-1}
      BY <1>3 DEF Context
    <3>. QED BY <3>2, <3>3, <3>4, <2>2, Bounds DEF Due
  <2>. QED BY <2>3, <2>4, <2>5, <2>7, <2>8, <1>2, <1>11 DEF Agrees
<1>. QED BY <1>4, <1>5, <1>6, <1>11, <1>12, <1>13, SameRest, LocalStep
         DEF Show, redis, counted

LEMMA CountSound == ASSUME IInv, NEW t \in Tasks, CountTurn(t) PROVE IInv'
<1>1. PICK x : x = task[t]
  OBVIOUS
<1>2. /\ x \in TaskType /\ WellPlaced(x) /\ Holds(x) /\ (~raced /\ x.old # None => Agrees(x))
      /\ x.pc = "turn" /\ x.op = "after_turn"
  BY <1>1, TaskOf DEF CountTurn, At
<1>3. x.old \in Context
  BY <1>2 DEF Holds, TaskType
<1>4. PICK ok \in BOOLEAN :
        /\ Outcome(ok)
        /\ Become(t, [task[t] EXCEPT !.pc = "save", !.old.turn = @ + 1,
                        !.items = IF ok /\ task[t].old.snap THEN snapshot ELSE None])
  BY DEF CountTurn
<1>5. PICK items : items = IF ok /\ x.old.snap THEN snapshot ELSE None
  OBVIOUS
<1>6. PICK old : old = [x.old EXCEPT !.turn = @ + 1]
  OBVIOUS
<1>7. PICK rec : rec = [x EXCEPT !.pc = "save", !.old = old, !.items = items]
  OBVIOUS
<1>8. task' = [task EXCEPT ![t] = rec]
  BY <1>1, <1>2, <1>4, <1>5, <1>6, <1>7 DEF Become, TaskType
<1>9. faults' \in 0..MaxFaults
  BY <1>4, InvParts, OutcomeType
<1>10. /\ old \in Context /\ old.turn = x.old.turn + 1 /\ old.compacts = x.old.compacts
       /\ old.goal = x.old.goal /\ old.shown = x.old.shown
  BY <1>3, <1>6 DEF Context
<1>11. items \in (SUBSET Items) \cup {None}
  BY <1>5, SameRest
<1>12. /\ rec \in TaskType /\ rec.pc = "save" /\ rec.op = x.op /\ rec.back = x.back
       /\ rec.old = old /\ rec.did = x.did
  BY <1>2, <1>7, <1>10, <1>11 DEF TaskType, PCs
<1>13. WellPlaced(rec) /\ Holds(rec)
  BY <1>2, <1>10, <1>12, NoneAssumption DEF WellPlaced, Holds
<1>14. ASSUME ~raced PROVE Agrees(rec)
  <2>1. Told(x.old)
    BY <1>2, <1>14, <1>3, NoneAssumption DEF Agrees
  <2>. QED BY <2>1, <1>2, <1>10, <1>12 DEF Agrees, Told, Forgets, Reached
<1>. QED BY <1>8, <1>9, <1>12, <1>13, <1>14, SameRest, LocalStep DEF CountTurn, redis, counted

LEMMA AfterSaveSound == ASSUME IInv, NEW t \in Tasks, AfterSave(t) PROVE IInv'
<1>1. PICK ok \in BOOLEAN :
        /\ Outcome(ok)
        /\ IF ok /\ messages > CompactAt
           THEN Become(t, [Idle EXCEPT !.op = "compact", !.back = "after_turn", !.pc = "load"])
           ELSE End(t)
  BY DEF AfterSave
<1>2. PICK next : next = [Idle EXCEPT !.op = "compact", !.back = "after_turn", !.pc = "load"]
  OBVIOUS
<1>3. PICK rec \in {Idle, next} : task' = [task EXCEPT ![t] = rec]
  BY <1>1, <1>2 DEF Become, End
<1>4. next \in TaskType /\ next.old = None
  BY <1>2, IdleSound DEF TaskType, PCs, AllCalls
<1>5. WellPlaced(next) /\ Holds(next)
  BY <1>2 DEF Idle, WellPlaced, Holds, Handlers
<1>6. faults' \in 0..MaxFaults
  BY <1>1, InvParts, OutcomeType
<1>7. rec \in TaskType /\ WellPlaced(rec) /\ Holds(rec) /\ rec.old = None
  BY <1>3, <1>4, <1>5, IdleSound
<1>. QED BY <1>3, <1>6, <1>7, SameRest, LocalStep DEF AfterSave, redis, counted

LEMMA ReadMessagesSound == ASSUME IInv, NEW t \in Tasks, ReadMessages(t) PROVE IInv'
<1>1. PICK x : x = task[t]
  OBVIOUS
<1>2. /\ x \in TaskType /\ WellPlaced(x) /\ Holds(x) /\ (~raced /\ x.old # None => Agrees(x))
      /\ x.pc = "messages"
  BY <1>1, TaskOf DEF ReadMessages
<1>3. PICK ok \in BOOLEAN :
        Outcome(ok) /\ IF ok /\ messages > 0 THEN Goto(t, "engine") ELSE End(t)
  BY DEF ReadMessages
<1>4. PICK next : next = [x EXCEPT !.pc = "engine"]
  OBVIOUS
<1>5. PICK rec \in {Idle, next} : task' = [task EXCEPT ![t] = rec]
  BY <1>1, <1>3, <1>4 DEF Goto, Become, End
<1>6. /\ next \in TaskType /\ next.pc = "engine" /\ next.op = x.op /\ next.back = x.back
      /\ next.old = x.old /\ next.did = x.did
  BY <1>2, <1>4 DEF TaskType, PCs
<1>7. WellPlaced(next) /\ Holds(next)
  BY <1>2, <1>6 DEF WellPlaced, Holds
<1>8. ~raced /\ next.old # None => Agrees(next)
  BY <1>2, <1>6 DEF Agrees
<1>9. faults' \in 0..MaxFaults
  BY <1>3, InvParts, OutcomeType
<1>10. rec \in TaskType /\ WellPlaced(rec) /\ Holds(rec) /\ (~raced /\ rec.old # None => Agrees(rec))
  BY <1>5, <1>6, <1>7, <1>8, IdleSound
<1>. QED BY <1>5, <1>9, <1>10, SameRest, LocalStep DEF ReadMessages, redis, counted

LEMMA CompactSound == ASSUME IInv, NEW t \in Tasks, CompactWithContext(t) PROVE IInv'
<1>1. PICK x : x = task[t]
  OBVIOUS
<1>2. /\ x \in TaskType /\ WellPlaced(x) /\ Holds(x) /\ (~raced /\ x.old # None => Agrees(x))
      /\ x.pc = "engine" /\ x.op = "compact"
  BY <1>1, TaskOf DEF CompactWithContext, WellPlaced
<1>3. x.old \in Context
  BY <1>2 DEF Holds, TaskType
<1>4. PICK force, ok \in BOOLEAN :
        /\ Outcome(ok)
        /\ Become(t, IF ok /\ (force \/ messages > CompactAt)
                     THEN [task[t] EXCEPT !.pc = "save", !.old.compacts = @ + 1,
                             !.old.shown = NewContext.shown, !.old.goal = -1,
                             !.did = "compacted"]
                     ELSE [task[t] EXCEPT !.pc = "save"])
  BY DEF CompactWithContext
<1>5. PICK old : old = [x.old EXCEPT !.compacts = @ + 1, !.shown = NewContext.shown, !.goal = -1]
  OBVIOUS
<1>6. PICK done : done = [x EXCEPT !.pc = "save", !.old = old, !.did = "compacted"]
  OBVIOUS
<1>7. PICK not : not = [x EXCEPT !.pc = "save"]
  OBVIOUS
<1>8. PICK rec \in {done, not} : task' = [task EXCEPT ![t] = rec]
  <2>1. [x EXCEPT !.pc = "save", !.old.compacts = @ + 1, !.old.shown = NewContext.shown,
                  !.old.goal = -1, !.did = "compacted"] = done
    BY <1>2, <1>3, <1>5, <1>6 DEF TaskType, Context
  <2>. QED BY <1>1, <1>4, <1>7, <2>1 DEF Become
<1>9. faults' \in 0..MaxFaults
  BY <1>4, InvParts, OutcomeType
<1>10. /\ old \in Context /\ old.turn = x.old.turn /\ old.compacts = x.old.compacts + 1
       /\ old.goal = -1 /\ old.shown = NewContext.shown
  <2>1. NewContext.shown \in [Items -> Nat \cup {-1}]
    BY DEF NewContext
  <2>2. PICK shown : shown = NewContext.shown
    OBVIOUS
  <2>3. old = [x.old EXCEPT !.compacts = @ + 1, !.shown = shown, !.goal = -1]
    BY <1>5, <2>2
  <2>4. shown \in [Items -> Nat \cup {-1}]
    BY <2>1, <2>2
  <2>5. old \in Context
    <3>1. PICK Shown, Goal : Shown = [Items -> Nat \cup {-1}] /\ Goal = Nat \cup {-1}
      OBVIOUS
    <3>2. -1 \in Goal /\ shown \in Shown
      BY <3>1, <2>4
    <3>3. Context = [turn : Nat, compacts : Nat, shown : Shown, goal : Goal,
                     snap : BOOLEAN, window : BOOLEAN]
      BY <3>1 DEF Context
    <3>4. PICK n, m : n = x.old.compacts + 1 /\ m = -1
      OBVIOUS
    <3>5. x.old.compacts \in Nat
      BY <1>3 DEF Context
    <3>6. n \in Nat /\ m \in Goal
      BY <3>2, <3>4, <3>5
    <3>7. old = [x.old EXCEPT !.compacts = n, !.shown = shown, !.goal = m]
      BY <2>3, <3>4
    <3>. QED BY <3>2, <3>3, <3>6, <3>7, <1>3
  <2>6. /\ old.turn = x.old.turn /\ old.compacts = x.old.compacts + 1
        /\ old.goal = -1 /\ old.shown = shown
    BY <2>3, <1>3 DEF Context
  <2>. QED BY <2>2, <2>5, <2>6
<1>11. /\ done \in TaskType /\ done.pc = "save" /\ done.op = x.op /\ done.back = x.back
       /\ done.old = old /\ done.did = "compacted"
  BY <1>2, <1>6, <1>10 DEF TaskType, PCs
<1>12. /\ not \in TaskType /\ not.pc = "save" /\ not.op = x.op /\ not.back = x.back
       /\ not.old = x.old /\ not.did = x.did
  BY <1>2, <1>7 DEF TaskType, PCs
<1>13. WellPlaced(done) /\ Holds(done)
  BY <1>2, <1>10, <1>11, NoneAssumption DEF WellPlaced, Holds
<1>14. WellPlaced(not) /\ Holds(not)
  BY <1>2, <1>12 DEF WellPlaced, Holds
<1>15. ASSUME ~raced PROVE Agrees(done) /\ Agrees(not)
  <2>1. Told(x.old)
    BY <1>2, <1>15, <1>3, NoneAssumption DEF Agrees
  <2>2. x.did # "compacted"
    BY <1>2 DEF Holds
  <2>3. Agrees(done)
    BY <2>1, <1>2, <1>10, <1>11 DEF Agrees, Told
  <2>4. Agrees(not)
    BY <2>1, <2>2, <1>2, <1>12 DEF Agrees
  <2>. QED BY <2>3, <2>4
<1>16. rec \in TaskType /\ WellPlaced(rec) /\ Holds(rec) /\ (~raced /\ rec.old # None => Agrees(rec))
  BY <1>8, <1>11, <1>12, <1>13, <1>14, <1>15
<1>. QED BY <1>8, <1>9, <1>16, SameRest, LocalStep DEF CompactWithContext, redis, counted

LEMMA UnloadSound == ASSUME IInv, NEW t \in Tasks, UnloadGuards(t) PROVE IInv'
<1>1. PICK rec : rec = [Idle EXCEPT !.op = "end", !.pc = "delete"]
  OBVIOUS
<1>2. rec \in TaskType /\ rec.old = None
  BY <1>1, IdleSound DEF TaskType, PCs, AllCalls
<1>3. WellPlaced(rec) /\ Holds(rec)
  BY <1>1 DEF Idle, WellPlaced, Holds
<1>4. task' = [task EXCEPT ![t] = rec] /\ rules' \in BOOLEAN
  BY <1>1 DEF UnloadGuards, Become
<1>. QED BY <1>2, <1>3, <1>4, SameRest, LocalStep DEF UnloadGuards, redis, counted

------------------------------------------------------------------------------
(* The steps that write the context                                        *)

\* A failed write ends the handler and leaves everything else as it was.
LEMMA FailedWrite ==
  ASSUME IInv, NEW t \in Tasks, End(t), faults' \in 0..MaxFaults,
         UNCHANGED <<redis, raced, counted>>, rules' \in BOOLEAN, unruly' \in BOOLEAN
  PROVE  IInv'
<1>1. task' = [task EXCEPT ![t] = Idle]
  BY DEF End, Become
<1>. QED BY <1>1, IdleSound, SameRest, LocalStep DEF redis, counted

LEMMA BootSaveSound == ASSUME IInv, NEW t \in Tasks, BootSave(t) PROVE IInv'
<1>1. PICK x : x = task[t]
  OBVIOUS
<1>2. /\ x \in TaskType /\ WellPlaced(x) /\ Holds(x) /\ (~raced /\ x.old # None => Agrees(x))
      /\ x.pc = "boot_save" /\ x.op = "bootstrap"
  BY <1>1, TaskOf DEF BootSave, WellPlaced
<1>3. PICK ok \in BOOLEAN :
        /\ Outcome(ok)
        /\ IF ok
           THEN /\ ctx' = NewContext
                /\ raced' = (Racing(t) \/ task[t].back = "nested_ingest")
                /\ turns' = 0 /\ compacted' = 0 /\ compactAt' = 0 /\ goalAt' = -1
                /\ unshown' = FALSE
                /\ Back(t)
           ELSE /\ UNCHANGED <<ctx, raced, counted>>
                /\ IF task[t].back = "nested_ingest"
                   THEN Become(t, [task[t] EXCEPT !.op = "after_turn", !.back = "none",
                                     !.pc = "turn", !.blind = FALSE])
                   ELSE End(t)
  BY DEF BootSave
<1>4. faults' \in 0..MaxFaults
  BY <1>3, InvParts, OutcomeType
<1>5. CASE ok
  <2>1. PICK next : next = [x EXCEPT !.op = x.back, !.back = "none",
                              !.pc = "reload", !.blind = FALSE]
    OBVIOUS
  <2>2. PICK rec : /\ rec = IF x.back = "none" THEN Idle ELSE next
                   /\ task' = [task EXCEPT ![t] = rec]
    BY <1>1, <1>3, <1>5, <2>1 DEF Back, End, Become
  <2>3. x.back # "none" =>
          /\ next.pc = "reload" /\ next.op = x.back /\ next.old = x.old /\ next.did = x.did
          /\ next.back = "none" /\ x.back \in {"ingest", "assemble", "nested_ingest"}
          /\ next \in TaskType
    BY <1>2, <2>1 DEF TaskType, WellPlaced, PCs, AllCalls
  <2>4. x.back # "none" => WellPlaced(next) /\ Holds(next)
    BY <1>2, <2>3 DEF WellPlaced, Holds
  <2>5. rec \in TaskType /\ WellPlaced(rec) /\ Holds(rec)
    BY <2>2, <2>3, <2>4, IdleSound
  <2>6. raced' = (Racing(t) \/ x.back = "nested_ingest")
    BY <1>1, <1>3, <1>5
  <2>7. ~raced' /\ rec.old # None => rec.pc = "after_save"
    <3>1. x.back # "nested_ingest" => x.old = None
      BY <1>2 DEF Holds
    <3>. QED BY <2>2, <2>3, <2>6, <3>1, IdleSound
  <2>8. raced' \in BOOLEAN /\ (raced' \/ Others(t) = {})
    BY <2>6 DEF Racing
  <2>9. /\ ctx' = NewContext /\ turns' = 0 /\ compacted' = 0 /\ compactAt' = 0
        /\ goalAt' = -1 /\ unshown' = FALSE
    BY <1>3, <1>5
  <2>10. Told(ctx)'
    BY <2>9 DEF Told, Forgets, Reached, NewContext
  <2>11. /\ ctx' \in Context \cup {None} /\ unshown' \in BOOLEAN
         /\ turns' \in Nat /\ compacted' \in Nat /\ compactAt' \in Nat
         /\ compactAt' <= turns' /\ goalAt' \in Nat \cup {-1}
    <3>1. ctx' \in Context \cup {None} /\ unshown' \in BOOLEAN
      BY <2>9, NewContextType
    <3>. QED BY <2>9, <3>1
  <2>12. UNCHANGED <<messages, snapshot>> /\ rules' \in BOOLEAN /\ unruly' \in BOOLEAN
    BY SameRest DEF BootSave
  <2>. QED BY <1>4, <2>2, <2>5, <2>7, <2>8, <2>10, <2>11, <2>12, WrittenStep
<1>6. CASE ~ok /\ x.back = "nested_ingest"
  <2>1. PICK rec : rec = [x EXCEPT !.op = "after_turn", !.back = "none",
                             !.pc = "turn", !.blind = FALSE]
    OBVIOUS
  <2>2. task' = [task EXCEPT ![t] = rec]
    BY <1>1, <1>3, <1>6, <2>1 DEF Become
  <2>3. /\ rec \in TaskType /\ rec.pc = "turn" /\ rec.op = "after_turn" /\ rec.back = "none"
        /\ rec.old = x.old /\ rec.did = x.did
    BY <1>2, <2>1 DEF TaskType, PCs, AllCalls
  <2>4. WellPlaced(rec) /\ Holds(rec)
    BY <1>2, <1>6, <2>3 DEF WellPlaced, Holds
  <2>5. ~raced /\ rec.old # None => Agrees(rec)
    BY <1>2, <2>3 DEF Agrees
  <2>. QED BY <1>3, <1>4, <1>6, <2>2, <2>3, <2>4, <2>5, SameRest, LocalStep
           DEF BootSave, counted
<1>7. CASE ~ok /\ x.back # "nested_ingest"
  BY <1>1, <1>3, <1>4, <1>7, SameRest, FailedWrite DEF BootSave, redis, counted
<1>. QED BY <1>5, <1>6, <1>7

LEMMA SaveCopySound == ASSUME IInv, NEW t \in Tasks, SaveCopy(t) PROVE IInv'
<1>1. PICK x : x = task[t]
  OBVIOUS
<1>2. /\ x \in TaskType /\ WellPlaced(x) /\ Holds(x) /\ (~raced /\ x.old # None => Agrees(x))
      /\ x.pc = "save" /\ x.op \in {"ingest", "window"}
  BY <1>1, TaskOf DEF SaveCopy
<1>3. x.old \in Context /\ x.old # None
  BY <1>2 DEF Holds, TaskType
<1>4. PICK ok \in BOOLEAN :
        /\ Outcome(ok)
        /\ ctx' = IF ok THEN [task[t].old EXCEPT !.window = @ \/ task[t].op = "window"] ELSE ctx
        /\ raced' = (raced \/ (ok /\ Racing(t)))
  BY DEF SaveCopy
<1>5. faults' \in 0..MaxFaults
  BY <1>4, InvParts, OutcomeType
<1>6. CASE ~ok
  BY <1>4, <1>5, <1>6, SameRest, FailedWrite DEF SaveCopy, redis, counted
<1>7. CASE ok
  <2>1. PICK new : new = [x.old EXCEPT !.window = @ \/ x.op = "window"]
    OBVIOUS
  <2>2. /\ new \in Context /\ new.turn = x.old.turn /\ new.compacts = x.old.compacts
        /\ new.shown = x.old.shown /\ new.goal = x.old.goal
    BY <1>3, <2>1 DEF Context
  <2>3. ctx' = new /\ raced' = (raced \/ Others(t) # {})
    BY <1>1, <1>4, <1>7, <2>1 DEF Racing
  <2>4. ~raced => Told(new)
    BY <1>2, <1>3, <2>2 DEF Agrees, Told, Forgets, Reached
  <2>5. /\ turns' = turns /\ compacted' = compacted /\ compactAt' = compactAt
        /\ goalAt' = goalAt /\ unshown' = unshown
    BY DEF SaveCopy, counted
  <2>6. Told(ctx)' <=> Told(new)
    BY <2>3, <2>5 DEF Told, Forgets, Reached
  <2>7. task' = [task EXCEPT ![t] = Idle]
    BY DEF SaveCopy, End, Become
  <2>8. raced' \in BOOLEAN
    BY <2>3, SameRest
  <2>. QED BY <1>5, <2>2, <2>3, <2>4, <2>5, <2>6, <2>7, <2>8, IdleSound, SameRest, WrittenStep
           DEF SaveCopy
<1>. QED BY <1>6, <1>7

LEMMA SaveAssembledSound == ASSUME IInv, NEW t \in Tasks, SaveAssembled(t) PROVE IInv'
<1>1. PICK x : x = task[t]
  OBVIOUS
<1>2. /\ x \in TaskType /\ WellPlaced(x) /\ Holds(x) /\ (~raced /\ x.old # None => Agrees(x))
      /\ x.pc = "save" /\ x.op = "assemble"
  BY <1>1, TaskOf DEF SaveAssembled, At
<1>3. x.old \in Context /\ x.old # None /\ x.did \in {"left_out", "shown", "lost", "unread"}
  BY <1>2 DEF Holds, TaskType
<1>4. PICK ok \in BOOLEAN :
        /\ Outcome(ok)
        /\ ctx' = IF ok THEN task[t].old ELSE ctx
        /\ raced' = (raced \/ (ok /\ Racing(t)))
        /\ goalAt' = IF ok /\ task[t].did = "shown" THEN turns ELSE goalAt
        /\ unshown' = CASE ok /\ task[t].did = "lost" -> TRUE
                        [] ok /\ task[t].did = "shown" -> FALSE
                        [] OTHER -> unshown
  BY DEF SaveAssembled
<1>5. faults' \in 0..MaxFaults
  BY <1>4, InvParts, OutcomeType
<1>6. turns' = turns /\ compacted' = compacted /\ compactAt' = compactAt
  BY DEF SaveAssembled
<1>7. CASE ~ok
  <2>1. ctx' = ctx /\ raced' = raced /\ goalAt' = goalAt /\ unshown' = unshown
    BY <1>4, <1>7, SameRest
  <2>. QED BY <1>5, <1>6, <2>1, SameRest, FailedWrite DEF SaveAssembled, redis, counted
<1>8. CASE ok
  <2>1. /\ ctx' = x.old /\ raced' = (raced \/ Others(t) # {})
        /\ goalAt' = IF x.did = "shown" THEN turns ELSE goalAt
        /\ unshown' = CASE x.did = "lost" -> TRUE
                        [] x.did = "shown" -> FALSE
                        [] OTHER -> unshown
    BY <1>1, <1>4, <1>8 DEF Racing
  <2>2. ASSUME ~raced PROVE Told(ctx)'
    <3>1. /\ x.old.turn = turns /\ x.old.compacts = compacted /\ Forgets(x.old)
          /\ x.did = "shown" => x.old.goal = turns
          /\ x.did \in {"left_out", "unread"} => Reached(x.old)
      BY <1>2, <1>3, <2>2 DEF Agrees
    <3>2. Reached(ctx)'
      BY <1>3, <2>1, <3>1, SameRest DEF Reached
    <3>3. Forgets(ctx)'
      BY <2>1, <3>1, <1>6 DEF Forgets
    <3>. QED BY <2>1, <1>6, <3>1, <3>2, <3>3 DEF Told
  <2>3. task' = [task EXCEPT ![t] = Idle]
    BY DEF SaveAssembled, End, Become
  <2>4. raced' \in BOOLEAN /\ unshown' \in BOOLEAN /\ goalAt' \in Nat \cup {-1}
    BY <2>1, SameRest
  <2>. QED BY <1>3, <1>5, <1>6, <2>1, <2>2, <2>3, <2>4, IdleSound, SameRest, WrittenStep
           DEF SaveAssembled
<1>. QED BY <1>7, <1>8

LEMMA SaveTurnSound == ASSUME IInv, NEW t \in Tasks, SaveTurn(t) PROVE IInv'
<1>1. PICK x : x = task[t]
  OBVIOUS
<1>2. /\ x \in TaskType /\ WellPlaced(x) /\ Holds(x) /\ (~raced /\ x.old # None => Agrees(x))
      /\ x.pc = "save" /\ x.op = "after_turn"
  BY <1>1, TaskOf DEF SaveTurn, At
<1>3. x.old \in Context /\ x.old # None
  BY <1>2 DEF Holds, TaskType
<1>4. PICK ok \in BOOLEAN :
        /\ Outcome(ok)
        /\ ctx' = IF ok THEN task[t].old ELSE ctx
        /\ raced' = (raced \/ (ok /\ Racing(t)))
        /\ turns' = IF ok THEN turns + 1 ELSE turns
        /\ IF ok THEN Goto(t, "after_save") ELSE End(t)
  BY DEF SaveTurn
<1>5. faults' \in 0..MaxFaults
  BY <1>4, InvParts, OutcomeType
<1>6. compacted' = compacted /\ compactAt' = compactAt /\ goalAt' = goalAt /\ unshown' = unshown
  BY DEF SaveTurn
<1>7. CASE ~ok
  <2>1. ctx' = ctx /\ raced' = raced /\ turns' = turns
    BY <1>4, <1>7, SameRest
  <2>. QED BY <1>4, <1>5, <1>6, <1>7, <2>1, SameRest, FailedWrite DEF SaveTurn, redis, counted
<1>8. CASE ok
  <2>1. ctx' = x.old /\ raced' = (raced \/ Others(t) # {}) /\ turns' = turns + 1
    BY <1>1, <1>4, <1>8 DEF Racing
  <2>2. ASSUME ~raced PROVE Told(ctx)'
    <3>1. /\ x.old.turn = turns + 1 /\ x.old.compacts = compacted
          /\ Forgets(x.old) /\ Reached(x.old)
      BY <1>2, <1>3, <2>2 DEF Agrees
    <3>. QED BY <2>1, <3>1, <1>6 DEF Told, Forgets, Reached
  <2>3. PICK rec : rec = [x EXCEPT !.pc = "after_save"]
    OBVIOUS
  <2>4. task' = [task EXCEPT ![t] = rec]
    BY <1>1, <1>4, <1>8, <2>3 DEF Goto, Become
  <2>5. /\ rec \in TaskType /\ rec.pc = "after_save" /\ rec.op = x.op /\ rec.back = x.back
        /\ rec.old = x.old /\ rec.did = x.did
    BY <1>2, <2>3 DEF TaskType, PCs
  <2>6. WellPlaced(rec) /\ Holds(rec)
    BY <1>2, <2>5 DEF WellPlaced, Holds
  <2>7. /\ raced' \in BOOLEAN /\ turns' \in Nat /\ compactAt' \in Nat /\ compactAt' <= turns'
        /\ compacted' \in Nat /\ goalAt' \in Nat \cup {-1} /\ unshown' \in BOOLEAN
    BY <2>1, <1>6, SameRest
  <2>8. UNCHANGED <<messages, snapshot>> /\ rules' \in BOOLEAN /\ unruly' \in BOOLEAN
    BY SameRest DEF SaveTurn
  <2>9. ctx' \in Context \cup {None} /\ (raced' \/ Others(t) = {}) /\ (~raced' => ~raced)
    BY <1>3, <2>1
  <2>. QED BY <1>5, <2>2, <2>4, <2>5, <2>6, <2>7, <2>8, <2>9, WrittenStep
<1>. QED BY <1>7, <1>8

LEMMA SaveCompactedSound == ASSUME IInv, NEW t \in Tasks, SaveCompacted(t) PROVE IInv'
<1>1. PICK x : x = task[t]
  OBVIOUS
<1>2. /\ x \in TaskType /\ WellPlaced(x) /\ Holds(x) /\ (~raced /\ x.old # None => Agrees(x))
      /\ x.pc = "save" /\ x.op = "compact"
  BY <1>1, TaskOf DEF SaveCompacted, At
<1>3. x.old \in Context /\ x.old # None
  BY <1>2 DEF Holds, TaskType
<1>4. PICK ok \in BOOLEAN :
        LET done == ok /\ task[t].did = "compacted"
        IN /\ Outcome(ok)
           /\ ctx' = IF ok THEN task[t].old ELSE ctx
           /\ raced' = (raced \/ (ok /\ Racing(t)))
           /\ compacted' = IF done THEN compacted + 1 ELSE compacted
           /\ compactAt' = IF done THEN turns ELSE compactAt
           /\ goalAt' = IF done THEN -1 ELSE goalAt
           /\ unshown' = (unshown /\ ~done)
  BY DEF SaveCompacted
<1>5. faults' \in 0..MaxFaults
  BY <1>4, InvParts, OutcomeType
<1>6. turns' = turns /\ task' = [task EXCEPT ![t] = Idle]
  BY DEF SaveCompacted, End, Become
<1>7. CASE ~ok
  <2>1. /\ ctx' = ctx /\ raced' = raced /\ compacted' = compacted /\ compactAt' = compactAt
        /\ goalAt' = goalAt /\ unshown' = unshown
    BY <1>4, <1>7, SameRest
  <2>. QED BY <1>5, <1>6, <2>1, SameRest, FailedWrite DEF SaveCompacted, redis, counted
<1>8. CASE ok
  <2>1. ctx' = x.old /\ raced' = (raced \/ Others(t) # {})
    BY <1>1, <1>4, <1>8 DEF Racing
  <2>2. ASSUME ~raced PROVE Told(ctx)'
    <3>1. CASE x.did = "compacted"
      <4>1. /\ x.old.turn = turns /\ x.old.compacts = compacted + 1
            /\ x.old.shown = NewContext.shown /\ x.old.goal = -1
        BY <1>2, <1>3, <2>2, <3>1 DEF Agrees
      <4>2. \A i \in Items : NewContext.shown[i] = -1
        BY DEF NewContext
      <4>3. compacted' = compacted + 1
        BY <1>1, <1>4, <1>8, <3>1
      <4>4. Forgets(ctx)' /\ Reached(ctx)'
        BY <2>1, <4>1, <4>2 DEF Forgets, Reached
      <4>. QED BY <2>1, <1>6, <4>1, <4>3, <4>4 DEF Told
    <3>2. CASE x.did # "compacted"
      <4>1. Told(x.old)
        BY <1>2, <1>3, <2>2, <3>2 DEF Agrees
      <4>2. /\ compacted' = compacted /\ compactAt' = compactAt /\ goalAt' = goalAt
            /\ unshown' = unshown
        BY <1>1, <1>4, <1>8, <3>2, SameRest
      <4>. QED BY <2>1, <1>6, <4>1, <4>2 DEF Told, Forgets, Reached
    <3>. QED BY <3>1, <3>2
  <2>3. /\ raced' \in BOOLEAN /\ turns' \in Nat /\ compactAt' \in Nat /\ compactAt' <= turns'
        /\ compacted' \in Nat /\ goalAt' \in Nat \cup {-1} /\ unshown' \in BOOLEAN
    BY <1>4, <1>6, SameRest
  <2>4. UNCHANGED <<messages, snapshot>> /\ rules' \in BOOLEAN /\ unruly' \in BOOLEAN
    BY SameRest DEF SaveCompacted
  <2>5. ctx' \in Context \cup {None} /\ (raced' \/ Others(t) = {}) /\ (~raced' => ~raced)
    BY <1>3, <2>1
  <2>. QED BY <1>5, <1>6, <2>2, <2>3, <2>4, <2>5, IdleSound, WrittenStep
<1>. QED BY <1>7, <1>8

LEMMA DeleteSound == ASSUME IInv, NEW t \in Tasks, DeleteContext(t) PROVE IInv'
<1>1. PICK ok \in BOOLEAN :
        /\ Outcome(ok)
        /\ ctx' = IF ok THEN None ELSE ctx
        /\ raced' = IF ok THEN Racing(t) ELSE raced
        /\ unruly' = (unruly \/ ~ok)
  BY DEF DeleteContext
<1>2. faults' \in 0..MaxFaults
  BY <1>1, InvParts, OutcomeType
<1>3. unruly' \in BOOLEAN
  BY <1>1
<1>4. CASE ~ok
  BY <1>1, <1>2, <1>3, <1>4, SameRest, FailedWrite DEF DeleteContext, redis
<1>5. CASE ok
  <2>1. ctx' = None /\ raced' = (Others(t) # {})
    BY <1>1, <1>5 DEF Racing
  <2>2. task' = [task EXCEPT ![t] = Idle]
    BY DEF DeleteContext, End, Become
  <2>3. raced' \in BOOLEAN /\ (raced' \/ Others(t) = {})
    BY <2>1
  <2>4. /\ turns' = turns /\ compacted' = compacted /\ compactAt' = compactAt
        /\ goalAt' = goalAt /\ unshown' = unshown /\ UNCHANGED <<messages, snapshot, rules>>
    BY DEF DeleteContext, counted
  <2>. QED BY <1>2, <1>3, <2>1, <2>2, <2>3, <2>4, IdleSound, SameRest, WrittenStep
<1>. QED BY <1>4, <1>5

\* With every task idle no copy is left to say anything of.
LEMMA AllIdle ==
  ASSUME IInv, TypeOK', \A t \in Tasks : task'[t] = Idle, compactAt' <= turns',
         ctx' # None /\ ~raced' => Told(ctx)'
  PROVE  IInv'
<1>1. \A t \in Tasks : (WellPlaced(task[t]) /\ Holds(task[t]) /\ task[t].old = None)'
  BY IdleSound DEF WellPlaced, Holds
<1>. QED BY <1>1 DEF IInv

LEMMA ExpireSound == ASSUME IInv, Expire PROVE IInv'
<1>1. \A t \in Tasks : task'[t] = Idle
  BY TaskOf DEF Expire, Quiet, WellPlaced
<1>2. TypeOK'
  <2>1. messages' \in 0..CompactAt + 1 /\ ctx' \in Context \cup {None}
    BY Bounds DEF Expire
  <2>2. snapshot' \in (SUBSET Items) \cup {None} /\ raced' \in BOOLEAN
    BY DEF Expire
  <2>. QED BY <2>1, <2>2, InvParts DEF Expire, TypeOK, counted
<1>. QED BY <1>1, <1>2, SameRest, AllIdle DEF Expire, counted

LEMMA RestartSound == ASSUME IInv, Restart PROVE IInv'
<1>1. \A t \in Tasks : task'[t] = Idle
  BY DEF Restart
<1>2. /\ ctx' = ctx /\ raced' = raced /\ turns' = turns /\ compacted' = compacted
      /\ compactAt' = compactAt /\ goalAt' = goalAt /\ unshown' = unshown
      /\ UNCHANGED <<messages, snapshot, faults>>
  BY DEF Restart, redis, counted
<1>3. TypeOK'
  BY <1>2, InvParts, IdleSound DEF Restart, TypeOK
<1>4. ctx' # None /\ ~raced' => Told(ctx)'
  BY <1>2, InvParts DEF Told, Forgets, Reached
<1>. QED BY <1>1, <1>2, <1>3, <1>4, SameRest, AllIdle

LEMMA StutterSound == ASSUME IInv, UNCHANGED vars PROVE IInv'
<1>. QED BY DEF IInv, vars, redis, counted, TypeOK, WellPlaced, Holds, Agrees, Told, Forgets,
               Reached, NewContext, Idle

\* The inductive invariant: the stored context is true of the session, and every
\* copy a handler holds is as far ahead of it as the handler is, until two handlers
\* race.
THEOREM SessionInvariant == Spec => []IInv
<1>1. Init => IInv
  BY InitSound
<1>2. ASSUME IInv, [Next]_vars PROVE IInv'
  <2>1. ASSUME NEW t \in Tasks, Begin(t) \/ RefreshRules(t) \/ UnloadGuards(t) \/ Step(t)
        PROVE  IInv'
    BY <1>2, <2>1, BeginSound, RefreshSound, UnloadSound, LoadSound, ReloadSound,
       BootRulesSound, BootSaveSound, PushSound, SaveCopySound, BuildSound, ShowSound,
       SaveAssembledSound, CountSound, SaveTurnSound, AfterSaveSound, ReadMessagesSound,
       CompactSound, SaveCompactedSound, DeleteSound DEF Step
  <2>. QED BY <1>2, <2>1, ExpireSound, RestartSound, StutterSound DEF Next
<1>. QED BY <1>1, <1>2, PTL DEF Spec

\* turn_count and compact_count count, and nothing injected before the last compaction
\* counts as injected, whatever hooks overlap, as long as no two raced.
THEOREM ContextTrueHolds == Spec => []ContextTrue
<1>1. IInv => ContextTrue
  BY DEF IInv, ContextTrue, TurnsCounted, CompactionForgets, Told, Forgets
<1>. QED BY <1>1, SessionInvariant, PTL

\* No goal goes unmentioned for Reminder turns, but after an assemble that noted it as
\* injected and lost it.
THEOREM GoalRemindedHolds == Spec => []GoalReminded
<1>1. ASSUME IInv PROVE GoalReminded
  <2>1. SUFFICES ASSUME NEW t \in Tasks, task[t].did = "left_out", ~raced, ~unshown
                 PROVE  goalAt # -1 /\ turns - goalAt < Reminder
    BY DEF GoalReminded
  <2>2. PICK x : x = task[t]
    OBVIOUS
  <2>3. /\ x \in TaskType /\ Holds(x) /\ (~raced /\ x.old # None => Agrees(x))
    BY <1>1, <2>2, TaskOf
  <2>4. x.pc = "save" /\ x.op = "assemble" /\ x.old \in Context /\ x.old # None
    BY <2>1, <2>2, <2>3 DEF Holds, TaskType
  <2>5. Reached(x.old) /\ x.old.goal # -1 /\ turns - x.old.goal < Reminder
    BY <2>1, <2>2, <2>3, <2>4 DEF Agrees
  <2>6. x.old.goal \in Nat
    BY <2>4, <2>5 DEF Context
  <2>. QED BY <1>1, <2>1, <2>5, <2>6, SameRest, Bounds DEF Reached
<1>. QED BY <1>1, SessionInvariant, PTL

------------------------------------------------------------------------------
(* The rules and the bootstrap, for the client that waits for its hooks    *)

LEMMA HookParts ==
  ASSUME HookInv
  PROVE  OneHook /\ CopiesOfNone /\ BootsIntoNone /\ RulesFirst /\ RulesWithContext
<1>. QED BY DEF HookInv

\* A task that steps stays what it is, a hook or the report of a window.
LEMMA SameHooks ==
  ASSUME IInv, HookInv, NEW t \in Tasks, NEW rec, task[t].pc # "idle",
         task' = [task EXCEPT ![t] = rec],
         rec = Idle \/ (rec.op = "window" <=> task[t].op = "window")
  PROVE  OneHook' /\ Hooks' \subseteq Hooks
<1>1. \A u \in Tasks : task'[u] = IF u = t THEN rec ELSE task[u]
  BY InvParts DEF TypeOK
<1>2. Hooks' \subseteq Hooks
  BY <1>1 DEF Hooks, Idle
<1>. QED BY <1>2, HookParts DEF OneHook

\* The steps that leave the context alone.
LEMMA LocalHook ==
  ASSUME IInv, HookInv, NEW t \in Tasks, NEW rec, task[t].pc # "idle",
         task' = [task EXCEPT ![t] = rec],
         rec = Idle \/ (rec.op = "window" <=> task[t].op = "window"),
         ctx' = ctx, raced' = raced,
         rec.old # None => task[t].old # None \/ ctx # None,
         rec.pc \in {"boot_rules", "boot_save"} /\ ~rec.blind => ctx = None,
         \/ /\ unruly' = unruly /\ rules' = rules
            /\ rec.pc # "boot_save" /\ "delete" \notin {rec.pc, task[t].pc}
         \/ ~unruly' => rules'
  PROVE  HookInv'
<1>1. \A u \in Tasks : task'[u] = IF u = t THEN rec ELSE task[u]
  BY InvParts DEF TypeOK
<1>2. OneHook' /\ Hooks' \subseteq Hooks
  BY SameHooks
<1>3. CopiesOfNone'
  <2>1. (\E u \in Tasks : task'[u].old # None) /\ ctx = None => \E u \in Tasks : task[u].old # None
    BY <1>1
  <2>. QED BY <2>1, <1>2, HookParts DEF CopiesOfNone
<1>4. BootsIntoNone'
  BY <1>1, HookParts DEF BootsIntoNone
<1>5. RulesFirst'
  BY <1>1, HookParts DEF RulesFirst
<1>6. RulesWithContext'
  <2>1. CASE ~unruly' => rules'
    BY <2>1 DEF RulesWithContext
  <2>2. CASE /\ unruly' = unruly /\ rules' = rules
             /\ "delete" \notin {rec.pc, task[t].pc}
    <3>1. (\A u \in Tasks : task'[u].pc # "delete") => \A u \in Tasks : task[u].pc # "delete"
      BY <1>1, <2>2
    <3>. QED BY <3>1, <2>2, HookParts DEF RulesWithContext
  <2>. QED BY <2>1, <2>2
<1>. QED BY <1>2, <1>3, <1>4, <1>5, <1>6 DEF HookInv

\* A handler that writes its copy back.
LEMMA CopyWritten ==
  ASSUME IInv, HookInv, NEW t \in Tasks, NEW rec, task[t].pc = "save",
         task' = [task EXCEPT ![t] = rec],
         rec = Idle \/ (rec.pc = "after_save" /\ rec.op = task[t].op),
         ctx' # None, raced' = (raced \/ Racing(t)), UNCHANGED <<rules, unruly>>
  PROVE  HookInv'
<1>1. \A u \in Tasks : task'[u] = IF u = t THEN rec ELSE task[u]
  BY InvParts DEF TypeOK
<1>2. OneHook' /\ Hooks' \subseteq Hooks
  BY SameHooks
<1>3. task[t].old # None
  BY TaskOf DEF Holds
<1>4. CopiesOfNone'
  BY DEF CopiesOfNone
<1>5. BootsIntoNone'
  <2>1. ASSUME NEW u \in Tasks, task'[u].pc \in {"boot_rules", "boot_save"}, ~task'[u].blind
        PROVE  FALSE
    <3>1. u # t /\ task'[u] = task[u]
      BY <1>1, <2>1 DEF Idle
    <3>2. ctx = None
      BY <2>1, <3>1, HookParts DEF BootsIntoNone
    <3>3. Hooks = {}
      BY <3>2, <1>3, HookParts DEF CopiesOfNone
    <3>4. u \in Hooks
      BY <2>1, <3>1, TaskOf DEF Hooks, WellPlaced
    <3>. QED BY <3>3, <3>4
  <2>. QED BY <2>1 DEF BootsIntoNone
<1>6. RulesFirst'
  BY <1>1, HookParts DEF RulesFirst, Idle
<1>7. RulesWithContext'
  <2>1. CASE ctx = None
    BY <2>1, <1>3, HookParts DEF CopiesOfNone, RulesWithContext
  <2>2. CASE ctx # None
    <3>1. (\A u \in Tasks : task'[u].pc # "delete") => \A u \in Tasks : task[u].pc # "delete"
      BY <1>1
    <3>. QED BY <2>2, <3>1, HookParts DEF RulesWithContext
  <2>. QED BY <2>1, <2>2
<1>. QED BY <1>2, <1>4, <1>5, <1>6, <1>7 DEF HookInv

\* With every task idle only the rules are left to say something of.
LEMMA IdleHooks ==
  ASSUME IInv, \A u \in Tasks : task'[u].pc = "idle" /\ task'[u].old = None,
         RulesWithContext'
  PROVE  HookInv'
<1>1. Hooks' = {}
  BY DEF Hooks
<1>. QED BY <1>1 DEF HookInv, OneHook, CopiesOfNone, BootsIntoNone, RulesFirst

LEMMA InitHooks == ASSUME Init PROVE HookInv
<1>1. \A u \in Tasks : task[u] = Idle
  BY DEF Init
<1>2. Hooks = {} /\ ctx = None
  BY <1>1 DEF Hooks, Idle, Init
<1>. QED BY <1>1, <1>2 DEF HookInv, OneHook, CopiesOfNone, BootsIntoNone, RulesFirst,
            RulesWithContext, Idle

\* What a quiet session looks like.
LEMMA QuietIdle ==
  ASSUME IInv, Quiet
  PROVE  \A u \in Tasks : task[u] = Idle
<1>. QED BY TaskOf DEF Quiet, WellPlaced

LEMMA BeginHooks ==
  ASSUME ClientWaits, IInv, HookInv, NEW t \in Tasks, Begin(t)
  PROVE  HookInv'
<1>1. PICK op \in Handlers :
        MayBegin(t, op) /\ Become(t, [Idle EXCEPT !.op = op, !.pc = "load"])
  BY DEF Begin
<1>2. PICK rec : rec = [Idle EXCEPT !.op = op, !.pc = "load"]
  OBVIOUS
<1>3. rec.op = op /\ rec.pc = "load" /\ rec.old = None
  BY <1>2 DEF Idle
<1>4. \A u \in Tasks : task'[u] = IF u = t THEN rec ELSE task[u]
  BY <1>1, <1>2, InvParts DEF Become, TypeOK
<1>5. task[t] = Idle
  BY <1>1, TaskOf DEF MayBegin, WellPlaced
<1>6. ctx' = ctx /\ raced' = raced /\ rules' = rules /\ unruly' = unruly
  BY DEF Begin, redis
<1>7. op # "window" => \A u \in Tasks : task[u] = Idle
  BY <1>1, QuietIdle DEF MayBegin, ClientWaits
<1>8. OneHook' /\ (op = "window" => Hooks' \subseteq Hooks)
  <2>1. CASE op = "window"
    <3>1. Hooks' \subseteq Hooks
      BY <2>1, <1>3, <1>4 DEF Hooks
    <3>. QED BY <3>1, HookParts DEF OneHook
  <2>2. CASE op # "window"
    <3>1. Hooks' \subseteq {t}
      BY <2>2, <1>4, <1>7 DEF Hooks, Idle
    <3>. QED BY <3>1, <2>2 DEF OneHook
  <2>. QED BY <2>1, <2>2
<1>9. CopiesOfNone'
  <2>1. (\E u \in Tasks : task'[u].old # None) => \E u \in Tasks : task[u].old # None
    BY <1>3, <1>4
  <2>2. op # "window" => ~ \E u \in Tasks : task[u].old # None
    BY <1>7 DEF Idle
  <2>. QED BY <2>1, <2>2, <1>6, <1>8, HookParts DEF CopiesOfNone
<1>10. BootsIntoNone' /\ RulesFirst'
  BY <1>3, <1>4, <1>6, HookParts DEF BootsIntoNone, RulesFirst
<1>11. RulesWithContext'
  <2>1. (\A u \in Tasks : task'[u].pc # "delete") => \A u \in Tasks : task[u].pc # "delete"
    BY <1>4, <1>5 DEF Idle
  <2>. QED BY <2>1, <1>6, HookParts DEF RulesWithContext
<1>. QED BY <1>8, <1>9, <1>10, <1>11 DEF HookInv

LEMMA RefreshHooks ==
  ASSUME IInv, HookInv, NEW t \in Tasks, RefreshRules(t)
  PROVE  HookInv'
<1>1. /\ ctx' = ctx /\ raced' = raced /\ unruly' = unruly /\ (rules => rules')
      /\ task' = task
  BY DEF RefreshRules, redis
<1>2. Hooks' = Hooks
  BY <1>1 DEF Hooks
<1>. QED BY <1>1, <1>2, HookParts DEF HookInv, OneHook, CopiesOfNone, BootsIntoNone, RulesFirst,
            RulesWithContext

LEMMA UnloadHooks ==
  ASSUME ClientWaits, IInv, HookInv, NEW t \in Tasks, UnloadGuards(t)
  PROVE  HookInv'
<1>1. \A u \in Tasks : task[u] = Idle
  BY QuietIdle DEF UnloadGuards, MayBegin, ClientWaits
<1>2. PICK rec : rec = [Idle EXCEPT !.op = "end", !.pc = "delete"]
  OBVIOUS
<1>3. rec.pc = "delete" /\ rec.old = None
  BY <1>2 DEF Idle
<1>4. \A u \in Tasks : task'[u] = IF u = t THEN rec ELSE Idle
  BY <1>1, <1>2, InvParts DEF UnloadGuards, Become, TypeOK
<1>5. Hooks' \subseteq {t}
  BY <1>4 DEF Hooks, Idle
<1>6. \A u \in Tasks : task'[u].old = None /\ task'[u].pc \notin {"boot_rules", "boot_save"}
  BY <1>3, <1>4 DEF Idle
<1>7. task'[t].pc = "delete"
  BY <1>3, <1>4
<1>. QED BY <1>5, <1>6, <1>7 DEF HookInv, OneHook, CopiesOfNone, BootsIntoNone, RulesFirst,
            RulesWithContext

LEMMA ProceedHook ==
  ASSUME IInv, NEW t \in Tasks, NEW found, Proceed(t, found),
         task[t].op \in {"ingest", "assemble", "compact", "after_turn", "window",
                         "nested_ingest"}
  PROVE  \E rec : /\ task' = [task EXCEPT ![t] = rec]
                  /\ rec.op = "window" <=> task[t].op = "window"
                  /\ rec.old \in {found, task[t].old}
                  /\ rec.pc \in {"push", "working_set", "engine", "messages", "save", "turn",
                                 task[t].pc}
<1>1. PICK x : x = task[t]
  OBVIOUS
<1>2. x \in TaskType
  BY <1>1, TaskOf
<1>3. CASE x.op = "nested_ingest"
  <2>1. PICK rec : rec = [x EXCEPT !.pc = "push"]
    OBVIOUS
  <2>2. task' = [task EXCEPT ![t] = rec]
    BY <1>1, <1>3, <2>1 DEF Proceed, Goto, Become
  <2>3. rec.pc = "push" /\ rec.op = x.op /\ rec.old = x.old
    BY <1>2, <2>1 DEF TaskType
  <2>. QED BY <1>1, <2>2, <2>3
<1>4. CASE x.op = "after_turn" /\ Become(t, [x EXCEPT !.old = found, !.op = "nested_ingest"])
  <2>1. PICK rec : rec = [x EXCEPT !.old = found, !.op = "nested_ingest"]
    OBVIOUS
  <2>2. task' = [task EXCEPT ![t] = rec]
    BY <1>4, <2>1 DEF Become
  <2>3. rec.pc = x.pc /\ rec.op = "nested_ingest" /\ rec.old = found
    BY <1>2, <2>1 DEF TaskType
  <2>. QED BY <1>1, <1>4, <2>2, <2>3
<1>5. CASE ~(x.op = "nested_ingest")
           /\ ~(x.op = "after_turn" /\ Become(t, [x EXCEPT !.old = found, !.op = "nested_ingest"]))
  <2>1. PICK pc \in {"push", "working_set", "engine", "messages", "save", "turn"} :
          Become(t, [x EXCEPT !.old = found, !.pc = pc])
    <3>1. CASE x.op = "ingest"
      BY <3>1, <1>1 DEF Proceed, Become
    <3>2. CASE x.op = "assemble"
      BY <3>2, <1>1 DEF Proceed, Become
    <3>3. CASE x.op = "compact"
      BY <3>3, <1>1 DEF Proceed, Become
    <3>4. CASE x.op = "window"
      BY <3>4, <1>1 DEF Proceed, Become
    <3>5. CASE x.op = "after_turn"
      BY <3>5, <1>1, <1>5 DEF Proceed, Become
    <3>. QED BY <3>1, <3>2, <3>3, <3>4, <3>5, <1>1, <1>5
  <2>2. PICK rec : rec = [x EXCEPT !.old = found, !.pc = pc]
    OBVIOUS
  <2>3. rec.pc = pc /\ rec.op = x.op /\ rec.old = found
    BY <1>2, <2>2 DEF TaskType
  <2>. QED BY <1>1, <2>1, <2>2, <2>3 DEF Become
<1>. QED BY <1>3, <1>4, <1>5

\* A record a local step of t may leave, when it touches neither the context nor
\* the rules.
Leaves(t, rec) ==
  /\ task' = [task EXCEPT ![t] = rec]
  /\ rec = Idle \/ (rec.op = "window" <=> task[t].op = "window")
  /\ rec.old # None => task[t].old # None \/ ctx # None
  /\ rec.pc \in {"boot_rules", "boot_save"} /\ ~rec.blind => ctx = None
  /\ rec.pc \notin {"boot_save", "delete"} /\ task[t].pc \notin {"idle", "delete"}

LEMMA LeavesHook ==
  ASSUME IInv, HookInv, NEW t \in Tasks, NEW rec, Leaves(t, rec),
         UNCHANGED <<ctx, raced, rules, unruly>>
  PROVE  HookInv'
<1>. QED BY LocalHook DEF Leaves

LEMMA LoadHooks == ASSUME IInv, HookInv, NEW t \in Tasks, Load(t) PROVE HookInv'
<1>1. PICK ok \in BOOLEAN :
        LET found == IF ok THEN ctx ELSE None
        IN /\ Outcome(ok)
           /\ CASE task[t].op = "bootstrap" /\ found # None -> Back(t)
                [] task[t].op = "bootstrap" /\ found = None ->
                     Become(t, [task[t] EXCEPT !.pc = "boot_rules", !.blind = ~ok])
                [] OTHER -> IF found = None THEN AutoBootstrap(t) ELSE Proceed(t, found)
  BY DEF Load
<1>2. PICK found : found = IF ok THEN ctx ELSE None
  OBVIOUS
<1>3. PICK x : x = task[t]
  OBVIOUS
<1>4. /\ x \in TaskType /\ WellPlaced(x) /\ x.pc = "load"
      /\ x.op \in Handlers \cup {"nested_ingest"}
  BY <1>3, TaskOf DEF Load, WellPlaced
<1>5. \E rec : Leaves(t, rec)
  <2>1. CASE x.op = "bootstrap" /\ found # None
    <3>1. Back(t)
      BY <1>1, <1>2, <1>3, <2>1
    <3>2. CASE x.back = "none"
      <4>1. task' = [task EXCEPT ![t] = Idle]
        BY <3>1, <3>2, <1>3 DEF Back, End, Become
      <4>2. Leaves(t, Idle)
        BY <4>1, <1>3, <1>4 DEF Leaves, Idle
      <4>. QED BY <4>2
    <3>3. CASE x.back # "none"
      <4>1. PICK rec : rec = [x EXCEPT !.op = x.back, !.back = "none",
                                !.pc = "reload", !.blind = FALSE]
        OBVIOUS
      <4>2. task' = [task EXCEPT ![t] = rec]
        BY <3>1, <3>3, <1>3, <4>1 DEF Back, Become
      <4>3. /\ rec.pc = "reload" /\ rec.op = x.back /\ rec.old = x.old
            /\ x.back \in {"ingest", "assemble", "nested_ingest"}
        BY <1>4, <4>1, <3>3, <2>1 DEF TaskType, WellPlaced
      <4>4. Leaves(t, rec)
        BY <4>2, <4>3, <1>3, <1>4, <2>1 DEF Leaves
      <4>. QED BY <4>4
    <3>. QED BY <3>2, <3>3
  <2>2. CASE x.op = "bootstrap" /\ found = None
    <3>1. PICK rec : rec = [x EXCEPT !.pc = "boot_rules", !.blind = ~ok]
      OBVIOUS
    <3>2. task' = [task EXCEPT ![t] = rec]
      BY <1>1, <1>2, <1>3, <2>2, <3>1 DEF Become
    <3>3. rec.pc = "boot_rules" /\ rec.op = x.op /\ rec.old = x.old /\ rec.blind = ~ok
      BY <1>4, <3>1 DEF TaskType
    <3>4. Leaves(t, rec)
      BY <3>2, <3>3, <1>2, <1>3, <1>4, <2>2 DEF Leaves
    <3>. QED BY <3>4
  <2>3. CASE x.op # "bootstrap" /\ found = None
    <3>1. AutoBootstrap(t)
      BY <1>1, <1>2, <1>3, <2>3
    <3>2. CASE x.op \in {"ingest", "assemble", "nested_ingest"}
      <4>1. PICK rec : rec = [x EXCEPT !.op = "bootstrap", !.back = x.op]
        OBVIOUS
      <4>2. task' = [task EXCEPT ![t] = rec]
        BY <3>1, <3>2, <1>3, <4>1 DEF AutoBootstrap, Become
      <4>3. rec.pc = "load" /\ rec.op = "bootstrap" /\ rec.old = x.old
        BY <1>4, <4>1 DEF TaskType
      <4>4. Leaves(t, rec)
        BY <4>2, <4>3, <1>3, <1>4, <3>2 DEF Leaves
      <4>. QED BY <4>4
    <3>3. CASE x.op \notin {"ingest", "assemble", "nested_ingest"}
      <4>1. task' = [task EXCEPT ![t] = Idle]
        BY <3>1, <3>3, <1>3 DEF AutoBootstrap, End, Become
      <4>2. Leaves(t, Idle)
        BY <4>1, <1>3, <1>4 DEF Leaves, Idle
      <4>. QED BY <4>2
    <3>. QED BY <3>2, <3>3
  <2>4. CASE x.op # "bootstrap" /\ found # None
    <3>1. Proceed(t, found)
      BY <1>1, <1>2, <1>3, <2>4
    <3>2. x.op \in {"ingest", "assemble", "compact", "after_turn", "window", "nested_ingest"}
      BY <1>4, <2>4 DEF Handlers
    <3>3. PICK rec : /\ task' = [task EXCEPT ![t] = rec]
                     /\ rec.op = "window" <=> x.op = "window"
                     /\ rec.old \in {found, x.old}
                     /\ rec.pc \in {"push", "working_set", "engine", "messages", "save",
                                    "turn", "load"}
      BY <3>1, <3>2, <1>3, <1>4, ProceedHook
    <3>4. Leaves(t, rec)
      BY <3>3, <1>2, <1>3, <1>4 DEF Leaves
    <3>. QED BY <3>4
  <2>. QED BY <2>1, <2>2, <2>3, <2>4
<1>. QED BY <1>5, LeavesHook DEF Load, redis

LEMMA ReloadHooks == ASSUME IInv, HookInv, NEW t \in Tasks, Reload(t) PROVE HookInv'
<1>1. PICK ok \in BOOLEAN :
        LET found == IF ok THEN ctx ELSE None
        IN /\ Outcome(ok)
           /\ IF task[t].op = "assemble" /\ found = None THEN End(t) ELSE Proceed(t, found)
  BY DEF Reload
<1>2. PICK found : found = IF ok THEN ctx ELSE None
  OBVIOUS
<1>3. task[t].pc = "reload" /\ task[t].op \in {"ingest", "assemble", "nested_ingest"}
  BY TaskOf DEF Reload, WellPlaced
<1>4. \E rec : Leaves(t, rec)
  <2>1. CASE task[t].op = "assemble" /\ found = None
    <3>1. task' = [task EXCEPT ![t] = Idle]
      BY <1>1, <1>2, <2>1 DEF End, Become
    <3>2. Leaves(t, Idle)
      BY <3>1, <1>3 DEF Leaves, Idle
    <3>. QED BY <3>2
  <2>2. CASE ~(task[t].op = "assemble" /\ found = None)
    <3>1. Proceed(t, found)
      BY <1>1, <1>2, <2>2
    <3>2. PICK rec : /\ task' = [task EXCEPT ![t] = rec]
                     /\ rec.op = "window" <=> task[t].op = "window"
                     /\ rec.old \in {found, task[t].old}
                     /\ rec.pc \in {"push", "working_set", "engine", "messages", "save",
                                    "turn", "reload"}
      BY <3>1, <1>3, ProceedHook
    <3>3. Leaves(t, rec)
      BY <3>2, <1>2, <1>3 DEF Leaves
    <3>. QED BY <3>3
  <2>. QED BY <2>1, <2>2
<1>. QED BY <1>4, LeavesHook DEF Reload, redis

\* The other steps that only move a handler on.
LEMMA MovedHooks ==
  ASSUME IInv, HookInv, NEW t \in Tasks,
         \/ Push(t) \/ BuildWorkingSet(t) \/ Show(t) \/ CountTurn(t) \/ AfterSave(t)
         \/ ReadMessages(t) \/ CompactWithContext(t)
  PROVE  HookInv'
<1>1. PICK x : x = task[t]
  OBVIOUS
<1>2. /\ x \in TaskType /\ WellPlaced(x) /\ Holds(x)
      /\ x.pc \in {"push", "working_set", "show", "turn", "after_save", "messages", "engine"}
  BY <1>1, TaskOf DEF Push, BuildWorkingSet, Show, CountTurn, AfterSave, ReadMessages,
     CompactWithContext, At
<1>3. x.op # "window"
  BY <1>2 DEF WellPlaced
<1>4. SUFFICES \E rec : /\ task' = [task EXCEPT ![t] = rec]
                        /\ rec.op # "window" \/ rec = Idle
                        /\ rec.old # None => x.old # None
                        /\ rec.pc \notin {"boot_rules", "boot_save", "delete"}
  <2>1. ASSUME NEW rec, task' = [task EXCEPT ![t] = rec], rec.op # "window" \/ rec = Idle,
               rec.old # None => x.old # None,
               rec.pc \notin {"boot_rules", "boot_save", "delete"}
        PROVE  Leaves(t, rec)
    BY <2>1, <1>1, <1>2, <1>3 DEF Leaves
  <2>2. UNCHANGED <<ctx, raced, rules, unruly>>
    BY DEF Push, BuildWorkingSet, Show, CountTurn, AfterSave, ReadMessages,
           CompactWithContext, redis
  <2>. QED BY <2>1, <2>2, LeavesHook
<1>5. CASE task' = [task EXCEPT ![t] = Idle]
  <2>1. Idle.old = None /\ Idle.pc = "idle"
    BY DEF Idle
  <2>. QED BY <2>1, <1>5
<1>6. CASE Push(t) /\ x.op = "nested_ingest"
  <2>1. PICK rec : rec = [x EXCEPT !.op = "after_turn", !.pc = "turn"]
    OBVIOUS
  <2>2. rec.pc = "turn" /\ rec.op = "after_turn" /\ rec.old = x.old
    BY <1>2, <2>1 DEF TaskType
  <2>. QED BY <2>1, <2>2, <1>1, <1>6 DEF Push, Become
<1>7. CASE Push(t) /\ x.op # "nested_ingest"
  <2>1. PICK rec : rec = [x EXCEPT !.pc = "save"]
    OBVIOUS
  <2>2. rec.pc = "save" /\ rec.op = x.op /\ rec.old = x.old
    BY <1>2, <2>1 DEF TaskType
  <2>3. task' \in {[task EXCEPT ![t] = Idle], [task EXCEPT ![t] = rec]}
    BY <2>1, <1>1, <1>7 DEF Push, Goto, Become, End
  <2>. QED BY <2>2, <2>3, <1>3, <1>5
<1>8. CASE BuildWorkingSet(t)
  <2>1. PICK items : Become(t, [x EXCEPT !.pc = "show", !.items = items])
    BY <1>1, <1>8 DEF BuildWorkingSet
  <2>2. PICK rec : rec = [x EXCEPT !.pc = "show", !.items = items]
    OBVIOUS
  <2>3. rec.pc = "show" /\ rec.op = x.op /\ rec.old = x.old
    BY <1>2, <2>2 DEF TaskType
  <2>. QED BY <2>1, <2>2, <2>3, <1>3 DEF Become
<1>9. CASE Show(t)
  <2>1. PICK old, did : Become(t, [task[t] EXCEPT !.pc = "save", !.old = old, !.did = did])
    BY <1>9 DEF Show
  <2>2. PICK rec : rec = [x EXCEPT !.pc = "save", !.old = old, !.did = did]
    OBVIOUS
  <2>3. rec.pc = "save" /\ rec.op = x.op
    BY <1>2, <2>2 DEF TaskType
  <2>4. x.old # None
    BY <1>1, <1>2, <1>9 DEF Show, Holds
  <2>. QED BY <2>1, <2>2, <2>3, <2>4, <1>1, <1>3 DEF Become
<1>10. CASE CountTurn(t)
  <2>1. PICK old, items : old = [x.old EXCEPT !.turn = @ + 1]
                          /\ Become(t, [x EXCEPT !.pc = "save", !.old = old, !.items = items])
    BY <1>1, <1>2, <1>10 DEF CountTurn, TaskType
  <2>2. PICK rec : rec = [x EXCEPT !.pc = "save", !.old = old, !.items = items]
    OBVIOUS
  <2>3. rec.pc = "save" /\ rec.op = x.op
    BY <1>2, <2>2 DEF TaskType
  <2>4. x.old # None
    BY <1>1, <1>2, <1>10 DEF CountTurn, At, Holds
  <2>. QED BY <2>1, <2>2, <2>3, <2>4, <1>3 DEF Become
<1>11. CASE AfterSave(t)
  <2>1. PICK next : next = [Idle EXCEPT !.op = "compact", !.back = "after_turn", !.pc = "load"]
    OBVIOUS
  <2>2. task' \in {[task EXCEPT ![t] = Idle], [task EXCEPT ![t] = next]}
    BY <1>11, <2>1 DEF AfterSave, Become, End
  <2>3. next.pc = "load" /\ next.op = "compact" /\ next.old = None
    BY <2>1 DEF Idle
  <2>. QED BY <2>2, <2>3, <1>5
<1>12. CASE ReadMessages(t)
  <2>1. PICK next : next = [x EXCEPT !.pc = "engine"]
    OBVIOUS
  <2>2. task' \in {[task EXCEPT ![t] = Idle], [task EXCEPT ![t] = next]}
    BY <1>1, <1>12, <2>1 DEF ReadMessages, Goto, Become, End
  <2>3. next.pc = "engine" /\ next.op = x.op /\ next.old = x.old
    BY <1>2, <2>1 DEF TaskType
  <2>. QED BY <2>2, <2>3, <1>3, <1>5
<1>13. CASE CompactWithContext(t)
  <2>1. PICK old : old = [x.old EXCEPT !.compacts = @ + 1, !.shown = NewContext.shown, !.goal = -1]
    OBVIOUS
  <2>2. PICK done : done = [x EXCEPT !.pc = "save", !.old = old, !.did = "compacted"]
    OBVIOUS
  <2>3. PICK not : not = [x EXCEPT !.pc = "save"]
    OBVIOUS
  <2>4. x.old \in Context /\ x.old # None
    BY <1>1, <1>2, <1>13 DEF CompactWithContext, Holds, TaskType
  <2>5. [x EXCEPT !.pc = "save", !.old.compacts = @ + 1, !.old.shown = NewContext.shown,
                  !.old.goal = -1, !.did = "compacted"] = done
    BY <1>2, <2>4, <2>1, <2>2 DEF TaskType, Context
  <2>6. task' \in {[task EXCEPT ![t] = done], [task EXCEPT ![t] = not]}
    BY <1>1, <1>13, <2>3, <2>5 DEF CompactWithContext, Become
  <2>7. done.pc = "save" /\ done.op = x.op /\ not.pc = "save" /\ not.op = x.op
    BY <1>2, <2>2, <2>3 DEF TaskType
  <2>. QED BY <2>4, <2>6, <2>7, <1>3
<1>. QED BY <1>6, <1>7, <1>8, <1>9, <1>10, <1>11, <1>12, <1>13

LEMMA BootRulesHooks == ASSUME IInv, HookInv, NEW t \in Tasks, BootRules(t) PROVE HookInv'
<1>1. PICK x : x = task[t]
  OBVIOUS
<1>2. x \in TaskType /\ x.pc = "boot_rules"
  BY <1>1, TaskOf DEF BootRules
<1>3. PICK rec : rec = [x EXCEPT !.pc = "boot_save"]
  OBVIOUS
<1>4. task' = [task EXCEPT ![t] = rec]
  BY <1>1, <1>3 DEF BootRules, Goto, Become
<1>5. rec.pc = "boot_save" /\ rec.op = x.op /\ rec.old = x.old /\ rec.blind = x.blind
  BY <1>2, <1>3 DEF TaskType
<1>6. ~x.blind => ctx = None
  BY <1>1, <1>2, HookParts DEF BootsIntoNone
<1>7. ~unruly' => rules'
  BY SameRest DEF BootRules
<1>8. ctx' = ctx /\ raced' = raced
  BY DEF BootRules, redis
<1>. QED BY <1>1, <1>2, <1>4, <1>5, <1>6, <1>7, <1>8, LocalHook

\* A hook is alone with the reports of windows.
LEMMA OneBoots ==
  ASSUME IInv, HookInv, NEW t \in Tasks, t \in Hooks, NEW u \in Tasks, u # t
  PROVE  task[u].pc \notin {"boot_rules", "boot_save", "delete"}
<1>1. u \notin Hooks
  BY HookParts DEF OneHook
<1>. QED BY <1>1, TaskOf DEF Hooks, WellPlaced

LEMMA BootSaveHooks == ASSUME IInv, HookInv, NEW t \in Tasks, BootSave(t) PROVE HookInv'
<1>1. PICK x : x = task[t]
  OBVIOUS
<1>2. x \in TaskType /\ WellPlaced(x) /\ Holds(x) /\ x.pc = "boot_save" /\ x.op = "bootstrap"
  BY <1>1, TaskOf DEF BootSave, WellPlaced
<1>3. t \in Hooks
  BY <1>1, <1>2 DEF Hooks
<1>4. UNCHANGED <<rules, unruly>>
  BY DEF BootSave
<1>5. ~unruly => rules
  BY <1>1, <1>2, HookParts DEF RulesFirst
<1>6. CASE ctx' = NewContext /\ Back(t)
  <2>1. PICK next : next = [x EXCEPT !.op = x.back, !.back = "none",
                              !.pc = "reload", !.blind = FALSE]
    OBVIOUS
  <2>2. PICK rec : /\ rec = IF x.back = "none" THEN Idle ELSE next
                   /\ task' = [task EXCEPT ![t] = rec]
    BY <1>1, <1>6, <2>1 DEF Back, End, Become
  <2>3. rec = Idle \/ (rec.op # "window" /\ rec.pc = "reload")
    BY <1>2, <2>1, <2>2 DEF TaskType
  <2>4. OneHook' /\ Hooks' \subseteq Hooks
    BY <1>1, <1>2, <2>2, <2>3, SameHooks
  <2>5. \A u \in Tasks : task'[u] = IF u = t THEN rec ELSE task[u]
    BY <2>2, InvParts DEF TypeOK
  <2>6. \A u \in Tasks : task'[u].pc \notin {"boot_rules", "boot_save", "delete"}
    BY <2>3, <2>5, <1>3, OneBoots DEF Idle
  <2>7. ctx' # None
    BY <1>6, NewContextType, NoneAssumption
  <2>. QED BY <2>4, <2>6, <2>7, <1>4, <1>5
           DEF HookInv, CopiesOfNone, BootsIntoNone, RulesFirst, RulesWithContext
<1>7. CASE ctx' = ctx /\ raced' = raced /\ task' = [task EXCEPT ![t] = Idle]
  <2>1. Idle.old = None /\ Idle.pc = "idle"
    BY DEF Idle
  <2>. QED BY <2>1, <1>1, <1>2, <1>4, <1>5, <1>7, LocalHook
<1>8. CASE ctx' = ctx /\ raced' = raced
           /\ Become(t, [x EXCEPT !.op = "after_turn", !.back = "none",
                           !.pc = "turn", !.blind = FALSE])
  <2>1. PICK rec : rec = [x EXCEPT !.op = "after_turn", !.back = "none",
                             !.pc = "turn", !.blind = FALSE]
    OBVIOUS
  <2>2. rec.pc = "turn" /\ rec.op = "after_turn" /\ rec.old = x.old
    BY <1>2, <2>1 DEF TaskType
  <2>3. task' = [task EXCEPT ![t] = rec]
    BY <1>8, <2>1 DEF Become
  <2>. QED BY <2>2, <2>3, <1>1, <1>2, <1>4, <1>5, <1>8, LocalHook
<1>. QED BY <1>1, <1>6, <1>7, <1>8 DEF BootSave, End, Become

LEMMA CopyHooks ==
  ASSUME IInv, HookInv, NEW t \in Tasks,
         SaveCopy(t) \/ SaveAssembled(t) \/ SaveTurn(t) \/ SaveCompacted(t)
  PROVE  HookInv'
<1>1. PICK x : x = task[t]
  OBVIOUS
<1>2. x \in TaskType /\ WellPlaced(x) /\ Holds(x) /\ x.pc = "save"
  BY <1>1, TaskOf DEF SaveCopy, SaveAssembled, SaveTurn, SaveCompacted, At
<1>3. x.old \in Context /\ x.old # None
  BY <1>2 DEF Holds, TaskType
<1>4. UNCHANGED <<rules, unruly>>
  BY DEF SaveCopy, SaveAssembled, SaveTurn, SaveCompacted
<1>5. PICK rec : rec = [x EXCEPT !.pc = "after_save"]
  OBVIOUS
<1>6. rec.pc = "after_save" /\ rec.op = x.op
  BY <1>2, <1>5 DEF TaskType
<1>7. PICK noted : noted = [x.old EXCEPT !.window = @ \/ x.op = "window"]
  OBVIOUS
<1>8. noted \in Context
  BY <1>3, <1>7 DEF Context
<1>9. \/ ctx' = ctx /\ raced' = raced /\ task' = [task EXCEPT ![t] = Idle]
      \/ /\ ctx' \in {x.old, noted} /\ raced' = (raced \/ Racing(t))
         /\ task' \in {[task EXCEPT ![t] = Idle], [task EXCEPT ![t] = rec]}
  <2>1. CASE SaveCopy(t)
    BY <2>1, <1>1, <1>7, SameRest DEF SaveCopy, End, Become
  <2>2. CASE SaveAssembled(t)
    BY <2>2, <1>1, SameRest DEF SaveAssembled, End, Become
  <2>3. CASE SaveTurn(t)
    BY <2>3, <1>1, <1>5, SameRest DEF SaveTurn, Goto, End, Become
  <2>4. CASE SaveCompacted(t)
    BY <2>4, <1>1, SameRest DEF SaveCompacted, End, Become
  <2>. QED BY <2>1, <2>2, <2>3, <2>4
<1>10. CASE ctx' = ctx /\ raced' = raced /\ task' = [task EXCEPT ![t] = Idle]
  <2>1. Idle.old = None /\ Idle.pc = "idle"
    BY DEF Idle
  <2>. QED BY <2>1, <1>1, <1>2, <1>4, <1>10, LocalHook
<1>11. CASE /\ ctx' \in {x.old, noted} /\ raced' = (raced \/ Racing(t))
            /\ task' \in {[task EXCEPT ![t] = Idle], [task EXCEPT ![t] = rec]}
  <2>1. ctx' # None
    BY <1>3, <1>8, <1>11, NoneAssumption
  <2>. QED BY <2>1, <1>1, <1>2, <1>4, <1>6, <1>11, CopyWritten
<1>. QED BY <1>9, <1>10, <1>11

LEMMA DeleteHooks == ASSUME IInv, HookInv, NEW t \in Tasks, DeleteContext(t) PROVE HookInv'
<1>1. task[t].pc = "delete" /\ task' = [task EXCEPT ![t] = Idle]
  BY DEF DeleteContext, End, Become
<1>2. Idle.old = None /\ Idle.pc = "idle"
  BY DEF Idle
<1>3. t \in Hooks
  BY <1>1, TaskOf DEF Hooks, WellPlaced
<1>4. CASE ctx' = ctx /\ raced' = raced /\ unruly' = TRUE
  BY <1>1, <1>2, <1>4, LocalHook
<1>5. CASE ctx' = None /\ raced' = Racing(t) /\ unruly' = unruly
  <2>1. OneHook' /\ Hooks' \subseteq Hooks
    BY <1>1, SameHooks
  <2>2. \A u \in Tasks : task'[u] = IF u = t THEN Idle ELSE task[u]
    BY <1>1, InvParts DEF TypeOK
  <2>3. Hooks' = {}
    <3>1. t \notin Hooks'
      BY <1>2, <2>2 DEF Hooks
    <3>. QED BY <3>1, <2>1, <1>3, HookParts DEF OneHook
  <2>4. (\E u \in Tasks : task'[u].old # None) => raced'
    <3>1. ASSUME NEW u \in Tasks, task'[u].old # None PROVE raced'
      <4>1. u # t /\ task[u].old # None
        BY <3>1, <2>2, <1>2
      <4>2. task[u].pc # "idle"
        BY <4>1, <1>2, TaskOf DEF WellPlaced
      <4>. QED BY <4>1, <4>2, <1>5 DEF Racing, Others
    <3>. QED BY <3>1
  <2>5. \A u \in Tasks : task'[u].pc \notin {"boot_rules", "boot_save"}
    BY <2>2, <1>2, <1>3, OneBoots
  <2>. QED BY <2>1, <2>3, <2>4, <2>5, <1>5
           DEF HookInv, CopiesOfNone, BootsIntoNone, RulesFirst, RulesWithContext
<1>. QED BY <1>4, <1>5, SameRest DEF DeleteContext

LEMMA ExpireHooks == ASSUME IInv, HookInv, Expire PROVE HookInv'
<1>1. \A u \in Tasks : task'[u] = Idle
  BY QuietIdle DEF Expire
<1>. QED BY <1>1, IdleHooks DEF Expire, RulesWithContext, Idle

LEMMA RestartHooks == ASSUME IInv, HookInv, Restart PROVE HookInv'
<1>1. \A u \in Tasks : task'[u] = Idle
  BY DEF Restart
<1>. QED BY <1>1, IdleHooks DEF Restart, RulesWithContext, Idle

LEMMA StutterHooks == ASSUME HookInv, UNCHANGED vars PROVE HookInv'
<1>1. ctx' = ctx /\ raced' = raced /\ rules' = rules /\ unruly' = unruly /\ task' = task
  BY DEF vars, redis
<1>2. Hooks' = Hooks
  BY <1>1 DEF Hooks
<1>. QED BY <1>1, <1>2 DEF HookInv, OneHook, CopiesOfNone, BootsIntoNone, RulesFirst,
            RulesWithContext

\* With a client that waits for every hook but the report of the window, at most one
\* hook is in flight, and it knows whether there is a context.
THEOREM HookInvariant == ClientWaits => (Spec => []HookInv)
<1>1. SUFFICES ASSUME ClientWaits PROVE Spec => []HookInv
  OBVIOUS
<1>2. Init => HookInv
  BY InitHooks
<1>3. ASSUME IInv, HookInv, [Next]_vars PROVE HookInv'
  <2>1. ASSUME NEW t \in Tasks, Begin(t) \/ RefreshRules(t) \/ UnloadGuards(t) \/ Step(t)
        PROVE  HookInv'
    BY <1>1, <1>3, <2>1, BeginHooks, RefreshHooks, UnloadHooks, LoadHooks, ReloadHooks,
       BootRulesHooks, BootSaveHooks, MovedHooks, CopyHooks, DeleteHooks DEF Step
  <2>. QED BY <1>3, <2>1, ExpireHooks, RestartHooks, StutterHooks DEF Next
<1>. QED BY <1>2, <1>3, SessionInvariant, PTL DEF Spec

\* A session with a context has its rules loaded, however its hooks, the reports of
\* windows, expiry and faults interleave.
THEOREM RulesWithContextHolds == ClientWaits => (Spec => []RulesWithContext)
<1>1. HookInv => RulesWithContext
  BY DEF HookInv
<1>. QED BY <1>1, HookInvariant, PTL

\* bootstrap replaces a context only when it could not read it.
THEOREM BootstrapHolds == ClientWaits => (Spec => BootstrapKeepsContext)
<1>1. SUFFICES ASSUME ClientWaits PROVE Spec => BootstrapKeepsContext
  OBVIOUS
<1>2. HookInv => (\A t \in Tasks : task[t].pc = "boot_save" /\ ctx # None /\ ctx' # ctx =>
                    task[t].blind \/ raced')
  BY DEF HookInv, BootsIntoNone
<1>3. Spec => []HookInv
  BY <1>1, HookInvariant
<1>. QED BY <1>2, <1>3, PTL DEF BootstrapKeepsContext

=============================================================================
