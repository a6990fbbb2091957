-------------------------- MODULE SessionLifecycle --------------------------
(***************************************************************************)
(* The context engine of one session (runtime/context/lifecycle.py).       *)
(*                                                                         *)
(* Everything the engine remembers of a session between two hooks of the   *)
(* client is one JSON object in Redis, the SessionContext.  A handler reads *)
(* the whole object, awaits stores and LLMs, and writes the whole object   *)
(* back: there is no lock and no version.  The client awaits its hooks one *)
(* after the other, except for the report of the context window, which is  *)
(* fire and forget, and for calls of other plugins.                        *)
(*                                                                         *)
(* A step is one Redis command or one other await that matters.  One item  *)
(* list (the working set), one goal and one session stand for all of them. *)
(* Extraction is TurnIngest's; the guards' own state is GuardPipeline's,   *)
(* here only whether the rules of the session are loaded.                  *)
(***************************************************************************)
EXTENDS Integers, FiniteSets

CONSTANTS
  Items,        \* what a working set can show
  Tasks,        \* asyncio tasks (a bound on concurrency)
  Calls,        \* the calls made in an instance (a bound)
  Overlapping,  \* calls that need not wait for other handlers
  CompactAt,    \* messages the policy lets a session have before it compacts
  Reminder,     \* goal_reminder_interval
  MaxTurns,     \* turns of a session (a bound)
  MaxCompacts,  \* compactions of a session (a bound)
  MaxFaults,    \* failed awaits (a bound)
  None

ASSUME ConstantsAssumption ==
  /\ {CompactAt, Reminder} \subseteq Nat \ {0}
  /\ {MaxTurns, MaxCompacts, MaxFaults} \subseteq Nat
  /\ Overlapping \subseteq Calls

VARIABLES
  ctx,       \* the SessionContext in Redis, or None
  messages,  \* length of session_messages (CompactAt + 1: longer)
  snapshot,  \* the cached working set, or None
  rules,     \* the guard engine of this process holds the session's rules
  faults,    \* history: failed awaits
  raced,     \* history: the context was written past another handler's copy
  unruly,    \* history: the rules were lost or not loaded
  turns,     \* history: turns completed since the context was created
  compacted, \* history: compactions since then
  compactAt, \* history: turns when the last of them was saved
  goalAt,    \* history: turns when the goal was last handed to the assembler, -1 never
  unshown,   \* history: a goal was noted as injected and did not reach the assembler
  task       \* the asyncio tasks in flight

redis   == <<ctx, messages, snapshot>>
counted == <<turns, compacted, compactAt, goalAt, unshown>>
vars    == <<redis, rules, faults, raced, unruly, counted, task>>

\* turn_count, compact_count, fact_last_injection_turn, goal_inject_history of
\* the goal (in both -1: no entry), last_snapshot_id, and whether the context window
\* was reported.
Context == [turn : Nat, compacts : Nat,
            shown : [Items -> Nat \cup {-1}], goal : Nat \cup {-1}, snap : BOOLEAN, window : BOOLEAN]
NewContext == [turn |-> 0, compacts |-> 0, shown |-> [i \in Items |-> -1],
               goal |-> -1, snap |-> FALSE, window |-> FALSE]

ASSUME NoneAssumption == None \notin Context

AllCalls == {"bootstrap", "ingest", "assemble", "compact", "after_turn", "window",
             "refresh", "end", "expire", "restart"}
PCs == {"idle", "load", "boot_rules", "boot_save", "reload", "push", "save",
        "working_set", "show", "turn", "after_save", "messages", "engine", "delete"}

\* op: the function being run, back: the caller it returns to ("none": the route).
\* old: the copy of the context.  blind: the read that found none had failed.
\* items: the working set at hand.  did: what became of the goal in an assemble
\* (left out, shown, noted but lost on the way, not read), or "compacted".
Idle == [pc |-> "idle", op |-> "none", back |-> "none", old |-> None,
         blind |-> FALSE, items |-> None, did |-> "none"]
TaskType == [pc : PCs, op : AllCalls \cup {"none", "nested_ingest"},
             back : {"none", "ingest", "assemble", "nested_ingest", "after_turn"},
             old : Context \cup {None}, blind : BOOLEAN,
             items : (SUBSET Items) \cup {None},
             did : {"none", "left_out", "shown", "lost", "unread", "compacted"}]

Become(t, rec) == task' = [task EXCEPT ![t] = rec]
Goto(t, pc)    == Become(t, [task[t] EXCEPT !.pc = pc])
End(t)         == Become(t, Idle)
At(t, op, pc)  == task[t].op = op /\ task[t].pc = pc
Others(t)      == {u \in Tasks \ {t} : task[u].pc # "idle"}

Outcome(ok) ==
  /\ ok \/ faults < MaxFaults
  /\ faults' = IF ok THEN faults ELSE faults + 1

\* A context written while other handlers are between their read and their write.
Racing(t) == Others(t) # {}

Init ==
  /\ ctx = None /\ messages = 0 /\ snapshot = None /\ rules = FALSE
  /\ faults = 0 /\ raced = FALSE /\ unruly = FALSE
  /\ turns = 0 /\ compacted = 0 /\ compactAt = 0 /\ goalAt = -1
  /\ unshown = FALSE
  /\ task = [t \in Tasks |-> Idle]

------------------------------------------------------------------------------
(* Reading the context                                                     *)

Quiet == \A t \in Tasks : task[t].pc = "idle"
MayBegin(t, op) == /\ op \in Calls /\ task[t].pc = "idle"
                   /\ op \in Overlapping \/ Quiet

\* A handler that starts by reading the context.
Handlers == {"bootstrap", "ingest", "assemble", "compact", "after_turn", "window"}
Begin(t) ==
  /\ \E op \in Handlers :
       /\ MayBegin(t, op)
       /\ op \in {"after_turn", "compact"} => turns < MaxTurns /\ compacted < MaxCompacts
       /\ Become(t, [Idle EXCEPT !.op = op, !.pc = "load"])
  /\ UNCHANGED <<redis, rules, faults, raced, unruly, counted>>

\* Where a handler goes with the context it found.
Proceed(t, found) ==
  LET with == [task[t] EXCEPT !.old = found]
  IN CASE task[t].op = "ingest"   -> Become(t, [with EXCEPT !.pc = "push"])
       [] task[t].op = "assemble" -> Become(t, [with EXCEPT !.pc = "working_set"])
       [] task[t].op = "compact"  -> Become(t, [with EXCEPT !.pc =
            IF task[t].back = "after_turn" THEN "engine" ELSE "messages"])
       [] task[t].op = "window"   -> Become(t, [with EXCEPT !.pc = "save"])
       [] task[t].op = "nested_ingest" -> Goto(t, "push")
       [] task[t].op = "after_turn" ->  \* with messages they are ingested first
            \/ Become(t, [with EXCEPT !.op = "nested_ingest"])
            \/ Become(t, [with EXCEPT !.pc = "turn"])

\* ingest_batch and assemble bootstrap a session they do not find; the others return.
AutoBootstrap(t) ==
  IF task[t].op \in {"ingest", "assemble", "nested_ingest"}
  THEN Become(t, [task[t] EXCEPT !.op = "bootstrap", !.back = task[t].op])
  ELSE End(t)

\* Where bootstrap returns to.
Back(t) ==
  IF task[t].back = "none" THEN End(t)
  ELSE Become(t, [task[t] EXCEPT !.op = task[t].back, !.back = "none",
                    !.pc = "reload", !.blind = FALSE])

\* Faulty variant: bootstrap builds a context whatever it finds.
LoadAlwaysBoot(t) ==
  /\ task[t].pc = "load"
  /\ \E ok \in BOOLEAN :
       LET found == IF ok THEN ctx ELSE None
       IN /\ Outcome(ok)
          /\ CASE task[t].op = "bootstrap" ->
                    Become(t, [task[t] EXCEPT !.pc = "boot_rules", !.blind = ~ok])
               [] OTHER -> IF found = None THEN AutoBootstrap(t) ELSE Proceed(t, found)
  /\ UNCHANGED <<redis, rules, raced, unruly, counted>>

\* _load_session_context.  A failed read looks like no context at all.
Load(t) ==
  /\ task[t].pc = "load"
  /\ \E ok \in BOOLEAN :
       LET found == IF ok THEN ctx ELSE None
       IN /\ Outcome(ok)
          /\ CASE task[t].op = "bootstrap" /\ found # None -> Back(t)
               [] task[t].op = "bootstrap" /\ found = None ->
                    Become(t, [task[t] EXCEPT !.pc = "boot_rules", !.blind = ~ok])
               [] OTHER -> IF found = None THEN AutoBootstrap(t) ELSE Proceed(t, found)
  /\ UNCHANGED <<redis, rules, raced, unruly, counted>>

\* The second read, after the bootstrap.  Without a context an assemble gives the
\* messages back as they came; an ingest goes on without one.
Reload(t) ==
  /\ task[t].pc = "reload"
  /\ \E ok \in BOOLEAN :
       LET found == IF ok THEN ctx ELSE None
       IN /\ Outcome(ok)
          /\ IF task[t].op = "assemble" /\ found = None THEN End(t) ELSE Proceed(t, found)
  /\ UNCHANGED <<redis, rules, raced, unruly, counted>>

------------------------------------------------------------------------------
(* Bootstrap                                                               *)

\* Faulty variant: only an explicit bootstrap loads the rules.
BootRulesExplicitly(t) ==
  /\ task[t].pc = "boot_rules"
  /\ \E ok \in BOOLEAN :
       /\ Outcome(ok)
       /\ rules' = (rules \/ (ok /\ task[t].back = "none"))
       /\ unruly' = ~(rules \/ ok)
  /\ Goto(t, "boot_save")
  /\ UNCHANGED <<redis, raced, counted>>

\* load_session_rules: a failure is logged and the bootstrap goes on.
BootRules(t) ==
  /\ task[t].pc = "boot_rules"
  /\ \E ok \in BOOLEAN :
       /\ Outcome(ok)
       /\ rules' = (rules \/ ok)
       /\ unruly' = ~rules'
  /\ Goto(t, "boot_save")
  /\ UNCHANGED <<redis, raced, counted>>

\* The new context is written over whatever is there now.  When the write raises,
\* so does the handler; only after_turn catches what its ingest raises.
BootSave(t) ==
  /\ task[t].pc = "boot_save"
  /\ \E ok \in BOOLEAN :
       /\ Outcome(ok)
       /\ IF ok
          THEN /\ ctx' = NewContext
               /\ raced' = (Racing(t) \/ task[t].back = "nested_ingest")
               /\ turns' = 0 /\ compacted' = 0 /\ compactAt' = 0 /\ goalAt' = -1
               /\ unshown' = FALSE
               /\ Back(t)
          ELSE /\ UNCHANGED <<ctx, raced, counted>>
               /\ IF task[t].back = "nested_ingest"
                  THEN Become(t, [task[t] EXCEPT !.op = "after_turn", !.back = "none",
                                    !.pc = "turn", !.blind = FALSE])
                  ELSE End(t)
  /\ UNCHANGED <<messages, snapshot, rules, unruly>>

\* refresh_guard_rules, after a procedure was activated, completed or abandoned.
RefreshRules(t) ==
  /\ MayBegin(t, "refresh")
  /\ \E ok \in BOOLEAN : Outcome(ok) /\ rules' = (rules \/ ok)
  /\ UNCHANGED <<redis, raced, unruly, counted, task>>

------------------------------------------------------------------------------
(* Ingest                                                                  *)

\* The messages are appended for compact to read; a failure is swallowed.  Then
\* artifacts are captured and the turn is ingested, which raises nothing.
Push(t) ==
  /\ task[t].pc = "push"
  /\ \E ok \in BOOLEAN :
       /\ Outcome(ok)
       /\ messages' = IF ok /\ messages <= CompactAt THEN messages + 1 ELSE messages
  /\ CASE task[t].op = "nested_ingest" ->
            Become(t, [task[t] EXCEPT !.op = "after_turn", !.pc = "turn"])
       [] task[t].op # "nested_ingest" /\ task[t].old = None -> End(t)
       [] OTHER -> Goto(t, "save")
  /\ UNCHANGED <<ctx, snapshot, rules, raced, unruly, counted>>

\* The end of ingest_batch and of a report of the context window: the whole
\* context is written back as it was read.
SaveCopy(t) ==
  /\ task[t].op \in {"ingest", "window"} /\ task[t].pc = "save"
  /\ \E ok \in BOOLEAN :
       /\ Outcome(ok)
       /\ ctx' = IF ok THEN [task[t].old EXCEPT !.window = @ \/ task[t].op = "window"]
                  ELSE ctx
       /\ raced' = (raced \/ (ok /\ Racing(t)))
  /\ End(t)
  /\ UNCHANGED <<messages, snapshot, rules, unruly, counted>>

------------------------------------------------------------------------------
(* Assemble                                                                *)

\* build_working_set: a failure leaves the turn without a snapshot.
BuildWorkingSet(t) ==
  /\ task[t].pc = "working_set"
  /\ \E items \in (SUBSET Items) \cup {None} :
       /\ Outcome(items # None)
       /\ Become(t, [task[t] EXCEPT !.pc = "show", !.items = items])
  /\ UNCHANGED <<redis, rules, raced, unruly, counted>>

\* Faulty variant: the reminder comes a turn late.
DueLate(c, pressing) == c.goal = -1 \/ pressing \/ c.turn - c.goal > Reminder

\* Is the goal handed to the assembler?  pressing: it has blockers or its status is new.
Due(c, pressing) ==
  \/ c.goal = -1
  \/ pressing
  \/ c.turn - c.goal >= Reminder

\* The turn of each item's first injection since the last compaction.
Injected(c, items) ==
  [i \in Items |-> IF i \in items /\ c.shown[i] = -1 THEN c.turn ELSE c.shown[i]]

\* The goals are read and filtered, the prompt is put together from the snapshot,
\* the snapshot is cached.  Each of the three may fail and is then passed over.
Show(t) ==
  /\ task[t].pc = "show"
  /\ \E pressing, read, built, cached \in BOOLEAN :
       LET old    == task[t].old
           items  == task[t].items
           due    == read /\ Due(old, pressing)
           noted  == [old EXCEPT !.goal = IF due THEN old.turn ELSE @]
       IN /\ Outcome(read /\ built /\ cached)
          /\ snapshot' = IF items # None /\ cached THEN items ELSE snapshot
          /\ Become(t, [task[t] EXCEPT !.pc = "save",
               !.old = IF items = None THEN noted
                       ELSE [noted EXCEPT !.shown = Injected(old, items), !.snap = TRUE],
               !.did = CASE ~read -> "unread"
                         [] read /\ ~due -> "left_out"
                         [] due /\ items # None /\ built -> "shown"
                         [] OTHER -> "lost"])
  /\ UNCHANGED <<ctx, messages, rules, raced, unruly, counted>>

\* The end of assemble: save, and the prompt goes to the client.
SaveAssembled(t) ==
  /\ At(t, "assemble", "save")
  /\ \E ok \in BOOLEAN :
       /\ Outcome(ok)
       /\ ctx' = IF ok THEN task[t].old ELSE ctx
       /\ raced' = (raced \/ (ok /\ Racing(t)))
       /\ goalAt' = IF ok /\ task[t].did = "shown" THEN turns ELSE goalAt
       /\ unshown' = CASE ok /\ task[t].did = "lost" -> TRUE
                       [] ok /\ task[t].did = "shown" -> FALSE
                       [] OTHER -> unshown
  /\ End(t)
  /\ UNCHANGED <<messages, snapshot, rules, unruly, turns, compacted, compactAt>>

------------------------------------------------------------------------------
(* The end of a turn                                                       *)

\* The turn is counted, the cached snapshot is read, and the use of its items is
\* traced in the response.
CountTurn(t) ==
  /\ At(t, "after_turn", "turn")
  /\ \E ok \in BOOLEAN :
       /\ Outcome(ok)
       /\ Become(t, [task[t] EXCEPT !.pc = "save", !.old.turn = @ + 1,
                       !.items = IF ok /\ task[t].old.snap THEN snapshot ELSE None])
  /\ UNCHANGED <<redis, rules, raced, unruly, counted>>

\* after_turn saves here, before it is done with the context.
SaveTurn(t) ==
  /\ At(t, "after_turn", "save")
  /\ \E ok \in BOOLEAN :
       /\ Outcome(ok)
       /\ ctx' = IF ok THEN task[t].old ELSE ctx
       /\ raced' = (raced \/ (ok /\ Racing(t)))
       /\ turns' = IF ok THEN turns + 1 ELSE turns
       /\ IF ok THEN Goto(t, "after_save") ELSE End(t)
  /\ UNCHANGED <<messages, snapshot, rules, unruly, compacted, compactAt, goalAt,
                 unshown>>

\* The RT-1 trigger counts in the copy that was saved a moment ago, so the count is
\* lost (UseCounts has what the signals do); and the
\* messages of the session are counted, to compact when there are too many.
AfterSave(t) ==
  /\ At(t, "after_turn", "after_save")
  /\ \E ok \in BOOLEAN :
       /\ Outcome(ok)
       /\ IF ok /\ messages > CompactAt
          THEN Become(t, [Idle EXCEPT !.op = "compact", !.back = "after_turn", !.pc = "load"])
          ELSE End(t)
  /\ UNCHANGED <<redis, rules, raced, unruly, counted>>

------------------------------------------------------------------------------
(* Compaction                                                              *)

\* An explicit compact reads the messages itself.
ReadMessages(t) ==
  /\ task[t].pc = "messages"
  /\ \E ok \in BOOLEAN :
       /\ Outcome(ok)
       /\ IF ok /\ messages > 0 THEN Goto(t, "engine") ELSE End(t)
  /\ UNCHANGED <<redis, rules, raced, unruly, counted>>

\* Faulty variant: what was injected before the compaction stays noted.
CompactKeepingHistory(t) ==
  /\ task[t].pc = "engine"
  /\ \E force, ok \in BOOLEAN :
       /\ Outcome(ok)
       /\ Become(t, IF ok /\ (force \/ messages > CompactAt)
                    THEN [task[t] EXCEPT !.pc = "save", !.old.compacts = @ + 1,
                                         !.did = "compacted"]
                    ELSE [task[t] EXCEPT !.pc = "save"])
  /\ UNCHANGED <<redis, rules, raced, unruly, counted>>

\* compact_with_context: forced or past the threshold.  What was injected before
\* is forgotten, so that it is injected again.  The engine may raise.
CompactWithContext(t) ==
  /\ task[t].pc = "engine"
  /\ \E force, ok \in BOOLEAN :
       /\ force => task[t].back = "none"
       /\ Outcome(ok)
       /\ Become(t, IF ok /\ (force \/ messages > CompactAt)
                    THEN [task[t] EXCEPT !.pc = "save", !.old.compacts = @ + 1,
                            !.old.shown = NewContext.shown, !.old.goal = -1,
                            !.did = "compacted"]
                    ELSE [task[t] EXCEPT !.pc = "save"])
  /\ UNCHANGED <<redis, rules, raced, unruly, counted>>

\* The end of compact.
SaveCompacted(t) ==
  /\ At(t, "compact", "save")
  /\ \E ok \in BOOLEAN :
       LET done == ok /\ task[t].did = "compacted"
       IN /\ Outcome(ok)
          /\ ctx' = IF ok THEN task[t].old ELSE ctx
          /\ raced' = (raced \/ (ok /\ Racing(t)))
          /\ compacted' = IF done THEN compacted + 1 ELSE compacted
          /\ compactAt' = IF done THEN turns ELSE compactAt
          /\ goalAt' = IF done THEN -1 ELSE goalAt
          /\ unshown' = (unshown /\ ~done)
  /\ End(t)
  /\ UNCHANGED <<messages, snapshot, rules, unruly, turns>>

------------------------------------------------------------------------------
(* The end of a session, of its keys, of the process                       *)

\* session_end: goals are flushed, the guards unloaded ...
UnloadGuards(t) ==
  /\ MayBegin(t, "end")
  /\ rules' = FALSE
  /\ Become(t, [Idle EXCEPT !.op = "end", !.pc = "delete"])
  /\ UNCHANGED <<redis, faults, raced, unruly, counted>>

\* ... and the context is deleted.  The route swallows a failure.
DeleteContext(t) ==
  /\ task[t].pc = "delete"
  /\ \E ok \in BOOLEAN :
       /\ Outcome(ok)
       /\ ctx' = IF ok THEN None ELSE ctx
       /\ raced' = IF ok THEN Racing(t) ELSE raced
       /\ unruly' = (unruly \/ ~ok)
  /\ End(t)
  /\ UNCHANGED <<messages, snapshot, rules, counted>>

\* Redis drops the keys of an idle session; every ingest sets their expiry anew.
Expire ==
  /\ "expire" \in Calls /\ Quiet /\ ctx # None
  /\ ctx' = None /\ messages' = 0 /\ snapshot' = None /\ raced' = FALSE
  /\ UNCHANGED <<rules, faults, unruly, counted, task>>

\* The process dies with its handlers and its guard engine.
Restart ==
  /\ "restart" \in Calls /\ (rules \/ ~Quiet)
  /\ rules' = FALSE /\ unruly' = TRUE
  /\ task' = [t \in Tasks |-> Idle]
  /\ UNCHANGED <<redis, faults, raced, counted>>

Step(t) ==
  \/ Load(t) \/ Reload(t) \/ BootRules(t) \/ BootSave(t)
  \/ Push(t) \/ SaveCopy(t)
  \/ BuildWorkingSet(t) \/ Show(t) \/ SaveAssembled(t)
  \/ CountTurn(t) \/ SaveTurn(t) \/ AfterSave(t)
  \/ ReadMessages(t) \/ CompactWithContext(t) \/ SaveCompacted(t)
  \/ DeleteContext(t)

Next ==
  \/ \E t \in Tasks : Begin(t) \/ RefreshRules(t) \/ UnloadGuards(t) \/ Step(t)
  \/ Expire
  \/ Restart

Spec == Init /\ [][Next]_vars

------------------------------------------------------------------------------
(* Properties                                                              *)

\* Every variable, the copies of the handlers included, has its type.
TypeOK ==
  /\ ctx \in Context \cup {None}
  /\ messages \in 0..CompactAt + 1
  /\ snapshot \in (SUBSET Items) \cup {None}
  /\ rules \in BOOLEAN /\ raced \in BOOLEAN /\ unruly \in BOOLEAN /\ unshown \in BOOLEAN
  /\ faults \in 0..MaxFaults
  /\ {turns, compacted, compactAt} \subseteq Nat
  /\ goalAt \in Nat \cup {-1}
  /\ task \in [Tasks -> TaskType]

\* While a session has a context its guard rules are loaded, unless the process
\* was restarted, loading or deleting failed, or handlers raced: bootstrap returns
\* early where a context exists, so nothing would load them later.
RulesWithContext ==
  ctx # None /\ ~raced /\ ~unruly /\ (\A t \in Tasks : task[t].pc # "delete") => rules

\* turn_count counts the turns of the session once each, whatever order
\* ingest_batch and after_turn come in, and compact_count its compactions, as long
\* as no handler wrote its copy past another one's.
TurnsCounted ==
  ctx # None /\ ~raced => ctx.turn = turns /\ ctx.compacts = compacted

\* After a compaction nothing counts as injected that was injected before it: the
\* goal is due again and items get a new injection turn.
CompactionForgets ==
  ctx # None /\ ~raced =>
    /\ \A i \in Items : ctx.shown[i] # -1 => ctx.shown[i] >= compactAt
    /\ ctx.goal # -1 => ctx.goal >= compactAt

\* What later turns are built from is true of the session.
ContextTrue == TurnsCounted /\ CompactionForgets

\* An assemble leaves the goal out only when the assembler was handed it less than
\* Reminder turns ago and no compaction came since.  Two exceptions: racing handlers,
\* and a goal noted as injected by an assemble that then failed to build its prompt.
GoalReminded ==
  \A t \in Tasks :
    task[t].did = "left_out" /\ ~raced /\ ~unshown =>
      goalAt # -1 /\ turns - goalAt < Reminder

\* bootstrap, which runs again and again in a session, never replaces a context
\* by a new one, unless its read failed or handlers raced.
BootstrapKeepsContext ==
  [][\A t \in Tasks : task[t].pc = "boot_save" /\ ctx # None /\ ctx' # ctx =>
       task[t].blind \/ raced']_vars

------------------------------------------------------------------------------
(* The inductive invariant behind the first three                          *)

\* What a task is doing, and with what in hand, at each of its steps.
WellPlaced(x) ==
  /\ x.pc = "idle" => x = Idle
  /\ x.pc = "load" => x.op \in Handlers \cup {"nested_ingest"}
  /\ x.pc \in {"boot_rules", "boot_save"} => x.op = "bootstrap"
  /\ x.pc = "reload" => x.op \in {"ingest", "assemble", "nested_ingest"}
  /\ x.pc = "push" => x.op \in {"ingest", "nested_ingest"}
  /\ x.pc \in {"working_set", "show"} => x.op = "assemble"
  /\ x.pc \in {"turn", "after_save"} => x.op = "after_turn"
  /\ x.pc \in {"messages", "engine"} => x.op = "compact"
  /\ x.pc = "save" => x.op \in {"ingest", "window", "assemble", "after_turn", "compact"}
  /\ x.pc = "delete" => x.op = "end"
  /\ x.op = "bootstrap" => x.back \in {"none", "ingest", "assemble", "nested_ingest"}
  /\ x.back = "nested_ingest" => x.op = "bootstrap"

\* Who holds a copy of the context: every step past the read, and the ingest
\* nested in after_turn from its first step on; who has yet to read, none.
Holds(x) ==
  /\ \/ x.pc \in {"working_set", "show", "turn", "after_save", "messages", "engine", "save"}
     \/ x.op = "nested_ingest"
     \/ x.op = "bootstrap" /\ x.back = "nested_ingest"
     => x.old # None
  /\ (x.pc = "load" \/ x.op = "bootstrap") /\ "nested_ingest" \notin {x.op, x.back}
     => x.old = None
  /\ x.did \in {"left_out", "shown", "lost", "unread"} <=> x.pc = "save" /\ x.op = "assemble"
  /\ x.did = "compacted" => x.pc = "save" /\ x.op = "compact"

\* Nothing injected before the last compaction is noted in c; the goal noted in
\* c did reach the assembler, then or later.
Forgets(c) ==
  /\ \A i \in Items : c.shown[i] # -1 => c.shown[i] >= compactAt
  /\ c.goal # -1 => c.goal >= compactAt
Reached(c) == c.goal # -1 /\ ~unshown => goalAt >= c.goal
Told(c) == c.turn = turns /\ c.compacts = compacted /\ Forgets(c) /\ Reached(c)

\* How far the copy of a handler is ahead of what it will have done when it is saved.
Agrees(x) ==
  CASE x.pc = "after_save" -> TRUE
    [] x.pc = "save" /\ x.op = "after_turn" ->
         /\ x.old.turn = turns + 1 /\ x.old.compacts = compacted
         /\ Forgets(x.old) /\ Reached(x.old)
    [] x.pc = "save" /\ x.op = "compact" /\ x.did = "compacted" ->
         /\ x.old.turn = turns /\ x.old.compacts = compacted + 1
         /\ x.old.shown = NewContext.shown /\ x.old.goal = -1
    [] x.pc = "save" /\ x.op = "assemble" ->
         /\ x.old.turn = turns /\ x.old.compacts = compacted /\ Forgets(x.old)
         /\ x.did = "shown" => x.old.goal = turns
         /\ x.did \in {"left_out", "unread"} => Reached(x.old)
         /\ x.did = "left_out" => x.old.goal # -1 /\ turns - x.old.goal < Reminder
    [] OTHER -> Told(x.old)

IInv ==
  /\ TypeOK
  /\ compactAt <= turns
  /\ ctx # None /\ ~raced => Told(ctx)
  /\ \A t \in Tasks : /\ WellPlaced(task[t]) /\ Holds(task[t])
                      /\ ~raced /\ task[t].old # None => Agrees(task[t])

------------------------------------------------------------------------------
(* ... and behind the rules and the bootstrap, for the client as it is: it *)
(* waits for every hook but the report of the window.                      *)

ClientWaits == Overlapping \subseteq {"window"}

Hooks == {t \in Tasks : task[t].pc # "idle" /\ task[t].op # "window"}
OneHook == \A t, u \in Hooks : t = u

\* A copy outlives the context only in the report of a window that a session end
\* overtook; no hook is in flight then.
CopiesOfNone ==
  ctx = None /\ (\E t \in Tasks : task[t].old # None) => raced /\ Hooks = {}

\* Where a bootstrap that could read has got, there is no context.
BootsIntoNone ==
  \A t \in Tasks :
    task[t].pc \in {"boot_rules", "boot_save"} /\ ~task[t].blind => ctx = None

RulesFirst == \A t \in Tasks : task[t].pc = "boot_save" /\ ~unruly => rules

HookInv == OneHook /\ CopiesOfNone /\ BootsIntoNone /\ RulesFirst /\ RulesWithContext

=============================================================================
