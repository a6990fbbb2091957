---------------------------- MODULE SessionGoals ----------------------------
(***************************************************************************)
(* The goals of one session: runtime/working_set/session_goals.py, the     *)
(* hint processor and the refinement task over it, and the routes of       *)
(* api/routes/goals.py.                                                    *)
(*                                                                         *)
(* Redis holds the whole list under one key.  Every writer reads the list, *)
(* awaits, and stores all of it again.  A turn works on a snapshot it      *)
(* fetched earlier: a hint changes the goal in the snapshot, and           *)
(* update_goal copies every field of that goal into the list it reads.     *)
(***************************************************************************)
EXTENDS Integers, FiniteSets

CONSTANTS
    Goals,
    ParentOf,   \* of the sub-goals, in a function on Goals; NoGoal otherwise
    Auto,       \* goals made for a procedure's steps, source_type "auto"
    NoGoal,
    Turns, Workers, Requests,  \* batches of hints, tier-2 tasks, API calls
    SubLimit,   \* max_subgoals_per_session
    MaxHints, MaxFaults        \* bounds

\* What MCParts assumes of the constants.
SessionGoalsAssumption ==
    /\ ParentOf \in [Goals -> Goals \cup {NoGoal}] /\ NoGoal \notin Goals
    /\ Auto \subseteq Goals /\ IsFiniteSet(Goals)
    /\ {SubLimit, MaxHints, MaxFaults} \subseteq Nat

VARIABLES
    goals,     \* the stored list, as a function on the goals it holds
    graph,     \* goals a flush wrote to the graph
    task,      \* one record per turn, worker and request
    hold,      \* hold[h]: the list turn h works on, shared with its workers
    mishaps,
    due,       \* the list that the completed calls should have left; history
    byRuntime, \* auto goals the runtime resolved; history
    stale,     \* a list or goal was stored that another write had overtaken,
               \* or a read had failed to see; history
    raced      \* a sub-goal was added on a count that had changed; history

gvars == <<goals, graph, task, hold, mishaps, due, byRuntime, stale, raced>>

Strands == Turns \cup Workers \cup Requests
Empty == [g \in {} |-> {}]
Fresh == [status |-> "active", blocked |-> FALSE, resolved |-> FALSE]
Ended == {"completed", "abandoned"}
With(list, g, goal) == [x \in DOMAIN list \cup {g} |-> IF x = g THEN goal ELSE list[x]]
Without(list, g) == [x \in DOMAIN list \ {g} |-> list[x]]
SubCount(list) == Cardinality({g \in DOMAIN list : ParentOf[g] # NoGoal})

\* The limit is on the sub-goals of the session, whatever their parent.
Room(list, g) == SubCount(list) < SubLimit

Idle == [pc |-> "idle", op |-> "none", goal |-> NoGoal, status |-> "active",
         was |-> Fresh, new |-> Fresh, of |-> NoGoal, base |-> Empty,
         count |-> 0, hints |-> 0]

\* A call that adds a goal makes a new id.
New(g) == g \notin DOMAIN goals \cup DOMAIN due
          /\ \A t \in Strands : task[t].op = "add" => task[t].goal # g

Done == [Idle EXCEPT !.pc = "done"]
Back(t) == IF t \in Turns THEN [Idle EXCEPT !.pc = "hints", !.hints = task[t].hints] ELSE Done

SessionGoalsInit ==
    /\ goals = [g \in {x \in Goals : ParentOf[x] = NoGoal} |-> Fresh]
    /\ graph = Empty
    /\ task = [t \in Strands |-> Idle]
    /\ hold = [h \in Turns |-> Empty]
    /\ mishaps = 0
    /\ due = goals
    /\ byRuntime = {} /\ stale = FALSE /\ raced = FALSE

Mishap(ok) == (ok \/ mishaps < MaxFaults)
              /\ mishaps' = IF ok THEN mishaps ELSE mishaps + 1

\* get_goals answers the empty list when Redis fails.
GetGoals(list) == \E ok \in BOOLEAN : Mishap(ok) /\ list = IF ok THEN goals ELSE Empty

\* What a goal becomes by an update: ending it clears its blockers; an
\* abandoned goal keeps those that tell a rejection, which are none here.
Applied(goal, status) ==
    [goal EXCEPT !.status = status, !.blocked = @ /\ status \notin Ended]

\* update_goal refuses to end an auto goal that the runtime has not resolved.
Refused(g, old, new) ==
    g \in Auto /\ new.status \in Ended /\ ~new.resolved /\ ~old.resolved

\* A turn fetches the list once.
BeginTurn(h) ==
    /\ task[h].pc = "idle"
    /\ \E list \in {goals, Empty} :
        GetGoals(list) /\ hold' = [hold EXCEPT ![h] = list]
    /\ task' = [task EXCEPT ![h].pc = "hints"]
    /\ UNCHANGED <<goals, graph, due, byRuntime, stale, raced>>

\* process_hints, tier 1: the goal of the snapshot is changed, and handed to
\* update_goal as it then is.
Hint(h, g, status) ==
    /\ task[h].pc = "hints" /\ task[h].hints < MaxHints /\ g \in DOMAIN hold[h]
    /\ LET was == hold[h][g]
           said == IF status = "progressed" THEN was ELSE [was EXCEPT !.status = status]
       IN /\ hold' = [hold EXCEPT ![h][g] = said]
          /\ task' = [task EXCEPT ![h] =
               [task[h] EXCEPT !.pc = "get", !.op = "copy", !.goal = g, !.was = was,
                  !.new = said, !.status = said.status, !.hints = @ + 1]]
    /\ UNCHANGED <<goals, graph, mishaps, due, byRuntime, stale, raced>>

\* process_hints, tier 2: a task of its own, refining goal g or adding the
\* sub-goal g.  Whether a sub-goal may be added is judged by the snapshot,
\* whose membership never changes.
Delegate(h, w, op, g) ==
    /\ task[h].pc = "hints" /\ task[h].hints < MaxHints /\ task[w].pc = "idle"
    /\ IF op = "refine" THEN g \in DOMAIN hold[h]
       ELSE ParentOf[g] \in DOMAIN hold[h] /\ New(g)
    /\ task' = [task EXCEPT ![h].hints = @ + 1,
         ![w] = IF op = "add" /\ ~Room(hold[h], g) THEN Done
                ELSE [@ EXCEPT !.pc = "think", !.op = op, !.goal = g, !.of = h,
                        !.count = SubCount(hold[h])]]
    /\ UNCHANGED <<goals, graph, hold, mishaps, due, byRuntime, stale, raced>>

\* The LLM has answered.  A refined goal is the object of the snapshot, with
\* all that hints have done to it meanwhile.
Think(w) ==
    /\ task[w].pc = "think"
    /\ LET g == task[w].goal  h == task[w].of
       IN  task' = [task EXCEPT ![w] =
             IF task[w].op = "refine"
             THEN [@ EXCEPT !.pc = "get", !.op = "copy", !.was = hold[h][g], !.new = hold[h][g],
                     !.status = hold[h][g].status]
             ELSE [@ EXCEPT !.pc = "get"]]
    /\ UNCHANGED <<goals, graph, hold, mishaps, due, byRuntime, stale, raced>>

EndTurn(h) ==
    /\ task[h].pc = "hints"
    /\ task' = [task EXCEPT ![h] = Done]
    /\ UNCHANGED <<goals, graph, hold, mishaps, due, byRuntime, stale, raced>>

\* POST /goals/session: no second goal of that title, the parent is in the
\* list, and the session has room for a sub-goal.
PostGoal(r, g) ==
    /\ task[r].pc = "idle" /\ New(g)
    /\ \E list \in {goals, Empty} :
        /\ GetGoals(list)
        /\ LET fits == /\ g \notin DOMAIN list
                       /\ ParentOf[g] = NoGoal \/
                            (ParentOf[g] \in DOMAIN list /\ Room(list, g))
           IN task' = [task EXCEPT ![r] =
                IF fits THEN [@ EXCEPT !.pc = "get", !.op = "add", !.goal = g,
                                 !.count = SubCount(list)]
                ELSE Done]
    /\ UNCHANGED <<goals, graph, hold, due, byRuntime, stale, raced>>

\* The other calls, which start with the read: an update of the status, by
\* the agent or by the runtime, and so on.
Request(r, op, g, status) ==
    /\ task[r].pc = "idle"
    /\ op = "resolve" => g \in Auto
    /\ (op \notin {"update", "resolve"} => status = "active") /\ (op = "resolve" => status \in Ended)
    /\ task' = [task EXCEPT ![r] = [@ EXCEPT !.pc = "get", !.op = op, !.status = status,
                                      !.goal = IF op = "flush" THEN NoGoal ELSE g]]
    /\ UNCHANGED <<goals, graph, hold, mishaps, due, byRuntime, stale, raced>>

NewGoal(c, old) ==
    CASE c.op = "copy" -> Applied(c.new, c.status)
      [] c.op = "update" -> Applied(old, c.status)
      [] c.op = "resolve" -> [Applied(old, c.status) EXCEPT !.resolved = TRUE]
      [] OTHER -> old   \* progress: confidence and evidence only

SnapshotStored(t, list) ==  \* mutant: a hint stores the snapshot of its turn
    CASE task[t].op = "add" -> With(list, task[t].goal, Fresh)
      [] task[t].op = "remove" -> Without(list, task[t].goal)
      [] task[t].op = "flush" -> Empty
      [] t \in Turns -> With(hold[t], task[t].goal, NewGoal(task[t], list[task[t].goal]))
      [] OTHER -> With(list, task[t].goal, NewGoal(task[t], list[task[t].goal]))

\* The list a call makes of the one it read.
NewList(t, list) ==
    CASE task[t].op = "add" -> With(list, task[t].goal, Fresh)
      [] task[t].op = "remove" -> Without(list, task[t].goal)
      [] task[t].op = "flush" -> Empty
      [] OTHER -> With(list, task[t].goal, NewGoal(task[t], list[task[t].goal]))

RefusedToRequests(t, list) ==  \* mutant: the copies of hints are not guarded
    LET g == task[t].goal
    IN  IF task[t].op = "remove" THEN g \in Auto /\ ~list[g].resolved
        ELSE task[t].op = "update" /\ Refused(g, list[g], NewGoal(task[t], list[g]))

RefusedCall(t, list) ==
    LET g == task[t].goal
    IN  IF task[t].op = "remove" THEN g \in Auto /\ ~list[g].resolved
        ELSE task[t].op \in {"copy", "update"} /\ Refused(g, list[g], NewGoal(task[t], list[g]))

\* The read that every write starts with.  A goal that is not there is not
\* found; a refused update raises, which ends the batch of a turn.
Get(t) ==
    /\ task[t].pc = "get"
    /\ \E list \in {goals, Empty} :
        /\ GetGoals(list)
        /\ LET absent == IF task[t].op = "flush" THEN list = Empty
                         ELSE task[t].op # "add" /\ task[t].goal \notin DOMAIN list
               refused == task[t].op # "flush" /\ task[t].goal \in DOMAIN list
                          /\ RefusedCall(t, list)
           IN task' = [task EXCEPT ![t] =
                IF absent THEN Back(t) ELSE IF refused THEN Done
                ELSE [@ EXCEPT !.pc = "set", !.base = list]]
    /\ UNCHANGED <<goals, graph, hold, due, byRuntime, stale, raced>>

\* What the call asks of the list, whoever else wrote.
Effect(t, list) ==
    LET g == task[t].goal  asked == Applied(list[g], task[t].status)
    IN  CASE task[t].op = "add" -> With(list, g, Fresh)
          [] task[t].op = "remove" -> Without(list, g)
          [] task[t].op = "flush" -> Empty
          [] OTHER -> IF g \notin DOMAIN list \/ task[t].op = "progress" THEN list
                      ELSE IF task[t].op = "resolve"
                      THEN With(list, g, [asked EXCEPT !.resolved = TRUE])
                      ELSE With(list, g, asked)

Overtaken(t) ==
    \/ task[t].base # goals
    \/ task[t].op = "copy" /\ task[t].base[task[t].goal] # task[t].was

\* set_goals; the flush deletes the key after writing each goal to the graph,
\* where a failure is passed over.
Set(t) ==
    LET flush == task[t].op = "flush"
    IN  /\ task[t].pc = "set"
        /\ \E ok \in BOOLEAN :
            /\ Mishap(ok)
            /\ goals' = IF ok \/ flush THEN NewList(t, task[t].base) ELSE goals
            /\ graph' = IF ok /\ flush THEN task[t].base ELSE graph
            /\ due' = IF ok \/ flush THEN Effect(t, due) ELSE due
            /\ byRuntime' = IF ok /\ task[t].op = "resolve"
                            THEN byRuntime \cup {task[t].goal} ELSE byRuntime
            /\ stale' = (stale \/ ((ok \/ flush) /\ Overtaken(t)) \/ (flush /\ ~ok))
            /\ raced' = (raced \/ (task[t].op = "add" /\ task[t].count # SubCount(task[t].base)))
            /\ task' = [task EXCEPT ![t] = IF ok THEN Back(t) ELSE Done]
        /\ UNCHANGED hold

\* add_blocker, a WATCH/MULTI transaction.
Block(r, g) ==
    /\ task[r].pc = "idle" /\ g \in DOMAIN goals
    /\ goals' = [goals EXCEPT ![g].blocked = TRUE]
    /\ due' = IF g \in DOMAIN due THEN [due EXCEPT ![g].blocked = TRUE] ELSE due
    /\ task' = [task EXCEPT ![r] = Done]
    /\ UNCHANGED <<graph, hold, mishaps, byRuntime, stale, raced>>

SessionGoalsNext ==
    \/ \E h \in Turns :
          \/ BeginTurn(h) \/ EndTurn(h)
          \/ \E g \in Goals : \/ \E status \in {"completed", "abandoned", "progressed"} :
                                    Hint(h, g, status)
                              \/ \E w \in Workers, op \in {"refine", "add"} : Delegate(h, w, op, g)
    \/ \E w \in Workers : Think(w)
    \/ \E r \in Requests, g \in Goals :
          \/ PostGoal(r, g) \/ Block(r, g)
          \/ \E op \in {"update", "resolve", "progress", "remove", "flush"},
                status \in {"active", "completed", "abandoned"} : Request(r, op, g, status)
    \/ \E t \in Strands : Get(t) \/ Set(t)

SessionGoalsSpec == SessionGoalsInit /\ [][SessionGoalsNext]_gvars

------------------------------------------------------------------------------
\* As long as no call stored a list or a goal that another call had overtaken,
\* the stored list is what the calls asked for: no goal vanishes or comes
\* back, and no status, blocker or mark of the runtime is lost, whichever of
\* the routes, the hints, the workers and the runtime wrote it.
GoalsKept == ~stale => goals = due

\* Even then, and in any interleaving: an auto goal has ended only if the
\* runtime resolved it at some time.
AutoGoalNeedsRuntime ==
    \A g \in DOMAIN goals \cap Auto : goals[g].status \in Ended => g \in byRuntime

\* The session has no more sub-goals than the limit, unless one was added on a
\* count taken before another was.
SubgoalLimit == ~raced => SubCount(goals) <= SubLimit

\* The goal list is what was asked for, no longer than it may be, and its auto
\* goals are the runtime's.
GoalListSound == GoalsKept /\ SubgoalLimit /\ AutoGoalNeedsRuntime
------------------------------------------------------------------------------
(* Why it is: the inductive invariant of those properties.                 *)

GoalType == [status : {"active"} \cup Ended, blocked : BOOLEAN, resolved : BOOLEAN]
Lists == UNION {[D -> GoalType] : D \in SUBSET Goals}
Writes == {"copy", "add", "update", "resolve", "progress", "remove", "flush"}
CallType == [pc : {"idle", "hints", "think", "get", "set", "done"},
             op : Writes \cup {"none", "refine"}, goal : Goals \cup {NoGoal},
             status : {"active"} \cup Ended, was : GoalType, new : GoalType,
             of : Turns \cup {NoGoal}, base : Lists, count : Nat, hints : Nat]

\* The marks of the runtime in a list are its own, and in a stored list so are the
\* endings of auto goals.
MarksTrue(list) == \A g \in DOMAIN list \cap Auto : list[g].resolved => g \in byRuntime
EndingsTrue(list) ==
    MarksTrue(list) /\ \A g \in DOMAIN list \cap Auto : list[g].status \in Ended => g \in byRuntime

\* What a call has made sure of before it writes.
Prepared(c) ==
    /\ c.pc = "think" => c.op \in {"refine", "add"} /\ c.goal \in Goals
    /\ c.pc = "think" /\ c.op = "refine" =>
         c.of \in Turns /\ task[c.of].pc # "idle" /\ c.goal \in DOMAIN hold[c.of]
    /\ c.pc \in {"get", "set"} => c.op \in Writes /\ (c.op = "flush" \/ c.goal \in Goals)
    /\ c.pc \in {"get", "set"} /\ c.op = "resolve" => c.goal \in Auto
    /\ c.pc \in {"get", "set"} /\ c.op = "copy" =>
         /\ c.new = [c.was EXCEPT !.status = c.status]
         /\ c.new.resolved /\ c.goal \in Auto => c.goal \in byRuntime
    /\ c.pc \in {"think", "get", "set"} /\ c.op = "add" /\ ParentOf[c.goal] # NoGoal =>
         c.count < SubLimit
    /\ c.pc = "set" =>
         /\ EndingsTrue(c.base) /\ (~raced => SubCount(c.base) <= SubLimit)
         /\ c.op \notin {"add", "flush"} => c.goal \in DOMAIN c.base
         /\ c.op \in {"copy", "update"} =>
              ~Refused(c.goal, c.base[c.goal], NewGoal(c, c.base[c.goal]))

IInv ==
    /\ goals \in Lists /\ hold \in [Turns -> Lists] /\ task \in [Strands -> CallType]
    /\ \A t \in Strands : Prepared(task[t])
    /\ \A h \in Turns : MarksTrue(hold[h])
    /\ EndingsTrue(goals) /\ SubgoalLimit /\ GoalsKept
=============================================================================
