--------------------------- MODULE GuardApprovals ---------------------------
(***************************************************************************)
(* The human-in-the-loop approval protocol of the guard engine: what       *)
(* happens to an APPROVE_FIRST action between the moment an agent proposes *)
(* it and the moment the request about it leaves Redis.                    *)
(*                                                                         *)
(* Four pieces of code share the state below: layer 0 of preflight_check   *)
(* (guards/engine.py), the ApprovalQueue (guards/approval_queue.py), the   *)
(* PATCH and sweep routes (api/routes/guards.py) and session_end           *)
(* (context/lifecycle.py).  All of it runs as asyncio tasks of one process,*)
(* so control moves from one task to another only at an await.  Every      *)
(* action below is the code between two awaits whose order matters.        *)
(*                                                                         *)
(* Time is relative: each Redis key carries the number of ticks it has     *)
(* left, each request the ticks left until its timeout_at.                 *)
(***************************************************************************)
EXTENDS Integers, Sequences, FiniteSets

CONSTANTS
  Sessions,       \* session ids
  Keys,           \* session keys: the durable names goals are filed under
  KeyOf,          \* the session key of each session id
  Actions,        \* action contents, as find_matching tells them apart
  Requests,       \* the uuids approval requests draw from (a bound)
  Tasks,          \* asyncio tasks (a bound on concurrency)
  Timeout,        \* ApprovalRequest.timeout_seconds
  Grace,          \* the 60 s a request outlives its timeout in Redis
  ResolvedTtl,    \* the 300 s a timed-out request is kept
  TimeoutAction,  \* approval_routing.timeout_action of the profile
  Calls,          \* the calls made in an instance (a bound)
  None            \* "no such key", "no value"

Decisions     == {"approved", "rejected"}
Statuses      == {"pending", "approved", "rejected", "timed_out", "cancelled"}
GoalStatuses  == {"active", "completed", "abandoned"}
AllCalls      == Decisions \cup {"check", "end", "sweep_route", "restart"}
AutonomyLevel == {"autonomous", "inform", "approve_first", "hard_stop"}
Outcomes      == {"pass", "inform", "require_approval", "block"}

ASSUME ConstantsAssumption ==
  /\ KeyOf \in [Sessions -> Keys]
  /\ Timeout \in Nat \ {0} /\ Grace \in Nat \ {0} /\ ResolvedTtl \in Nat \ {0}
  /\ TimeoutAction \in AutonomyLevel
  /\ Calls \subseteq AllCalls
  /\ None \notin Sessions \cup Keys \cup Actions \cup Requests
  /\ None \notin Statuses \cup GoalStatuses \cup Outcomes
  /\ None \notin [s : Sessions, a : Actions]

\* AUTONOMY_TO_OUTCOME
AutonomyOutcome(level) ==
  CASE level = "autonomous"    -> "pass"
    [] level = "inform"        -> "inform"
    [] level = "approve_first" -> "require_approval"
    [] OTHER                   -> "block"

VARIABLES
  loaded,    \* engine._sessions: session ids in dictionary (insertion) order
  content,   \* [session, action] a request was made for, None while unused
  status,    \* status of the stored request, None when Redis has no such key
  ttl,       \* ticks the stored request has left
  due,       \* ticks until the request's timeout_at has passed
  index,     \* approvals_by_session: the request ids filed under a session
  indexTtl,  \* ticks that set has left
  goals,     \* session goals: the auto-goal of each request, by session key
  graph,     \* auto-goals as flushed to the knowledge graph
  said,      \* history: the decisions operators sent for each request
  task       \* the asyncio tasks in flight

redis == <<status, ttl, index, indexTtl>>
vars  == <<loaded, content, status, ttl, due, index, indexTtl,
           goals, graph, said, task>>

------------------------------------------------------------------------------
(* Tasks.  st is the status a task read or is about to write, key the      *)
(* session key it resolves goals under, todo the requests it has still to  *)
(* visit, snap the goal list it read, out the answer it gives.             *)

PCs == {"idle", "lookup", "timeout_read", "timeout_write", "allocate", "sweep",
        "sweep_write", "add_goal_read", "add_goal_write", "write",
        "goal_read", "goal_write", "flush", "unload", "cancel", "done"}

Ops == {"none", "check", "resolve", "end", "sweep_route"}

NoGoals == [r \in Requests |-> None]

Idle == [pc |-> "idle", op |-> "none", s |-> None, a |-> None, r |-> None,
         q |-> None, st |-> None, key |-> None, todo |-> {}, snap |-> NoGoals,
         out |-> None]

GoalList == [Requests -> GoalStatuses \cup {None}]

TaskType ==
  [pc : PCs, op : Ops, s : Sessions \cup {None}, a : Actions \cup {None},
   r : Requests \cup {None}, q : Requests \cup {None},
   st : Statuses \cup {None}, key : Keys \cup {None}, todo : SUBSET Requests,
   snap : GoalList, out : Outcomes \cup {None, "error"}]

Become(t, rec) == task' = [task EXCEPT ![t] = rec]

Loaded == {loaded[i] : i \in DOMAIN loaded}

Unused  == {r \in Requests : content[r] = None}
Live(r) == status[r] # None
Overdue(r) == due[r] = 0

Init ==
  /\ loaded   = <<>>
  /\ content  = [r \in Requests |-> None]
  /\ status   = [r \in Requests |-> None]
  /\ ttl      = [r \in Requests |-> 0]
  /\ due      = [r \in Requests |-> 0]
  /\ index    = [s \in Sessions |-> {}]
  /\ indexTtl = [s \in Sessions |-> 0]
  /\ goals    = [k \in Keys |-> NoGoals]
  /\ graph    = NoGoals
  /\ said     = [r \in Requests |-> {}]
  /\ task     = [t \in Tasks |-> Idle]

------------------------------------------------------------------------------
(* Guard state of a session.                                               *)

\* _sessions.pop and del keep the order of the other sessions.
Without(seq, i) == SubSeq(seq, 1, i - 1) \o SubSeq(seq, i + 1, Len(seq))

\* Untouched for history_ttl_seconds: a day by default, which no request and
\* no call of the session outlives.
Stale(s) ==
  /\ \A r \in Requests : Live(r) => content[r].s # s
  /\ \A t \in Tasks : task[t].s # s

\* _evict_stale_sessions, one session at a time (another load takes the next).
EvictStaleSessions ==
  {loaded} \cup {Without(loaded, i) : i \in {j \in DOMAIN loaded : Stale(loaded[j])}}

\* load_session_rules evicts, then stores the session's guard state: a reload
\* keeps the dictionary position and changes nothing this protocol reads.
LoadSessionRules(s) ==
  /\ \E kept \in EvictStaleSessions :
       loaded' = IF \E i \in DOMAIN kept : kept[i] = s THEN kept
                 ELSE Append(kept, s)
  /\ UNCHANGED <<content, redis, due, goals, graph, said, task>>

\* The process stops between two awaits and starts again: the tasks and the
\* guard states are gone, Redis and the graph are not.
Restart ==
  /\ "restart" \in Calls
  /\ loaded # <<>> \/ \E t \in Tasks : task[t].pc # "idle"
  /\ loaded' = <<>>
  /\ task' = [t \in Tasks |-> Idle]
  /\ UNCHANGED <<content, redis, due, goals, graph, said>>

------------------------------------------------------------------------------
(* Layer 0 of preflight_check on an APPROVE_FIRST action.                  *)

\* What layer 0 answers once it holds a request with this status.  None of
\* its branches names CANCELLED: such a request keeps the APPROVE_FIRST floor.
OutcomeOf(st) ==
  CASE st = "approved"  -> "pass"
    [] st = "rejected"  -> "block"
    [] st = "timed_out" -> AutonomyOutcome(TimeoutAction)
    [] OTHER            -> AutonomyOutcome("approve_first")

Answer(t, r, st) ==
  Become(t, [task[t] EXCEPT !.pc = "done", !.r = r, !.st = st,
                            !.out = OutcomeOf(st), !.snap = NoGoals])

\* A check starts; it raises unless the session's guard state is loaded, and
\* keeps its reference to that state to the end.
StartCheck(t, s, a) ==
  /\ "check" \in Calls
  /\ task[t].pc = "idle"
  /\ s \in Loaded
  /\ Become(t, [Idle EXCEPT !.pc = "lookup", !.op = "check", !.s = s, !.a = a])
  /\ UNCHANGED <<loaded, content, redis, due, goals, graph, said>>

\* find_matching: the stored requests of the session about this action, in
\* the arbitrary order of the index set.
Matching(s, a) == {r \in index[s] : Live(r) /\ content[r].a = a}

\* find_matching reads the index and every request in it, and keeps the
\* first match; only immutable fields decide, so one step stands for the reads.
FindMatching(t) ==
  /\ task[t].pc = "lookup"
  /\ \/ \E r \in Matching(task[t].s, task[t].a) :
          Become(t, [task[t] EXCEPT !.pc = "timeout_read", !.r = r])
     \/ /\ Matching(task[t].s, task[t].a) = {}
        /\ Become(t, [task[t] EXCEPT !.pc = "allocate"])
  /\ UNCHANGED <<loaded, content, redis, due, goals, graph, said>>

\* Faulty variant: the deadline is not compared with the clock.
CheckTimeoutReadEager(t) ==
  /\ task[t].pc = "timeout_read"
  /\ LET r == task[t].r IN
       \/ ~Live(r) /\ Become(t, [task[t] EXCEPT !.pc = "allocate", !.r = None])
       \/ /\ status[r] = "pending"
          /\ Become(t, [task[t] EXCEPT !.pc = "timeout_write"])
       \/ status[r] \notin {None, "pending"} /\ Answer(t, r, status[r])
  /\ UNCHANGED <<loaded, content, redis, due, goals, graph, said>>

\* check_timeout reads the request again.  A key that expired meanwhile makes
\* find_matching return None, and layer 0 creates a request.
CheckTimeoutRead(t) ==
  /\ task[t].pc = "timeout_read"
  /\ LET r == task[t].r IN
       \/ /\ ~Live(r)
          /\ Become(t, [task[t] EXCEPT !.pc = "allocate", !.r = None])
       \/ /\ status[r] = "pending" /\ Overdue(r)
          /\ Become(t, [task[t] EXCEPT !.pc = "timeout_write"])
       \/ /\ Live(r)
          /\ ~(status[r] = "pending" /\ Overdue(r))
          /\ Answer(t, r, status[r])
  /\ UNCHANGED <<loaded, content, redis, due, goals, graph, said>>

\* setex(key, 300, ...) of the request marked TIMED_OUT.  find_matching and
\* sweep_expired pass no timeout_action and no goal store: the default is
\* HARD_STOP and no goal is touched.
TimeOut(r) ==
  /\ status' = [status EXCEPT ![r] = "timed_out"]
  /\ ttl'    = [ttl EXCEPT ![r] = ResolvedTtl]
  /\ UNCHANGED <<index, indexTtl>>

CheckTimeoutWrite(t) ==
  /\ task[t].pc = "timeout_write"
  /\ TimeOut(task[t].r)
  /\ Answer(t, task[t].r, "timed_out")
  /\ UNCHANGED <<loaded, content, due, goals, graph, said>>

\* No request exists: layer 0 builds one, which fixes its timeout_at, and
\* create starts with sweep_expired, which lists the session's requests.
Allocate(t) ==
  /\ task[t].pc = "allocate"
  /\ LET s == task[t].s IN
     \E r \in Unused :
       /\ content' = [content EXCEPT ![r] = [s |-> s, a |-> task[t].a]]
       /\ due'     = [due EXCEPT ![r] = Timeout]
       /\ Become(t, [task[t] EXCEPT !.pc = "sweep", !.r = r,
                       !.todo = {q \in index[s] : status[q] = "pending"}])
  /\ UNCHANGED <<loaded, redis, goals, graph, said>>

\* The bound on request ids: a check that needs one more is not followed on.
OutOfRequests(t) ==
  /\ task[t].pc = "allocate"
  /\ Unused = {}
  /\ Become(t, Idle)
  /\ UNCHANGED <<loaded, content, redis, due, goals, graph, said>>

\* sweep_expired visits one listed request: it is read again when overdue,
\* and written in a later step when still pending.
SweepRead(t) ==
  /\ task[t].pc = "sweep"
  /\ \E q \in task[t].todo :
       IF status[q] = "pending" /\ Overdue(q)
       THEN Become(t, [task[t] EXCEPT !.pc = "sweep_write", !.q = q])
       ELSE Become(t, [task[t] EXCEPT !.todo = @ \ {q}])
  /\ UNCHANGED <<loaded, content, redis, due, goals, graph, said>>

SweepWrite(t) ==
  /\ task[t].pc = "sweep_write"
  /\ TimeOut(task[t].q)
  /\ Become(t, [task[t] EXCEPT !.pc = "sweep", !.q = None,
                               !.todo = @ \ {task[t].q}])
  /\ UNCHANGED <<loaded, content, due, goals, graph, said>>

\* Faulty variant: the index keeps the TTL it was created with.
StoreKeepsIndexTtl(t) ==
  /\ task[t].pc = "sweep" /\ task[t].todo = {}
  /\ LET r == task[t].r
         s == task[t].s IN
       /\ status'   = [status EXCEPT ![r] = "pending"]
       /\ ttl'      = [ttl EXCEPT ![r] = Timeout + Grace]
       /\ index'    = [index EXCEPT ![s] = @ \cup {r}]
       /\ indexTtl' = [indexTtl EXCEPT ![s] = IF @ = 0 THEN Timeout + Grace ELSE @]
  /\ Become(t, [task[t] EXCEPT !.pc = "add_goal_read"])
  /\ UNCHANGED <<loaded, content, due, goals, graph, said>>

\* create stores the request and files it: setex, sadd and expire.  The new
\* id is visible to nobody before the sadd, so the three are one step.
Store(t) ==
  /\ task[t].pc = "sweep" /\ task[t].todo = {}
  /\ LET r == task[t].r
         s == task[t].s IN
       /\ status'   = [status EXCEPT ![r] = "pending"]
       /\ ttl'      = [ttl EXCEPT ![r] = Timeout + Grace]
       /\ index'    = [index EXCEPT ![s] = @ \cup {r}]
       /\ indexTtl' = [indexTtl EXCEPT ![s] = Timeout + Grace]
  /\ Become(t, [task[t] EXCEPT !.pc = "add_goal_read"])
  /\ UNCHANGED <<loaded, content, due, goals, graph, said>>

\* add_goal reads the goal list of the session key ...
AddGoalRead(t) ==
  /\ task[t].pc = "add_goal_read"
  /\ Become(t, [task[t] EXCEPT !.pc = "add_goal_write", !.key = KeyOf[task[t].s],
                               !.snap = goals[KeyOf[task[t].s]]])
  /\ UNCHANGED <<loaded, content, redis, due, goals, graph, said>>

\* ... and writes it back with the blocker auto-goal appended.
AddGoalWrite(t) ==
  /\ task[t].pc = "add_goal_write"
  /\ goals' = [goals EXCEPT ![task[t].key] =
                 [task[t].snap EXCEPT ![task[t].r] = "active"]]
  /\ Answer(t, task[t].r, "pending")
  /\ UNCHANGED <<loaded, content, redis, due, graph, said>>

\* The answer reaches the agent (or the sweep route's caller).
Return(t) ==
  /\ task[t].pc = "done"
  /\ Become(t, Idle)
  /\ UNCHANGED <<loaded, content, redis, due, goals, graph, said>>

------------------------------------------------------------------------------
(* An operator resolves a request: PATCH /guards/approvals/{id}.           *)

\* The route takes the session key of the first loaded session, and approve
\* or reject reads the request; neither looks at its status.
UpdateApproval(t, r, d) ==
  /\ d \in Calls
  /\ task[t].pc = "idle"
  /\ Live(r)
  /\ said' = [said EXCEPT ![r] = @ \cup {d}]
  /\ Become(t, [Idle EXCEPT !.pc = "write", !.op = "resolve", !.r = r, !.st = d,
                  !.key = IF loaded = <<>> THEN None ELSE KeyOf[loaded[1]]])
  /\ UNCHANGED <<loaded, content, redis, due, goals, graph>>

\* Faulty variants: the write ignores the key's expiry; the auto-goal is not
\* resolved.
WriteDecisionAlways(t) ==
  /\ task[t].pc = "write"
  /\ status' = [status EXCEPT ![task[t].r] = task[t].st]
  /\ Become(t, IF task[t].key = None THEN Idle
               ELSE [task[t] EXCEPT !.pc = "goal_read"])
  /\ UNCHANGED <<loaded, content, ttl, index, indexTtl, due, goals, graph, said>>

WriteDecisionOnly(t) ==
  /\ task[t].pc = "write"
  /\ LET r == task[t].r IN
       status' = IF Live(r) THEN [status EXCEPT ![r] = task[t].st] ELSE status
  /\ Become(t, Idle)
  /\ UNCHANGED <<loaded, content, ttl, index, indexTtl, due, goals, graph, said>>

\* approve, reject and cancel write their status over whatever is stored,
\* keep the remaining TTL, and drop the write when the key is gone.
WriteDecision(t) ==
  /\ task[t].pc = "write"
  /\ LET r == task[t].r IN
       status' = IF Live(r) THEN [status EXCEPT ![r] = task[t].st] ELSE status
  /\ Become(t, IF task[t].key = None THEN Idle
               ELSE [task[t] EXCEPT !.pc = "goal_read"])
  /\ UNCHANGED <<loaded, content, ttl, index, indexTtl, due, goals, graph, said>>

\* resolve_approval_goal is the last call of approve and reject, and one call
\* per request inside unload_session.
AfterGoal(t) ==
  Become(t, IF task[t].op = "end"
            THEN [task[t] EXCEPT !.pc = "cancel", !.r = None, !.st = None,
                                 !.key = None, !.snap = NoGoals]
            ELSE Idle)

\* It looks for the auto-goal in the list under the session key it was given.
GoalRead(t) ==
  /\ task[t].pc = "goal_read"
  /\ LET snap == goals[task[t].key] IN
       IF snap[task[t].r] = None
       THEN AfterGoal(t)
       ELSE Become(t, [task[t] EXCEPT !.pc = "goal_write", !.snap = snap])
  /\ UNCHANGED <<loaded, content, redis, due, goals, graph, said>>

ResolvedGoal(st) == IF st = "approved" THEN "completed" ELSE "abandoned"

\* Faulty variant: every goal of the list is resolved.
GoalWriteAll(t) ==
  /\ task[t].pc = "goal_write"
  /\ goals' = [goals EXCEPT ![task[t].key] =
                 [r \in Requests |-> IF task[t].snap[r] = None THEN None
                                    ELSE ResolvedGoal(task[t].st)]]
  /\ AfterGoal(t)
  /\ UNCHANGED <<loaded, content, redis, due, graph, said>>

\* update_goal writes the list it read back, with this goal resolved.
GoalWrite(t) ==
  /\ task[t].pc = "goal_write"
  /\ goals' = [goals EXCEPT ![task[t].key] =
                 [task[t].snap EXCEPT ![task[t].r] = ResolvedGoal(task[t].st)]]
  /\ AfterGoal(t)
  /\ UNCHANGED <<loaded, content, redis, due, graph, said>>

------------------------------------------------------------------------------
(* session_end: flush the goals, then unload the guard state, which        *)
(* cancels the requests still pending.                                     *)

SessionEnd(t, s) ==
  /\ "end" \in Calls
  /\ task[t].pc = "idle"
  /\ Become(t, [Idle EXCEPT !.op = "end", !.s = s, !.snap = goals[KeyOf[s]],
                  !.pc = IF goals[KeyOf[s]] = NoGoals THEN "unload" ELSE "flush"])
  /\ UNCHANGED <<loaded, content, redis, due, goals, graph, said>>

\* flush_to_cognee stores every goal it read and deletes the list.
FlushGoals(t) ==
  /\ task[t].pc = "flush"
  /\ LET snap == task[t].snap IN
       graph' = [r \in Requests |-> IF snap[r] = None THEN graph[r] ELSE snap[r]]
  /\ goals' = [goals EXCEPT ![KeyOf[task[t].s]] = NoGoals]
  /\ Become(t, [task[t] EXCEPT !.pc = "unload", !.snap = NoGoals])
  /\ UNCHANGED <<loaded, content, redis, due, said>>

\* Faulty variant: the requests are not cancelled.
UnloadSessionSilently(t) ==
  /\ task[t].pc = "unload"
  /\ loaded' = SelectSeq(loaded, LAMBDA s : s # task[t].s)
  /\ Become(t, Idle)
  /\ UNCHANGED <<content, redis, due, goals, graph, said>>

\* unload_session pops the guard state and lists the requests to cancel.
UnloadSession(t) ==
  /\ task[t].pc = "unload"
  /\ LET s == task[t].s IN
       IF s \notin Loaded
       THEN Become(t, Idle) /\ UNCHANGED loaded
       ELSE /\ \E i \in DOMAIN loaded :
                 loaded[i] = s /\ loaded' = Without(loaded, i)
            /\ Become(t, [task[t] EXCEPT !.pc = "cancel",
                            !.todo = {q \in index[s] : status[q] = "pending"}])
  /\ UNCHANGED <<content, redis, due, goals, graph, said>>

\* cancel reads one listed request; only the list was asked for its status.
CancelRead(t) ==
  /\ task[t].pc = "cancel"
  /\ \E q \in task[t].todo :
       LET rest == [task[t] EXCEPT !.todo = @ \ {q}] IN
       Become(t, IF Live(q)
                 THEN [rest EXCEPT !.pc = "write", !.r = q, !.st = "cancelled",
                                   !.key = KeyOf[task[t].s]]
                 ELSE rest)
  /\ UNCHANGED <<loaded, content, redis, due, goals, graph, said>>

SessionEnded(t) ==
  /\ task[t].pc = "cancel" /\ task[t].todo = {}
  /\ Become(t, Idle)
  /\ UNCHANGED <<loaded, content, redis, due, goals, graph, said>>

------------------------------------------------------------------------------
(* POST /guards/approvals/sweep-timeouts.  For the first pending request   *)
(* the route evaluates req.timeout_action, a field ApprovalRequest does    *)
(* not have, and fails; without one it reports an empty sweep.             *)

SweepRoute(t, s) ==
  /\ "sweep_route" \in Calls
  /\ task[t].pc = "idle"
  /\ LET pending == {q \in index[s] : status[q] = "pending"} IN
       Become(t, [Idle EXCEPT !.pc = "done", !.op = "sweep_route", !.s = s,
                              !.out = IF pending = {} THEN None ELSE "error"])
  /\ UNCHANGED <<loaded, content, redis, due, goals, graph, said>>

------------------------------------------------------------------------------
(* Time passes: Redis drops keys whose TTL ran out, deadlines come closer. *)

Less(n) == IF n = 0 THEN 0 ELSE n - 1

\* Faulty variant: requests are stored without an expiry.
TickKeepsRequests ==
  /\ \E r \in Requests : due[r] > 0
  /\ due'      = [r \in Requests |-> Less(due[r])]
  /\ indexTtl' = [s \in Sessions |-> Less(indexTtl[s])]
  /\ index'    = [s \in Sessions |-> IF indexTtl[s] > 1 THEN index[s] ELSE {}]
  /\ UNCHANGED <<loaded, content, status, ttl, goals, graph, said, task>>

Tick ==
  /\ \/ \E r \in Requests : ttl[r] > 0 \/ due[r] > 0
     \/ \E s \in Sessions : indexTtl[s] > 0
  /\ ttl'      = [r \in Requests |-> Less(ttl[r])]
  /\ status'   = [r \in Requests |-> IF ttl[r] > 1 THEN status[r] ELSE None]
  /\ due'      = [r \in Requests |-> Less(due[r])]
  /\ indexTtl' = [s \in Sessions |-> Less(indexTtl[s])]
  /\ index'    = [s \in Sessions |-> IF indexTtl[s] > 1 THEN index[s] ELSE {}]
  /\ UNCHANGED <<loaded, content, goals, graph, said, task>>

\* What a task does once it runs: no step waits for anyone outside Redis.
Step(t) ==
  \/ FindMatching(t) \/ CheckTimeoutRead(t) \/ CheckTimeoutWrite(t)
  \/ Allocate(t) \/ OutOfRequests(t) \/ SweepRead(t) \/ SweepWrite(t)
  \/ Store(t) \/ AddGoalRead(t) \/ AddGoalWrite(t) \/ Return(t)
  \/ WriteDecision(t) \/ GoalRead(t) \/ GoalWrite(t)
  \/ FlushGoals(t) \/ UnloadSession(t) \/ CancelRead(t) \/ SessionEnded(t)

\* What the agent, an operator or the gateway asks for.
Call(t) ==
  \/ \E s \in Sessions, a \in Actions : StartCheck(t, s, a)
  \/ \E r \in Requests, d \in Decisions : UpdateApproval(t, r, d)
  \/ \E s \in Sessions : SessionEnd(t, s) \/ SweepRoute(t, s)

Next ==
  \/ \E t \in Tasks : Step(t) \/ Call(t)
  \/ \E s \in Sessions : LoadSessionRules(s)
  \/ Restart
  \/ Tick

Spec == Init /\ [][Next]_vars

\* The event loop runs every ready task and the clock does not stop.
FairSpec == Spec /\ (\A t \in Tasks : WF_vars(Step(t))) /\ WF_vars(Tick)
------------------------------------------------------------------------------
(* Properties.                                                             *)

\* Every variable stays in its type (one invariant of types per module).
TypeOK ==
  /\ loaded \in Seq(Sessions)
  /\ content \in [Requests -> [s : Sessions, a : Actions] \cup {None}]
  /\ status \in [Requests -> Statuses \cup {None}]
  /\ ttl \in [Requests -> Nat]
  /\ due \in [Requests -> Nat]
  /\ index \in [Sessions -> SUBSET Requests]
  /\ indexTtl \in [Sessions -> Nat]
  /\ goals \in [Keys -> GoalList]
  /\ graph \in GoalList
  /\ said \in [Requests -> SUBSET Decisions]
  /\ task \in [Tasks -> TaskType]

\* An APPROVE_FIRST action goes ahead (PASS or INFORM) only because an operator
\* approved a request of this very session for this very action, or because
\* its deadline passed and the profile's timeout_action lets it go ahead;
\* whatever checks, decisions, cancellations and restarts ran meanwhile.
ProceedsOnlyWithCause ==
  \A t \in Tasks :
    task[t].pc = "done" /\ task[t].out \in {"pass", "inform"} =>
      /\ content[task[t].r] = [s |-> task[t].s, a |-> task[t].a]
      /\ \/ "approved" \in said[task[t].r]
         \/ /\ TimeoutAction \in {"autonomous", "inform"}
            /\ task[t].st = "timed_out"
            /\ Overdue(task[t].r)

\* As long as a request is in Redis and pending, or its deadline is still ahead,
\* it is in its session's index: a decision given in time is found by the next
\* check, a pending request by the sweep and by unload_session.  Two keys with
\* two TTLs, and only the index's is extended by later requests.
RequestStaysFindable ==
  \A r \in Requests :
    Live(r) /\ (status[r] = "pending" \/ ~Overdue(r)) =>
      r \in index[content[r].s]

\* A goal shown to the agent or kept in the graph as completed belongs to a
\* request an operator approved, and is filed under that session's key.
CompletedGoalHasConsent ==
  \A r \in Requests :
    /\ graph[r] = "completed" => "approved" \in said[r]
    /\ \A k \in Keys : goals[k][r] = "completed" =>
         "approved" \in said[r] /\ KeyOf[content[r].s] = k

\* No late write brings a settled request back to pending.
NeverReopened ==
  [][\A r \in Requests :
       status[r] \in Statuses \ {"pending"} => status'[r] # "pending"]_vars

\* Creating a request twice for the same action of a session is what
\* find_matching is there to prevent.
NoDuplicatePending ==
  \A q, r \in Requests :
    q # r /\ status[q] = "pending" /\ status[r] = "pending" =>
      content[q] # content[r]

Quiet == \A t \in Tasks : task[t].pc = "idle"

\* Once its session is unloaded and nothing runs, no request is left that an
\* operator could still be asked about.
NothingPendingAfterUnload ==
  Quiet => \A r \in Requests :
             status[r] = "pending" => content[r].s \in Loaded

\* When nothing runs, the auto-goal of a request an operator decided agrees
\* with the stored decision, unless the goal list was flushed or is gone.
DecisionReachesGoal ==
  Quiet => \A r \in Requests :
             status[r] \in Decisions =>
               goals[KeyOf[content[r].s]][r] \in {None, ResolvedGoal(status[r])}

\* Every check, decision, sweep and session end that starts finishes.
TasksFinish == \A t \in Tasks : task[t].pc # "idle" ~> task[t].pc = "idle"

\* No request is pending without somebody who waits for its answer: there is one
\* for each action of a session and none left of an unloaded session.
PendingIsWaitedFor == NoDuplicatePending /\ NothingPendingAfterUnload

\* Nobody waits on a request for ever: it is decided, cancelled, timed out or
\* gone from Redis.
PendingEnds ==
  \A r \in Requests : status[r] = "pending" ~> status[r] # "pending"

\* Every call answers and every request is settled.
AllEnds == TasksFinish /\ PendingEnds

\* The queue implements the ledger.  A request is entered once its creator no
\* longer holds it back.
Creating(r) ==
  \E t \in Tasks : task[t].r = r /\ task[t].pc \in {"sweep", "sweep_write"}

Asked == {r \in Requests : content[r] # None /\ ~Creating(r)}

Ledger == INSTANCE ApprovalLedger WITH
            asked <- Asked, entry <- status, consent <- said

ImplementsLedger == Ledger!Spec
=============================================================================
