-------------------------- MODULE GuardApprovalsInv --------------------------
(***************************************************************************)
(* The inductive invariant of GuardApprovals.  The properties of that      *)
(* module do not survive a step on their own: what a task is about to      *)
(* write was read several awaits ago, so the invariant records what each   *)
(* task still knows at each await.                                         *)
(***************************************************************************)
EXTENDS GuardApprovals

Checking  == {"lookup", "timeout_read", "timeout_write", "allocate", "sweep",
              "sweep_write", "add_goal_read", "add_goal_write"}
Resolving == {"write", "goal_read", "goal_write"}

\* The fields a task needs for its next step have values.
TaskOK(x) ==
  /\ x.pc \in Checking => x.op = "check"
  /\ x.op = "check" => x.s \in Sessions /\ x.a \in Actions
  /\ x.pc \in (Checking \ {"lookup", "allocate"}) \cup Resolving => x.r \in Requests
  /\ x.pc = "sweep_write" => x.q \in Requests
  /\ x.pc = "add_goal_write" => x.key \in Keys
  /\ x.pc \in Resolving => x.st \in Decisions \cup {"cancelled"}
  /\ x.pc \in {"goal_read", "goal_write"} => x.key \in Keys
  /\ x.op = "end" => x.s \in Sessions
  /\ x.pc \in {"flush", "unload", "cancel"} => x.op = "end"
  /\ x.pc = "done" => x.op \in {"check", "sweep_route"}
  /\ x.pc = "done" /\ x.op = "check" => x.r \in Requests

TypeInv == TypeOK /\ \A t \in Tasks : TaskOK(task[t])

\* A goal list kept under key k (c, sd: the contents and the decisions so far).
ListOK(list, k, c, sd) ==
  \A r \in Requests :
    list[r] # None =>
      /\ c[r] # None /\ KeyOf[c[r].s] = k
      /\ list[r] = "completed" => "approved" \in sd[r]

\* What a task knows: its request is about its own session and action, what it
\* will write or answer was said or fell due, the list it read was well filed.
Knows(x, c, sd, d) ==
  /\ x.pc \in Checking \ {"lookup", "allocate"} => c[x.r] = [s |-> x.s, a |-> x.a]
  /\ x.pc = "timeout_write" => d[x.r] = 0
  /\ x.pc = "sweep_write" => c[x.q] # None /\ d[x.q] = 0
  /\ x.pc = "add_goal_write" => x.key = KeyOf[x.s] /\ ListOK(x.snap, x.key, c, sd)
  /\ x.pc \in Resolving =>
       c[x.r] # None /\ (x.st \in Decisions => x.st \in sd[x.r])
  /\ x.pc = "goal_write" => x.snap[x.r] # None /\ ListOK(x.snap, x.key, c, sd)
  /\ x.pc = "flush" => ListOK(x.snap, KeyOf[x.s], c, sd)
  /\ x.pc = "done" /\ x.op = "sweep_route" => x.out \in {None, "error"}
  /\ x.pc = "done" /\ x.op = "check" =>
       /\ c[x.r] = [s |-> x.s, a |-> x.a]
       /\ x.out = OutcomeOf(x.st)
       /\ x.st = "approved" => "approved" \in sd[x.r]
       /\ x.st = "timed_out" => d[x.r] = 0

TasksKnow == \A t \in Tasks : Knows(task[t], content, said, due)

\* Redis: requests have contents and are filed under their own session, a
\* decision was sent by somebody, a time-out came after the deadline.
Filed ==
  /\ \A s \in Sessions : \A r \in index[s] : content[r] # None /\ content[r].s = s
  /\ \A r \in Requests :
       /\ Live(r) => content[r] # None /\ ttl[r] > 0
       /\ status[r] \in Decisions => status[r] \in said[r]
       /\ status[r] = "timed_out" => Overdue(r)

GoalsFiled ==
  /\ \A k \in Keys : ListOK(goals[k], k, content, said)
  /\ \A r \in Requests : graph[r] = "completed" => "approved" \in said[r]

\* RequestStaysFindable with the TTLs that keep it true when time passes.
Findable ==
  /\ \A s \in Sessions : indexTtl[s] <= Timeout + Grace
  /\ \A r \in Requests :
       Live(r) /\ (status[r] = "pending" \/ ~Overdue(r)) =>
         r \in index[content[r].s] /\ ttl[r] <= indexTtl[content[r].s]

\* The request a task is creating is known to that task alone.
Creates(x, r) == x.pc \in {"sweep", "sweep_write"} /\ x.r = r

RefersTo(x, r) ==
  \/ x.pc \in ((Checking \cup Resolving) \ {"lookup", "allocate", "sweep", "sweep_write"})
     /\ x.r = r
  \/ x.pc = "sweep_write" /\ x.q = r

CreationPrivate ==
  \A t \in Tasks, r \in Requests :
    Creates(task[t], r) =>
      /\ status[r] = None /\ content[r] # None
      /\ \A u \in Tasks : ~RefersTo(task[u], r) /\ (Creates(task[u], r) => u = t)

IInv ==
  TypeInv /\ TasksKnow /\ Filed /\ GoalsFiled /\ Findable /\ CreationPrivate
------------------------------------------------------------------------------
(* One call at a time and no restart, with one session key: what a call    *)
(* read still holds when it writes, so that more can be said of it.        *)

Serial ==
  /\ \A t, u \in Tasks : t = u
  /\ \A k, l \in Keys : k = l
  /\ "restart" \notin Calls

\* A session has one request in Redis for an action, and what a check found of
\* the action it asks about is all there is.
FoundAll(x) ==
  /\ x.pc \in {"timeout_read", "timeout_write"} =>
       \A q \in Matching(x.s, x.a) : q = x.r
  /\ x.pc \in {"allocate", "sweep", "sweep_write"} => Matching(x.s, x.a) = {}
  /\ x.pc \in {"sweep", "sweep_write"} =>
       \A q \in x.todo : content[q] # None /\ content[q].s = x.s /\ content[q].a # x.a
  /\ x.pc = "sweep_write" =>
       x.q \in x.todo /\ \A r \in Matching(x.s, content[x.q].a) : r = x.q

OneEach ==
  /\ \A s \in Sessions : \A q, r \in index[s] :
       Live(q) /\ Live(r) /\ content[q] = content[r] => q = r
  /\ \A t \in Tasks : FoundAll(task[t])

\* The guard state of a session with a pending request is loaded, or being
\* unloaded, which will cancel the request.
Cancels(x, r) ==
  /\ x.op = "end" /\ content[r].s = x.s
  /\ \/ x.pc \in {"cancel"} \cup Resolving /\ r \in x.todo
     \/ x.pc = "write" /\ x.r = r

Attended ==
  /\ \A i, j \in DOMAIN loaded : loaded[i] = loaded[j] => i = j
  /\ \A t \in Tasks : task[t].op = "check" => task[t].s \in Loaded
  /\ \A r \in Requests : status[r] = "pending" =>
       content[r].s \in Loaded \/ \E t \in Tasks : Cancels(task[t], r)

\* The auto-goal of a request: known while its session is, and up to the call
\* under way it agrees with the decision.
GoalOf(r) == goals[KeyOf[content[r].s]][r]

HasRead(x) ==
  /\ x.pc \in {"goal_write", "add_goal_write"} => x.snap = goals[x.key]
  /\ x.pc \in {"add_goal_read", "add_goal_write"} => status[x.r] \in {"pending", None}
  /\ x.pc \in Resolving => x.op \in {"resolve", "end"}
  /\ x.pc \in Resolving /\ x.op = "end" => x.st = "cancelled" /\ x.key # None
  /\ x.pc \in {"goal_read", "goal_write"} => status[x.r] \in {x.st, None}
  /\ x.pc = "write" /\ x.key = None /\ Live(x.r) => GoalOf(x.r) = None
  /\ x.op = "end" /\ x.pc # "flush" => goals[KeyOf[x.s]] = NoGoals

GoalsFollow ==
  /\ \A t \in Tasks : HasRead(task[t])
  /\ \A r \in Requests :
       /\ Live(r) /\ GoalOf(r) # None => content[r].s \in Loaded
       /\ status[r] \in Decisions =>
            \/ GoalOf(r) \in {None, ResolvedGoal(status[r])}
            \/ \E t \in Tasks : task[t].pc \in {"goal_read", "goal_write"} /\ task[t].r = r

SerialInv == OneEach /\ Attended /\ GoalsFollow
=============================================================================
