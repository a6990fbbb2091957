------------------------ MODULE GuardApprovalsProofs ------------------------
(***************************************************************************)
(* Type correctness of GuardApprovals, and the inductive invariant IInv    *)
(* with what follows from it, for every number of sessions, requests,      *)
(* tasks and ticks.                                                        *)
(*                                                                         *)
(* TypeOK alone is not inductive: a task's next step is typed only if the  *)
(* fields it will use have been set, which TypeInv adds (TaskOK).  The     *)
(* proof of IInv goes part by part: what tasks know, how Redis and the     *)
(* goal lists are filed, findability, the privacy of a request under       *)
(* creation.  Each part has a lemma per group of steps that can disturb    *)
(* it; the steps that cannot leave its variables unchanged.                *)
(*                                                                         *)
(* What is true only of one call at a time follows from SerialInv, kept by *)
(* the lemmas at the end: what a call has read still holds when it writes. *)
(***************************************************************************)
EXTENDS GuardApprovalsInv, SequenceTheorems, TLAPS

------------------------------------------------------------------------------
(* Type correctness.                                                       *)

LEMMA IdleType == Idle \in TaskType /\ TaskOK(Idle)
  BY ConstantsAssumption
  DEF Idle, TaskType, TaskOK, NoGoals, GoalList, PCs, Ops, Checking, Resolving

LEMMA InitType == Init => TypeInv
  BY IdleType, ConstantsAssumption
  DEF Init, TypeInv, TypeOK, NoGoals, GoalList

\* What is known of a task before its step.
LEMMA TaskIsTyped ==
  ASSUME TypeInv, NEW t \in Tasks
  PROVE  task[t] \in TaskType /\ TaskOK(task[t])
  BY DEF TypeInv, TypeOK

\* One task changes to a record of its type, the others keep theirs.
LEMMA TaskStepType ==
  ASSUME TypeInv, NEW t \in Tasks, NEW x \in TaskType, TaskOK(x), Become(t, x)
  PROVE  task' \in [Tasks -> TaskType] /\ \A u \in Tasks : TaskOK(task'[u])
  BY DEF TypeInv, TypeOK, Become

\* The same when the step changes nothing but that task.
LEMMA TaskOnlyType ==
  ASSUME TypeInv, NEW t \in Tasks, NEW x \in TaskType, TaskOK(x), Become(t, x),
         UNCHANGED <<loaded, content, redis, due, goals, graph, said>>
  PROVE  TypeInv'
  BY TaskStepType DEF TypeInv, TypeOK, redis

LEMMA OutcomeType == \A st \in Statuses : OutcomeOf(st) \in Outcomes
  BY DEF OutcomeOf, AutonomyOutcome, Outcomes

LEMMA NoGoalsType == NoGoals \in GoalList
  BY DEF NoGoals, GoalList

LEMMA WithoutType ==
  ASSUME NEW S, NEW seq \in Seq(S), NEW i \in DOMAIN seq
  PROVE  Without(seq, i) \in Seq(S)
<1>1. i \in 1..Len(seq) /\ Len(seq) \in Nat
  BY LenProperties
<1>2. SubSeq(seq, 1, i - 1) \in Seq(S)
  BY <1>1, SubSeqProperties
<1>3. SubSeq(seq, i + 1, Len(seq)) \in Seq(S)
  BY <1>1, SubSeqProperties
<1>. QED BY <1>2, <1>3, ConcatProperties DEF Without

\* A task that ends with an answer about request r.
LEMMA AnswerType ==
  ASSUME TypeInv, NEW t \in Tasks, NEW r \in Requests, NEW st \in Statuses,
         task[t].pc \in Checking
  PROVE  LET x == [task[t] EXCEPT !.pc = "done", !.r = r, !.st = st,
                                  !.out = OutcomeOf(st), !.snap = NoGoals]
         IN  x \in TaskType /\ TaskOK(x)
<1>1. task[t] \in TaskType /\ TaskOK(task[t])
  BY TaskIsTyped
<1>2. OutcomeOf(st) \in Outcomes
  BY OutcomeType
<1>. QED
  BY <1>1, <1>2, NoGoalsType DEF TaskType, TaskOK, PCs, Checking, Resolving

LEMMA StartCheckType ==
  ASSUME TypeInv, NEW t \in Tasks, NEW s \in Sessions, NEW a \in Actions,
         StartCheck(t, s, a)
  PROVE  TypeInv'
<1>. DEFINE x == [Idle EXCEPT !.pc = "lookup", !.op = "check", !.s = s, !.a = a]
<1>1. x \in TaskType
  BY IdleType DEF TaskType, PCs, Ops
<1>2. TaskOK(x)
  BY IdleType DEF Idle, TaskOK, Checking, Resolving
<1>. QED BY <1>1, <1>2, TaskOnlyType DEF StartCheck

LEMMA FindMatchingType ==
  ASSUME TypeInv, NEW t \in Tasks, FindMatching(t)
  PROVE  TypeInv'
<1>1. task[t] \in TaskType /\ TaskOK(task[t]) /\ task[t].pc = "lookup"
  BY TaskIsTyped DEF FindMatching
<1>2. ASSUME NEW r \in Matching(task[t].s, task[t].a),
             Become(t, [task[t] EXCEPT !.pc = "timeout_read", !.r = r])
      PROVE  TypeInv'
  <2>. DEFINE x == [task[t] EXCEPT !.pc = "timeout_read", !.r = r]
  <2>1. r \in Requests
    BY <1>1 DEF TypeInv, TypeOK, TaskOK, Matching, Checking
  <2>2. x \in TaskType
    BY <2>1, <1>1 DEF TaskType, PCs
  <2>3. TaskOK(x)
    BY <2>1, <1>1 DEF TaskType, TaskOK, Checking, Resolving
  <2>. QED BY <1>2, <2>2, <2>3, TaskOnlyType DEF FindMatching
<1>3. ASSUME Become(t, [task[t] EXCEPT !.pc = "allocate"])
      PROVE  TypeInv'
  <2>. DEFINE x == [task[t] EXCEPT !.pc = "allocate"]
  <2>1. x \in TaskType
    BY <1>1 DEF TaskType, PCs
  <2>2. TaskOK(x)
    BY <1>1 DEF TaskType, TaskOK, Checking, Resolving
  <2>. QED BY <1>3, <2>1, <2>2, TaskOnlyType DEF FindMatching
<1>. QED BY <1>2, <1>3 DEF FindMatching

LEMMA CheckTimeoutReadType ==
  ASSUME TypeInv, NEW t \in Tasks, CheckTimeoutRead(t)
  PROVE  TypeInv'
<1>1. task[t] \in TaskType /\ TaskOK(task[t]) /\ task[t].pc = "timeout_read"
      /\ task[t].r \in Requests
  BY TaskIsTyped DEF CheckTimeoutRead, TaskOK, Checking
<1>2. UNCHANGED <<loaded, content, redis, due, goals, graph, said>>
  BY DEF CheckTimeoutRead
<1>3. CASE Become(t, [task[t] EXCEPT !.pc = "allocate", !.r = None])
  <2>. DEFINE x == [task[t] EXCEPT !.pc = "allocate", !.r = None]
  <2>1. x \in TaskType
    BY <1>1 DEF TaskType, PCs
  <2>2. TaskOK(x)
    BY <1>1 DEF TaskType, TaskOK, Checking, Resolving
  <2>. QED BY <1>2, <1>3, <2>1, <2>2, TaskOnlyType
<1>4. CASE Become(t, [task[t] EXCEPT !.pc = "timeout_write"])
  <2>. DEFINE x == [task[t] EXCEPT !.pc = "timeout_write"]
  <2>1. x \in TaskType
    BY <1>1 DEF TaskType, PCs
  <2>2. TaskOK(x)
    BY <1>1 DEF TaskType, TaskOK, Checking, Resolving
  <2>. QED BY <1>2, <1>4, <2>1, <2>2, TaskOnlyType
<1>5. CASE Live(task[t].r) /\ Answer(t, task[t].r, status[task[t].r])
  <2>1. status[task[t].r] \in Statuses
    BY <1>1, <1>5 DEF Live, TypeInv, TypeOK
  <2>. QED
    BY <1>1, <1>2, <1>5, <2>1, AnswerType, TaskOnlyType DEF Answer, Checking
<1>. QED BY <1>3, <1>4, <1>5 DEF CheckTimeoutRead

\* The time-out write keeps Redis in its types.
LEMMA TimeOutType ==
  ASSUME TypeInv, NEW r \in Requests, TimeOut(r)
  PROVE  /\ status' \in [Requests -> Statuses \cup {None}]
         /\ ttl' \in [Requests -> Nat]
         /\ index' \in [Sessions -> SUBSET Requests]
         /\ indexTtl' \in [Sessions -> Nat]
  BY ConstantsAssumption DEF TypeInv, TypeOK, TimeOut, Statuses

LEMMA CheckTimeoutWriteType ==
  ASSUME TypeInv, NEW t \in Tasks, CheckTimeoutWrite(t)
  PROVE  TypeInv'
<1>1. task[t].r \in Requests /\ task[t].pc \in Checking
  BY TaskIsTyped DEF CheckTimeoutWrite, TaskOK, Checking
<1>. DEFINE x == [task[t] EXCEPT !.pc = "done", !.r = task[t].r, !.st = "timed_out",
                                 !.out = OutcomeOf("timed_out"), !.snap = NoGoals]
<1>2. x \in TaskType /\ TaskOK(x)
  BY <1>1, AnswerType DEF Statuses
<1>3. Become(t, x) /\ TimeOut(task[t].r)
  BY DEF CheckTimeoutWrite, Answer
<1>4. task' \in [Tasks -> TaskType] /\ \A u \in Tasks : TaskOK(task'[u])
  BY <1>2, <1>3, TaskStepType
<1>. QED
  BY <1>1, <1>3, <1>4, TimeOutType DEF CheckTimeoutWrite, TypeInv, TypeOK

LEMMA AllocateType ==
  ASSUME TypeInv, NEW t \in Tasks, Allocate(t)
  PROVE  TypeInv'
<1>1. task[t] \in TaskType /\ TaskOK(task[t]) /\ task[t].pc = "allocate"
      /\ task[t].s \in Sessions /\ task[t].a \in Actions
  BY TaskIsTyped DEF Allocate, TaskOK, Checking
<1>2. PICK r \in Unused :
        /\ content' = [content EXCEPT ![r] = [s |-> task[t].s, a |-> task[t].a]]
        /\ due'     = [due EXCEPT ![r] = Timeout]
        /\ Become(t, [task[t] EXCEPT !.pc = "sweep", !.r = r,
                        !.todo = {q \in index[task[t].s] : status[q] = "pending"}])
  BY DEF Allocate
<1>. DEFINE x == [task[t] EXCEPT !.pc = "sweep", !.r = r,
                    !.todo = {q \in index[task[t].s] : status[q] = "pending"}]
<1>3. r \in Requests
  BY DEF Unused
<1>4. {q \in index[task[t].s] : status[q] = "pending"} \subseteq Requests
  BY <1>1 DEF TypeInv, TypeOK
<1>5. x \in TaskType
  BY <1>1, <1>3, <1>4 DEF TaskType, PCs
<1>6. TaskOK(x)
  BY <1>1, <1>3 DEF TaskType, TaskOK, Checking, Resolving
<1>7. task' \in [Tasks -> TaskType] /\ \A u \in Tasks : TaskOK(task'[u])
  BY <1>2, <1>5, <1>6, TaskStepType
<1>8. content' \in [Requests -> [s : Sessions, a : Actions] \cup {None}]
      /\ due' \in [Requests -> Nat]
  BY <1>1, <1>2, <1>3, ConstantsAssumption DEF TypeInv, TypeOK
<1>. QED
  BY <1>7, <1>8 DEF Allocate, TypeInv, TypeOK, redis

LEMMA IdleStepType ==
  ASSUME TypeInv, NEW t \in Tasks, Become(t, Idle),
         UNCHANGED <<loaded, content, redis, due, goals, graph, said>>
  PROVE  TypeInv'
  BY IdleType, TaskOnlyType

LEMMA SweepReadType ==
  ASSUME TypeInv, NEW t \in Tasks, SweepRead(t)
  PROVE  TypeInv'
<1>1. task[t] \in TaskType /\ TaskOK(task[t]) /\ task[t].pc = "sweep"
  BY TaskIsTyped DEF SweepRead
<1>2. UNCHANGED <<loaded, content, redis, due, goals, graph, said>>
  BY DEF SweepRead
<1>3. ASSUME NEW q \in task[t].todo,
             Become(t, [task[t] EXCEPT !.pc = "sweep_write", !.q = q])
      PROVE  TypeInv'
  <2>. DEFINE x == [task[t] EXCEPT !.pc = "sweep_write", !.q = q]
  <2>1. x \in TaskType /\ q \in Requests
    BY <1>1 DEF TaskType, PCs
  <2>2. TaskOK(x)
    BY <1>1, <2>1 DEF TaskType, TaskOK, Checking, Resolving
  <2>. QED BY <1>2, <1>3, <2>1, <2>2, TaskOnlyType
<1>4. ASSUME NEW q \in task[t].todo,
             Become(t, [task[t] EXCEPT !.todo = @ \ {q}])
      PROVE  TypeInv'
  <2>. DEFINE x == [task[t] EXCEPT !.todo = @ \ {q}]
  <2>1. x \in TaskType
    BY <1>1 DEF TaskType
  <2>2. TaskOK(x)
    BY <1>1 DEF TaskType, TaskOK, Checking, Resolving
  <2>. QED BY <1>2, <1>4, <2>1, <2>2, TaskOnlyType
<1>. QED BY <1>3, <1>4 DEF SweepRead

LEMMA SweepWriteType ==
  ASSUME TypeInv, NEW t \in Tasks, SweepWrite(t)
  PROVE  TypeInv'
<1>1. task[t] \in TaskType /\ TaskOK(task[t]) /\ task[t].pc = "sweep_write"
      /\ task[t].q \in Requests
  BY TaskIsTyped DEF SweepWrite, TaskOK
<1>. DEFINE x == [task[t] EXCEPT !.pc = "sweep", !.q = None,
                                 !.todo = @ \ {task[t].q}]
<1>2. x \in TaskType
  BY <1>1 DEF TaskType, PCs
<1>3. TaskOK(x)
  BY <1>1 DEF TaskType, TaskOK, Checking, Resolving
<1>4. task' \in [Tasks -> TaskType] /\ \A u \in Tasks : TaskOK(task'[u])
  BY <1>2, <1>3, TaskStepType DEF SweepWrite
<1>. QED
  BY <1>1, <1>4, TimeOutType DEF SweepWrite, TypeInv, TypeOK

LEMMA StoreType ==
  ASSUME TypeInv, NEW t \in Tasks, Store(t)
  PROVE  TypeInv'
<1>1. task[t] \in TaskType /\ TaskOK(task[t]) /\ task[t].pc = "sweep"
      /\ task[t].r \in Requests /\ task[t].s \in Sessions
  BY TaskIsTyped DEF Store, TaskOK, Checking
<1>. DEFINE x == [task[t] EXCEPT !.pc = "add_goal_read"]
<1>2. x \in TaskType
  BY <1>1 DEF TaskType, PCs
<1>3. TaskOK(x)
  BY <1>1 DEF TaskType, TaskOK, Checking, Resolving
<1>4. task' \in [Tasks -> TaskType] /\ \A u \in Tasks : TaskOK(task'[u])
  BY <1>2, <1>3, TaskStepType DEF Store
<1>5. /\ status' \in [Requests -> Statuses \cup {None}]
      /\ ttl' \in [Requests -> Nat]
      /\ index' \in [Sessions -> SUBSET Requests]
      /\ indexTtl' \in [Sessions -> Nat]
  BY <1>1, ConstantsAssumption DEF Store, TypeInv, TypeOK, Statuses
<1>. QED
  BY <1>4, <1>5 DEF Store, TypeInv, TypeOK

LEMMA AddGoalReadType ==
  ASSUME TypeInv, NEW t \in Tasks, AddGoalRead(t)
  PROVE  TypeInv'
<1>1. task[t] \in TaskType /\ TaskOK(task[t]) /\ task[t].pc = "add_goal_read"
      /\ task[t].s \in Sessions
  BY TaskIsTyped DEF AddGoalRead, TaskOK, Checking
<1>. DEFINE k == KeyOf[task[t].s]
            x == [task[t] EXCEPT !.pc = "add_goal_write", !.key = k, !.snap = goals[k]]
<1>2. k \in Keys /\ goals[k] \in GoalList
  BY <1>1, ConstantsAssumption DEF TypeInv, TypeOK
<1>3. x \in TaskType
  BY <1>1, <1>2 DEF TaskType, PCs
<1>4. TaskOK(x)
  BY <1>1, <1>2 DEF TaskType, TaskOK, Checking, Resolving
<1>. QED BY <1>3, <1>4, TaskOnlyType DEF AddGoalRead

LEMMA AddGoalWriteType ==
  ASSUME TypeInv, NEW t \in Tasks, AddGoalWrite(t)
  PROVE  TypeInv'
<1>1. task[t] \in TaskType /\ task[t].r \in Requests /\ task[t].key \in Keys
      /\ task[t].pc \in Checking
  BY TaskIsTyped DEF AddGoalWrite, TaskOK, Checking
<1>. DEFINE x == [task[t] EXCEPT !.pc = "done", !.r = task[t].r, !.st = "pending",
                                 !.out = OutcomeOf("pending"), !.snap = NoGoals]
<1>2. x \in TaskType /\ TaskOK(x)
  BY <1>1, AnswerType DEF Statuses
<1>3. task' \in [Tasks -> TaskType] /\ \A u \in Tasks : TaskOK(task'[u])
  BY <1>2, TaskStepType DEF AddGoalWrite, Answer
<1>4. task[t].snap \in GoalList
  BY <1>1 DEF TaskType
<1>5. [task[t].snap EXCEPT ![task[t].r] = "active"] \in GoalList
  BY <1>1, <1>4 DEF GoalList, GoalStatuses
<1>6. goals' \in [Keys -> GoalList]
  BY <1>1, <1>5 DEF AddGoalWrite, TypeInv, TypeOK
<1>. QED
  BY <1>3, <1>6 DEF AddGoalWrite, TypeInv, TypeOK, redis

LEMMA UpdateApprovalType ==
  ASSUME TypeInv, NEW t \in Tasks, NEW r \in Requests, NEW d \in Decisions,
         UpdateApproval(t, r, d)
  PROVE  TypeInv'
<1>. DEFINE k == IF loaded = <<>> THEN None ELSE KeyOf[loaded[1]]
            x == [Idle EXCEPT !.pc = "write", !.op = "resolve", !.r = r, !.st = d,
                              !.key = k]
<1>1. k \in Keys \cup {None}
  BY ConstantsAssumption DEF TypeInv, TypeOK
<1>2. x \in TaskType
  <2>1. \A y \in Keys \cup {None} :
          [Idle EXCEPT !.pc = "write", !.op = "resolve", !.r = r, !.st = d,
                       !.key = y] \in TaskType
    BY IdleType DEF TaskType, PCs, Ops, Statuses, Decisions
  <2>. QED BY <1>1, <2>1
<1>3. TaskOK(x)
  BY IdleType DEF Idle, TaskOK, Checking, Resolving
<1>4. task' \in [Tasks -> TaskType] /\ \A u \in Tasks : TaskOK(task'[u])
  BY <1>2, <1>3, TaskStepType DEF UpdateApproval
<1>5. said' \in [Requests -> SUBSET Decisions]
  BY DEF UpdateApproval, TypeInv, TypeOK
<1>. QED
  BY <1>4, <1>5 DEF UpdateApproval, TypeInv, TypeOK, redis

LEMMA WriteDecisionType ==
  ASSUME TypeInv, NEW t \in Tasks, WriteDecision(t)
  PROVE  TypeInv'
<1>1. task[t] \in TaskType /\ TaskOK(task[t]) /\ task[t].pc = "write"
      /\ task[t].r \in Requests /\ task[t].st \in Statuses
  BY TaskIsTyped DEF WriteDecision, TaskOK, Resolving, Decisions, Statuses
<1>. DEFINE y == [task[t] EXCEPT !.pc = "goal_read"]
            x == IF task[t].key = None THEN Idle ELSE y
<1>2. y \in TaskType
  BY <1>1 DEF TaskType, PCs
<1>3. task[t].key # None => TaskOK(y)
  BY <1>1 DEF TaskType, TaskOK, Checking, Resolving
<1>4. x \in TaskType /\ TaskOK(x)
  BY <1>2, <1>3, IdleType
<1>5. task' \in [Tasks -> TaskType] /\ \A u \in Tasks : TaskOK(task'[u])
  BY <1>4, TaskStepType DEF WriteDecision
<1>6. status' \in [Requests -> Statuses \cup {None}]
  BY <1>1 DEF WriteDecision, TypeInv, TypeOK
<1>. QED
  BY <1>5, <1>6 DEF WriteDecision, TypeInv, TypeOK

\* Where a task goes on after the auto-goal of a request.
LEMMA AfterGoalType ==
  ASSUME TypeInv, NEW t \in Tasks, AfterGoal(t)
  PROVE  task' \in [Tasks -> TaskType] /\ \A u \in Tasks : TaskOK(task'[u])
<1>1. task[t] \in TaskType /\ TaskOK(task[t])
  BY TaskIsTyped
<1>. DEFINE x == [task[t] EXCEPT !.pc = "cancel", !.r = None, !.st = None,
                                 !.key = None, !.snap = NoGoals]
<1>2. x \in TaskType
  BY <1>1, NoGoalsType DEF TaskType, PCs
<1>3. task[t].op = "end" => TaskOK(x)
  BY <1>1 DEF TaskType, TaskOK, Checking, Resolving
<1>4. CASE task[t].op = "end"
  BY <1>2, <1>3, <1>4, TaskStepType DEF AfterGoal
<1>5. CASE task[t].op # "end"
  BY <1>5, IdleType, TaskStepType DEF AfterGoal
<1>. QED BY <1>4, <1>5

LEMMA GoalReadType ==
  ASSUME TypeInv, NEW t \in Tasks, GoalRead(t)
  PROVE  TypeInv'
<1>1. task[t] \in TaskType /\ TaskOK(task[t]) /\ task[t].pc = "goal_read"
      /\ task[t].key \in Keys
  BY TaskIsTyped DEF GoalRead, TaskOK
<1>2. UNCHANGED <<loaded, content, redis, due, goals, graph, said>>
  BY DEF GoalRead
<1>3. CASE AfterGoal(t)
  BY <1>2, <1>3, AfterGoalType DEF TypeInv, TypeOK, redis
<1>4. CASE Become(t, [task[t] EXCEPT !.pc = "goal_write", !.snap = goals[task[t].key]])
  <2>. DEFINE x == [task[t] EXCEPT !.pc = "goal_write", !.snap = goals[task[t].key]]
  <2>1. goals[task[t].key] \in GoalList
    BY <1>1 DEF TypeInv, TypeOK
  <2>2. x \in TaskType
    BY <1>1, <2>1 DEF TaskType, PCs
  <2>3. TaskOK(x)
    BY <1>1 DEF TaskType, TaskOK, Checking, Resolving
  <2>. QED BY <1>2, <1>4, <2>2, <2>3, TaskOnlyType
<1>. QED BY <1>3, <1>4 DEF GoalRead

LEMMA GoalWriteType ==
  ASSUME TypeInv, NEW t \in Tasks, GoalWrite(t)
  PROVE  TypeInv'
<1>1. task[t] \in TaskType /\ task[t].r \in Requests /\ task[t].key \in Keys
  BY TaskIsTyped DEF GoalWrite, TaskOK, Resolving
<1>2. task' \in [Tasks -> TaskType] /\ \A u \in Tasks : TaskOK(task'[u])
  BY AfterGoalType DEF GoalWrite
<1>3. ResolvedGoal(task[t].st) \in GoalStatuses
  BY DEF ResolvedGoal, GoalStatuses
<1>4. task[t].snap \in GoalList
  BY <1>1 DEF TaskType
<1>5. [task[t].snap EXCEPT ![task[t].r] = ResolvedGoal(task[t].st)] \in GoalList
  BY <1>1, <1>3, <1>4 DEF GoalList
<1>6. goals' \in [Keys -> GoalList]
  BY <1>1, <1>5 DEF GoalWrite, TypeInv, TypeOK
<1>. QED
  BY <1>2, <1>6 DEF GoalWrite, TypeInv, TypeOK, redis

LEMMA SessionEndType ==
  ASSUME TypeInv, NEW t \in Tasks, NEW s \in Sessions, SessionEnd(t, s)
  PROVE  TypeInv'
<1>. DEFINE g == goals[KeyOf[s]]
            p == IF g = NoGoals THEN "unload" ELSE "flush"
            x == [Idle EXCEPT !.op = "end", !.s = s, !.snap = g, !.pc = p]
<1>1. g \in GoalList /\ p \in {"unload", "flush"}
  BY ConstantsAssumption DEF TypeInv, TypeOK
<1>2. x \in TaskType
  <2>1. \A l \in GoalList, y \in {"unload", "flush"} :
          [Idle EXCEPT !.op = "end", !.s = s, !.snap = l, !.pc = y] \in TaskType
    BY IdleType DEF TaskType, PCs, Ops
  <2>. QED BY <1>1, <2>1
<1>3. TaskOK(x)
  BY <1>1, IdleType DEF Idle, TaskOK, Checking, Resolving
<1>. QED BY <1>2, <1>3, TaskOnlyType DEF SessionEnd

LEMMA FlushGoalsType ==
  ASSUME TypeInv, NEW t \in Tasks, FlushGoals(t)
  PROVE  TypeInv'
<1>1. task[t] \in TaskType /\ TaskOK(task[t]) /\ task[t].pc = "flush"
      /\ task[t].op = "end" /\ task[t].s \in Sessions /\ task[t].snap \in GoalList
  BY TaskIsTyped DEF FlushGoals, TaskOK, TaskType
<1>. DEFINE x == [task[t] EXCEPT !.pc = "unload", !.snap = NoGoals]
<1>2. x \in TaskType
  BY <1>1, NoGoalsType DEF TaskType, PCs
<1>3. TaskOK(x)
  BY <1>1 DEF TaskType, TaskOK, Checking, Resolving
<1>4. task' \in [Tasks -> TaskType] /\ \A u \in Tasks : TaskOK(task'[u])
  BY <1>2, <1>3, TaskStepType DEF FlushGoals
<1>5. graph' \in GoalList
  BY <1>1 DEF FlushGoals, GoalList, TypeInv, TypeOK
<1>6. goals' \in [Keys -> GoalList]
  BY <1>1, NoGoalsType, ConstantsAssumption DEF FlushGoals, TypeInv, TypeOK
<1>. QED
  BY <1>4, <1>5, <1>6 DEF FlushGoals, TypeInv, TypeOK, redis

LEMMA UnloadSessionType ==
  ASSUME TypeInv, NEW t \in Tasks, UnloadSession(t)
  PROVE  TypeInv'
<1>1. task[t] \in TaskType /\ TaskOK(task[t]) /\ task[t].pc = "unload"
      /\ task[t].op = "end" /\ task[t].s \in Sessions
  BY TaskIsTyped DEF UnloadSession, TaskOK
<1>2. CASE task[t].s \notin Loaded
  BY <1>2, IdleStepType DEF UnloadSession
<1>3. CASE task[t].s \in Loaded
  <2>. DEFINE x == [task[t] EXCEPT !.pc = "cancel",
                      !.todo = {q \in index[task[t].s] : status[q] = "pending"}]
  <2>1. {q \in index[task[t].s] : status[q] = "pending"} \subseteq Requests
    BY <1>1 DEF TypeInv, TypeOK
  <2>2. x \in TaskType
    BY <1>1, <2>1 DEF TaskType, PCs
  <2>3. TaskOK(x)
    BY <1>1 DEF TaskType, TaskOK, Checking, Resolving
  <2>4. task' \in [Tasks -> TaskType] /\ \A u \in Tasks : TaskOK(task'[u])
    BY <1>3, <2>2, <2>3, TaskStepType DEF UnloadSession
  <2>5. loaded' \in Seq(Sessions)
    <3>1. PICK i \in DOMAIN loaded : loaded' = Without(loaded, i)
      BY <1>3 DEF UnloadSession
    <3>2. loaded \in Seq(Sessions)
      BY DEF TypeInv, TypeOK
    <3>. QED BY <3>1, <3>2, WithoutType
  <2>. QED
    BY <2>4, <2>5 DEF UnloadSession, TypeInv, TypeOK, redis
<1>. QED BY <1>2, <1>3

LEMMA CancelReadType ==
  ASSUME TypeInv, NEW t \in Tasks, CancelRead(t)
  PROVE  TypeInv'
<1>1. task[t] \in TaskType /\ TaskOK(task[t]) /\ task[t].pc = "cancel"
      /\ task[t].op = "end" /\ task[t].s \in Sessions
  BY TaskIsTyped DEF CancelRead, TaskOK
<1>2. UNCHANGED <<loaded, content, redis, due, goals, graph, said>>
  BY DEF CancelRead
<1>3. PICK q \in task[t].todo :
        LET rest == [task[t] EXCEPT !.todo = @ \ {q}] IN
        Become(t, IF Live(q)
                  THEN [rest EXCEPT !.pc = "write", !.r = q, !.st = "cancelled",
                                    !.key = KeyOf[task[t].s]]
                  ELSE rest)
  BY DEF CancelRead
<1>. DEFINE rest == [task[t] EXCEPT !.todo = @ \ {q}]
            x == [rest EXCEPT !.pc = "write", !.r = q, !.st = "cancelled",
                              !.key = KeyOf[task[t].s]]
<1>4. q \in Requests /\ KeyOf[task[t].s] \in Keys
  BY <1>1, ConstantsAssumption DEF TaskType
<1>5. rest \in TaskType /\ x \in TaskType
  BY <1>1, <1>4 DEF TaskType, PCs, Statuses
<1>6. TaskOK(rest)
  BY <1>1 DEF TaskType, TaskOK, Checking, Resolving
<1>7. TaskOK(x)
  BY <1>1, <1>4 DEF TaskType, TaskOK, Checking, Resolving
<1>8. CASE Become(t, rest)
  BY <1>2, <1>5, <1>6, <1>8, TaskOnlyType
<1>9. CASE Become(t, x)
  BY <1>2, <1>5, <1>7, <1>9, TaskOnlyType
<1>. QED BY <1>3, <1>8, <1>9

LEMMA SweepRouteType ==
  ASSUME TypeInv, NEW t \in Tasks, NEW s \in Sessions, SweepRoute(t, s)
  PROVE  TypeInv'
<1>. DEFINE o == IF {q \in index[s] : status[q] = "pending"} = {}
                 THEN None ELSE "error"
            x == [Idle EXCEPT !.pc = "done", !.op = "sweep_route", !.s = s, !.out = o]
<1>1. o \in {None, "error"}
  OBVIOUS
<1>2. x \in TaskType
  <2>1. \A y \in {None, "error"} :
          [Idle EXCEPT !.pc = "done", !.op = "sweep_route", !.s = s, !.out = y]
            \in TaskType
    BY IdleType DEF TaskType, PCs, Ops
  <2>. QED BY <1>1, <2>1
<1>3. TaskOK(x)
  BY IdleType DEF Idle, TaskOK, Checking, Resolving
<1>. QED BY <1>2, <1>3, TaskOnlyType DEF SweepRoute

LEMMA LoadSessionRulesType ==
  ASSUME TypeInv, NEW s \in Sessions, LoadSessionRules(s)
  PROVE  TypeInv'
<1>1. loaded \in Seq(Sessions)
  BY DEF TypeInv, TypeOK
<1>2. \A kept \in EvictStaleSessions : kept \in Seq(Sessions)
  BY <1>1, WithoutType DEF EvictStaleSessions
<1>3. \A kept \in EvictStaleSessions : Append(kept, s) \in Seq(Sessions)
  BY <1>2, AppendProperties
<1>4. loaded' \in Seq(Sessions)
  BY <1>2, <1>3 DEF LoadSessionRules
<1>. QED BY <1>4 DEF LoadSessionRules, TypeInv, TypeOK, redis

LEMMA RestartType ==
  ASSUME TypeInv, Restart
  PROVE  TypeInv'
  BY IdleType DEF Restart, TypeInv, TypeOK, redis

LEMMA TickType ==
  ASSUME TypeInv, Tick
  PROVE  TypeInv'
  BY DEF Tick, TypeInv, TypeOK, Less

LEMMA StepType ==
  ASSUME TypeInv, Next
  PROVE  TypeInv'
  BY StartCheckType, FindMatchingType, CheckTimeoutReadType, CheckTimeoutWriteType,
     AllocateType, IdleStepType, SweepReadType, SweepWriteType, StoreType,
     AddGoalReadType, AddGoalWriteType, UpdateApprovalType, WriteDecisionType,
     GoalReadType, GoalWriteType, SessionEndType, FlushGoalsType,
     UnloadSessionType, CancelReadType, SweepRouteType, LoadSessionRulesType,
     RestartType, TickType
  DEF Next, Step, Call, OutOfRequests, Return, SessionEnded

\* Every variable of the approval protocol keeps its type.
THEOREM TypeCorrect == Spec => []TypeOK
<1>1. Init => TypeInv
  BY InitType
<1>2. TypeInv /\ [Next]_vars => TypeInv'
  <2>1. CASE Next
    BY <2>1, StepType
  <2>2. CASE UNCHANGED vars
    BY <2>2 DEF vars, redis, TypeInv, TypeOK
  <2>. QED BY <2>1, <2>2
<1>3. TypeInv => TypeOK
  BY DEF TypeInv
<1>. QED BY <1>1, <1>2, <1>3, PTL DEF Spec

------------------------------------------------------------------------------
(* What tasks know.                                                        *)

\* Contents are fixed, decisions accumulate, deadlines stay passed.
Grow(c, sd, d, c2, sd2, d2) ==
  \A r \in Requests :
    /\ sd[r] \subseteq sd2[r]
    /\ c[r] # None => c2[r] = c[r] /\ (d[r] = 0 => d2[r] = 0)

LEMMA GrowSame == \A c, sd, d : Grow(c, sd, d, c, sd, d)
  BY DEF Grow

LEMMA ListSurvives ==
  ASSUME NEW list, NEW k, NEW c, NEW sd, NEW d, NEW c2, NEW sd2, NEW d2,
         Grow(c, sd, d, c2, sd2, d2), ListOK(list, k, c, sd)
  PROVE  ListOK(list, k, c2, sd2)
  BY DEF Grow, ListOK

LEMMA KnowsSurvives ==
  ASSUME NEW x \in TaskType, TaskOK(x), NEW c, NEW sd, NEW d,
         NEW c2, NEW sd2, NEW d2, Grow(c, sd, d, c2, sd2, d2), Knows(x, c, sd, d)
  PROVE  Knows(x, c2, sd2, d2)
<1>1. ASSUME x.pc \in Checking \ {"lookup", "allocate"}
      PROVE  c2[x.r] = [s |-> x.s, a |-> x.a] /\ (d[x.r] = 0 => d2[x.r] = 0)
  BY <1>1, ConstantsAssumption DEF TaskOK, Knows, Grow, Checking
<1>2. ASSUME x.pc = "sweep_write"
      PROVE  c2[x.q] # None /\ d2[x.q] = 0
  BY <1>2 DEF TaskOK, Knows, Grow
<1>3. ASSUME x.pc \in Resolving
      PROVE  c2[x.r] # None /\ (x.st \in Decisions => x.st \in sd2[x.r])
  BY <1>3 DEF TaskOK, Knows, Grow
<1>4. ASSUME x.pc = "add_goal_write"
      PROVE  ListOK(x.snap, x.key, c2, sd2)
  BY <1>4, ListSurvives DEF Knows
<1>5. ASSUME x.pc = "goal_write"
      PROVE  ListOK(x.snap, x.key, c2, sd2)
  BY <1>5, ListSurvives DEF Knows
<1>6. ASSUME x.pc = "flush"
      PROVE  ListOK(x.snap, KeyOf[x.s], c2, sd2)
  BY <1>6, ListSurvives DEF Knows
<1>7. ASSUME x.pc = "done", x.op = "check"
      PROVE  /\ c2[x.r] = c[x.r]
             /\ sd[x.r] \subseteq sd2[x.r]
             /\ d[x.r] = 0 => d2[x.r] = 0
  BY <1>7, ConstantsAssumption DEF TaskOK, Knows, Grow
<1>. QED BY <1>1, <1>2, <1>3, <1>4, <1>5, <1>6, <1>7 DEF Knows, Checking

\* A step that changes one task: the new record must know what it needs, the
\* others know what they knew.
LEMMA TaskStepKnows ==
  ASSUME TypeInv, TasksKnow, NEW t \in Tasks, NEW x, Become(t, x),
         Grow(content, said, due, content', said', due'),
         Knows(x, content', said', due')
  PROVE  TasksKnow'
<1>1. ASSUME NEW u \in Tasks, u # t
      PROVE  Knows(task[u], content', said', due')
  BY <1>1, TaskIsTyped, KnowsSurvives DEF TasksKnow
<1>2. \A u \in Tasks : task'[u] = IF u = t THEN x ELSE task[u]
  BY DEF TypeInv, TypeOK, Become
<1>. QED BY <1>1, <1>2 DEF TasksKnow

LEMMA TaskOnlyKnows ==
  ASSUME TypeInv, TasksKnow, NEW t \in Tasks, NEW x, Become(t, x),
         UNCHANGED <<content, due, said>>, Knows(x, content, said, due)
  PROVE  TasksKnow'
  BY TaskStepKnows, GrowSame

LEMMA IdleKnows == \A c, sd, d : Knows(Idle, c, sd, d)
  BY DEF Idle, Knows, Checking, Resolving

LEMMA IdleStepKnows ==
  ASSUME TypeInv, TasksKnow, NEW t \in Tasks, Become(t, Idle),
         UNCHANGED <<content, due, said>>
  PROVE  TasksKnow'
  BY TaskOnlyKnows, IdleKnows

\* A check answers about its own request, with cause.
LEMMA AnswerKnows ==
  ASSUME TypeInv, TasksKnow, NEW t \in Tasks,
         task[t].pc \in Checking \ {"lookup", "allocate"}, NEW st \in Statuses,
         Answer(t, task[t].r, st), UNCHANGED <<content, due, said>>,
         st = "approved" => "approved" \in said[task[t].r],
         st = "timed_out" => due[task[t].r] = 0
  PROVE  TasksKnow'
<1>1. task[t] \in TaskType /\ TaskOK(task[t]) /\ Knows(task[t], content, said, due)
  BY TaskIsTyped DEF TasksKnow
<1>. DEFINE x == [task[t] EXCEPT !.pc = "done", !.r = task[t].r, !.st = st,
                                 !.out = OutcomeOf(st), !.snap = NoGoals]
<1>2. x.pc = "done" /\ x.op = "check" /\ x.r = task[t].r /\ x.s = task[t].s
      /\ x.a = task[t].a /\ x.st = st /\ x.out = OutcomeOf(st)
  BY <1>1 DEF TaskType, TaskOK
<1>3. content[task[t].r] = [s |-> task[t].s, a |-> task[t].a]
  BY <1>1 DEF Knows
<1>4. Knows(x, content, said, due)
  BY <1>2, <1>3 DEF Knows, Checking, Resolving
<1>. QED BY <1>4, TaskOnlyKnows DEF Answer

LEMMA StartCheckKnows ==
  ASSUME TypeInv, TasksKnow, NEW t \in Tasks, NEW s \in Sessions,
         NEW a \in Actions, StartCheck(t, s, a)
  PROVE  TasksKnow'
<1>. DEFINE x == [Idle EXCEPT !.pc = "lookup", !.op = "check", !.s = s, !.a = a]
<1>1. Knows(x, content, said, due)
  BY DEF Idle, Knows, Checking, Resolving
<1>. QED BY <1>1, TaskOnlyKnows DEF StartCheck

LEMMA FindMatchingKnows ==
  ASSUME TypeInv, TasksKnow, Filed, NEW t \in Tasks, FindMatching(t)
  PROVE  TasksKnow'
<1>1. task[t] \in TaskType /\ task[t].pc = "lookup"
      /\ task[t].s \in Sessions /\ task[t].a \in Actions
  BY TaskIsTyped DEF FindMatching, TaskOK, Checking
<1>2. ASSUME NEW r \in Matching(task[t].s, task[t].a),
             Become(t, [task[t] EXCEPT !.pc = "timeout_read", !.r = r])
      PROVE  TasksKnow'
  <2>. DEFINE x == [task[t] EXCEPT !.pc = "timeout_read", !.r = r]
  <2>1. r \in Requests /\ content[r] \in [s : Sessions, a : Actions]
        /\ content[r].s = task[t].s /\ content[r].a = task[t].a
    BY <1>1 DEF Matching, Filed, TypeInv, TypeOK
  <2>2. content[r] = [s |-> task[t].s, a |-> task[t].a]
    BY <2>1
  <2>3. x.pc = "timeout_read" /\ x.r = r /\ x.s = task[t].s /\ x.a = task[t].a
    BY <1>1 DEF TaskType
  <2>4. Knows(x, content, said, due)
    BY <2>2, <2>3 DEF Knows, Checking, Resolving
  <2>. QED BY <1>2, <2>4, TaskOnlyKnows DEF FindMatching
<1>3. ASSUME Become(t, [task[t] EXCEPT !.pc = "allocate"])
      PROVE  TasksKnow'
  <2>. DEFINE x == [task[t] EXCEPT !.pc = "allocate"]
  <2>1. Knows(x, content, said, due)
    BY <1>1 DEF TaskType, Knows, Checking, Resolving
  <2>. QED BY <1>3, <2>1, TaskOnlyKnows DEF FindMatching
<1>. QED BY <1>2, <1>3 DEF FindMatching

LEMMA CheckTimeoutReadKnows ==
  ASSUME TypeInv, TasksKnow, Filed, NEW t \in Tasks, CheckTimeoutRead(t)
  PROVE  TasksKnow'
<1>1. task[t] \in TaskType /\ Knows(task[t], content, said, due)
      /\ task[t].pc = "timeout_read" /\ task[t].r \in Requests
  BY TaskIsTyped DEF CheckTimeoutRead, TaskOK, TasksKnow, Checking
<1>2. UNCHANGED <<content, due, said>>
  BY DEF CheckTimeoutRead
<1>3. CASE Become(t, [task[t] EXCEPT !.pc = "allocate", !.r = None])
  <2>. DEFINE x == [task[t] EXCEPT !.pc = "allocate", !.r = None]
  <2>1. Knows(x, content, said, due)
    BY <1>1 DEF TaskType, Knows, Checking, Resolving
  <2>. QED BY <1>2, <1>3, <2>1, TaskOnlyKnows
<1>4. CASE Overdue(task[t].r) /\ Become(t, [task[t] EXCEPT !.pc = "timeout_write"])
  <2>. DEFINE x == [task[t] EXCEPT !.pc = "timeout_write"]
  <2>1. Knows(x, content, said, due)
    BY <1>1, <1>4 DEF TaskType, Knows, Checking, Resolving, Overdue
  <2>. QED BY <1>2, <1>4, <2>1, TaskOnlyKnows
<1>5. CASE Live(task[t].r) /\ Answer(t, task[t].r, status[task[t].r])
  <2>. DEFINE st == status[task[t].r]
  <2>1. st \in Statuses
    BY <1>1, <1>5 DEF Live, TypeInv, TypeOK
  <2>2. st = "approved" => "approved" \in said[task[t].r]
    BY <1>1 DEF Filed, Decisions
  <2>3. st = "timed_out" => due[task[t].r] = 0
    BY <1>1 DEF Filed, Overdue
  <2>. QED BY <1>1, <1>2, <1>5, <2>1, <2>2, <2>3, AnswerKnows DEF Checking
<1>. QED BY <1>3, <1>4, <1>5 DEF CheckTimeoutRead

LEMMA CheckTimeoutWriteKnows ==
  ASSUME TypeInv, TasksKnow, NEW t \in Tasks, CheckTimeoutWrite(t)
  PROVE  TasksKnow'
<1>1. task[t].pc = "timeout_write" /\ due[task[t].r] = 0
  BY DEF CheckTimeoutWrite, TasksKnow, Knows
<1>. QED BY <1>1, AnswerKnows DEF CheckTimeoutWrite, Checking, Statuses

LEMMA AllocateGrows ==
  ASSUME TypeInv, NEW t \in Tasks, Allocate(t)
  PROVE  Grow(content, said, due, content', said', due')
  BY DEF Allocate, Unused, Grow, TypeInv, TypeOK

LEMMA AllocateKnows ==
  ASSUME TypeInv, TasksKnow, NEW t \in Tasks, Allocate(t)
  PROVE  TasksKnow'
<1>1. task[t] \in TaskType
  BY TaskIsTyped
<1>2. PICK r \in Unused :
        /\ content' = [content EXCEPT ![r] = [s |-> task[t].s, a |-> task[t].a]]
        /\ Become(t, [task[t] EXCEPT !.pc = "sweep", !.r = r,
                        !.todo = {q \in index[task[t].s] : status[q] = "pending"}])
  BY DEF Allocate
<1>. DEFINE x == [task[t] EXCEPT !.pc = "sweep", !.r = r,
                    !.todo = {q \in index[task[t].s] : status[q] = "pending"}]
<1>3. content'[r] = [s |-> task[t].s, a |-> task[t].a]
  BY <1>2 DEF Unused, TypeInv, TypeOK
<1>4. x.pc = "sweep" /\ x.r = r /\ x.s = task[t].s /\ x.a = task[t].a
  BY <1>1 DEF TaskType
<1>5. Knows(x, content', said', due')
  BY <1>3, <1>4 DEF Knows, Checking, Resolving
<1>. QED BY <1>2, <1>5, AllocateGrows, TaskStepKnows

LEMMA SweepReadKnows ==
  ASSUME TypeInv, TasksKnow, Filed, NEW t \in Tasks, SweepRead(t)
  PROVE  TasksKnow'
<1>1. task[t] \in TaskType /\ Knows(task[t], content, said, due)
      /\ task[t].pc = "sweep"
  BY TaskIsTyped DEF SweepRead, TasksKnow
<1>2. UNCHANGED <<content, due, said>>
  BY DEF SweepRead
<1>3. ASSUME NEW q \in task[t].todo, status[q] = "pending", Overdue(q),
             Become(t, [task[t] EXCEPT !.pc = "sweep_write", !.q = q])
      PROVE  TasksKnow'
  <2>. DEFINE x == [task[t] EXCEPT !.pc = "sweep_write", !.q = q]
  <2>1. q \in Requests
    BY <1>1 DEF TaskType
  <2>2. content[q] # None /\ due[q] = 0
    BY <1>3, <2>1, ConstantsAssumption DEF Filed, Live, Overdue, Statuses
  <2>3. Knows(x, content, said, due)
    BY <1>1, <2>2 DEF TaskType, Knows, Checking, Resolving
  <2>. QED BY <1>2, <1>3, <2>3, TaskOnlyKnows
<1>4. ASSUME NEW q \in task[t].todo,
             Become(t, [task[t] EXCEPT !.todo = @ \ {q}])
      PROVE  TasksKnow'
  <2>. DEFINE x == [task[t] EXCEPT !.todo = @ \ {q}]
  <2>1. Knows(x, content, said, due)
    BY <1>1 DEF TaskType, Knows, Checking, Resolving
  <2>. QED BY <1>2, <1>4, <2>1, TaskOnlyKnows
<1>. QED BY <1>3, <1>4 DEF SweepRead

LEMMA SweepWriteKnows ==
  ASSUME TypeInv, TasksKnow, NEW t \in Tasks, SweepWrite(t)
  PROVE  TasksKnow'
<1>1. task[t] \in TaskType /\ Knows(task[t], content, said, due)
      /\ task[t].pc = "sweep_write"
  BY TaskIsTyped DEF SweepWrite, TasksKnow
<1>. DEFINE x == [task[t] EXCEPT !.pc = "sweep", !.q = None,
                                 !.todo = @ \ {task[t].q}]
<1>2. Knows(x, content, said, due)
  BY <1>1 DEF TaskType, Knows, Checking, Resolving
<1>. QED BY <1>2, TaskOnlyKnows DEF SweepWrite

LEMMA StoreKnows ==
  ASSUME TypeInv, TasksKnow, NEW t \in Tasks, Store(t)
  PROVE  TasksKnow'
<1>1. task[t] \in TaskType /\ Knows(task[t], content, said, due)
      /\ task[t].pc = "sweep"
  BY TaskIsTyped DEF Store, TasksKnow
<1>. DEFINE x == [task[t] EXCEPT !.pc = "add_goal_read"]
<1>2. Knows(x, content, said, due)
  BY <1>1 DEF TaskType, Knows, Checking, Resolving
<1>. QED BY <1>2, TaskOnlyKnows DEF Store

LEMMA AddGoalReadKnows ==
  ASSUME TypeInv, TasksKnow, GoalsFiled, NEW t \in Tasks, AddGoalRead(t)
  PROVE  TasksKnow'
<1>1. task[t] \in TaskType /\ Knows(task[t], content, said, due)
      /\ task[t].pc = "add_goal_read" /\ task[t].s \in Sessions
  BY TaskIsTyped DEF AddGoalRead, TasksKnow, TaskOK, Checking
<1>. DEFINE k == KeyOf[task[t].s]
            x == [task[t] EXCEPT !.pc = "add_goal_write", !.key = k, !.snap = goals[k]]
<1>2. ListOK(goals[k], k, content, said)
  BY <1>1, ConstantsAssumption DEF GoalsFiled
<1>3. x.pc = "add_goal_write" /\ x.key = k /\ x.snap = goals[k]
      /\ x.r = task[t].r /\ x.s = task[t].s /\ x.a = task[t].a
  BY <1>1 DEF TaskType
<1>4. content[x.r] = [s |-> x.s, a |-> x.a]
  BY <1>1, <1>3 DEF Knows, Checking
<1>5. Knows(x, content, said, due)
  BY <1>2, <1>3, <1>4 DEF Knows, Checking, Resolving
<1>. QED BY <1>5, TaskOnlyKnows DEF AddGoalRead

LEMMA AddGoalWriteKnows ==
  ASSUME TypeInv, TasksKnow, NEW t \in Tasks, AddGoalWrite(t)
  PROVE  TasksKnow'
  BY AnswerKnows DEF AddGoalWrite, Checking, Statuses

LEMMA UpdateApprovalGrows ==
  ASSUME TypeInv, NEW t \in Tasks, NEW r \in Requests, NEW d \in Decisions,
         UpdateApproval(t, r, d)
  PROVE  Grow(content, said, due, content', said', due')
  BY DEF UpdateApproval, Grow, TypeInv, TypeOK

LEMMA UpdateApprovalKnows ==
  ASSUME TypeInv, TasksKnow, Filed, NEW t \in Tasks, NEW r \in Requests,
         NEW d \in Decisions, UpdateApproval(t, r, d)
  PROVE  TasksKnow'
<1>. DEFINE k == IF loaded = <<>> THEN None ELSE KeyOf[loaded[1]]
            x == [Idle EXCEPT !.pc = "write", !.op = "resolve", !.r = r, !.st = d,
                              !.key = k]
<1>1. content'[r] # None /\ d \in said'[r]
  BY DEF UpdateApproval, Filed, TypeInv, TypeOK
<1>2. x.pc = "write" /\ x.r = r /\ x.st = d
  BY DEF Idle
<1>3. Knows(x, content', said', due')
  BY <1>1, <1>2 DEF Knows, Checking, Resolving
<1>. QED BY <1>3, UpdateApprovalGrows, TaskStepKnows DEF UpdateApproval

LEMMA WriteDecisionKnows ==
  ASSUME TypeInv, TasksKnow, NEW t \in Tasks, WriteDecision(t)
  PROVE  TasksKnow'
<1>1. task[t] \in TaskType /\ Knows(task[t], content, said, due)
      /\ task[t].pc = "write"
  BY TaskIsTyped DEF WriteDecision, TasksKnow
<1>. DEFINE x == [task[t] EXCEPT !.pc = "goal_read"]
<1>2. Knows(x, content, said, due)
  BY <1>1 DEF TaskType, Knows, Checking, Resolving
<1>. QED BY <1>2, IdleKnows, TaskOnlyKnows DEF WriteDecision

LEMMA AfterGoalKnows ==
  ASSUME TypeInv, TasksKnow, NEW t \in Tasks, AfterGoal(t),
         UNCHANGED <<content, due, said>>
  PROVE  TasksKnow'
<1>. DEFINE x == [task[t] EXCEPT !.pc = "cancel", !.r = None, !.st = None,
                                 !.key = None, !.snap = NoGoals]
<1>1. task[t] \in TaskType
  BY TaskIsTyped
<1>2. Knows(x, content, said, due)
  BY <1>1 DEF TaskType, Knows, Checking, Resolving
<1>. QED BY <1>2, IdleKnows, TaskOnlyKnows DEF AfterGoal

LEMMA GoalReadKnows ==
  ASSUME TypeInv, TasksKnow, GoalsFiled, NEW t \in Tasks, GoalRead(t)
  PROVE  TasksKnow'
<1>1. task[t] \in TaskType /\ Knows(task[t], content, said, due)
      /\ task[t].pc = "goal_read" /\ task[t].key \in Keys
  BY TaskIsTyped DEF GoalRead, TasksKnow, TaskOK
<1>2. UNCHANGED <<content, due, said>>
  BY DEF GoalRead
<1>3. CASE AfterGoal(t)
  BY <1>2, <1>3, AfterGoalKnows
<1>4. CASE /\ goals[task[t].key][task[t].r] # None
           /\ Become(t, [task[t] EXCEPT !.pc = "goal_write",
                                        !.snap = goals[task[t].key]])
  <2>. DEFINE x == [task[t] EXCEPT !.pc = "goal_write", !.snap = goals[task[t].key]]
  <2>1. ListOK(goals[task[t].key], task[t].key, content, said)
    BY <1>1 DEF GoalsFiled
  <2>2. x.pc = "goal_write" /\ x.snap = goals[task[t].key] /\ x.key = task[t].key
        /\ x.r = task[t].r /\ x.st = task[t].st
    BY <1>1 DEF TaskType
  <2>3. content[x.r] # None /\ (x.st \in Decisions => x.st \in said[x.r])
    BY <1>1, <2>2 DEF Knows, Resolving
  <2>4. Knows(x, content, said, due)
    BY <1>4, <2>1, <2>2, <2>3 DEF Knows, Checking, Resolving
  <2>. QED BY <1>2, <1>4, <2>4, TaskOnlyKnows
<1>. QED BY <1>3, <1>4 DEF GoalRead

LEMMA SessionEndKnows ==
  ASSUME TypeInv, TasksKnow, GoalsFiled, NEW t \in Tasks, NEW s \in Sessions,
         SessionEnd(t, s)
  PROVE  TasksKnow'
<1>. DEFINE g == goals[KeyOf[s]]
            p == IF g = NoGoals THEN "unload" ELSE "flush"
            x == [Idle EXCEPT !.op = "end", !.s = s, !.snap = g, !.pc = p]
<1>1. ListOK(g, KeyOf[s], content, said)
  BY ConstantsAssumption DEF GoalsFiled
<1>2. x.pc \in {"unload", "flush"} /\ x.snap = g /\ x.s = s
  BY DEF Idle
<1>3. Knows(x, content, said, due)
  BY <1>1, <1>2 DEF Knows, Checking, Resolving
<1>. QED BY <1>3, TaskOnlyKnows DEF SessionEnd

LEMMA FlushGoalsKnows ==
  ASSUME TypeInv, TasksKnow, NEW t \in Tasks, FlushGoals(t)
  PROVE  TasksKnow'
<1>. DEFINE x == [task[t] EXCEPT !.pc = "unload", !.snap = NoGoals]
<1>1. task[t] \in TaskType
  BY TaskIsTyped
<1>2. Knows(x, content, said, due)
  BY <1>1 DEF TaskType, Knows, Checking, Resolving
<1>. QED BY <1>2, TaskOnlyKnows DEF FlushGoals

LEMMA UnloadSessionKnows ==
  ASSUME TypeInv, TasksKnow, NEW t \in Tasks, UnloadSession(t)
  PROVE  TasksKnow'
<1>. DEFINE x == [task[t] EXCEPT !.pc = "cancel",
                    !.todo = {q \in index[task[t].s] : status[q] = "pending"}]
<1>1. task[t] \in TaskType
  BY TaskIsTyped
<1>2. Knows(x, content, said, due)
  BY <1>1 DEF TaskType, Knows, Checking, Resolving
<1>. QED BY <1>2, IdleKnows, TaskOnlyKnows DEF UnloadSession

LEMMA CancelReadKnows ==
  ASSUME TypeInv, TasksKnow, Filed, NEW t \in Tasks, CancelRead(t)
  PROVE  TasksKnow'
<1>1. task[t] \in TaskType /\ task[t].pc = "cancel"
  BY TaskIsTyped DEF CancelRead
<1>2. UNCHANGED <<content, due, said>>
  BY DEF CancelRead
<1>3. PICK q \in task[t].todo :
        LET rest == [task[t] EXCEPT !.todo = @ \ {q}] IN
        Become(t, IF Live(q)
                  THEN [rest EXCEPT !.pc = "write", !.r = q, !.st = "cancelled",
                                    !.key = KeyOf[task[t].s]]
                  ELSE rest)
  BY DEF CancelRead
<1>. DEFINE rest == [task[t] EXCEPT !.todo = @ \ {q}]
            x == [rest EXCEPT !.pc = "write", !.r = q, !.st = "cancelled",
                              !.key = KeyOf[task[t].s]]
<1>4. Knows(rest, content, said, due)
  BY <1>1 DEF TaskType, Knows, Checking, Resolving
<1>5. q \in Requests
  BY <1>1 DEF TaskType
<1>6. x.pc = "write" /\ x.r = q /\ x.st = "cancelled"
  BY <1>1 DEF TaskType
<1>7. Live(q) => Knows(x, content, said, due)
  BY <1>5, <1>6 DEF Filed, Knows, Checking, Resolving, Decisions
<1>. QED BY <1>2, <1>3, <1>4, <1>7, TaskOnlyKnows

LEMMA SweepRouteKnows ==
  ASSUME TypeInv, TasksKnow, NEW t \in Tasks, NEW s \in Sessions, SweepRoute(t, s)
  PROVE  TasksKnow'
<1>. DEFINE o == IF {q \in index[s] : status[q] = "pending"} = {}
                 THEN None ELSE "error"
            x == [Idle EXCEPT !.pc = "done", !.op = "sweep_route", !.s = s, !.out = o]
<1>1. x.pc = "done" /\ x.op = "sweep_route" /\ x.out \in {None, "error"}
  BY DEF Idle
<1>2. Knows(x, content, said, due)
  BY <1>1 DEF Knows, Checking, Resolving
<1>. QED BY <1>2, TaskOnlyKnows DEF SweepRoute

LEMMA TickGrows ==
  ASSUME TypeInv, Tick
  PROVE  Grow(content, said, due, content', said', due')
  BY DEF Tick, Grow, Less, TypeInv, TypeOK

LEMMA TickKnows ==
  ASSUME TypeInv, TasksKnow, Tick
  PROVE  TasksKnow'
<1>1. \A u \in Tasks : Knows(task[u], content', said', due')
  BY TaskIsTyped, KnowsSurvives, TickGrows DEF TasksKnow
<1>. QED BY <1>1 DEF TasksKnow, Tick

LEMMA StepKnows ==
  ASSUME TypeInv, TasksKnow, Filed, GoalsFiled, Next
  PROVE  TasksKnow'
<1>1. ASSUME NEW t \in Tasks, Step(t)
      PROVE  TasksKnow'
  BY <1>1, FindMatchingKnows, CheckTimeoutReadKnows, CheckTimeoutWriteKnows,
     AllocateKnows, IdleStepKnows, SweepReadKnows, SweepWriteKnows, StoreKnows,
     AddGoalReadKnows, AddGoalWriteKnows, WriteDecisionKnows, GoalReadKnows,
     AfterGoalKnows, FlushGoalsKnows, UnloadSessionKnows, CancelReadKnows
  DEF Step, OutOfRequests, Return, SessionEnded, GoalWrite
<1>2. ASSUME NEW t \in Tasks, Call(t)
      PROVE  TasksKnow'
  BY <1>2, StartCheckKnows, UpdateApprovalKnows, SessionEndKnows, SweepRouteKnows
  DEF Call
<1>3. ASSUME NEW s \in Sessions, LoadSessionRules(s)
      PROVE  TasksKnow'
  BY <1>3 DEF LoadSessionRules, TasksKnow
<1>4. CASE Restart
  BY <1>4, IdleKnows DEF Restart, TasksKnow
<1>. QED BY <1>1, <1>2, <1>3, <1>4, TickKnows DEF Next

------------------------------------------------------------------------------
(* How Redis is filed.  Five kinds of step write it: the two time-outs,    *)
(* Store, WriteDecision and Tick; Allocate and UpdateApproval change the   *)
(* histories it is compared with.                                          *)

LEMMA TimeOutFiled ==
  ASSUME TypeInv, Filed, NEW r \in Requests, TimeOut(r),
         content[r] # None, due[r] = 0, UNCHANGED <<content, due, said>>
  PROVE  Filed'
<1>1. \A q \in Requests :
        /\ status'[q] = IF q = r THEN "timed_out" ELSE status[q]
        /\ ttl'[q] = IF q = r THEN ResolvedTtl ELSE ttl[q]
  BY DEF TimeOut, TypeInv, TypeOK
<1>. QED
  BY <1>1, ConstantsAssumption DEF TimeOut, Filed, Live, Overdue, Decisions

LEMMA CheckTimeoutWriteFiled ==
  ASSUME TypeInv, TasksKnow, Filed, NEW t \in Tasks, CheckTimeoutWrite(t)
  PROVE  Filed'
<1>1. task[t].pc = "timeout_write" /\ TaskOK(task[t])
      /\ Knows(task[t], content, said, due)
  BY TaskIsTyped DEF CheckTimeoutWrite, TasksKnow
<1>2. task[t].r \in Requests /\ due[task[t].r] = 0 /\ content[task[t].r] # None
  BY <1>1, ConstantsAssumption DEF TaskOK, Knows, Checking
<1>. QED BY <1>2, TimeOutFiled DEF CheckTimeoutWrite

LEMMA SweepWriteFiled ==
  ASSUME TypeInv, TasksKnow, Filed, NEW t \in Tasks, SweepWrite(t)
  PROVE  Filed'
<1>1. task[t].q \in Requests /\ due[task[t].q] = 0 /\ content[task[t].q] # None
  BY TaskIsTyped DEF SweepWrite, TaskOK, TasksKnow, Knows
<1>. QED BY <1>1, TimeOutFiled DEF SweepWrite

LEMMA AllocateFiled ==
  ASSUME TypeInv, Filed, NEW t \in Tasks, Allocate(t)
  PROVE  Filed'
<1>1. PICK r \in Unused :
        /\ content' = [content EXCEPT ![r] = [s |-> task[t].s, a |-> task[t].a]]
        /\ due'     = [due EXCEPT ![r] = Timeout]
  BY DEF Allocate
<1>2. \A q \in Requests : content[q] # None =>
        content'[q] = content[q] /\ due'[q] = due[q]
  BY <1>1 DEF Unused, TypeInv, TypeOK
<1>3. UNCHANGED <<status, ttl, index, said>>
  BY DEF Allocate, redis
<1>4. \A q \in Requests : status[q] = "timed_out" => Live(q)
  BY ConstantsAssumption DEF Live, Statuses
<1>. QED BY <1>2, <1>3, <1>4 DEF Filed, Live, Overdue, TypeInv, TypeOK

LEMMA StoreFiled ==
  ASSUME TypeInv, TasksKnow, Filed, NEW t \in Tasks, Store(t)
  PROVE  Filed'
<1>. DEFINE r == task[t].r
            s == task[t].s
<1>1. task[t].pc = "sweep" /\ TaskOK(task[t]) /\ Knows(task[t], content, said, due)
  BY TaskIsTyped DEF Store, TasksKnow
<1>2. r \in Requests /\ s \in Sessions /\ task[t].a \in Actions
      /\ content[r] = [s |-> s, a |-> task[t].a]
  BY <1>1 DEF TaskOK, Knows, Checking
<1>3. content[r] # None /\ content[r].s = s
  BY <1>2, ConstantsAssumption
<1>4. /\ \A q \in Requests :
           /\ status'[q] = IF q = r THEN "pending" ELSE status[q]
           /\ ttl'[q] = IF q = r THEN Timeout + Grace ELSE ttl[q]
      /\ \A z \in Sessions :
           index'[z] = IF z = s THEN index[z] \cup {r} ELSE index[z]
  BY DEF Store, TypeInv, TypeOK
<1>5. Timeout + Grace > 0
  BY ConstantsAssumption
<1>. QED
  BY <1>3, <1>4, <1>5 DEF Store, Filed, Live, Overdue, Decisions

LEMMA UpdateApprovalFiled ==
  ASSUME TypeInv, Filed, NEW t \in Tasks, NEW r \in Requests, NEW d \in Decisions,
         UpdateApproval(t, r, d)
  PROVE  Filed'
<1>1. \A q \in Requests : said[q] \subseteq said'[q]
  BY DEF UpdateApproval, TypeInv, TypeOK
<1>. QED BY <1>1 DEF UpdateApproval, redis, Filed, Live, Overdue

LEMMA WriteDecisionFiled ==
  ASSUME TypeInv, TasksKnow, Filed, NEW t \in Tasks, WriteDecision(t)
  PROVE  Filed'
<1>. DEFINE r == task[t].r
            st == task[t].st
<1>1. task[t].pc = "write" /\ TaskOK(task[t]) /\ Knows(task[t], content, said, due)
  BY TaskIsTyped DEF WriteDecision, TasksKnow
<1>2. r \in Requests /\ content[r] # None /\ st \in Decisions \cup {"cancelled"}
      /\ (st \in Decisions => st \in said[r])
  BY <1>1 DEF TaskOK, Knows, Resolving
<1>3. \A q \in Requests :
        status'[q] = IF q = r /\ Live(r) THEN st ELSE status[q]
  BY DEF WriteDecision, TypeInv, TypeOK
<1>4. UNCHANGED <<content, ttl, index, said, due>>
  BY DEF WriteDecision
<1>. QED
  BY <1>2, <1>3, <1>4 DEF Filed, Live, Overdue, Decisions

LEMMA TickFiled ==
  ASSUME TypeInv, Filed, Tick
  PROVE  Filed'
<1>1. \A q \in Requests :
        /\ status'[q] = IF ttl[q] > 1 THEN status[q] ELSE None
        /\ ttl'[q] = Less(ttl[q]) /\ due'[q] = Less(due[q])
        /\ ttl[q] \in Nat /\ due[q] \in Nat
  BY DEF Tick, TypeInv, TypeOK
<1>2. \A s \in Sessions : index'[s] \subseteq index[s]
  BY DEF Tick
<1>3. UNCHANGED <<content, said>>
  BY DEF Tick
<1>. QED
  BY <1>1, <1>2, <1>3, ConstantsAssumption
  DEF Filed, Live, Overdue, Less, Decisions, Statuses

LEMMA StepFiled ==
  ASSUME TypeInv, TasksKnow, Filed, Next
  PROVE  Filed'
<1>1. ASSUME UNCHANGED <<content, redis, due, said>>
      PROVE  Filed'
  BY <1>1 DEF redis, Filed, Live, Overdue
<1>2. ASSUME NEW t \in Tasks, Step(t) \/ Call(t)
      PROVE  Filed'
  BY <1>1, <1>2, CheckTimeoutWriteFiled, SweepWriteFiled, AllocateFiled, StoreFiled,
     UpdateApprovalFiled, WriteDecisionFiled
  DEF Step, Call, FindMatching, CheckTimeoutRead, OutOfRequests, SweepRead,
      AddGoalRead, AddGoalWrite, Return, GoalRead, GoalWrite, FlushGoals,
      UnloadSession, CancelRead, SessionEnded, StartCheck, SessionEnd, SweepRoute
<1>. QED
  BY <1>1, <1>2, TickFiled DEF Next, LoadSessionRules, Restart

------------------------------------------------------------------------------
(* How the goal lists are filed.                                           *)

LEMMA GrowFilesGoals ==
  ASSUME GoalsFiled, Grow(content, said, due, content', said', due'),
         UNCHANGED <<goals, graph>>
  PROVE  GoalsFiled'
<1>1. \A k \in Keys : ListOK(goals[k], k, content', said')
  BY ListSurvives DEF GoalsFiled
<1>. QED BY <1>1 DEF GoalsFiled, Grow

LEMMA AddGoalWriteFiles ==
  ASSUME TypeInv, TasksKnow, GoalsFiled, NEW t \in Tasks, AddGoalWrite(t)
  PROVE  GoalsFiled'
<1>. DEFINE r == task[t].r
            k == task[t].key
            list == [task[t].snap EXCEPT ![r] = "active"]
<1>1. task[t] \in TaskType /\ TaskOK(task[t]) /\ Knows(task[t], content, said, due)
      /\ task[t].pc = "add_goal_write"
  BY TaskIsTyped DEF AddGoalWrite, TasksKnow
<1>2. /\ r \in Requests /\ k = KeyOf[task[t].s]
      /\ content[r] # None /\ content[r].s = task[t].s
      /\ ListOK(task[t].snap, k, content, said)
  BY <1>1, ConstantsAssumption DEF TaskOK, Knows, Checking
<1>3. task[t].snap \in [Requests -> GoalStatuses \cup {None}]
  BY <1>1 DEF TaskType, GoalList
<1>4. ListOK(list, k, content, said)
  BY <1>2, <1>3 DEF ListOK
<1>5. \A j \in Keys : goals'[j] = IF j = k THEN list ELSE goals[j]
  BY DEF AddGoalWrite, TypeInv, TypeOK
<1>. QED BY <1>4, <1>5 DEF AddGoalWrite, GoalsFiled

LEMMA GoalWriteFiles ==
  ASSUME TypeInv, TasksKnow, GoalsFiled, NEW t \in Tasks, GoalWrite(t)
  PROVE  GoalsFiled'
<1>. DEFINE r == task[t].r
            k == task[t].key
            list == [task[t].snap EXCEPT ![r] = ResolvedGoal(task[t].st)]
<1>1. task[t] \in TaskType /\ TaskOK(task[t]) /\ Knows(task[t], content, said, due)
      /\ task[t].pc = "goal_write"
  BY TaskIsTyped DEF GoalWrite, TasksKnow
<1>2. /\ r \in Requests /\ task[t].snap[r] # None
      /\ ListOK(task[t].snap, k, content, said)
      /\ task[t].st = "approved" => "approved" \in said[r]
  BY <1>1 DEF TaskOK, Knows, Resolving, Decisions
<1>3. task[t].snap \in [Requests -> GoalStatuses \cup {None}]
  BY <1>1 DEF TaskType, GoalList
<1>4. ListOK(list, k, content, said)
  BY <1>2, <1>3 DEF ListOK, ResolvedGoal
<1>5. \A j \in Keys : goals'[j] = IF j = k THEN list ELSE goals[j]
  BY DEF GoalWrite, TypeInv, TypeOK
<1>. QED BY <1>4, <1>5 DEF GoalWrite, GoalsFiled

LEMMA FlushGoalsFiles ==
  ASSUME TypeInv, TasksKnow, GoalsFiled, NEW t \in Tasks, FlushGoals(t)
  PROVE  GoalsFiled'
<1>1. ListOK(task[t].snap, KeyOf[task[t].s], content, said)
  BY DEF FlushGoals, TasksKnow, Knows
<1>2. \A r \in Requests : graph'[r] = "completed" => "approved" \in said[r]
  BY <1>1, ConstantsAssumption DEF FlushGoals, ListOK, GoalsFiled, GoalStatuses
<1>3. \A k \in Keys : goals'[k] \in {goals[k], NoGoals}
  BY DEF FlushGoals, TypeInv, TypeOK
<1>4. \A k \in Keys : ListOK(NoGoals, k, content, said)
  BY DEF ListOK, NoGoals
<1>. QED BY <1>2, <1>3, <1>4 DEF FlushGoals, GoalsFiled

LEMMA StepFilesGoals ==
  ASSUME TypeInv, TasksKnow, GoalsFiled, Next
  PROVE  GoalsFiled'
<1>1. ASSUME UNCHANGED <<content, due, goals, graph, said>>
      PROVE  GoalsFiled'
  BY <1>1, GrowSame, GrowFilesGoals
<1>2. ASSUME NEW t \in Tasks, Step(t) \/ Call(t)
      PROVE  GoalsFiled'
  BY <1>1, <1>2, AllocateGrows, UpdateApprovalGrows, GrowFilesGoals,
     AddGoalWriteFiles, GoalWriteFiles, FlushGoalsFiles
  DEF Step, Call, FindMatching, CheckTimeoutRead, CheckTimeoutWrite, OutOfRequests,
      SweepRead, SweepWrite, Store, AddGoalRead, Return, WriteDecision, GoalRead,
      UnloadSession, CancelRead, SessionEnded, StartCheck, SessionEnd, SweepRoute,
      Allocate, UpdateApproval
<1>3. CASE Tick
  BY <1>3, TickGrows, GrowFilesGoals DEF Tick
<1>. QED
  BY <1>1, <1>2, <1>3 DEF Next, LoadSessionRules, Restart

------------------------------------------------------------------------------
(* Findability.                                                            *)

LEMMA TimeOutFindable ==
  ASSUME TypeInv, Findable, NEW r \in Requests, TimeOut(r),
         due[r] = 0, UNCHANGED <<content, due>>
  PROVE  Findable'
<1>1. \A q \in Requests :
        /\ status'[q] = IF q = r THEN "timed_out" ELSE status[q]
        /\ ttl'[q] = IF q = r THEN ResolvedTtl ELSE ttl[q]
  BY DEF TimeOut, TypeInv, TypeOK
<1>. QED BY <1>1 DEF TimeOut, Findable, Live, Overdue

LEMMA AllocateFindable ==
  ASSUME TypeInv, Filed, Findable, NEW t \in Tasks, Allocate(t)
  PROVE  Findable'
<1>1. PICK r \in Unused :
        /\ content' = [content EXCEPT ![r] = [s |-> task[t].s, a |-> task[t].a]]
        /\ due'     = [due EXCEPT ![r] = Timeout]
  BY DEF Allocate
<1>2. \A q \in Requests : Live(q) => content'[q] = content[q] /\ due'[q] = due[q]
  BY <1>1 DEF Unused, Filed, TypeInv, TypeOK
<1>. QED BY <1>2 DEF Allocate, redis, Findable, Live, Overdue

\* The index gets the TTL of the newest request, which is the longest.
LEMMA StoreFindable ==
  ASSUME TypeInv, TasksKnow, Filed, Findable, NEW t \in Tasks, Store(t)
  PROVE  Findable'
<1>. DEFINE r == task[t].r
            s == task[t].s
<1>1. task[t].pc = "sweep" /\ TaskOK(task[t]) /\ Knows(task[t], content, said, due)
  BY TaskIsTyped DEF Store, TasksKnow
<1>2. r \in Requests /\ s \in Sessions /\ content[r].s = s
  BY <1>1 DEF TaskOK, Knows, Checking
<1>3. \A q \in Requests :
        /\ status'[q] = IF q = r THEN "pending" ELSE status[q]
        /\ ttl'[q] = IF q = r THEN Timeout + Grace ELSE ttl[q]
  BY DEF Store, TypeInv, TypeOK
<1>4. /\ \A z \in Sessions \ {s} : index'[z] = index[z] /\ indexTtl'[z] = indexTtl[z]
      /\ index'[s] = index[s] \cup {r} /\ indexTtl'[s] = Timeout + Grace
  BY <1>2 DEF Store, TypeInv, TypeOK
<1>5. UNCHANGED <<content, due>>
  BY DEF Store
<1>6. \A q \in Requests : ttl[q] \in Nat /\ (Live(q) => content[q].s \in Sessions)
  BY DEF Filed, TypeInv, TypeOK
<1>7. Timeout + Grace \in Nat /\ \A z \in Sessions : indexTtl[z] \in Nat
  BY ConstantsAssumption DEF TypeInv, TypeOK
<1>8. \A z \in Sessions : indexTtl[z] <= Timeout + Grace
  BY DEF Findable
<1>9. ASSUME NEW z \in Sessions
      PROVE  indexTtl'[z] <= Timeout + Grace /\ indexTtl[z] <= indexTtl'[z]
             /\ indexTtl'[z] \in Nat /\ index[z] \subseteq index'[z]
  <2>1. CASE z = s
    BY <1>4, <1>7, <1>8, <2>1
  <2>2. CASE z # s
    BY <1>4, <1>7, <1>8, <2>2
  <2>. QED BY <2>1, <2>2
<1>10. ASSUME NEW q \in Requests, Live(q)', status'[q] = "pending" \/ ~Overdue(q)'
       PROVE  q \in index'[content'[q].s] /\ ttl'[q] <= indexTtl'[content'[q].s]
  <2>1. CASE q = r
    BY <1>2, <1>3, <1>4, <1>5, <1>7, <2>1
  <2>2. CASE q # r
    <3>1. Live(q) /\ (status[q] = "pending" \/ ~Overdue(q)) /\ ttl'[q] = ttl[q]
      BY <1>3, <1>5, <1>10, <2>2 DEF Live, Overdue
    <3>2. q \in index[content[q].s] /\ ttl[q] <= indexTtl[content[q].s]
      BY <3>1 DEF Findable
    <3>. QED BY <1>5, <1>6, <1>7, <1>9, <3>1, <3>2
  <2>. QED BY <2>1, <2>2
<1>. QED BY <1>9, <1>10 DEF Findable

LEMMA WriteDecisionFindable ==
  ASSUME TypeInv, TasksKnow, Findable, NEW t \in Tasks, WriteDecision(t)
  PROVE  Findable'
<1>1. task[t].st # "pending"
  BY TaskIsTyped DEF WriteDecision, TaskOK, Resolving, Decisions
<1>2. \A q \in Requests : status'[q] # status[q] => Live(q) /\ status'[q] = task[t].st
  BY DEF WriteDecision, TypeInv, TypeOK
<1>. QED BY <1>1, <1>2 DEF WriteDecision, Findable, Live, Overdue

LEMMA TickFindable ==
  ASSUME TypeInv, Filed, Findable, Tick
  PROVE  Findable'
<1>1. \A q \in Requests :
        /\ status'[q] = IF ttl[q] > 1 THEN status[q] ELSE None
        /\ ttl'[q] = Less(ttl[q]) /\ due'[q] = Less(due[q])
        /\ ttl[q] \in Nat /\ due[q] \in Nat
  BY DEF Tick, TypeInv, TypeOK
<1>2. \A s \in Sessions :
        /\ index'[s] = IF indexTtl[s] > 1 THEN index[s] ELSE {}
        /\ indexTtl'[s] = Less(indexTtl[s]) /\ indexTtl[s] \in Nat
  BY DEF Tick, TypeInv, TypeOK
<1>3. \A q \in Requests : Live(q) => content[q].s \in Sessions
  BY DEF Filed, TypeInv, TypeOK
<1>4. content' = content
  BY DEF Tick
<1>5. \A s \in Sessions : indexTtl'[s] <= Timeout + Grace
  BY <1>2, ConstantsAssumption DEF Findable, Less
<1>6. ASSUME NEW q \in Requests, Live(q)', status'[q] = "pending" \/ ~Overdue(q)'
      PROVE  q \in index'[content'[q].s] /\ ttl'[q] <= indexTtl'[content'[q].s]
  <2>1. ttl[q] > 1 /\ Live(q) /\ (status[q] = "pending" \/ ~Overdue(q))
    BY <1>1, <1>6 DEF Live, Overdue, Less
  <2>2. q \in index[content[q].s] /\ ttl[q] <= indexTtl[content[q].s]
    BY <2>1 DEF Findable
  <2>. QED BY <1>1, <1>2, <1>3, <1>4, <2>1, <2>2 DEF Less
<1>. QED BY <1>5, <1>6 DEF Findable

LEMMA StepFindable ==
  ASSUME TypeInv, TasksKnow, Filed, Findable, Next
  PROVE  Findable'
<1>1. ASSUME UNCHANGED <<content, redis, due>>
      PROVE  Findable'
  BY <1>1 DEF redis, Findable, Live, Overdue
<1>2. ASSUME NEW t \in Tasks, CheckTimeoutWrite(t)
      PROVE  Findable'
  <2>1. task[t].r \in Requests /\ due[task[t].r] = 0
    BY <1>2, TaskIsTyped DEF CheckTimeoutWrite, TasksKnow, TaskOK, Knows, Checking
  <2>. QED BY <1>2, <2>1, TimeOutFindable DEF CheckTimeoutWrite
<1>3. ASSUME NEW t \in Tasks, SweepWrite(t)
      PROVE  Findable'
  <2>1. task[t].q \in Requests /\ due[task[t].q] = 0
    BY <1>3, TaskIsTyped DEF SweepWrite, TasksKnow, TaskOK, Knows
  <2>. QED BY <1>3, <2>1, TimeOutFindable DEF SweepWrite
<1>4. ASSUME NEW t \in Tasks, Step(t) \/ Call(t)
      PROVE  Findable'
  BY <1>1, <1>2, <1>3, <1>4, AllocateFindable, StoreFindable, WriteDecisionFindable
  DEF Step, Call, FindMatching, CheckTimeoutRead, OutOfRequests, SweepRead,
      AddGoalRead, AddGoalWrite, Return, GoalRead, GoalWrite, FlushGoals,
      UnloadSession, CancelRead, SessionEnded, StartCheck, SessionEnd, SweepRoute,
      UpdateApproval
<1>. QED
  BY <1>1, <1>4, TickFindable DEF Next, LoadSessionRules, Restart

------------------------------------------------------------------------------
(* The privacy of a request under creation.                                *)

\* A request a task refers to has a content.
LEMMA ReferredHasContent ==
  ASSUME TypeInv, TasksKnow, NEW u \in Tasks, NEW r \in Requests,
         RefersTo(task[u], r)
  PROVE  content[r] # None
<1>1. TaskOK(task[u]) /\ Knows(task[u], content, said, due)
  BY TaskIsTyped DEF TasksKnow
<1>. QED
  BY <1>1, ConstantsAssumption
  DEF RefersTo, TaskOK, Knows, Checking, Resolving

\* A step of one task keeps the privacy when the task starts no creation, and
\* whatever it comes to refer to or writes is no other task's creation.
LEMMA TaskStepPrivate ==
  ASSUME TypeInv, CreationPrivate, NEW t \in Tasks, NEW x, Become(t, x),
         content' = content,
         \A r \in Requests : Creates(x, r) => Creates(task[t], r),
         \A r \in Requests : RefersTo(x, r) =>
           \/ RefersTo(task[t], r)
           \/ status[r] # None
           \/ Creates(task[t], r) /\ ~Creates(x, r),
         \A r \in Requests : Creates(x, r) => ~RefersTo(x, r),
         \A r \in Requests : status'[r] = status[r] \/ status'[r] = None
           \/ RefersTo(task[t], r) \/ (Creates(task[t], r) /\ ~Creates(x, r))
  PROVE  CreationPrivate'
<1>1. \A u \in Tasks : task'[u] = IF u = t THEN x ELSE task[u]
  BY DEF TypeInv, TypeOK, Become
<1>2. SUFFICES ASSUME NEW v \in Tasks, NEW r \in Requests, Creates(task'[v], r)
               PROVE  /\ status'[r] = None /\ content'[r] # None
                      /\ \A u \in Tasks : ~RefersTo(task'[u], r)
                           /\ (Creates(task'[u], r) => u = v)
  BY DEF CreationPrivate
<1>3. Creates(task[v], r)
  BY <1>1, <1>2
<1>4. /\ status[r] = None /\ content[r] # None
      /\ \A u \in Tasks : ~RefersTo(task[u], r) /\ (Creates(task[u], r) => u = v)
  BY <1>3 DEF CreationPrivate
<1>. QED BY <1>1, <1>2, <1>4

LEMMA NeitherCreatesNorRefers ==
  ASSUME NEW x, x.pc \in PCs \ ((Checking \ {"lookup", "allocate"}) \cup Resolving)
  PROVE  \A r \in Requests : ~Creates(x, r) /\ ~RefersTo(x, r)
  BY DEF Creates, RefersTo, PCs, Checking, Resolving

\* The task comes to a place where it needs no request.
LEMMA FreeStepPrivate ==
  ASSUME TypeInv, CreationPrivate, NEW t \in Tasks, NEW x, Become(t, x),
         x.pc \in PCs \ ((Checking \ {"lookup", "allocate"}) \cup Resolving),
         UNCHANGED <<content, status>>
  PROVE  CreationPrivate'
  BY NeitherCreatesNorRefers, TaskStepPrivate

LEMMA IdleStepPrivate ==
  ASSUME TypeInv, CreationPrivate, NEW t \in Tasks, Become(t, Idle),
         UNCHANGED <<content, status>>
  PROVE  CreationPrivate'
  BY FreeStepPrivate DEF Idle, PCs, Checking, Resolving

LEMMA FindMatchingPrivate ==
  ASSUME TypeInv, CreationPrivate, NEW t \in Tasks, FindMatching(t)
  PROVE  CreationPrivate'
<1>1. task[t] \in TaskType
  BY TaskIsTyped
<1>2. ASSUME NEW r \in Matching(task[t].s, task[t].a),
             Become(t, [task[t] EXCEPT !.pc = "timeout_read", !.r = r])
      PROVE  CreationPrivate'
  <2>. DEFINE x == [task[t] EXCEPT !.pc = "timeout_read", !.r = r]
  <2>1. x.pc = "timeout_read" /\ x.r = r /\ status[r] # None
    BY <1>1 DEF TaskType, Matching, Live
  <2>2. \A q \in Requests : ~Creates(x, q) /\ (RefersTo(x, q) => q = r)
    BY <2>1 DEF Creates, RefersTo
  <2>. QED BY <1>2, <2>1, <2>2, TaskStepPrivate DEF FindMatching, redis
<1>3. ASSUME Become(t, [task[t] EXCEPT !.pc = "allocate"])
      PROVE  CreationPrivate'
  <2>. DEFINE x == [task[t] EXCEPT !.pc = "allocate"]
  <2>1. x.pc \in PCs \ ((Checking \ {"lookup", "allocate"}) \cup Resolving)
    BY <1>1 DEF TaskType, PCs, Checking, Resolving
  <2>. QED BY <1>3, <2>1, FreeStepPrivate DEF FindMatching, redis
<1>. QED BY <1>2, <1>3 DEF FindMatching

\* An answer needs no request any more.
LEMMA AnswerPrivate ==
  ASSUME TypeInv, CreationPrivate, NEW t \in Tasks, NEW r, NEW st,
         Answer(t, r, st), content' = content,
         \A q \in Requests : status'[q] = status[q] \/ RefersTo(task[t], q)
  PROVE  CreationPrivate'
<1>. DEFINE x == [task[t] EXCEPT !.pc = "done", !.r = r, !.st = st,
                                 !.out = OutcomeOf(st), !.snap = NoGoals]
<1>1. task[t] \in TaskType
  BY TaskIsTyped
<1>2. x.pc = "done"
  BY <1>1 DEF TaskType
<1>3. \A q \in Requests : ~Creates(x, q) /\ ~RefersTo(x, q)
  BY <1>2, NeitherCreatesNorRefers DEF PCs, Checking, Resolving
<1>. QED BY <1>3, TaskStepPrivate DEF Answer

LEMMA CheckTimeoutReadPrivate ==
  ASSUME TypeInv, CreationPrivate, NEW t \in Tasks, CheckTimeoutRead(t)
  PROVE  CreationPrivate'
<1>1. task[t] \in TaskType /\ task[t].pc = "timeout_read"
  BY TaskIsTyped DEF CheckTimeoutRead
<1>2. UNCHANGED <<content, status>>
  BY DEF CheckTimeoutRead, redis
<1>3. CASE Become(t, [task[t] EXCEPT !.pc = "allocate", !.r = None])
  <2>. DEFINE x == [task[t] EXCEPT !.pc = "allocate", !.r = None]
  <2>1. x.pc \in PCs \ ((Checking \ {"lookup", "allocate"}) \cup Resolving)
    BY <1>1 DEF TaskType, PCs, Checking, Resolving
  <2>. QED BY <1>2, <1>3, <2>1, FreeStepPrivate
<1>4. CASE Become(t, [task[t] EXCEPT !.pc = "timeout_write"])
  <2>. DEFINE x == [task[t] EXCEPT !.pc = "timeout_write"]
  <2>1. x.pc = "timeout_write" /\ x.r = task[t].r
    BY <1>1 DEF TaskType
  <2>2. \A q \in Requests :
          ~Creates(x, q) /\ (RefersTo(x, q) => RefersTo(task[t], q))
    BY <1>1, <2>1 DEF Creates, RefersTo, Checking, Resolving
  <2>. QED BY <1>2, <1>4, <2>2, TaskStepPrivate
<1>5. CASE Answer(t, task[t].r, status[task[t].r])
  BY <1>2, <1>5, AnswerPrivate
<1>. QED BY <1>3, <1>4, <1>5 DEF CheckTimeoutRead

LEMMA CheckTimeoutWritePrivate ==
  ASSUME TypeInv, CreationPrivate, NEW t \in Tasks, CheckTimeoutWrite(t)
  PROVE  CreationPrivate'
<1>1. \A q \in Requests : status'[q] = status[q] \/ q = task[t].r
  BY DEF CheckTimeoutWrite, TimeOut, TypeInv, TypeOK
<1>2. RefersTo(task[t], task[t].r)
  BY DEF CheckTimeoutWrite, RefersTo, Checking
<1>. QED BY <1>1, <1>2, AnswerPrivate DEF CheckTimeoutWrite

\* The new request was unused: no task knew it.
LEMMA AllocatePrivate ==
  ASSUME TypeInv, TasksKnow, Filed, CreationPrivate, NEW t \in Tasks, Allocate(t)
  PROVE  CreationPrivate'
<1>1. task[t] \in TaskType /\ task[t].pc = "allocate"
      /\ task[t].s \in Sessions /\ task[t].a \in Actions
  BY TaskIsTyped DEF Allocate, TaskOK, Checking
<1>2. PICK r \in Unused :
        /\ content' = [content EXCEPT ![r] = [s |-> task[t].s, a |-> task[t].a]]
        /\ Become(t, [task[t] EXCEPT !.pc = "sweep", !.r = r,
                        !.todo = {q \in index[task[t].s] : status[q] = "pending"}])
  BY DEF Allocate
<1>. DEFINE x == [task[t] EXCEPT !.pc = "sweep", !.r = r,
                    !.todo = {q \in index[task[t].s] : status[q] = "pending"}]
<1>3. r \in Requests /\ content[r] = None /\ status[r] = None
  BY DEF Unused, Filed, Live
<1>4. \A u \in Tasks : ~RefersTo(task[u], r) /\ ~Creates(task[u], r)
  BY <1>3, ReferredHasContent DEF CreationPrivate
<1>5. x.pc = "sweep" /\ x.r = r
  BY <1>1 DEF TaskType
<1>6. \A q \in Requests : ~RefersTo(x, q) /\ (Creates(x, q) <=> q = r)
  BY <1>5 DEF RefersTo, Creates, Checking, Resolving
<1>7. \A u \in Tasks : task'[u] = IF u = t THEN x ELSE task[u]
  BY <1>2 DEF TypeInv, TypeOK, Become
<1>8. /\ \A q \in Requests : content[q] # None => content'[q] = content[q]
      /\ content'[r] # None
  BY <1>1, <1>2, <1>3, ConstantsAssumption DEF TypeInv, TypeOK
<1>9. status' = status
  BY DEF Allocate, redis
<1>. HIDE DEF x
<1>. SUFFICES ASSUME NEW v \in Tasks, NEW q \in Requests, Creates(task'[v], q)
              PROVE  /\ status'[q] = None /\ content'[q] # None
                     /\ \A u \in Tasks : ~RefersTo(task'[u], q)
                          /\ (Creates(task'[u], q) => u = v)
  BY DEF CreationPrivate
<1>10. CASE v = t
  BY <1>3, <1>4, <1>6, <1>7, <1>8, <1>9, <1>10
<1>11. CASE v # t
  <2>1. Creates(task[v], q) /\ q # r
    BY <1>4, <1>7, <1>11
  <2>2. /\ status[q] = None /\ content[q] # None
        /\ \A u \in Tasks : ~RefersTo(task[u], q) /\ (Creates(task[u], q) => u = v)
    BY <2>1 DEF CreationPrivate
  <2>. QED BY <1>6, <1>7, <1>8, <1>9, <2>1, <2>2
<1>. QED BY <1>10, <1>11

LEMMA SweepReadPrivate ==
  ASSUME TypeInv, CreationPrivate, NEW t \in Tasks, SweepRead(t)
  PROVE  CreationPrivate'
<1>1. task[t] \in TaskType /\ task[t].pc = "sweep" /\ task[t].r \in Requests
  BY TaskIsTyped DEF SweepRead, TaskOK, Checking
<1>2. UNCHANGED <<content, status>>
  BY DEF SweepRead, redis
<1>3. status[task[t].r] = None
  BY <1>1 DEF CreationPrivate, Creates
<1>4. ASSUME NEW q \in task[t].todo, status[q] = "pending",
             Become(t, [task[t] EXCEPT !.pc = "sweep_write", !.q = q])
      PROVE  CreationPrivate'
  <2>. DEFINE x == [task[t] EXCEPT !.pc = "sweep_write", !.q = q]
  <2>1. x.pc = "sweep_write" /\ x.q = q /\ x.r = task[t].r
    BY <1>1 DEF TaskType
  <2>2. status[q] # None /\ q # task[t].r
    BY <1>3, <1>4, ConstantsAssumption DEF Statuses
  <2>3. \A r \in Requests :
          /\ Creates(x, r) => Creates(task[t], r) /\ r = task[t].r
          /\ RefersTo(x, r) => r = q
    BY <1>1, <2>1 DEF Creates, RefersTo, Checking, Resolving
  <2>. QED BY <1>2, <1>4, <2>2, <2>3, TaskStepPrivate
<1>5. ASSUME NEW q \in task[t].todo,
             Become(t, [task[t] EXCEPT !.todo = @ \ {q}])
      PROVE  CreationPrivate'
  <2>. DEFINE x == [task[t] EXCEPT !.todo = @ \ {q}]
  <2>1. x.pc = "sweep" /\ x.r = task[t].r
    BY <1>1 DEF TaskType
  <2>2. \A r \in Requests :
          (Creates(x, r) => Creates(task[t], r)) /\ ~RefersTo(x, r)
    BY <1>1, <2>1 DEF Creates, RefersTo, Checking, Resolving
  <2>. QED BY <1>2, <1>5, <2>2, TaskStepPrivate
<1>. QED BY <1>4, <1>5 DEF SweepRead

LEMMA SweepWritePrivate ==
  ASSUME TypeInv, CreationPrivate, NEW t \in Tasks, SweepWrite(t)
  PROVE  CreationPrivate'
<1>1. task[t] \in TaskType /\ task[t].pc = "sweep_write"
  BY TaskIsTyped DEF SweepWrite
<1>. DEFINE x == [task[t] EXCEPT !.pc = "sweep", !.q = None,
                                 !.todo = @ \ {task[t].q}]
<1>2. x.pc = "sweep" /\ x.r = task[t].r
  BY <1>1 DEF TaskType
<1>3. \A r \in Requests :
        (Creates(x, r) => Creates(task[t], r)) /\ ~RefersTo(x, r)
  BY <1>1, <1>2 DEF Creates, RefersTo, Checking, Resolving
<1>4. \A q \in Requests : status'[q] = status[q] \/ RefersTo(task[t], q)
  BY <1>1 DEF SweepWrite, TimeOut, TypeInv, TypeOK, RefersTo
<1>. QED BY <1>3, <1>4, TaskStepPrivate DEF SweepWrite

LEMMA StorePrivate ==
  ASSUME TypeInv, CreationPrivate, NEW t \in Tasks, Store(t)
  PROVE  CreationPrivate'
<1>1. task[t] \in TaskType /\ task[t].pc = "sweep"
  BY TaskIsTyped DEF Store
<1>. DEFINE x == [task[t] EXCEPT !.pc = "add_goal_read"]
<1>2. x.pc = "add_goal_read" /\ x.r = task[t].r
  BY <1>1 DEF TaskType
<1>3. Creates(task[t], task[t].r)
      /\ \A r \in Requests : ~Creates(x, r) /\ (RefersTo(x, r) => r = task[t].r)
  BY <1>1, <1>2 DEF Creates, RefersTo
<1>4. \A q \in Requests : status'[q] = status[q] \/ q = task[t].r
  BY DEF Store, TypeInv, TypeOK
<1>. QED BY <1>3, <1>4, TaskStepPrivate DEF Store

\* A task goes on with the request it has.
LEMMA SameRequestPrivate ==
  ASSUME TypeInv, CreationPrivate, NEW t \in Tasks, NEW x, Become(t, x),
         content' = content, x.r = task[t].r,
         x.pc \in {"add_goal_write", "goal_read", "goal_write"},
         task[t].pc \in {"add_goal_read", "write", "goal_read"},
         \A q \in Requests : status'[q] = status[q] \/ q = task[t].r
  PROVE  CreationPrivate'
<1>1. \A q \in Requests :
        /\ ~Creates(x, q) /\ (RefersTo(x, q) => RefersTo(task[t], q))
        /\ q = task[t].r => RefersTo(task[t], q)
  BY DEF Creates, RefersTo, Checking, Resolving
<1>. QED BY <1>1, TaskStepPrivate

LEMMA AddGoalReadPrivate ==
  ASSUME TypeInv, CreationPrivate, NEW t \in Tasks, AddGoalRead(t)
  PROVE  CreationPrivate'
<1>. DEFINE k == KeyOf[task[t].s]
            x == [task[t] EXCEPT !.pc = "add_goal_write", !.key = k, !.snap = goals[k]]
<1>1. task[t] \in TaskType
  BY TaskIsTyped
<1>2. x.pc = "add_goal_write" /\ x.r = task[t].r
  BY <1>1 DEF TaskType
<1>. QED BY <1>2, SameRequestPrivate DEF AddGoalRead, redis

LEMMA WriteDecisionPrivate ==
  ASSUME TypeInv, CreationPrivate, NEW t \in Tasks, WriteDecision(t)
  PROVE  CreationPrivate'
<1>1. task[t] \in TaskType /\ task[t].pc = "write"
  BY TaskIsTyped DEF WriteDecision
<1>2. content' = content /\ \A q \in Requests : status'[q] = status[q] \/ q = task[t].r
  BY DEF WriteDecision, TypeInv, TypeOK
<1>3. CASE Become(t, Idle)
  <2>1. \A q \in Requests : ~Creates(Idle, q) /\ ~RefersTo(Idle, q)
    BY NeitherCreatesNorRefers DEF Idle, PCs, Checking, Resolving
  <2>2. RefersTo(task[t], task[t].r)
    BY <1>1 DEF RefersTo, Checking, Resolving
  <2>. QED BY <1>2, <1>3, <2>1, <2>2, TaskStepPrivate
<1>4. CASE Become(t, [task[t] EXCEPT !.pc = "goal_read"])
  <2>. DEFINE x == [task[t] EXCEPT !.pc = "goal_read"]
  <2>1. x.pc = "goal_read" /\ x.r = task[t].r
    BY <1>1 DEF TaskType
  <2>. QED BY <1>1, <1>2, <1>4, <2>1, SameRequestPrivate
<1>. QED BY <1>3, <1>4 DEF WriteDecision

LEMMA AfterGoalPrivate ==
  ASSUME TypeInv, CreationPrivate, NEW t \in Tasks, AfterGoal(t),
         UNCHANGED <<content, status>>
  PROVE  CreationPrivate'
<1>. DEFINE x == [task[t] EXCEPT !.pc = "cancel", !.r = None, !.st = None,
                                 !.key = None, !.snap = NoGoals]
<1>1. task[t] \in TaskType
  BY TaskIsTyped
<1>2. x.pc \in PCs \ ((Checking \ {"lookup", "allocate"}) \cup Resolving)
  BY <1>1 DEF TaskType, PCs, Checking, Resolving
<1>. QED BY <1>2, FreeStepPrivate, IdleStepPrivate DEF AfterGoal

LEMMA GoalReadPrivate ==
  ASSUME TypeInv, CreationPrivate, NEW t \in Tasks, GoalRead(t)
  PROVE  CreationPrivate'
<1>1. task[t] \in TaskType /\ task[t].pc = "goal_read"
  BY TaskIsTyped DEF GoalRead
<1>2. UNCHANGED <<content, status>>
  BY DEF GoalRead, redis
<1>3. CASE AfterGoal(t)
  BY <1>2, <1>3, AfterGoalPrivate
<1>4. CASE Become(t, [task[t] EXCEPT !.pc = "goal_write", !.snap = goals[task[t].key]])
  <2>. DEFINE x == [task[t] EXCEPT !.pc = "goal_write", !.snap = goals[task[t].key]]
  <2>1. x.pc = "goal_write" /\ x.r = task[t].r
    BY <1>1 DEF TaskType
  <2>. QED BY <1>1, <1>2, <1>4, <2>1, SameRequestPrivate
<1>. QED BY <1>3, <1>4 DEF GoalRead

\* A decision or a cancellation is about a stored request.
LEMMA WriteLivePrivate ==
  ASSUME TypeInv, CreationPrivate, NEW t \in Tasks, NEW x, Become(t, x),
         UNCHANGED <<content, status>>, x.pc = "write", Live(x.r)
  PROVE  CreationPrivate'
<1>1. \A q \in Requests : ~Creates(x, q) /\ (RefersTo(x, q) => status[q] # None)
  BY DEF Creates, RefersTo, Live
<1>. QED BY <1>1, TaskStepPrivate

LEMMA UpdateApprovalPrivate ==
  ASSUME TypeInv, CreationPrivate, NEW t \in Tasks, NEW r \in Requests,
         NEW d \in Decisions, UpdateApproval(t, r, d)
  PROVE  CreationPrivate'
<1>. DEFINE k == IF loaded = <<>> THEN None ELSE KeyOf[loaded[1]]
            x == [Idle EXCEPT !.pc = "write", !.op = "resolve", !.r = r, !.st = d,
                              !.key = k]
<1>1. x.pc = "write" /\ x.r = r
  BY DEF Idle
<1>. QED BY <1>1, WriteLivePrivate DEF UpdateApproval, redis

LEMMA CancelReadPrivate ==
  ASSUME TypeInv, CreationPrivate, NEW t \in Tasks, CancelRead(t)
  PROVE  CreationPrivate'
<1>1. task[t] \in TaskType /\ task[t].pc = "cancel"
  BY TaskIsTyped DEF CancelRead
<1>2. UNCHANGED <<content, status>>
  BY DEF CancelRead, redis
<1>3. PICK q \in task[t].todo :
        LET rest == [task[t] EXCEPT !.todo = @ \ {q}] IN
        Become(t, IF Live(q)
                  THEN [rest EXCEPT !.pc = "write", !.r = q, !.st = "cancelled",
                                    !.key = KeyOf[task[t].s]]
                  ELSE rest)
  BY DEF CancelRead
<1>. DEFINE rest == [task[t] EXCEPT !.todo = @ \ {q}]
            x == [rest EXCEPT !.pc = "write", !.r = q, !.st = "cancelled",
                              !.key = KeyOf[task[t].s]]
<1>4. x.pc = "write" /\ x.r = q
      /\ rest.pc \in PCs \ ((Checking \ {"lookup", "allocate"}) \cup Resolving)
  BY <1>1 DEF TaskType, PCs, Checking, Resolving
<1>5. CASE Live(q)
  BY <1>2, <1>3, <1>4, <1>5, WriteLivePrivate
<1>6. CASE ~Live(q)
  BY <1>2, <1>3, <1>4, <1>6, FreeStepPrivate
<1>. QED BY <1>5, <1>6

\* The calls and steps that come to a place where no request is needed.
LEMMA OtherStepsPrivate ==
  ASSUME TypeInv, CreationPrivate, NEW t \in Tasks, NEW s \in Sessions,
         \/ \E a \in Actions : StartCheck(t, s, a)
         \/ SessionEnd(t, s) \/ SweepRoute(t, s)
         \/ FlushGoals(t) \/ UnloadSession(t)
  PROVE  CreationPrivate'
<1>. DEFINE Free == PCs \ ((Checking \ {"lookup", "allocate"}) \cup Resolving)
<1>1. {"lookup", "unload", "flush", "done", "cancel"} \subseteq Free
  BY DEF PCs, Checking, Resolving
<1>2. task[t] \in TaskType
  BY TaskIsTyped
<1>3. ASSUME NEW a \in Actions, StartCheck(t, s, a)
      PROVE  CreationPrivate'
  <2>. DEFINE x == [Idle EXCEPT !.pc = "lookup", !.op = "check", !.s = s, !.a = a]
  <2>1. x.pc = "lookup"
    BY DEF Idle
  <2>. QED BY <1>1, <1>3, <2>1, FreeStepPrivate DEF StartCheck, redis
<1>4. CASE SessionEnd(t, s)
  <2>. DEFINE p == IF goals[KeyOf[s]] = NoGoals THEN "unload" ELSE "flush"
              x == [Idle EXCEPT !.op = "end", !.s = s, !.snap = goals[KeyOf[s]],
                                !.pc = p]
  <2>1. x.pc \in {"unload", "flush"}
    BY DEF Idle
  <2>. QED BY <1>1, <1>4, <2>1, FreeStepPrivate DEF SessionEnd, redis
<1>5. CASE SweepRoute(t, s)
  <2>. DEFINE o == IF {q \in index[s] : status[q] = "pending"} = {}
                   THEN None ELSE "error"
              x == [Idle EXCEPT !.pc = "done", !.op = "sweep_route", !.s = s, !.out = o]
  <2>1. x.pc = "done"
    BY DEF Idle
  <2>. QED BY <1>1, <1>5, <2>1, FreeStepPrivate DEF SweepRoute, redis
<1>6. CASE FlushGoals(t)
  <2>. DEFINE x == [task[t] EXCEPT !.pc = "unload", !.snap = NoGoals]
  <2>1. x.pc = "unload"
    BY <1>2 DEF TaskType
  <2>. QED BY <1>1, <1>6, <2>1, FreeStepPrivate DEF FlushGoals, redis
<1>7. CASE UnloadSession(t)
  <2>. DEFINE x == [task[t] EXCEPT !.pc = "cancel",
                      !.todo = {q \in index[task[t].s] : status[q] = "pending"}]
  <2>1. x.pc = "cancel"
    BY <1>2 DEF TaskType
  <2>. QED
    BY <1>1, <1>7, <2>1, FreeStepPrivate, IdleStepPrivate DEF UnloadSession, redis
<1>. QED BY <1>3, <1>4, <1>5, <1>6, <1>7

LEMMA StepPrivate ==
  ASSUME TypeInv, TasksKnow, Filed, CreationPrivate, Next
  PROVE  CreationPrivate'
<1>1. ASSUME NEW t \in Tasks, Step(t) \/ Call(t)
      PROVE  CreationPrivate'
  <2>1. CASE OutOfRequests(t) \/ Return(t) \/ SessionEnded(t)
    BY <2>1, IdleStepPrivate DEF OutOfRequests, Return, SessionEnded, redis
  <2>2. CASE AddGoalWrite(t)
    BY <2>2, AnswerPrivate DEF AddGoalWrite, redis
  <2>3. CASE GoalWrite(t)
    BY <2>3, AfterGoalPrivate DEF GoalWrite, redis
  <2>4. CASE FlushGoals(t) \/ UnloadSession(t)
    <3>1. task[t].s \in Sessions
      BY <2>4, TaskIsTyped DEF FlushGoals, UnloadSession, TaskOK
    <3>. QED BY <2>4, <3>1, OtherStepsPrivate
  <2>. QED
    BY <1>1, <2>1, <2>2, <2>3, <2>4, FindMatchingPrivate, CheckTimeoutReadPrivate,
       CheckTimeoutWritePrivate, AllocatePrivate, SweepReadPrivate,
       SweepWritePrivate, StorePrivate, AddGoalReadPrivate, WriteDecisionPrivate,
       GoalReadPrivate, UpdateApprovalPrivate, CancelReadPrivate, OtherStepsPrivate
    DEF Step, Call
<1>2. ASSUME NEW s \in Sessions, LoadSessionRules(s)
      PROVE  CreationPrivate'
  BY <1>2 DEF LoadSessionRules, redis, CreationPrivate
<1>3. CASE Restart
  <2>1. \A u \in Tasks, q \in Requests : ~Creates(task'[u], q)
    BY <1>3 DEF Restart, Idle, Creates
  <2>. QED BY <2>1 DEF CreationPrivate
<1>4. CASE Tick
  <2>1. \A q \in Requests : status'[q] \in {status[q], None}
    BY <1>4 DEF Tick
  <2>. QED BY <1>4, <2>1 DEF Tick, CreationPrivate
<1>. QED BY <1>1, <1>2, <1>3, <1>4 DEF Next

------------------------------------------------------------------------------
(* The inductive invariant and what follows from it.                       *)

LEMMA InitInv == Init => IInv
<1>. SUFFICES ASSUME Init
              PROVE  IInv
  OBVIOUS
<1>1. TypeInv
  BY InitType
<1>2. TasksKnow
  BY IdleKnows DEF Init, TasksKnow
<1>3. Filed
  BY ConstantsAssumption DEF Init, Filed, Live, Decisions, Statuses
<1>4. GoalsFiled
  BY ConstantsAssumption DEF Init, GoalsFiled, ListOK, NoGoals, GoalStatuses
<1>5. Findable
  BY ConstantsAssumption DEF Init, Findable, Live
<1>6. CreationPrivate
  BY DEF Init, CreationPrivate, Idle, Creates
<1>. QED BY <1>1, <1>2, <1>3, <1>4, <1>5, <1>6 DEF IInv

LEMMA NextInv == IInv /\ [Next]_vars => IInv'
<1>1. ASSUME IInv, Next
      PROVE  IInv'
  BY <1>1, StepType, StepKnows, StepFiled, StepFilesGoals, StepFindable, StepPrivate
  DEF IInv
<1>2. ASSUME IInv, UNCHANGED vars
      PROVE  IInv'
  <2>1. TypeInv' /\ TasksKnow'
    BY <1>2 DEF IInv, vars, redis, TypeInv, TypeOK, TasksKnow
  <2>2. Filed' /\ GoalsFiled' /\ Findable'
    BY <1>2 DEF IInv, vars, redis, Filed, GoalsFiled, Findable, Live, Overdue
  <2>3. CreationPrivate'
    BY <1>2 DEF IInv, vars, redis, CreationPrivate
  <2>. QED BY <2>1, <2>2, <2>3 DEF IInv
<1>. QED BY <1>1, <1>2

\* IInv, which records what each task still knows at each of its awaits, holds
\* in every reachable state.
THEOREM Invariance == Spec => []IInv
  BY InitInv, NextInv, PTL DEF Spec

\* No action proceeds without the consent of an operator or the time-out the
\* profile allows, whatever calls are interleaved and at whichever await the
\* process restarts.
THEOREM ConsentTheorem == Spec => []ProceedsOnlyWithCause
<1>1. IInv => ProceedsOnlyWithCause
  <2>. SUFFICES ASSUME IInv, NEW t \in Tasks, task[t].pc = "done",
                       task[t].out \in {"pass", "inform"}
                PROVE  /\ content[task[t].r] = [s |-> task[t].s, a |-> task[t].a]
                       /\ \/ "approved" \in said[task[t].r]
                          \/ /\ TimeoutAction \in {"autonomous", "inform"}
                             /\ task[t].st = "timed_out"
                             /\ Overdue(task[t].r)
    BY DEF ProceedsOnlyWithCause
  <2>1. TaskOK(task[t]) /\ Knows(task[t], content, said, due)
    BY DEF IInv, TypeInv, TasksKnow
  <2>2. task[t].op = "check"
    BY <2>1, ConstantsAssumption DEF TaskOK, Knows, Outcomes
  <2>3. /\ content[task[t].r] = [s |-> task[t].s, a |-> task[t].a]
        /\ task[t].out = OutcomeOf(task[t].st)
        /\ task[t].st = "approved" => "approved" \in said[task[t].r]
        /\ task[t].st = "timed_out" => Overdue(task[t].r)
    BY <2>1, <2>2 DEF Knows, Overdue
  <2>4. OutcomeOf(task[t].st) \in {"pass", "inform"} =>
          \/ task[t].st = "approved"
          \/ task[t].st = "timed_out" /\ TimeoutAction \in {"autonomous", "inform"}
    BY ConstantsAssumption DEF OutcomeOf, AutonomyOutcome, AutonomyLevel
  <2>. QED BY <2>3, <2>4
<1>. QED BY <1>1, Invariance, PTL

\* Whatever is pending or still before its deadline is in its session's index:
\* the index's TTL never runs out before that of a request that matters.
THEOREM FindableTheorem == Spec => []RequestStaysFindable
<1>1. IInv => RequestStaysFindable
  BY DEF IInv, Findable, RequestStaysFindable
<1>. QED BY <1>1, Invariance, PTL

LEMMA InvConsent == IInv => CompletedGoalHasConsent
  BY ConstantsAssumption
  DEF IInv, GoalsFiled, ListOK, CompletedGoalHasConsent, GoalStatuses

\* A goal is completed only for a request an operator approved, and kept under
\* the session key of that request's session.
THEOREM GoalConsentTheorem == Spec => []CompletedGoalHasConsent
<1>. QED BY InvConsent, Invariance, PTL

LEMMA PendingIsNew ==
  ASSUME IInv, Next, NEW r \in Requests, status'[r] = "pending"
  PROVE  status[r] \in {"pending", None}
<1>1. ASSUME NEW q \in Requests, TimeOut(q)
      PROVE  status[r] = "pending"
  BY <1>1 DEF TimeOut, IInv, TypeInv, TypeOK
<1>2. ASSUME NEW t \in Tasks, CheckTimeoutWrite(t) \/ SweepWrite(t)
      PROVE  status[r] = "pending"
  BY <1>1, <1>2, TaskIsTyped
  DEF CheckTimeoutWrite, SweepWrite, TaskOK, IInv, Checking
<1>3. ASSUME NEW t \in Tasks, Store(t)
      PROVE  status[r] \in {"pending", None}
  <2>1. Creates(task[t], task[t].r)
    BY <1>3 DEF Store, Creates
  <2>2. task[t].r \in Requests => status[task[t].r] = None
    BY <2>1 DEF IInv, CreationPrivate
  <2>3. status'[r] = status[r] \/ r = task[t].r
    BY <1>3 DEF Store, IInv, TypeInv, TypeOK
  <2>. QED BY <2>2, <2>3
<1>4. ASSUME NEW t \in Tasks, WriteDecision(t)
      PROVE  status[r] = "pending"
  <2>1. task[t].st # "pending"
    BY <1>4, TaskIsTyped DEF WriteDecision, TaskOK, IInv, Resolving, Decisions
  <2>. QED BY <1>4, <2>1 DEF WriteDecision, IInv, TypeInv, TypeOK
<1>5. CASE UNCHANGED status
  BY <1>5
<1>6. ASSUME NEW t \in Tasks, Step(t) \/ Call(t)
      PROVE  status[r] \in {"pending", None}
  BY <1>2, <1>3, <1>4, <1>5, <1>6
  DEF Step, Call, FindMatching, CheckTimeoutRead, OutOfRequests, SweepRead,
      AddGoalRead, AddGoalWrite, Return, GoalRead, GoalWrite, FlushGoals,
      UnloadSession, CancelRead, SessionEnded, StartCheck, SessionEnd, SweepRoute,
      UpdateApproval, Allocate, redis
<1>7. CASE Tick
  BY <1>7, ConstantsAssumption DEF Tick, Statuses
<1>. QED
  BY <1>5, <1>6, <1>7 DEF Next, LoadSessionRules, Restart, redis

\* A settled request is never pending again, even though every writer writes
\* over whatever is stored.
THEOREM NeverReopenedTheorem == Spec => NeverReopened
<1>. DEFINE A == \A r \in Requests :
                   status[r] \in Statuses \ {"pending"} => status'[r] # "pending"
<1>1. IInv /\ [Next]_vars => [A]_vars
  <2>1. ASSUME IInv, Next
        PROVE  A
    BY <2>1, PendingIsNew, ConstantsAssumption
  <2>. QED BY <2>1
<1>2. Spec => [][A]_vars
  BY <1>1, Invariance, PTL DEF Spec
<1>. QED BY <1>2 DEF NeverReopened

------------------------------------------------------------------------------
(* The queue implements the ledger.  Asked changes when a request leaves   *)
(* its creation (Store) and when a restart interrupts one.                 *)

Quietly(t) ==
  /\ \A r \in Requests : Creates(task'[t], r) <=> Creates(task[t], r)
  /\ \A u \in Tasks \ {t} : task'[u] = task[u]

LEMMA AskedUnchanged ==
  ASSUME NEW t \in Tasks, Quietly(t), UNCHANGED content
  PROVE  Asked' = Asked
<1>1. \A r \in Requests : Creating(r)' <=> Creating(r)
  BY DEF Quietly, Creating, Creates
<1>. QED BY <1>1 DEF Asked

\* The steps that neither start nor finish a creation.
LEMMA QuietSteps ==
  ASSUME TypeInv, NEW t \in Tasks, Step(t) \/ Call(t), ~Allocate(t), ~Store(t)
  PROVE  Quietly(t)
<1>. USE DEF Become
<1>1. task \in [Tasks -> TaskType] /\ task[t] \in TaskType
  BY TaskIsTyped DEF TypeInv, TypeOK
<1>2. ASSUME NEW x, Become(t, x),
             \A r \in Requests : Creates(x, r) <=> Creates(task[t], r)
      PROVE  Quietly(t)
  BY <1>1, <1>2 DEF Quietly
<1>3. ASSUME NEW x, Become(t, x), x.pc \notin {"sweep", "sweep_write"},
             task[t].pc \notin {"sweep", "sweep_write"}
      PROVE  Quietly(t)
  BY <1>2, <1>3 DEF Creates
<1>4. Idle.pc = "idle"
  BY DEF Idle
<1>5. CASE OutOfRequests(t) \/ Return(t) \/ SessionEnded(t)
  BY <1>3, <1>4, <1>5 DEF OutOfRequests, Return, SessionEnded
<1>6. ASSUME NEW r, NEW st, Answer(t, r, st),
             task[t].pc \notin {"sweep", "sweep_write"}
      PROVE  Quietly(t)
  <2>1. [task[t] EXCEPT !.pc = "done", !.r = r, !.st = st,
                        !.out = OutcomeOf(st), !.snap = NoGoals].pc = "done"
    BY <1>1 DEF TaskType
  <2>. QED BY <1>3, <1>6, <2>1 DEF Answer
<1>7. CASE CheckTimeoutWrite(t) \/ AddGoalWrite(t)
  BY <1>6, <1>7 DEF CheckTimeoutWrite, AddGoalWrite
<1>8. CASE FindMatching(t)
  <2>1. \A r : [task[t] EXCEPT !.pc = "timeout_read", !.r = r].pc = "timeout_read"
    BY <1>1 DEF TaskType
  <2>2. [task[t] EXCEPT !.pc = "allocate"].pc = "allocate"
    BY <1>1 DEF TaskType
  <2>. QED BY <1>3, <1>8, <2>1, <2>2 DEF FindMatching
<1>9. CASE CheckTimeoutRead(t)
  <2>1. /\ [task[t] EXCEPT !.pc = "allocate", !.r = None].pc = "allocate"
        /\ [task[t] EXCEPT !.pc = "timeout_write"].pc = "timeout_write"
    BY <1>1 DEF TaskType
  <2>. QED BY <1>3, <1>6, <1>9, <2>1 DEF CheckTimeoutRead
<1>10. CASE SweepRead(t)
  <2>1. PICK q \in task[t].todo :
          \/ Become(t, [task[t] EXCEPT !.pc = "sweep_write", !.q = q])
          \/ Become(t, [task[t] EXCEPT !.todo = @ \ {q}])
    BY <1>10 DEF SweepRead
  <2>. DEFINE x == [task[t] EXCEPT !.pc = "sweep_write", !.q = q]
              y == [task[t] EXCEPT !.todo = @ \ {q}]
  <2>2. task[t].pc = "sweep"
    BY <1>10 DEF SweepRead
  <2>3. x.pc = "sweep_write" /\ x.r = task[t].r /\ y.pc = "sweep" /\ y.r = task[t].r
    BY <1>1, <2>2 DEF TaskType
  <2>4. \A r \in Requests : /\ Creates(x, r) <=> Creates(task[t], r)
                            /\ Creates(y, r) <=> Creates(task[t], r)
    BY <2>2, <2>3 DEF Creates
  <2>5. Become(t, x) \/ Become(t, y)
    BY <2>1
  <2>. HIDE DEF x, y
  <2>. QED BY <1>2, <2>4, <2>5
<1>11. CASE SweepWrite(t)
  <2>. DEFINE x == [task[t] EXCEPT !.pc = "sweep", !.q = None,
                                   !.todo = @ \ {task[t].q}]
  <2>1. x.pc = "sweep" /\ x.r = task[t].r
    BY <1>1 DEF TaskType
  <2>. QED BY <1>2, <1>11, <2>1 DEF SweepWrite, Creates
<1>12. CASE AddGoalRead(t)
  <2>1. ASSUME NEW k
        PROVE  [task[t] EXCEPT !.pc = "add_goal_write", !.key = k,
                               !.snap = goals[k]].pc = "add_goal_write"
    BY <1>1 DEF TaskType
  <2>. QED BY <1>3, <1>12, <2>1 DEF AddGoalRead
<1>13. CASE WriteDecision(t)
  <2>1. [task[t] EXCEPT !.pc = "goal_read"].pc = "goal_read"
    BY <1>1 DEF TaskType
  <2>. QED BY <1>3, <1>4, <1>13, <2>1 DEF WriteDecision
<1>14. ASSUME AfterGoal(t), task[t].pc \notin {"sweep", "sweep_write"}
       PROVE  Quietly(t)
  <2>1. [task[t] EXCEPT !.pc = "cancel", !.r = None, !.st = None,
                        !.key = None, !.snap = NoGoals].pc = "cancel"
    BY <1>1 DEF TaskType
  <2>. QED BY <1>3, <1>4, <1>14, <2>1 DEF AfterGoal
<1>15. CASE GoalRead(t)
  <2>1. \A g : [task[t] EXCEPT !.pc = "goal_write", !.snap = g].pc = "goal_write"
    BY <1>1 DEF TaskType
  <2>. QED BY <1>3, <1>14, <1>15, <2>1 DEF GoalRead
<1>16. CASE GoalWrite(t)
  BY <1>14, <1>16 DEF GoalWrite
<1>17. CASE FlushGoals(t) \/ UnloadSession(t)
  <2>1. [task[t] EXCEPT !.pc = "unload", !.snap = NoGoals].pc = "unload"
    BY <1>1 DEF TaskType
  <2>2. \A T : [task[t] EXCEPT !.pc = "cancel", !.todo = T].pc = "cancel"
    BY <1>1 DEF TaskType
  <2>. QED BY <1>3, <1>4, <1>17, <2>1, <2>2 DEF FlushGoals, UnloadSession
<1>18. CASE CancelRead(t)
  <2>1. PICK q \in task[t].todo :
          LET rest == [task[t] EXCEPT !.todo = @ \ {q}] IN
          Become(t, IF Live(q)
                    THEN [rest EXCEPT !.pc = "write", !.r = q, !.st = "cancelled",
                                      !.key = KeyOf[task[t].s]]
                    ELSE rest)
    BY <1>18 DEF CancelRead
  <2>. DEFINE rest == [task[t] EXCEPT !.todo = @ \ {q}]
              x == [rest EXCEPT !.pc = "write", !.r = q, !.st = "cancelled",
                                !.key = KeyOf[task[t].s]]
  <2>2. rest.pc = "cancel" /\ x.pc = "write" /\ task[t].pc = "cancel"
    BY <1>1, <1>18 DEF TaskType, CancelRead
  <2>3. Become(t, rest) \/ Become(t, x)
    BY <2>1
  <2>. QED BY <1>3, <2>2, <2>3
<1>19. CASE \E s \in Sessions, a \in Actions : StartCheck(t, s, a)
  <2>1. ASSUME NEW s, NEW a
        PROVE  [Idle EXCEPT !.pc = "lookup", !.op = "check", !.s = s, !.a = a].pc
                 = "lookup"
    BY DEF Idle
  <2>. QED BY <1>3, <1>19, <2>1 DEF StartCheck
<1>20. ASSUME NEW r \in Requests, NEW d \in Decisions, UpdateApproval(t, r, d)
       PROVE  Quietly(t)
  <2>. DEFINE k == IF loaded = <<>> THEN None ELSE KeyOf[loaded[1]]
              x == [Idle EXCEPT !.pc = "write", !.op = "resolve", !.r = r, !.st = d,
                                !.key = k]
  <2>1. x.pc = "write" /\ task[t].pc = "idle" /\ Become(t, x)
    BY <1>20 DEF Idle, UpdateApproval
  <2>. QED BY <1>3, <2>1
<1>21. ASSUME NEW s \in Sessions, SessionEnd(t, s)
       PROVE  Quietly(t)
  <2>. DEFINE p == IF goals[KeyOf[s]] = NoGoals THEN "unload" ELSE "flush"
              x == [Idle EXCEPT !.op = "end", !.s = s, !.snap = goals[KeyOf[s]],
                                !.pc = p]
  <2>1. x.pc \in {"unload", "flush"} /\ task[t].pc = "idle" /\ Become(t, x)
    BY <1>21 DEF Idle, SessionEnd
  <2>. QED BY <1>3, <2>1
<1>22. ASSUME NEW s \in Sessions, SweepRoute(t, s)
       PROVE  Quietly(t)
  <2>. DEFINE o == IF {q \in index[s] : status[q] = "pending"} = {}
                   THEN None ELSE "error"
              x == [Idle EXCEPT !.pc = "done", !.op = "sweep_route", !.s = s, !.out = o]
  <2>1. x.pc = "done" /\ task[t].pc = "idle" /\ Become(t, x)
    BY <1>22 DEF Idle, SweepRoute
  <2>. QED BY <1>3, <2>1
<1>. QED
  BY <1>5, <1>7, <1>8, <1>9, <1>10, <1>11, <1>12, <1>13, <1>15, <1>16, <1>17,
     <1>18, <1>19, <1>20, <1>21, <1>22
  DEF Step, Call

\* A request a task refers to has been entered.
LEMMA ReferredIsAsked ==
  ASSUME IInv, NEW t \in Tasks, NEW r \in Requests, RefersTo(task[t], r)
  PROVE  r \in Asked
<1>1. content[r] # None
  BY ReferredHasContent DEF IInv
<1>2. \A u \in Tasks : ~Creates(task[u], r)
  BY DEF IInv, CreationPrivate
<1>. QED BY <1>1, <1>2 DEF Asked, Creating, Creates

LEMMA TimeOutSettles ==
  ASSUME IInv, NEW t \in Tasks, NEW r \in Requests, RefersTo(task[t], r),
         TimeOut(r), Quietly(t), UNCHANGED <<content, said>>
  PROVE  Ledger!Settle(r, "timed_out")
<1>1. Asked' = Asked
  BY AskedUnchanged
<1>. QED
  BY <1>1, ReferredIsAsked DEF Ledger!Settle, TimeOut

LEMMA StoreAsks ==
  ASSUME IInv, NEW t \in Tasks, Store(t)
  PROVE  Ledger!Ask(task[t].r)
<1>. DEFINE r == task[t].r
            x == [task[t] EXCEPT !.pc = "add_goal_read"]
<1>1. task[t] \in TaskType /\ task[t].pc = "sweep" /\ r \in Requests
  BY TaskIsTyped DEF IInv, Store, TaskOK, Checking
<1>2. x.pc = "add_goal_read"
  BY <1>1 DEF TaskType
<1>3. \A u \in Tasks : task'[u] = IF u = t THEN x ELSE task[u]
  BY DEF Store, Become, IInv, TypeInv, TypeOK
<1>4. Creates(task[t], r)
  BY <1>1 DEF Creates
<1>5. content[r] # None /\ \A u \in Tasks : Creates(task[u], r) => u = t
  BY <1>1, <1>4 DEF IInv, CreationPrivate
<1>6. \A q \in Requests : Creating(q) <=> \E u \in Tasks : Creates(task[u], q)
  BY DEF Creating, Creates
<1>7. \A q \in Requests : Creating(q)' <=> \E u \in Tasks : Creates(task'[u], q)
  BY DEF Creating, Creates
<1>8. \A q : ~Creates(x, q) /\ (Creates(task[t], q) => q = r)
  BY <1>1, <1>2 DEF Creates
<1>. HIDE DEF x
<1>9. \A q \in Requests : Creating(q)' <=> Creating(q) /\ q # r
  BY <1>3, <1>5, <1>6, <1>7, <1>8
<1>10. r \notin Asked /\ Asked' = Asked \cup {r}
  BY <1>1, <1>4, <1>5, <1>6, <1>9 DEF Asked, Store
<1>. QED BY <1>10 DEF Ledger!Ask, Store

LEMMA AllocateStutters ==
  ASSUME IInv, NEW t \in Tasks, Allocate(t)
  PROVE  UNCHANGED <<Asked, status, said>>
<1>1. task[t] \in TaskType /\ task[t].pc = "allocate"
      /\ task[t].s \in Sessions /\ task[t].a \in Actions
  BY TaskIsTyped DEF IInv, Allocate, TaskOK, Checking
<1>2. PICK r \in Unused :
        /\ content' = [content EXCEPT ![r] = [s |-> task[t].s, a |-> task[t].a]]
        /\ Become(t, [task[t] EXCEPT !.pc = "sweep", !.r = r,
                        !.todo = {q \in index[task[t].s] : status[q] = "pending"}])
  BY DEF Allocate
<1>. DEFINE x == [task[t] EXCEPT !.pc = "sweep", !.r = r,
                    !.todo = {q \in index[task[t].s] : status[q] = "pending"}]
<1>3. x.pc = "sweep" /\ x.r = r
  BY <1>1 DEF TaskType
<1>4. \A u \in Tasks : task'[u] = IF u = t THEN x ELSE task[u]
  BY <1>2 DEF Become, IInv, TypeInv, TypeOK
<1>. HIDE DEF x
<1>5. \A q \in Requests : Creating(q)' <=> Creating(q) \/ q = r
  BY <1>1, <1>3, <1>4 DEF Creating
<1>6. /\ content[r] = None
      /\ \A q \in Requests : q # r => content'[q] = content[q]
  BY <1>2 DEF Unused, IInv, TypeInv, TypeOK
<1>. QED BY <1>5, <1>6 DEF Asked, Allocate, redis

LEMMA WriteDecisionSettles ==
  ASSUME IInv, NEW t \in Tasks, WriteDecision(t)
  PROVE  \/ Ledger!Settle(task[t].r, task[t].st)
         \/ UNCHANGED <<Asked, status, said>>
<1>1. task[t].pc = "write" /\ TaskOK(task[t]) /\ Knows(task[t], content, said, due)
  BY TaskIsTyped DEF IInv, TasksKnow, WriteDecision
<1>2. /\ task[t].r \in Requests /\ RefersTo(task[t], task[t].r)
      /\ task[t].st \in {"cancelled"} \cup said[task[t].r] /\ task[t].st # "timed_out"
  BY <1>1 DEF TaskOK, Knows, RefersTo, Checking, Resolving, Decisions
<1>3. Asked' = Asked
  BY QuietSteps, AskedUnchanged DEF IInv, Step, WriteDecision, Allocate, Store
<1>4. CASE Live(task[t].r)
  BY <1>2, <1>3, <1>4, ReferredIsAsked DEF Ledger!Settle, WriteDecision, Live
<1>5. CASE ~Live(task[t].r)
  BY <1>3, <1>5 DEF WriteDecision
<1>. QED BY <1>4, <1>5

LEMMA StepImplements ==
  ASSUME IInv, Next
  PROVE  [Ledger!Next]_<<Asked, status, said>>
<1>. USE DEF Ledger!Next
<1>1. ASSUME NEW t \in Tasks, CheckTimeoutWrite(t) \/ SweepWrite(t)
      PROVE  Ledger!Next
  <2>1. Quietly(t)
    BY <1>1, QuietSteps
    DEF IInv, Step, CheckTimeoutWrite, SweepWrite, Allocate, Store
  <2>2. CASE CheckTimeoutWrite(t)
    <3>1. task[t].r \in Requests /\ RefersTo(task[t], task[t].r)
      BY <2>2, TaskIsTyped
      DEF IInv, CheckTimeoutWrite, TaskOK, RefersTo, Checking
    <3>. QED BY <2>1, <2>2, <3>1, TimeOutSettles DEF CheckTimeoutWrite
  <2>3. CASE SweepWrite(t)
    <3>1. task[t].q \in Requests /\ RefersTo(task[t], task[t].q)
      BY <2>3, TaskIsTyped DEF IInv, SweepWrite, TaskOK, RefersTo
    <3>. QED BY <2>1, <2>3, <3>1, TimeOutSettles DEF SweepWrite
  <2>. QED BY <1>1, <2>2, <2>3
<1>2. ASSUME NEW t \in Tasks, Store(t)
      PROVE  Ledger!Next
  <2>1. task[t].r \in Requests
    BY <1>2, TaskIsTyped DEF IInv, Store, TaskOK, Checking
  <2>. QED BY <1>2, <2>1, StoreAsks
<1>3. ASSUME NEW t \in Tasks, WriteDecision(t)
      PROVE  [Ledger!Next]_<<Asked, status, said>>
  <2>1. task[t].r \in Requests
        /\ task[t].st \in {"approved", "rejected", "timed_out", "cancelled"}
    BY <1>3, TaskIsTyped DEF IInv, WriteDecision, TaskOK, Resolving, Decisions
  <2>. QED BY <1>3, <2>1, WriteDecisionSettles
<1>4. ASSUME NEW t \in Tasks, NEW r \in Requests, NEW d \in Decisions,
             UpdateApproval(t, r, d)
      PROVE  Ledger!Next
  <2>1. Asked' = Asked
    BY <1>4, QuietSteps, AskedUnchanged
    DEF IInv, Call, UpdateApproval, Allocate, Store
  <2>2. Ledger!Say(r, d)
    BY <1>4, <2>1 DEF Ledger!Say, UpdateApproval, Live, redis
  <2>. QED BY <2>2 DEF Decisions
<1>5. ASSUME NEW t \in Tasks, Step(t) \/ Call(t), ~Allocate(t), ~Store(t),
             UNCHANGED <<content, status, said>>
      PROVE  UNCHANGED <<Asked, status, said>>
  BY <1>5, QuietSteps, AskedUnchanged DEF IInv
<1>6. ASSUME NEW t \in Tasks, Step(t) \/ Call(t)
      PROVE  [Ledger!Next]_<<Asked, status, said>>
  <2>1. CASE Allocate(t)
    BY <2>1, AllocateStutters
  <2>2. CASE UNCHANGED <<content, status, said>>
    BY <1>2, <1>5, <1>6, <2>1, <2>2
  <2>3. ASSUME ~Allocate(t)
        PROVE  \/ CheckTimeoutWrite(t) \/ SweepWrite(t) \/ Store(t) \/ WriteDecision(t)
               \/ \E r \in Requests, d \in Decisions : UpdateApproval(t, r, d)
               \/ UNCHANGED <<content, status, said>>
    BY <1>6, <2>3
    DEF Step, Call, FindMatching, CheckTimeoutRead, OutOfRequests, SweepRead,
        AddGoalRead, AddGoalWrite, Return, GoalRead, GoalWrite, FlushGoals,
        UnloadSession, CancelRead, SessionEnded, StartCheck, SessionEnd,
        SweepRoute, redis
  <2>. QED BY <1>1, <1>2, <1>3, <1>4, <2>1, <2>2, <2>3
<1>7. ASSUME NEW s \in Sessions, LoadSessionRules(s)
      PROVE  UNCHANGED <<Asked, status, said>>
  BY <1>7 DEF LoadSessionRules, Asked, Creating, redis
<1>8. CASE Restart
  <2>. DEFINE R == {r \in Requests : content[r] # None}
  <2>1. \A r \in Requests : ~Creating(r)'
    BY <1>8 DEF Restart, Creating, Idle
  <2>2. Asked' = Asked \cup R
    BY <1>8, <2>1 DEF Asked, Restart
  <2>3. Ledger!Abandon(R)
    BY <1>8, <2>2 DEF Ledger!Abandon, Restart, redis
  <2>. QED BY <2>3
<1>9. CASE Tick
  <2>. DEFINE R == {r \in Requests : ~(ttl[r] > 1)}
  <2>1. Asked' = Asked
    BY <1>9 DEF Tick, Asked, Creating
  <2>2. status' = [r \in Requests |-> IF r \in R THEN None ELSE status[r]]
    BY <1>9 DEF Tick
  <2>3. Ledger!Forget(R)
    BY <1>9, <2>1, <2>2 DEF Ledger!Forget, Tick
  <2>. QED BY <2>3
<1>. QED BY <1>6, <1>7, <1>8, <1>9 DEF Next

\* The approval queue, with its tasks, indexes and clocks, implements the
\* ledger: every step enters, settles or forgets a request, records a decision,
\* or changes nothing the ledger shows.
THEOREM LedgerTheorem == Spec => ImplementsLedger
<1>1. Init => Ledger!Init
  BY DEF Init, Ledger!Init, Asked
<1>2. IInv /\ [Next]_vars => [Ledger!Next]_<<Asked, status, said>>
  <2>1. CASE UNCHANGED vars
    BY <2>1 DEF vars, redis, Asked, Creating
  <2>. QED BY <2>1, StepImplements
<1>. QED
  BY <1>1, <1>2, Invariance, PTL DEF Spec, ImplementsLedger, Ledger!Spec

------------------------------------------------------------------------------
(* One call at a time.                                                     *)

LEMMA TaskAlone ==
  ASSUME Serial, TypeInv, NEW t \in Tasks, NEW y, Become(t, y)
  PROVE  \A u \in Tasks : u = t /\ task'[u] = y
  BY DEF Serial, TypeInv, TypeOK, Become

\* Calls that stop, or have only begun, know nothing that could be lost.
LEMMA NothingKnown ==
  ASSUME NEW y, y.pc \in {"idle", "done", "lookup"}, y.op # "end" PROVE FoundAll(y) /\ HasRead(y)
  BY DEF FoundAll, HasRead, Resolving

\* A decision that a call is carrying to its goal is carried on, or has arrived.
Carried(x, y) ==
  \A r \in Requests :
    status[r] \in Decisions /\ x.pc \in {"goal_read", "goal_write"} /\ x.r = r =>
      \/ GoalOf(r) \in {None, ResolvedGoal(status[r])}
      \/ y.pc \in {"goal_read", "goal_write"} /\ y.r = r

\* The pending requests a call is to cancel stay to be cancelled.
StillCancels(x, y) ==
  \A r \in Requests : status[r] = "pending" /\ Cancels(x, r) => Cancels(y, r)

\* A step that changes the call alone.
LEMMA QuietSerial ==
  ASSUME Serial, IInv, SerialInv, NEW t \in Tasks, NEW y, Become(t, y),
         UNCHANGED <<loaded, content, redis, goals>>,
         FoundAll(y), HasRead(y), y.op = "check" => y.s \in Loaded,
         StillCancels(task[t], y), Carried(task[t], y)
  PROVE  SerialInv'
<1>1. \A u \in Tasks : u = t /\ task'[u] = y
  BY TaskAlone DEF IInv
<1>2. /\ UNCHANGED <<loaded, content, status, index, goals>>
      /\ Loaded' = Loaded /\ \A r \in Requests : GoalOf(r)' = GoalOf(r)
  BY DEF redis, Loaded, GoalOf
<1>3. OneEach'
  <2>1. \A u \in Tasks : FoundAll(task[u])'
    <3>1. FoundAll(y)'
      BY <1>2 DEF FoundAll, Matching, Live
    <3>. QED BY <1>1, <3>1
  <2>. QED BY <1>2, <2>1 DEF OneEach, Live, SerialInv
<1>4. Attended'
  <2>1. \A u \in Tasks : task'[u].op = "check" => task'[u].s \in Loaded'
    BY <1>1, <1>2
  <2>2. ASSUME NEW r \in Requests, status'[r] = "pending"
        PROVE  content'[r].s \in Loaded' \/ \E u \in Tasks : Cancels(task[u], r)'
    <3>1. content[r].s \in Loaded \/ \E u \in Tasks : Cancels(task[u], r)
      BY <1>2, <2>2 DEF SerialInv, Attended
    <3>2. CASE content[r].s \in Loaded
      BY <1>2, <3>2
    <3>3. CASE \E u \in Tasks : Cancels(task[u], r)
      <4>1. Cancels(y, r)
        BY <1>1, <1>2, <2>2, <3>3 DEF StillCancels
      <4>2. Cancels(y, r)'
        BY <1>2, <4>1 DEF Cancels
      <4>. QED BY <1>1, <4>2
    <3>. QED BY <3>1, <3>2, <3>3
  <2>. QED BY <1>2, <2>1, <2>2 DEF Attended, SerialInv
<1>5. GoalsFollow'
  <2>1. \A u \in Tasks : HasRead(task[u])'
    <3>1. HasRead(y)'
      BY <1>2 DEF HasRead, GoalOf, Live, NoGoals
    <3>. QED BY <1>1, <3>1
  <2>2. ASSUME NEW r \in Requests
        PROVE  /\ Live(r)' /\ GoalOf(r)' # None => content'[r].s \in Loaded'
               /\ status'[r] \in Decisions =>
                    \/ GoalOf(r)' \in {None, ResolvedGoal(status'[r])}
                    \/ \E u \in Tasks : task'[u].pc \in {"goal_read", "goal_write"} /\ task'[u].r = r
    BY <1>1, <1>2 DEF SerialInv, GoalsFollow, Live, Carried
  <2>. QED BY <2>1, <2>2 DEF GoalsFollow
<1>. QED BY <1>3, <1>4, <1>5 DEF SerialInv

\* What is known of a call.
LEMMA CallKnown ==
  ASSUME IInv, SerialInv, NEW t \in Tasks
  PROVE  /\ task[t] \in TaskType /\ TaskOK(task[t]) /\ Knows(task[t], content, said, due)
         /\ FoundAll(task[t]) /\ HasRead(task[t])
         /\ task[t].op = "check" => task[t].s \in Loaded
  BY TaskIsTyped DEF IInv, TasksKnow, SerialInv, OneEach, GoalsFollow, Attended

\* Two requests of a session for one action that are in Redis and filed are one.
LEMMA SameRequest ==
  ASSUME IInv, SerialInv, NEW s \in Sessions, NEW a, NEW q \in Matching(s, a),
         NEW r \in Matching(s, a)
  PROVE  q = r
<1>1. q \in index[s] /\ r \in index[s] /\ Live(q) /\ Live(r)
      /\ content[q].a = a /\ content[r].a = a /\ q \in Requests /\ r \in Requests
  BY DEF Matching, IInv, TypeInv, TypeOK
<1>2. content[q] \in [s : Sessions, a : Actions] /\ content[r] \in [s : Sessions, a : Actions]
      /\ content[q].s = s /\ content[r].s = s
  BY <1>1 DEF IInv, Filed, TypeInv, TypeOK
<1>3. content[q] = content[r]
  BY <1>1, <1>2
<1>. QED BY <1>1, <1>3 DEF SerialInv, OneEach

\* A pending request is in the index of its session.
LEMMA PendingIsFiled ==
  ASSUME IInv, NEW r \in Requests, status[r] = "pending"
  PROVE  /\ Live(r) /\ content[r] # None /\ content[r] \in [s : Sessions, a : Actions]
         /\ r \in index[content[r].s]
<1>1. Live(r)
  BY ConstantsAssumption DEF Live, Statuses
<1>. QED BY <1>1 DEF IInv, Filed, Findable, TypeInv, TypeOK

LEMMA StartCheckSerial ==
  ASSUME Serial, IInv, SerialInv, NEW t \in Tasks, NEW s \in Sessions, NEW a \in Actions,
         StartCheck(t, s, a)
  PROVE  SerialInv'
<1>. DEFINE y == [Idle EXCEPT !.pc = "lookup", !.op = "check", !.s = s, !.a = a]
<1>1. y.pc = "lookup" /\ y.op = "check" /\ y.s = s
  BY DEF Idle
<1>3. task[t].pc = "idle" /\ s \in Loaded /\ Become(t, y)
  BY DEF StartCheck
<1>. HIDE DEF y
<1>2. FoundAll(y) /\ HasRead(y)
  BY <1>1, NothingKnown
<1>4. StillCancels(task[t], y) /\ Carried(task[t], y)
  BY <1>3 DEF StillCancels, Carried, Cancels, Resolving
<1>5. UNCHANGED <<loaded, content, redis, goals>>
  BY DEF StartCheck
<1>. QED BY <1>1, <1>2, <1>3, <1>4, <1>5, QuietSerial

LEMMA FindMatchingSerial ==
  ASSUME Serial, IInv, SerialInv, NEW t \in Tasks, FindMatching(t)
  PROVE  SerialInv'
<1>1. /\ task[t] \in TaskType /\ task[t].pc = "lookup" /\ task[t].op = "check"
      /\ task[t].s \in Sessions /\ task[t].s \in Loaded
  BY CallKnown DEF FindMatching, TaskOK, Checking
<1>2. UNCHANGED <<loaded, content, redis, goals>>
  BY DEF FindMatching
<1>3. ASSUME NEW r \in Matching(task[t].s, task[t].a),
             Become(t, [task[t] EXCEPT !.pc = "timeout_read", !.r = r])
      PROVE  SerialInv'
  <2>. DEFINE y == [task[t] EXCEPT !.pc = "timeout_read", !.r = r]
  <2>1. y.pc = "timeout_read" /\ y.op = "check" /\ y.s = task[t].s /\ y.a = task[t].a /\ y.r = r
    BY <1>1 DEF TaskType
  <2>2. FoundAll(y)
    BY <1>1, <2>1, SameRequest DEF FoundAll
  <2>3. HasRead(y)
    BY <2>1 DEF HasRead, Resolving
  <2>4. StillCancels(task[t], y) /\ Carried(task[t], y)
    BY <1>1 DEF StillCancels, Carried, Cancels
  <2>. HIDE DEF y
  <2>. QED BY <1>1, <1>2, <1>3, <2>1, <2>2, <2>3, <2>4, QuietSerial DEF y
<1>4. ASSUME Matching(task[t].s, task[t].a) = {},
             Become(t, [task[t] EXCEPT !.pc = "allocate"])
      PROVE  SerialInv'
  <2>. DEFINE y == [task[t] EXCEPT !.pc = "allocate"]
  <2>1. y.pc = "allocate" /\ y.op = "check" /\ y.s = task[t].s /\ y.a = task[t].a
    BY <1>1 DEF TaskType
  <2>2. FoundAll(y)
    BY <1>4, <2>1 DEF FoundAll
  <2>3. HasRead(y)
    BY <2>1 DEF HasRead, Resolving
  <2>4. StillCancels(task[t], y) /\ Carried(task[t], y)
    BY <1>1 DEF StillCancels, Carried, Cancels
  <2>. HIDE DEF y
  <2>. QED BY <1>1, <1>2, <1>4, <2>1, <2>2, <2>3, <2>4, QuietSerial DEF y
<1>. QED BY <1>3, <1>4 DEF FindMatching

\* A check that answers about a request.
LEMMA AnswerKnown ==
  ASSUME NEW x \in TaskType, x.op = "check", NEW r, NEW st, x.pc \in Checking
  PROVE  LET y == [x EXCEPT !.pc = "done", !.r = r, !.st = st,
                            !.out = OutcomeOf(st), !.snap = NoGoals]
         IN  /\ y.op = "check" /\ y.s = x.s /\ FoundAll(y) /\ HasRead(y)
             /\ StillCancels(x, y) /\ Carried(x, y)
<1>. DEFINE y == [x EXCEPT !.pc = "done", !.r = r, !.st = st,
                           !.out = OutcomeOf(st), !.snap = NoGoals]
<1>1. y.op = "check" /\ y.s = x.s /\ y.pc = "done"
  BY DEF TaskType
<1>. HIDE DEF y
<1>2. FoundAll(y) /\ HasRead(y)
  BY <1>1, NothingKnown
<1>3. StillCancels(x, y) /\ Carried(x, y)
  BY DEF StillCancels, Carried, Cancels, Checking
<1>. QED BY <1>1, <1>2, <1>3 DEF y

LEMMA CheckTimeoutReadSerial ==
  ASSUME Serial, IInv, SerialInv, NEW t \in Tasks, CheckTimeoutRead(t)
  PROVE  SerialInv'
<1>1. /\ task[t] \in TaskType /\ task[t].pc = "timeout_read" /\ task[t].op = "check"
      /\ task[t].s \in Loaded /\ FoundAll(task[t]) /\ task[t].pc \in Checking
  BY CallKnown DEF CheckTimeoutRead, TaskOK, Checking
<1>2. UNCHANGED <<loaded, content, redis, goals>>
  BY DEF CheckTimeoutRead
<1>3. ASSUME ~Live(task[t].r), Become(t, [task[t] EXCEPT !.pc = "allocate", !.r = None])
      PROVE  SerialInv'
  <2>. DEFINE y == [task[t] EXCEPT !.pc = "allocate", !.r = None]
  <2>1. y.pc = "allocate" /\ y.op = "check" /\ y.s = task[t].s /\ y.a = task[t].a
    BY <1>1 DEF TaskType
  <2>2. Matching(task[t].s, task[t].a) = {}
    BY <1>1, <1>3 DEF FoundAll, Matching
  <2>3. FoundAll(y)
    BY <2>1, <2>2 DEF FoundAll
  <2>4. HasRead(y)
    BY <2>1 DEF HasRead, Resolving
  <2>5. StillCancels(task[t], y) /\ Carried(task[t], y)
    BY <1>1 DEF StillCancels, Carried, Cancels
  <2>. HIDE DEF y
  <2>. QED BY <1>1, <1>2, <1>3, <2>1, <2>3, <2>4, <2>5, QuietSerial DEF y
<1>4. ASSUME Become(t, [task[t] EXCEPT !.pc = "timeout_write"])
      PROVE  SerialInv'
  <2>. DEFINE y == [task[t] EXCEPT !.pc = "timeout_write"]
  <2>1. y.pc = "timeout_write" /\ y.op = "check" /\ y.s = task[t].s /\ y.a = task[t].a
        /\ y.r = task[t].r
    BY <1>1 DEF TaskType
  <2>2. FoundAll(y)
    BY <1>1, <2>1 DEF FoundAll
  <2>3. HasRead(y)
    BY <2>1 DEF HasRead, Resolving
  <2>4. StillCancels(task[t], y) /\ Carried(task[t], y)
    BY <1>1 DEF StillCancels, Carried, Cancels
  <2>. HIDE DEF y
  <2>. QED BY <1>1, <1>2, <1>4, <2>1, <2>2, <2>3, <2>4, QuietSerial DEF y
<1>5. ASSUME Answer(t, task[t].r, status[task[t].r])
      PROVE  SerialInv'
  BY <1>1, <1>2, <1>5, AnswerKnown, QuietSerial DEF Answer
<1>. QED BY <1>3, <1>4, <1>5 DEF CheckTimeoutRead

\* A call that ends, carrying nothing and with nothing left to cancel.
LEMMA EndsSerial ==
  ASSUME Serial, IInv, SerialInv, NEW t \in Tasks, Become(t, Idle),
         UNCHANGED <<loaded, content, redis, goals>>,
         StillCancels(task[t], Idle), Carried(task[t], Idle)
  PROVE  SerialInv'
<1>1. Idle.pc = "idle" /\ Idle.op = "none"
  BY DEF Idle
<1>2. FoundAll(Idle) /\ HasRead(Idle) /\ Idle.op # "check"
  BY <1>1, NothingKnown
<1>. QED BY <1>2, QuietSerial

LEMMA OutOfRequestsSerial ==
  ASSUME Serial, IInv, SerialInv, NEW t \in Tasks, OutOfRequests(t)
  PROVE  SerialInv'
<1>1. StillCancels(task[t], Idle) /\ Carried(task[t], Idle)
  BY CallKnown DEF OutOfRequests, StillCancels, Carried, Cancels, TaskOK, Checking
<1>. QED BY <1>1, EndsSerial DEF OutOfRequests

LEMMA ReturnSerial ==
  ASSUME Serial, IInv, SerialInv, NEW t \in Tasks, Return(t)
  PROVE  SerialInv'
<1>1. StillCancels(task[t], Idle) /\ Carried(task[t], Idle)
  BY CallKnown DEF Return, StillCancels, Carried, Cancels, TaskOK
<1>. QED BY <1>1, EndsSerial DEF Return

LEMMA SessionEndedSerial ==
  ASSUME Serial, IInv, SerialInv, NEW t \in Tasks, SessionEnded(t)
  PROVE  SerialInv'
<1>1. StillCancels(task[t], Idle) /\ Carried(task[t], Idle)
  BY CallKnown DEF SessionEnded, StillCancels, Carried, Cancels, TaskOK
<1>. QED BY <1>1, EndsSerial DEF SessionEnded

LEMMA SweepReadSerial ==
  ASSUME Serial, IInv, SerialInv, NEW t \in Tasks, SweepRead(t)
  PROVE  SerialInv'
<1>1. /\ task[t] \in TaskType /\ task[t].pc = "sweep" /\ task[t].op = "check"
      /\ task[t].s \in Loaded /\ task[t].s \in Sessions /\ FoundAll(task[t])
  BY CallKnown DEF SweepRead, TaskOK, Checking
<1>2. UNCHANGED <<loaded, content, redis, goals>>
  BY DEF SweepRead
<1>3. ASSUME NEW q \in task[t].todo, status[q] = "pending",
             Become(t, [task[t] EXCEPT !.pc = "sweep_write", !.q = q])
      PROVE  SerialInv'
  <2>. DEFINE y == [task[t] EXCEPT !.pc = "sweep_write", !.q = q]
  <2>1. /\ y.pc = "sweep_write" /\ y.op = "check" /\ y.s = task[t].s /\ y.a = task[t].a
        /\ y.q = q /\ y.todo = task[t].todo /\ q \in Requests
    BY <1>1 DEF TaskType
  <2>2. content[q].s = task[t].s /\ q \in index[task[t].s] /\ Live(q)
    BY <1>1, <1>3, <2>1, PendingIsFiled DEF FoundAll
  <2>3. q \in Matching(task[t].s, content[q].a)
    BY <2>2 DEF Matching
  <2>4. FoundAll(y)
    BY <1>1, <2>1, <2>3, SameRequest DEF FoundAll
  <2>5. HasRead(y)
    BY <2>1 DEF HasRead, Resolving
  <2>6. StillCancels(task[t], y) /\ Carried(task[t], y)
    BY <1>1 DEF StillCancels, Carried, Cancels
  <2>. HIDE DEF y
  <2>. QED BY <1>1, <1>2, <1>3, <2>1, <2>4, <2>5, <2>6, QuietSerial DEF y
<1>4. ASSUME NEW q \in task[t].todo, Become(t, [task[t] EXCEPT !.todo = @ \ {q}])
      PROVE  SerialInv'
  <2>. DEFINE y == [task[t] EXCEPT !.todo = @ \ {q}]
  <2>1. /\ y.pc = "sweep" /\ y.op = "check" /\ y.s = task[t].s /\ y.a = task[t].a
        /\ y.todo \subseteq task[t].todo
    BY <1>1 DEF TaskType
  <2>2. FoundAll(y)
    BY <1>1, <2>1 DEF FoundAll
  <2>3. HasRead(y)
    BY <2>1 DEF HasRead, Resolving
  <2>4. StillCancels(task[t], y) /\ Carried(task[t], y)
    BY <1>1 DEF StillCancels, Carried, Cancels
  <2>. HIDE DEF y
  <2>. QED BY <1>1, <1>2, <1>4, <2>1, <2>2, <2>3, <2>4, QuietSerial DEF y
<1>. QED BY <1>3, <1>4 DEF SweepRead

LEMMA AddGoalReadSerial ==
  ASSUME Serial, IInv, SerialInv, NEW t \in Tasks, AddGoalRead(t)
  PROVE  SerialInv'
<1>1. /\ task[t] \in TaskType /\ task[t].pc = "add_goal_read" /\ task[t].op = "check"
      /\ task[t].s \in Loaded /\ HasRead(task[t])
  BY CallKnown DEF AddGoalRead, TaskOK, Checking
<1>. DEFINE k == KeyOf[task[t].s]
            y == [task[t] EXCEPT !.pc = "add_goal_write", !.key = k, !.snap = goals[k]]
<1>2. /\ y.pc = "add_goal_write" /\ y.op = "check" /\ y.s = task[t].s /\ y.r = task[t].r
      /\ y.snap = goals[y.key]
  BY <1>1 DEF TaskType
<1>3. Become(t, y) /\ UNCHANGED <<loaded, content, redis, goals>>
  BY DEF AddGoalRead
<1>. HIDE DEF y
<1>4. FoundAll(y)
  BY <1>2 DEF FoundAll
<1>5. HasRead(y)
  BY <1>1, <1>2 DEF HasRead, Resolving
<1>6. StillCancels(task[t], y) /\ Carried(task[t], y)
  BY <1>1 DEF StillCancels, Carried, Cancels
<1>. QED BY <1>1, <1>2, <1>3, <1>4, <1>5, <1>6, QuietSerial

\* A request in Redis with an auto-goal has its session loaded: with nothing
\* loaded no request has one.
LEMMA NothingLoaded ==
  ASSUME IInv, SerialInv, loaded = <<>>, NEW r \in Requests, Live(r)
  PROVE  GoalOf(r) = None
  BY DEF SerialInv, GoalsFollow, Loaded

LEMMA UpdateApprovalSerial ==
  ASSUME Serial, IInv, SerialInv, NEW t \in Tasks, NEW r \in Requests, NEW d \in Decisions,
         UpdateApproval(t, r, d)
  PROVE  SerialInv'
<1>. DEFINE k == IF loaded = <<>> THEN None ELSE KeyOf[loaded[1]]
            y == [Idle EXCEPT !.pc = "write", !.op = "resolve", !.r = r, !.st = d, !.key = k]
<1>1. /\ y.pc = "write" /\ y.op = "resolve" /\ y.r = r /\ y.key = k
      /\ task[t].pc = "idle" /\ Live(r)
  BY DEF Idle, UpdateApproval
<1>2. Become(t, y) /\ UNCHANGED <<loaded, content, redis, goals>>
  BY DEF UpdateApproval
<1>3. k = None => GoalOf(r) = None
  <2>1. CASE loaded = <<>>
    BY <1>1, <2>1, NothingLoaded
  <2>2. CASE loaded # <<>>
    <3>1. loaded[1] \in Sessions
      BY <2>2 DEF IInv, TypeInv, TypeOK
    <3>. QED BY <2>2, <3>1, ConstantsAssumption
  <2>. QED BY <2>1, <2>2
<1>. HIDE DEF y
<1>4. FoundAll(y)
  BY <1>1 DEF FoundAll
<1>5. HasRead(y)
  BY <1>1, <1>3 DEF HasRead, Resolving
<1>6. StillCancels(task[t], y) /\ Carried(task[t], y)
  BY <1>1 DEF StillCancels, Carried, Cancels, Resolving
<1>. QED BY <1>1, <1>2, <1>4, <1>5, <1>6, QuietSerial

\* The goal list of the one session key there is.
LEMMA OneKeyGoal ==
  ASSUME Serial, IInv, NEW r \in Requests, content[r] # None, NEW k \in Keys
  PROVE  KeyOf[content[r].s] = k /\ GoalOf(r) = goals[k][r]
  BY ConstantsAssumption DEF Serial, GoalOf, IInv, TypeInv, TypeOK

\* The call that resolves a goal moves on, its decision having arrived.
LEMMA AfterGoalKnown ==
  ASSUME NEW x \in TaskType, x.pc \in {"goal_read", "goal_write"},
         x.op \in {"resolve", "end"}
  PROVE  LET y == IF x.op = "end"
                  THEN [x EXCEPT !.pc = "cancel", !.r = None, !.st = None,
                                 !.key = None, !.snap = NoGoals]
                  ELSE Idle
         IN  /\ y.op # "check" /\ FoundAll(y) /\ StillCancels(x, y)
             /\ y.op = "end" => x.op = "end" /\ y.s = x.s
             /\ y.pc \in {"cancel", "idle"} /\ y.r = None
<1>1. CASE x.op = "end"
  <2>. DEFINE y == [x EXCEPT !.pc = "cancel", !.r = None, !.st = None,
                             !.key = None, !.snap = NoGoals]
  <2>1. y.op = "end" /\ y.s = x.s /\ y.pc = "cancel" /\ y.r = None /\ y.todo = x.todo
    BY <1>1 DEF TaskType
  <2>. HIDE DEF y
  <2>2. FoundAll(y) /\ StillCancels(x, y)
    BY <1>1, <2>1 DEF FoundAll, StillCancels, Cancels
  <2>. QED BY <1>1, <2>1, <2>2 DEF y
<1>2. CASE x.op = "resolve"
  BY <1>2 DEF Idle, FoundAll, StillCancels, Cancels
<1>. QED BY <1>1, <1>2

LEMMA GoalReadSerial ==
  ASSUME Serial, IInv, SerialInv, NEW t \in Tasks, GoalRead(t)
  PROVE  SerialInv'
<1>1. /\ task[t] \in TaskType /\ task[t].pc = "goal_read" /\ task[t].op \in {"resolve", "end"}
      /\ task[t].r \in Requests /\ task[t].key \in Keys /\ HasRead(task[t])
      /\ content[task[t].r] # None
  BY CallKnown DEF GoalRead, TaskOK, HasRead, Resolving, Knows
<1>2. UNCHANGED <<loaded, content, redis, goals>>
  BY DEF GoalRead
<1>3. ASSUME goals[task[t].key][task[t].r] = None, AfterGoal(t)
      PROVE  SerialInv'
  <2>. DEFINE y == IF task[t].op = "end"
                   THEN [task[t] EXCEPT !.pc = "cancel", !.r = None, !.st = None,
                                        !.key = None, !.snap = NoGoals]
                   ELSE Idle
  <2>1. /\ y.op # "check" /\ FoundAll(y) /\ StillCancels(task[t], y)
        /\ y.op = "end" => task[t].op = "end" /\ y.s = task[t].s
        /\ y.pc \in {"cancel", "idle"}
    BY <1>1, AfterGoalKnown
  <2>2. Become(t, y)
    BY <1>3 DEF AfterGoal
  <2>3. GoalOf(task[t].r) = None
    BY <1>1, <1>3, OneKeyGoal
  <2>. HIDE DEF y
  <2>4. HasRead(y)
    BY <1>1, <2>1 DEF HasRead, Resolving
  <2>5. Carried(task[t], y)
    BY <2>3 DEF Carried
  <2>. QED BY <1>2, <2>1, <2>2, <2>4, <2>5, QuietSerial
<1>4. ASSUME Become(t, [task[t] EXCEPT !.pc = "goal_write", !.snap = goals[task[t].key]])
      PROVE  SerialInv'
  <2>. DEFINE y == [task[t] EXCEPT !.pc = "goal_write", !.snap = goals[task[t].key]]
  <2>1. /\ y.pc = "goal_write" /\ y.op = task[t].op /\ y.s = task[t].s /\ y.r = task[t].r
        /\ y.st = task[t].st /\ y.snap = goals[y.key] /\ y.todo = task[t].todo
        /\ y.key = task[t].key
    BY <1>1 DEF TaskType
  <2>. HIDE DEF y
  <2>2. FoundAll(y)
    BY <2>1 DEF FoundAll
  <2>3. HasRead(y)
    BY <1>1, <2>1 DEF HasRead, Resolving
  <2>4. StillCancels(task[t], y) /\ Carried(task[t], y)
    BY <1>1, <2>1 DEF StillCancels, Carried, Cancels, Resolving
  <2>5. y.op # "check"
    BY <1>1, <2>1
  <2>6. Become(t, y)
    BY <1>4 DEF y
  <2>. QED BY <1>2, <2>2, <2>3, <2>4, <2>5, <2>6, QuietSerial
<1>5. CASE goals[task[t].key][task[t].r] = None
  BY <1>3, <1>5 DEF GoalRead
<1>6. CASE goals[task[t].key][task[t].r] # None
  BY <1>4, <1>6 DEF GoalRead
<1>. QED BY <1>5, <1>6

LEMMA SessionEndSerial ==
  ASSUME Serial, IInv, SerialInv, NEW t \in Tasks, NEW s \in Sessions, SessionEnd(t, s)
  PROVE  SerialInv'
<1>. DEFINE y == [Idle EXCEPT !.op = "end", !.s = s, !.snap = goals[KeyOf[s]],
                    !.pc = IF goals[KeyOf[s]] = NoGoals THEN "unload" ELSE "flush"]
<1>1. /\ y.op = "end" /\ y.s = s
      /\ y.pc = IF goals[KeyOf[s]] = NoGoals THEN "unload" ELSE "flush"
  BY DEF Idle
<1>2. task[t].pc = "idle" /\ Become(t, y) /\ UNCHANGED <<loaded, content, redis, goals>>
  BY DEF SessionEnd
<1>. HIDE DEF y
<1>3. FoundAll(y) /\ HasRead(y)
  BY <1>1 DEF FoundAll, HasRead, Resolving
<1>4. StillCancels(task[t], y) /\ Carried(task[t], y)
  BY <1>2 DEF StillCancels, Carried, Cancels, Resolving
<1>. QED BY <1>1, <1>2, <1>3, <1>4, QuietSerial

LEMMA CancelReadSerial ==
  ASSUME Serial, IInv, SerialInv, NEW t \in Tasks, CancelRead(t)
  PROVE  SerialInv'
<1>1. /\ task[t] \in TaskType /\ task[t].pc = "cancel" /\ task[t].op = "end"
      /\ task[t].s \in Sessions /\ HasRead(task[t])
  BY CallKnown DEF CancelRead, TaskOK
<1>2. UNCHANGED <<loaded, content, redis, goals>>
  BY DEF CancelRead
<1>3. ASSUME NEW q \in task[t].todo, Live(q),
             Become(t, [task[t] EXCEPT !.todo = @ \ {q}, !.pc = "write", !.r = q,
                                       !.st = "cancelled", !.key = KeyOf[task[t].s]])
      PROVE  SerialInv'
  <2>. DEFINE y == [task[t] EXCEPT !.todo = @ \ {q}, !.pc = "write", !.r = q,
                                   !.st = "cancelled", !.key = KeyOf[task[t].s]]
  <2>1. /\ y.pc = "write" /\ y.op = "end" /\ y.s = task[t].s /\ y.r = q
        /\ y.st = "cancelled" /\ y.key = KeyOf[task[t].s] /\ y.todo = task[t].todo \ {q}
    BY <1>1 DEF TaskType
  <2>2. y.key # None
    BY <1>1, <2>1, ConstantsAssumption
  <2>. HIDE DEF y
  <2>3. FoundAll(y)
    BY <2>1 DEF FoundAll
  <2>4. HasRead(y)
    BY <1>1, <2>1, <2>2 DEF HasRead, Resolving
  <2>5. StillCancels(task[t], y) /\ Carried(task[t], y)
    BY <1>1, <2>1 DEF StillCancels, Carried, Cancels, Resolving
  <2>6. Become(t, y)
    BY <1>3 DEF y
  <2>. QED BY <1>2, <2>1, <2>3, <2>4, <2>5, <2>6, QuietSerial
<1>4. ASSUME NEW q \in task[t].todo, ~Live(q), Become(t, [task[t] EXCEPT !.todo = @ \ {q}])
      PROVE  SerialInv'
  <2>. DEFINE y == [task[t] EXCEPT !.todo = @ \ {q}]
  <2>1. /\ y.pc = "cancel" /\ y.op = "end" /\ y.s = task[t].s
        /\ y.todo = task[t].todo \ {q} /\ q \in Requests
    BY <1>1 DEF TaskType
  <2>2. status[q] # "pending"
    BY <1>4, <2>1, PendingIsFiled
  <2>. HIDE DEF y
  <2>3. FoundAll(y)
    BY <2>1 DEF FoundAll
  <2>4. HasRead(y)
    BY <1>1, <2>1 DEF HasRead, Resolving
  <2>5. StillCancels(task[t], y) /\ Carried(task[t], y)
    BY <1>1, <2>1, <2>2 DEF StillCancels, Carried, Cancels, Resolving
  <2>6. Become(t, y)
    BY <1>4 DEF y
  <2>. QED BY <1>2, <2>1, <2>3, <2>4, <2>5, <2>6, QuietSerial
<1>5. PICK q \in task[t].todo :
        Become(t, IF Live(q)
                  THEN [task[t] EXCEPT !.todo = @ \ {q}, !.pc = "write", !.r = q,
                                       !.st = "cancelled", !.key = KeyOf[task[t].s]]
                  ELSE [task[t] EXCEPT !.todo = @ \ {q}])
  BY <1>1 DEF CancelRead, TaskType
<1>. QED BY <1>3, <1>4, <1>5

LEMMA SweepRouteSerial ==
  ASSUME Serial, IInv, SerialInv, NEW t \in Tasks, NEW s \in Sessions, SweepRoute(t, s)
  PROVE  SerialInv'
<1>. DEFINE o == IF {q \in index[s] : status[q] = "pending"} = {} THEN None ELSE "error"
            y == [Idle EXCEPT !.pc = "done", !.op = "sweep_route", !.s = s, !.out = o]
<1>1. y.pc = "done" /\ y.op = "sweep_route"
  BY DEF Idle
<1>2. task[t].pc = "idle" /\ Become(t, y) /\ UNCHANGED <<loaded, content, redis, goals>>
  BY DEF SweepRoute
<1>. HIDE DEF y
<1>3. FoundAll(y) /\ HasRead(y)
  BY <1>1, NothingKnown
<1>4. StillCancels(task[t], y) /\ Carried(task[t], y)
  BY <1>2 DEF StillCancels, Carried, Cancels, Resolving
<1>. QED BY <1>1, <1>2, <1>3, <1>4, QuietSerial

\* A check marks a request of its session timed out, the only one of that action.
LEMMA TimeOutSerial ==
  ASSUME Serial, IInv, SerialInv, NEW t \in Tasks, NEW y, Become(t, y),
         NEW q \in Requests, TimeOut(q), UNCHANGED <<loaded, content, goals>>,
         task[t].op = "check", task[t].s \in Loaded, content[q] # None,
         content[q].s = task[t].s, \A r \in Matching(task[t].s, content[q].a) : r = q,
         y.op = "check", y.s = task[t].s, FoundAll(y)', HasRead(y)'
  PROVE  SerialInv'
<1>1. \A u \in Tasks : u = t /\ task'[u] = y
  BY TaskAlone DEF IInv
<1>2. /\ index' = index /\ Loaded' = Loaded /\ \A r \in Requests : GoalOf(r)' = GoalOf(r)
      /\ \A r \in Requests : status'[r] = IF r = q THEN "timed_out" ELSE status[r]
  BY DEF TimeOut, Loaded, GoalOf, IInv, TypeInv, TypeOK
<1>3. OneEach'
  <2>1. ASSUME NEW s \in Sessions, NEW p \in index[s], NEW r \in index[s],
               Live(p)', Live(r)', content[p] = content[r]
        PROVE  p = r
    <3>1. p \in Requests /\ r \in Requests /\ content[p].s = s /\ content[r].s = s
      BY DEF IInv, Filed, TypeInv, TypeOK
    <3>2. p # q => Live(p)
      BY <1>2, <2>1, <3>1 DEF Live
    <3>3. r # q => Live(r)
      BY <1>2, <2>1, <3>1 DEF Live
    <3>4. CASE p = q
      BY <2>1, <3>1, <3>3, <3>4 DEF Matching
    <3>5. CASE r = q
      BY <2>1, <3>1, <3>2, <3>5 DEF Matching
    <3>6. CASE p # q /\ r # q
      BY <2>1, <3>2, <3>3, <3>6 DEF SerialInv, OneEach
    <3>. QED BY <3>4, <3>5, <3>6
  <2>2. \A u \in Tasks : FoundAll(task[u])'
    BY <1>1
  <2>. QED BY <1>2, <2>1, <2>2 DEF OneEach
<1>4. Attended'
  <2>1. \A r \in Requests : status'[r] = "pending" => content'[r].s \in Loaded'
    BY <1>1, <1>2 DEF SerialInv, Attended, Cancels
  <2>2. \A u \in Tasks : task'[u].op = "check" => task'[u].s \in Loaded'
    BY <1>1, <1>2
  <2>. QED BY <2>1, <2>2 DEF Attended, SerialInv
<1>5. GoalsFollow'
  <2>1. \A u \in Tasks : HasRead(task[u])'
    BY <1>1
  <2>2. task[t].pc \notin {"goal_read", "goal_write"}
    BY CallKnown DEF HasRead, Resolving
  <2>3. ASSUME NEW r \in Requests
        PROVE  /\ Live(r)' /\ GoalOf(r)' # None => content'[r].s \in Loaded'
               /\ status'[r] \in Decisions => GoalOf(r)' \in {None, ResolvedGoal(status'[r])}
    <3>1. CASE r = q
      BY <1>2, <3>1 DEF Decisions
    <3>2. CASE r # q
      BY <1>1, <1>2, <2>2, <3>2 DEF SerialInv, GoalsFollow, Live
    <3>. QED BY <3>1, <3>2
  <2>. QED BY <2>1, <2>3 DEF GoalsFollow
<1>. QED BY <1>3, <1>4, <1>5 DEF SerialInv

LEMMA CheckTimeoutWriteSerial ==
  ASSUME Serial, IInv, SerialInv, NEW t \in Tasks, CheckTimeoutWrite(t)
  PROVE  SerialInv'
<1>1. /\ task[t] \in TaskType /\ task[t].pc = "timeout_write" /\ task[t].op = "check"
      /\ task[t].s \in Loaded /\ task[t].r \in Requests /\ FoundAll(task[t])
      /\ content[task[t].r] = [s |-> task[t].s, a |-> task[t].a]
  BY CallKnown DEF CheckTimeoutWrite, TaskOK, Checking, Knows
<1>. PICK y : y = [task[t] EXCEPT !.pc = "done", !.r = task[t].r, !.st = "timed_out",
                    !.out = OutcomeOf("timed_out"), !.snap = NoGoals]
  OBVIOUS
<1>2. y.pc = "done" /\ y.op = "check" /\ y.s = task[t].s
  BY <1>1 DEF TaskType
<1>3. Become(t, y) /\ TimeOut(task[t].r) /\ UNCHANGED <<loaded, content, goals>>
  BY DEF CheckTimeoutWrite, Answer
<1>4. FoundAll(y)' /\ HasRead(y)'
  BY <1>2 DEF FoundAll, HasRead, Resolving
<1>5. content[task[t].r] # None
  BY <1>1, ReferredHasContent DEF IInv, RefersTo, Checking
<1>6. content[task[t].r].a = task[t].a /\ content[task[t].r].s = task[t].s
  BY <1>1
<1>7. \A r \in Matching(task[t].s, content[task[t].r].a) : r = task[t].r
  BY <1>1, <1>6 DEF FoundAll
<1>. QED BY <1>1, <1>2, <1>3, <1>4, <1>5, <1>6, <1>7, TimeOutSerial

LEMMA SweepWriteSerial ==
  ASSUME Serial, IInv, SerialInv, NEW t \in Tasks, SweepWrite(t)
  PROVE  SerialInv'
<1>1. /\ task[t] \in TaskType /\ task[t].pc = "sweep_write" /\ task[t].op = "check"
      /\ task[t].s \in Loaded /\ task[t].q \in Requests /\ FoundAll(task[t])
      /\ task[t].s \in Sessions
  BY CallKnown DEF SweepWrite, TaskOK, Checking
<1>. PICK y : y = [task[t] EXCEPT !.pc = "sweep", !.q = None, !.todo = @ \ {task[t].q}]
  OBVIOUS
<1>2. /\ y.pc = "sweep" /\ y.op = "check" /\ y.s = task[t].s /\ y.a = task[t].a
      /\ y.todo = task[t].todo \ {task[t].q}
  BY <1>1 DEF TaskType
<1>3. Become(t, y) /\ TimeOut(task[t].q) /\ UNCHANGED <<loaded, content, goals>>
  BY DEF SweepWrite
<1>4. /\ task[t].q \in task[t].todo /\ content[task[t].q] # None
      /\ content[task[t].q].s = task[t].s /\ content[task[t].q].a # task[t].a
      /\ \A r \in Matching(task[t].s, content[task[t].q].a) : r = task[t].q
      /\ Matching(task[t].s, task[t].a) = {}
  BY <1>1 DEF FoundAll
<1>5. Matching(y.s, y.a)' = {}
  <2>1. ASSUME NEW r \in index[task[t].s], status'[r] # None, content[r].a = task[t].a
        PROVE  FALSE
    <3>1. r # task[t].q /\ r \in Requests
      BY <1>1, <1>4, <2>1 DEF IInv, TypeInv, TypeOK
    <3>2. status'[r] = status[r]
      BY <1>3, <3>1 DEF TimeOut, IInv, TypeInv, TypeOK
    <3>. QED BY <1>4, <2>1, <3>2 DEF Matching, Live
  <2>. QED BY <1>2, <1>3, <2>1 DEF Matching, Live, TimeOut
<1>6. FoundAll(y)'
  BY <1>1, <1>2, <1>3, <1>5 DEF FoundAll
<1>7. HasRead(y)'
  BY <1>2 DEF HasRead, Resolving
<1>. QED BY <1>1, <1>2, <1>3, <1>4, <1>6, <1>7, TimeOutSerial

LEMMA AllocateSerial ==
  ASSUME Serial, IInv, SerialInv, NEW t \in Tasks, Allocate(t)
  PROVE  SerialInv'
<1>1. /\ task[t] \in TaskType /\ task[t].pc = "allocate" /\ task[t].op = "check"
      /\ task[t].s \in Loaded /\ task[t].s \in Sessions /\ task[t].a \in Actions
      /\ Matching(task[t].s, task[t].a) = {}
  BY CallKnown DEF Allocate, TaskOK, Checking, FoundAll
<1>2. PICK r \in Unused :
        /\ content' = [content EXCEPT ![r] = [s |-> task[t].s, a |-> task[t].a]]
        /\ Become(t, [task[t] EXCEPT !.pc = "sweep", !.r = r,
                        !.todo = {q \in index[task[t].s] : status[q] = "pending"}])
  BY DEF Allocate
<1>3. PICK y : y = [task[t] EXCEPT !.pc = "sweep", !.r = r,
                      !.todo = {q \in index[task[t].s] : status[q] = "pending"}]
  OBVIOUS
<1>4. /\ y.pc = "sweep" /\ y.op = "check" /\ y.s = task[t].s /\ y.a = task[t].a
      /\ y.todo = {q \in index[task[t].s] : status[q] = "pending"} /\ y.r = r
  BY <1>1, <1>3 DEF TaskType
<1>5. Become(t, y) /\ UNCHANGED <<loaded, status, index, goals>>
  BY <1>2, <1>3 DEF Allocate, redis
<1>6. \A u \in Tasks : u = t /\ task'[u] = y
  BY <1>5, TaskAlone DEF IInv
<1>7. r \in Requests /\ status[r] = None /\ \A s \in Sessions : r \notin index[s]
  BY DEF Unused, IInv, Filed, Live
<1>8. \A q \in Requests : q # r => content'[q] = content[q] /\ GoalOf(q)' = GoalOf(q)
  BY <1>2, <1>5 DEF GoalOf, IInv, TypeInv, TypeOK
<1>9. \A s \in Sessions : \A q \in index[s] :
         q \in Requests /\ q # r /\ content'[q] = content[q] /\ content[q] # None /\ content[q].s = s
  BY <1>7, <1>8 DEF IInv, Filed, TypeInv, TypeOK
<1>. QED
  <2>1. OneEach'
    <3>1. FoundAll(y)'
      <4>1. Matching(y.s, y.a)' = {}
        BY <1>1, <1>4, <1>5, <1>9 DEF Matching, Live
      <4>2. ASSUME NEW q \in y.todo
            PROVE  content'[q] # None /\ content'[q].s = y.s /\ content'[q].a # y.a
        <5>1. q \in index[task[t].s] /\ status[q] = "pending"
          BY <1>4, <4>2
        <5>2. Live(q)
          BY <1>9, <5>1, <1>1, PendingIsFiled
        <5>3. content[q].a # task[t].a
          BY <1>1, <5>1, <5>2 DEF Matching
        <5>. QED BY <1>1, <1>4, <1>9, <5>1, <5>3
      <4>. QED BY <1>4, <4>1, <4>2 DEF FoundAll
    <3>2. \A u \in Tasks : FoundAll(task[u])'
      BY <1>6, <3>1
    <3>3. \A s \in Sessions : \A p, q \in index'[s] :
            Live(p)' /\ Live(q)' /\ content'[p] = content'[q] => p = q
      BY <1>5, <1>9 DEF SerialInv, OneEach, Live
    <3>. QED BY <3>2, <3>3 DEF OneEach
  <2>2. Attended'
    <3>1. \A u \in Tasks : task'[u].op = "check" => task'[u].s \in Loaded'
      BY <1>1, <1>4, <1>5, <1>6 DEF Loaded
    <3>2. ASSUME NEW q \in Requests, status'[q] = "pending"
          PROVE  content'[q].s \in Loaded'
      <4>1. q # r
        BY <1>5, <1>7, <3>2, ConstantsAssumption DEF Statuses
      <4>2. content[q].s \in Loaded \/ \E u \in Tasks : Cancels(task[u], q)
        BY <1>5, <3>2 DEF SerialInv, Attended
      <4>3. \A u \in Tasks : ~Cancels(task[u], q)
        BY <1>1, <1>6 DEF Cancels
      <4>. QED BY <1>5, <1>8, <4>1, <4>2, <4>3 DEF Loaded
    <3>. QED BY <1>5, <3>1, <3>2 DEF Attended, SerialInv
  <2>3. GoalsFollow'
    <3>1. HasRead(y)'
      BY <1>4 DEF HasRead, Resolving
    <3>2. \A u \in Tasks : HasRead(task[u])'
      BY <1>6, <3>1
    <3>3. ASSUME NEW q \in Requests
          PROVE  /\ Live(q)' /\ GoalOf(q)' # None => content'[q].s \in Loaded'
                 /\ status'[q] \in Decisions => GoalOf(q)' \in {None, ResolvedGoal(status'[q])}
      <4>1. CASE q = r
        BY <1>5, <1>7, <4>1, ConstantsAssumption DEF Live, Decisions, Statuses
      <4>2. CASE q # r
        BY <1>1, <1>5, <1>6, <1>8, <4>2 DEF SerialInv, GoalsFollow, Live, Loaded
      <4>. QED BY <4>1, <4>2
    <3>. QED BY <3>2, <3>3 DEF GoalsFollow
  <2>. QED BY <2>1, <2>2, <2>3 DEF SerialInv

LEMMA StoreSerial ==
  ASSUME Serial, IInv, SerialInv, NEW t \in Tasks, Store(t)
  PROVE  SerialInv'
<1>1. /\ task[t] \in TaskType /\ task[t].pc = "sweep" /\ task[t].op = "check"
      /\ task[t].s \in Loaded /\ task[t].s \in Sessions /\ task[t].r \in Requests
      /\ Matching(task[t].s, task[t].a) = {}
      /\ content[task[t].r] = [s |-> task[t].s, a |-> task[t].a]
  BY CallKnown DEF Store, TaskOK, Checking, FoundAll, Knows
<1>2. PICK y : y = [task[t] EXCEPT !.pc = "add_goal_read"]
  OBVIOUS
<1>3. y.pc = "add_goal_read" /\ y.op = "check" /\ y.s = task[t].s /\ y.r = task[t].r
  BY <1>1, <1>2 DEF TaskType
<1>4. Become(t, y) /\ UNCHANGED <<loaded, content, goals>>
  BY <1>2 DEF Store
<1>5. \A u \in Tasks : u = t /\ task'[u] = y
  BY <1>4, TaskAlone DEF IInv
<1>6. /\ \A q \in Requests : status'[q] = IF q = task[t].r THEN "pending" ELSE status[q]
      /\ \A s \in Sessions :
           index'[s] = IF s = task[t].s THEN index[s] \cup {task[t].r} ELSE index[s]
  BY <1>1 DEF Store, IInv, TypeInv, TypeOK
<1>7. Loaded' = Loaded /\ \A r \in Requests : GoalOf(r)' = GoalOf(r)
  BY <1>4 DEF Loaded, GoalOf
<1>8. content[task[t].r].s = task[t].s /\ content[task[t].r].a = task[t].a
  BY <1>1
<1>9. OneEach'
  <2>1. ASSUME NEW s \in Sessions, NEW p \in index'[s], NEW q \in index'[s],
               Live(p)', Live(q)', content[p] = content[q]
        PROVE  p = q
    <3>1. ASSUME NEW x \in index'[s], x # task[t].r, Live(x)'
          PROVE  x \in index[s] /\ Live(x) /\ x \in Requests /\ content[x].s = s
      <4>1. x \in index[s]
        BY <1>6, <3>1
      <4>2. x \in Requests /\ content[x].s = s
        BY <4>1 DEF IInv, Filed, TypeInv, TypeOK
      <4>. QED BY <1>6, <3>1, <4>1, <4>2 DEF Live
    <3>2. ASSUME NEW x \in index'[s], x # task[t].r, Live(x)', content[x] = content[task[t].r]
          PROVE  FALSE
      <4>1. x \in index[s] /\ Live(x) /\ content[x].s = s
        BY <3>1, <3>2
      <4>2. content[x].s = task[t].s /\ content[x].a = task[t].a
        BY <1>8, <3>2
      <4>3. x \in Matching(task[t].s, task[t].a)
        BY <4>1, <4>2 DEF Matching
      <4>. QED BY <1>1, <4>3
    <3>3. CASE p = task[t].r
      BY <2>1, <3>2, <3>3
    <3>4. CASE q = task[t].r
      BY <2>1, <3>2, <3>4
    <3>5. CASE p # task[t].r /\ q # task[t].r
      BY <2>1, <3>1, <3>5 DEF SerialInv, OneEach
    <3>. QED BY <3>3, <3>4, <3>5
  <2>2. FoundAll(y)'
    BY <1>3 DEF FoundAll
  <2>3. \A u \in Tasks : FoundAll(task[u])'
    BY <1>5, <2>2
  <2>. QED BY <1>4, <2>1, <2>3 DEF OneEach
<1>10. Attended'
  <2>1. \A u \in Tasks : task'[u].op = "check" => task'[u].s \in Loaded'
    BY <1>1, <1>3, <1>5, <1>7
  <2>2. ASSUME NEW q \in Requests, status'[q] = "pending"
        PROVE  content[q].s \in Loaded
    <3>1. CASE q = task[t].r
      BY <1>1, <1>8, <3>1
    <3>2. CASE q # task[t].r
      <4>1. content[q].s \in Loaded \/ \E u \in Tasks : Cancels(task[u], q)
        BY <1>6, <2>2, <3>2 DEF SerialInv, Attended
      <4>. QED BY <1>1, <1>5, <4>1 DEF Cancels
    <3>. QED BY <3>1, <3>2
  <2>. QED BY <1>4, <1>7, <2>1, <2>2 DEF Attended, SerialInv
<1>11. GoalsFollow'
  <2>1. HasRead(y)'
    BY <1>1, <1>3, <1>6 DEF HasRead, Resolving
  <2>2. \A u \in Tasks : HasRead(task[u])'
    BY <1>5, <2>1
  <2>3. ASSUME NEW q \in Requests
        PROVE  /\ Live(q)' /\ GoalOf(q)' # None => content'[q].s \in Loaded'
               /\ status'[q] \in Decisions => GoalOf(q)' \in {None, ResolvedGoal(status'[q])}
    <3>1. CASE q = task[t].r
      BY <1>1, <1>4, <1>6, <1>7, <1>8, <3>1 DEF Decisions
    <3>2. CASE q # task[t].r
      BY <1>1, <1>4, <1>5, <1>6, <1>7, <3>2 DEF SerialInv, GoalsFollow, Live
    <3>. QED BY <3>1, <3>2
  <2>. QED BY <2>2, <2>3 DEF GoalsFollow
<1>. QED BY <1>9, <1>10, <1>11 DEF SerialInv

LEMMA AddGoalWriteSerial ==
  ASSUME Serial, IInv, SerialInv, NEW t \in Tasks, AddGoalWrite(t)
  PROVE  SerialInv'
<1>1. /\ task[t] \in TaskType /\ task[t].pc = "add_goal_write" /\ task[t].op = "check"
      /\ task[t].s \in Loaded /\ task[t].r \in Requests /\ task[t].key \in Keys
      /\ content[task[t].r] = [s |-> task[t].s, a |-> task[t].a]
      /\ task[t].snap = goals[task[t].key] /\ status[task[t].r] \in {"pending", None}
  BY CallKnown DEF AddGoalWrite, TaskOK, Checking, HasRead, Knows
<1>2. PICK y : y = [task[t] EXCEPT !.pc = "done", !.r = task[t].r, !.st = "pending",
                      !.out = OutcomeOf("pending"), !.snap = NoGoals]
  OBVIOUS
<1>3. y.pc = "done" /\ y.op = "check" /\ y.s = task[t].s
  BY <1>1, <1>2 DEF TaskType
<1>4. Become(t, y) /\ UNCHANGED <<loaded, content, status, index>> /\ Loaded' = Loaded
  BY <1>2 DEF AddGoalWrite, Answer, redis, Loaded
<1>5. \A u \in Tasks : u = t /\ task'[u] = y
  BY <1>4, TaskAlone DEF IInv
<1>6. content[task[t].r].s = task[t].s
  BY <1>1
<1>7. \A q \in Requests : content[q] # None /\ q # task[t].r => GoalOf(q)' = GoalOf(q)
  <2>1. goals' = [goals EXCEPT ![task[t].key] = [goals[task[t].key] EXCEPT ![task[t].r] = "active"]]
    BY <1>1 DEF AddGoalWrite
  <2>2. \A q \in Requests : q # task[t].r => goals'[task[t].key][q] = goals[task[t].key][q]
    BY <1>1, <2>1 DEF IInv, TypeInv, TypeOK, GoalList
  <2>. QED BY <1>1, <1>4, <2>2, OneKeyGoal DEF GoalOf
<1>8. OneEach'
  <2>1. FoundAll(y)'
    BY <1>3 DEF FoundAll
  <2>. QED BY <1>4, <1>5, <2>1 DEF OneEach, SerialInv, Live
<1>9. Attended'
  <2>1. \A u \in Tasks : task'[u].op = "check" => task'[u].s \in Loaded'
    BY <1>1, <1>3, <1>4, <1>5
  <2>2. \A q \in Requests : status[q] = "pending" => content[q].s \in Loaded
    BY <1>1, <1>5 DEF SerialInv, Attended, Cancels
  <2>. QED BY <1>4, <2>1, <2>2 DEF Attended, SerialInv
<1>10. GoalsFollow'
  <2>1. HasRead(y)'
    BY <1>3 DEF HasRead, Resolving
  <2>2. \A u \in Tasks : HasRead(task[u])'
    BY <1>5, <2>1
  <2>3. ASSUME NEW q \in Requests
        PROVE  /\ Live(q)' /\ GoalOf(q)' # None => content'[q].s \in Loaded'
               /\ status'[q] \in Decisions => GoalOf(q)' \in {None, ResolvedGoal(status'[q])}
    <3>1. CASE q = task[t].r
      BY <1>1, <1>4, <1>6, <3>1, ConstantsAssumption DEF Decisions, Statuses
    <3>2. CASE q # task[t].r
      <4>1. Live(q) => content[q] # None
        BY DEF IInv, Filed
      <4>2. status[q] \in Decisions => Live(q)
        BY ConstantsAssumption DEF Decisions, Statuses, Live
      <4>. QED BY <1>1, <1>4, <1>5, <1>7, <3>2, <4>1, <4>2 DEF SerialInv, GoalsFollow, Live
    <3>. QED BY <3>1, <3>2
  <2>. QED BY <2>2, <2>3 DEF GoalsFollow
<1>. QED BY <1>8, <1>9, <1>10 DEF SerialInv

LEMMA WriteDecisionSerial ==
  ASSUME Serial, IInv, SerialInv, NEW t \in Tasks, WriteDecision(t)
  PROVE  SerialInv'
<1>1. /\ task[t] \in TaskType /\ task[t].pc = "write" /\ task[t].op \in {"resolve", "end"}
      /\ task[t].r \in Requests /\ task[t].st \in Decisions \cup {"cancelled"}
      /\ HasRead(task[t])
  BY CallKnown DEF WriteDecision, TaskOK, HasRead, Resolving
<1>2. PICK y : y = IF task[t].key = None THEN Idle ELSE [task[t] EXCEPT !.pc = "goal_read"]
  OBVIOUS
<1>3. /\ y.op # "check"
      /\ \/ task[t].key = None /\ task[t].op = "resolve" /\ y.op = "none" /\ y.pc = "idle"
         \/ /\ y.pc = "goal_read" /\ y.op = task[t].op /\ y.s = task[t].s /\ y.r = task[t].r
            /\ y.st = task[t].st /\ y.key = task[t].key /\ y.todo = task[t].todo
            /\ y.key # None
  <2>1. CASE task[t].key = None
    BY <1>1, <1>2, <2>1 DEF Idle, HasRead, Resolving
  <2>2. CASE task[t].key # None
    BY <1>1, <1>2, <2>2 DEF TaskType
  <2>. QED BY <2>1, <2>2
<1>4. Become(t, y) /\ UNCHANGED <<loaded, content, index, goals>>
  BY <1>2 DEF WriteDecision
<1>5. \A u \in Tasks : u = t /\ task'[u] = y
  BY <1>4, TaskAlone DEF IInv
<1>6. /\ \A r \in Requests :
           status'[r] = IF r = task[t].r /\ Live(r) THEN task[t].st ELSE status[r]
      /\ \A r \in Requests : Live(r)' <=> Live(r)
  <2>1. task[t].st # None
    BY <1>1, ConstantsAssumption DEF Decisions, Statuses
  <2>2. \A r \in Requests :
          status'[r] = IF r = task[t].r /\ Live(r) THEN task[t].st ELSE status[r]
    BY <1>1 DEF WriteDecision, IInv, TypeInv, TypeOK
  <2>. QED BY <2>1, <2>2 DEF Live
<1>7. Loaded' = Loaded /\ \A r \in Requests : GoalOf(r)' = GoalOf(r)
  BY <1>4 DEF Loaded, GoalOf
<1>8. OneEach'
  <2>1. FoundAll(y)'
    BY <1>3 DEF FoundAll
  <2>2. \A s \in Sessions : index[s] \subseteq Requests
    BY DEF IInv, TypeInv, TypeOK
  <2>. QED BY <1>4, <1>5, <1>6, <2>1, <2>2 DEF OneEach, SerialInv
<1>9. Attended'
  <2>1. ASSUME NEW r \in Requests, status'[r] = "pending"
        PROVE  content[r].s \in Loaded \/ \E u \in Tasks : Cancels(task[u], r)'
    <3>1. status[r] = "pending" /\ r # task[t].r
      <4>1. CASE r = task[t].r /\ Live(r)
        BY <1>1, <1>6, <2>1, <4>1 DEF Decisions
      <4>2. CASE ~(r = task[t].r /\ Live(r))
        BY <1>6, <2>1, <4>2, ConstantsAssumption DEF Live, Statuses
      <4>. QED BY <4>1, <4>2
    <3>2. CASE content[r].s \in Loaded
      BY <3>2
    <3>3. CASE content[r].s \notin Loaded
      <4>1. Cancels(task[t], r)
        BY <1>5, <3>1, <3>3 DEF SerialInv, Attended
      <4>2. Cancels(y, r)'
        BY <1>1, <1>3, <1>4, <3>1, <4>1 DEF Cancels, Resolving
      <4>. QED BY <1>5, <4>2
    <3>. QED BY <3>2, <3>3
  <2>2. \A u \in Tasks : task'[u].op # "check"
    BY <1>3, <1>5
  <2>. QED BY <1>4, <1>7, <2>1, <2>2 DEF Attended, SerialInv
<1>10. GoalsFollow'
  <2>1. HasRead(y)'
    <3>1. CASE y.pc = "idle"
      BY <1>3, <3>1 DEF HasRead, Resolving
    <3>2. CASE y.pc = "goal_read"
      <4>1. status'[y.r] \in {y.st, None}
        BY <1>1, <1>3, <1>6, <3>2 DEF Live
      <4>. QED BY <1>1, <1>3, <1>4, <3>2, <4>1 DEF HasRead, Resolving
    <3>. QED BY <1>3, <3>1, <3>2
  <2>2. \A u \in Tasks : HasRead(task[u])'
    BY <1>5, <2>1
  <2>3. ASSUME NEW r \in Requests
        PROVE  /\ Live(r)' /\ GoalOf(r)' # None => content'[r].s \in Loaded'
               /\ status'[r] \in Decisions =>
                    \/ GoalOf(r)' \in {None, ResolvedGoal(status'[r])}
                    \/ \E u \in Tasks : task'[u].pc \in {"goal_read", "goal_write"} /\ task'[u].r = r
    <3>1. CASE r = task[t].r
      <4>1. CASE y.pc = "goal_read"
        BY <1>3, <1>4, <1>5, <1>6, <1>7, <3>1, <4>1 DEF SerialInv, GoalsFollow
      <4>2. CASE y.pc = "idle"
        <5>1. Live(r) => GoalOf(r) = None
          BY <1>1, <1>3, <3>1, <4>2 DEF HasRead
        <5>2. status'[r] \in Decisions => Live(r)
          BY <1>6, ConstantsAssumption DEF Live, Decisions, Statuses
        <5>. QED BY <1>6, <1>7, <5>1, <5>2
      <4>. QED BY <1>3, <4>1, <4>2
    <3>2. CASE r # task[t].r
      BY <1>1, <1>4, <1>5, <1>6, <1>7, <3>2 DEF SerialInv, GoalsFollow
    <3>. QED BY <3>1, <3>2
  <2>. QED BY <2>2, <2>3 DEF GoalsFollow
<1>. QED BY <1>8, <1>9, <1>10 DEF SerialInv

LEMMA GoalWriteSerial ==
  ASSUME Serial, IInv, SerialInv, NEW t \in Tasks, GoalWrite(t)
  PROVE  SerialInv'
<1>1. /\ task[t] \in TaskType /\ task[t].pc = "goal_write" /\ task[t].op \in {"resolve", "end"}
      /\ task[t].r \in Requests /\ task[t].key \in Keys /\ HasRead(task[t])
      /\ task[t].snap = goals[task[t].key] /\ task[t].snap[task[t].r] # None
      /\ content[task[t].r] # None /\ status[task[t].r] \in {task[t].st, None}
      /\ task[t].op = "end" => task[t].s \in Sessions
  BY CallKnown DEF GoalWrite, TaskOK, HasRead, Resolving, Knows
<1>2. task[t].op = "resolve"
  <2>1. task[t].op = "end" => goals[task[t].key] = NoGoals
    BY <1>1, ConstantsAssumption DEF HasRead, Serial
  <2>. QED BY <1>1, <2>1 DEF NoGoals
<1>3. Become(t, Idle) /\ UNCHANGED <<loaded, content, status, index>> /\ Loaded' = Loaded
  BY <1>2 DEF GoalWrite, AfterGoal, redis, Loaded
<1>4. \A u \in Tasks : u = t /\ task'[u] = Idle
  BY <1>3, TaskAlone DEF IInv
<1>5. Idle.pc = "idle" /\ Idle.op = "none"
  BY DEF Idle
<1>. PICK r \in Requests : r = task[t].r
  BY <1>1
<1>6. /\ GoalOf(r)' = ResolvedGoal(task[t].st) /\ GoalOf(r) # None
      /\ \A q \in Requests : content[q] # None /\ q # r => GoalOf(q)' = GoalOf(q)
  <2>1. goals' = [goals EXCEPT ![task[t].key] =
                    [goals[task[t].key] EXCEPT ![task[t].r] = ResolvedGoal(task[t].st)]]
    BY <1>1 DEF GoalWrite
  <2>2. \A q \in Requests : goals'[task[t].key][q] =
          IF q = task[t].r THEN ResolvedGoal(task[t].st) ELSE goals[task[t].key][q]
    BY <1>1, <2>1 DEF IInv, TypeInv, TypeOK, GoalList
  <2>3. \A q \in Requests : content[q] # None =>
          GoalOf(q)' = goals'[task[t].key][q] /\ GoalOf(q) = goals[task[t].key][q]
    BY <1>1, <1>3, OneKeyGoal DEF GoalOf
  <2>4. GoalOf(r)' = ResolvedGoal(task[t].st) /\ GoalOf(r) # None
    BY <1>1, <2>2, <2>3
  <2>5. \A q \in Requests : content[q] # None /\ q # r => GoalOf(q)' = GoalOf(q)
    BY <2>2, <2>3
  <2>. QED BY <2>4, <2>5
<1>7. OneEach'
  <2>1. FoundAll(Idle)'
    BY <1>5 DEF FoundAll
  <2>. QED BY <1>3, <1>4, <2>1 DEF OneEach, SerialInv, Live
<1>8. Attended'
  <2>1. \A q \in Requests : status[q] = "pending" => content[q].s \in Loaded
    BY <1>2, <1>4 DEF SerialInv, Attended, Cancels
  <2>. QED BY <1>3, <1>4, <1>5, <2>1 DEF Attended, SerialInv
<1>9. GoalsFollow'
  <2>1. HasRead(Idle)'
    BY <1>5 DEF HasRead, Resolving
  <2>2. \A u \in Tasks : HasRead(task[u])'
    BY <1>4, <2>1
  <2>3. ASSUME NEW q \in Requests
        PROVE  /\ Live(q)' /\ GoalOf(q)' # None => content'[q].s \in Loaded'
               /\ status'[q] \in Decisions => GoalOf(q)' \in {None, ResolvedGoal(status'[q])}
    <3>1. CASE q = r
      <4>1. status[q] \in Decisions => status[q] = task[t].st
        BY <1>1, <3>1, ConstantsAssumption DEF Decisions, Statuses
      <4>2. Live(q)' => content'[q].s \in Loaded'
        BY <1>3, <1>6, <3>1 DEF SerialInv, GoalsFollow, Live
      <4>3. status'[q] \in Decisions => GoalOf(q)' = ResolvedGoal(status'[q])
        BY <1>3, <1>6, <3>1, <4>1
      <4>. QED BY <4>2, <4>3
    <3>2. CASE q # r
      <4>1. Live(q) => content[q] # None
        BY DEF IInv, Filed
      <4>2. status[q] \in Decisions => Live(q)
        BY ConstantsAssumption DEF Decisions, Statuses, Live
      <4>. QED BY <1>3, <1>4, <1>6, <3>2, <4>1, <4>2 DEF SerialInv, GoalsFollow, Live
    <3>. QED BY <3>1, <3>2
  <2>. QED BY <2>2, <2>3 DEF GoalsFollow
<1>. QED BY <1>7, <1>8, <1>9 DEF SerialInv

\* Without goals under the one key, no request of a session has one.
LEMMA NoGoalsNone ==
  ASSUME Serial, IInv, NEW r \in Requests, content[r] # None, NEW k \in Keys,
         goals[k] = NoGoals
  PROVE  GoalOf(r) = None
  BY OneKeyGoal DEF NoGoals

LEMMA FlushGoalsSerial ==
  ASSUME Serial, IInv, SerialInv, NEW t \in Tasks, FlushGoals(t)
  PROVE  SerialInv'
<1>1. /\ task[t] \in TaskType /\ task[t].pc = "flush" /\ task[t].op = "end"
      /\ task[t].s \in Sessions
  BY CallKnown DEF FlushGoals, TaskOK
<1>2. PICK y : y = [task[t] EXCEPT !.pc = "unload", !.snap = NoGoals]
  OBVIOUS
<1>3. y.pc = "unload" /\ y.op = "end" /\ y.s = task[t].s
  BY <1>1, <1>2 DEF TaskType
<1>4. Become(t, y) /\ UNCHANGED <<loaded, content, status, index>> /\ Loaded' = Loaded
  BY <1>2 DEF FlushGoals, redis, Loaded
<1>5. \A u \in Tasks : u = t /\ task'[u] = y
  BY <1>4, TaskAlone DEF IInv
<1>6. KeyOf[task[t].s] \in Keys /\ goals'[KeyOf[task[t].s]] = NoGoals
  BY <1>1, ConstantsAssumption DEF FlushGoals, IInv, TypeInv, TypeOK
<1>7. \A q \in Requests : content[q] # None => GoalOf(q)' = None
  BY <1>4, <1>6, OneKeyGoal DEF GoalOf, NoGoals
<1>8. OneEach'
  <2>1. FoundAll(y)'
    BY <1>3 DEF FoundAll
  <2>. QED BY <1>4, <1>5, <2>1 DEF OneEach, SerialInv, Live
<1>9. Attended'
  <2>1. \A q \in Requests : status[q] = "pending" => content[q].s \in Loaded
    BY <1>1, <1>5 DEF SerialInv, Attended, Cancels, Resolving
  <2>. QED BY <1>3, <1>4, <1>5, <2>1 DEF Attended, SerialInv
<1>10. GoalsFollow'
  <2>1. HasRead(y)'
    BY <1>3, <1>6 DEF HasRead, Resolving
  <2>2. \A u \in Tasks : HasRead(task[u])'
    BY <1>5, <2>1
  <2>3. ASSUME NEW q \in Requests
        PROVE  /\ Live(q)' /\ GoalOf(q)' # None => content'[q].s \in Loaded'
               /\ status'[q] \in Decisions => GoalOf(q)' \in {None, ResolvedGoal(status'[q])}
    <3>1. Live(q) => content[q] # None
      BY DEF IInv, Filed
    <3>2. status[q] \in Decisions => Live(q)
      BY ConstantsAssumption DEF Decisions, Statuses, Live
    <3>. QED BY <1>4, <1>7, <3>1, <3>2 DEF Live
  <2>. QED BY <2>2, <2>3 DEF GoalsFollow
<1>. QED BY <1>8, <1>9, <1>10 DEF SerialInv

\* What Without takes out of a sequence without repetitions.
LEMMA WithoutKeeps ==
  ASSUME NEW S, NEW seq \in Seq(S), NEW i \in DOMAIN seq,
         \A j, k \in DOMAIN seq : seq[j] = seq[k] => j = k
  PROVE  LET w == Without(seq, i) IN
         /\ \A j, k \in DOMAIN w : w[j] = w[k] => j = k
         /\ {w[j] : j \in DOMAIN w} = {seq[j] : j \in DOMAIN seq} \ {seq[i]}
<1>. DEFINE w == Without(seq, i)
            n == Len(seq)
<1>1. n \in Nat /\ i \in 1..n /\ DOMAIN seq = 1..n
  BY LenProperties
<1>2. /\ SubSeq(seq, 1, i - 1) \in Seq(S) /\ Len(SubSeq(seq, 1, i - 1)) = i - 1
      /\ \A j \in 1..(i - 1) : SubSeq(seq, 1, i - 1)[j] = seq[j]
  BY <1>1, SubSeqProperties
<1>3. /\ SubSeq(seq, i + 1, n) \in Seq(S) /\ Len(SubSeq(seq, i + 1, n)) = n - i
      /\ \A j \in 1..(n - i) : SubSeq(seq, i + 1, n)[j] = seq[i + j]
  BY <1>1, SubSeqProperties
<1>4. /\ w \in Seq(S) /\ Len(w) = n - 1
      /\ \A j \in 1..(n - 1) : w[j] = IF j < i THEN seq[j] ELSE seq[j + 1]
  <2>. DEFINE before == SubSeq(seq, 1, i - 1)
              after  == SubSeq(seq, i + 1, n)
  <2>1. w = before \o after
    BY DEF Without
  <2>2. before \in Seq(S) /\ after \in Seq(S)
    BY <1>2, <1>3
  <2>. HIDE DEF w, before, after
  <2>3. /\ w \in Seq(S) /\ Len(w) = Len(before) + Len(after)
        /\ \A j \in 1..Len(w) : w[j] = IF j <= Len(before) THEN before[j]
                                      ELSE after[j - Len(before)]
    BY <2>1, <2>2, ConcatProperties
  <2>4. Len(before) = i - 1 /\ Len(after) = n - i /\ Len(w) = n - 1
    BY <1>1, <1>2, <1>3, <2>3 DEF before, after
  <2>5. ASSUME NEW j \in 1..(n - 1) PROVE w[j] = IF j < i THEN seq[j] ELSE seq[j + 1]
    <3>1. CASE j < i
      BY <1>1, <1>2, <2>3, <2>4, <3>1 DEF before
    <3>2. CASE j >= i
      <4>1. j - (i - 1) \in 1..(n - i) /\ w[j] = after[j - (i - 1)]
        BY <1>1, <2>3, <2>4, <3>2
      <4>2. after[j - (i - 1)] = seq[i + (j - (i - 1))]
        BY <1>3, <4>1 DEF after
      <4>3. i + (j - (i - 1)) = j + 1
        BY <1>1
      <4>. QED BY <1>1, <3>2, <4>1, <4>2, <4>3
    <3>. QED BY <1>1, <3>1, <3>2
  <2>. QED BY <2>3, <2>4, <2>5
<1>5. DOMAIN w = 1..(n - 1)
  BY <1>1, <1>4, LenProperties
<1>. HIDE DEF w, n
<1>6. ASSUME NEW j \in DOMAIN w, NEW k \in DOMAIN w, w[j] = w[k] PROVE j = k
  <2>. DEFINE f(m) == IF m < i THEN m ELSE m + 1
  <2>1. f(j) \in DOMAIN seq /\ f(k) \in DOMAIN seq
    BY <1>1, <1>5
  <2>2. w[j] = seq[f(j)] /\ w[k] = seq[f(k)]
    BY <1>4, <1>5
  <2>3. f(j) = f(k)
    BY <1>6, <2>1, <2>2
  <2>. QED BY <1>1, <1>5, <2>3
<1>7. ASSUME NEW j \in DOMAIN w PROVE w[j] \in {seq[k] : k \in DOMAIN seq} \ {seq[i]}
  <2>. DEFINE f(m) == IF m < i THEN m ELSE m + 1
  <2>1. f(j) \in DOMAIN seq /\ f(j) # i /\ i \in DOMAIN seq
    BY <1>1, <1>5
  <2>2. w[j] = seq[f(j)]
    BY <1>4, <1>5
  <2>. HIDE DEF f
  <2>. QED BY <2>1, <2>2
<1>8. ASSUME NEW k \in DOMAIN seq, seq[k] # seq[i] PROVE \E j \in DOMAIN w : w[j] = seq[k]
  <2>1. CASE k < i
    <3>1. k \in DOMAIN w /\ w[k] = seq[k]
      BY <1>1, <1>4, <1>5, <2>1
    <3>. QED BY <3>1
  <2>2. CASE k > i
    <3>1. k - 1 \in DOMAIN w /\ w[k - 1] = seq[k]
      BY <1>1, <1>4, <1>5, <2>2
    <3>. QED BY <3>1
  <2>. QED BY <1>1, <1>8, <2>1, <2>2
<1>. QED BY <1>6, <1>7, <1>8 DEF w

LEMMA UnloadSessionSerial ==
  ASSUME Serial, IInv, SerialInv, NEW t \in Tasks, UnloadSession(t)
  PROVE  SerialInv'
<1>1. /\ task[t] \in TaskType /\ task[t].pc = "unload" /\ task[t].op = "end"
      /\ task[t].s \in Sessions /\ KeyOf[task[t].s] \in Keys
      /\ goals[KeyOf[task[t].s]] = NoGoals
  BY CallKnown, ConstantsAssumption DEF UnloadSession, TaskOK, HasRead
<1>2. UNCHANGED <<content, redis, goals>>
  BY DEF UnloadSession
<1>3. CASE task[t].s \notin Loaded
  <2>1. Become(t, Idle) /\ UNCHANGED loaded
    BY <1>3 DEF UnloadSession
  <2>2. StillCancels(task[t], Idle) /\ Carried(task[t], Idle)
    BY <1>1 DEF StillCancels, Carried, Cancels, Resolving
  <2>. QED BY <1>2, <2>1, <2>2, EndsSerial
<1>4. CASE task[t].s \in Loaded
  <2>1. PICK y : y = [task[t] EXCEPT !.pc = "cancel",
                        !.todo = {q \in index[task[t].s] : status[q] = "pending"}]
    OBVIOUS
  <2>2. /\ y.pc = "cancel" /\ y.op = "end" /\ y.s = task[t].s
        /\ y.todo = {q \in index[task[t].s] : status[q] = "pending"}
    BY <1>1, <2>1 DEF TaskType
  <2>3. Become(t, y) /\ UNCHANGED <<content, status, index, goals>>
    BY <1>2, <1>4, <2>1 DEF UnloadSession, redis
  <2>4. PICK i \in DOMAIN loaded : loaded[i] = task[t].s /\ loaded' = Without(loaded, i)
    BY <1>4 DEF UnloadSession
  <2>5. \A u \in Tasks : u = t /\ task'[u] = y
    BY <2>3, TaskAlone DEF IInv
  <2>6. /\ \A j, k \in DOMAIN loaded' : loaded'[j] = loaded'[k] => j = k
        /\ Loaded' = Loaded \ {task[t].s}
    <3>1. loaded \in Seq(Sessions) /\ \A j, k \in DOMAIN loaded : loaded[j] = loaded[k] => j = k
      BY DEF SerialInv, Attended, IInv, TypeInv, TypeOK
    <3>2. /\ \A j, k \in DOMAIN Without(loaded, i) :
               Without(loaded, i)[j] = Without(loaded, i)[k] => j = k
          /\ {Without(loaded, i)[j] : j \in DOMAIN Without(loaded, i)} = Loaded \ {loaded[i]}
      BY <3>1, WithoutKeeps DEF Loaded
    <3>. QED BY <2>4, <3>2 DEF Loaded
  <2>7. OneEach'
    <3>1. FoundAll(y)'
      BY <2>2 DEF FoundAll
    <3>. QED BY <2>3, <2>5, <3>1 DEF OneEach, SerialInv, Live
  <2>8. Attended'
    <3>1. ASSUME NEW r \in Requests, status[r] = "pending"
          PROVE  content[r].s \in Loaded' \/ \E u \in Tasks : Cancels(task[u], r)'
      <4>1. content[r].s \in Loaded
        BY <1>1, <2>5, <3>1 DEF SerialInv, Attended, Cancels, Resolving
      <4>2. CASE content[r].s = task[t].s
        <5>1. r \in index[task[t].s]
          BY <3>1, <4>2, PendingIsFiled
        <5>2. Cancels(y, r)'
          BY <2>2, <2>3, <3>1, <4>2, <5>1 DEF Cancels
        <5>. QED BY <2>5, <5>2
      <4>. QED BY <2>6, <4>1, <4>2
    <3>. QED BY <2>2, <2>3, <2>5, <2>6, <3>1 DEF Attended
  <2>9. GoalsFollow'
    <3>1. HasRead(y)'
      BY <1>1, <2>2, <2>3 DEF HasRead, Resolving
    <3>2. \A u \in Tasks : HasRead(task[u])'
      BY <2>5, <3>1
    <3>3. ASSUME NEW q \in Requests
          PROVE  /\ Live(q)' /\ GoalOf(q)' # None => content'[q].s \in Loaded'
                 /\ status'[q] \in Decisions => GoalOf(q)' \in {None, ResolvedGoal(status'[q])}
      <4>1. Live(q) => content[q] # None
        BY DEF IInv, Filed
      <4>2. status[q] \in Decisions => Live(q)
        BY ConstantsAssumption DEF Decisions, Statuses, Live
      <4>3. Live(q) => GoalOf(q) = None
        BY <1>1, <4>1, NoGoalsNone
      <4>. QED BY <2>3, <4>2, <4>3 DEF GoalOf, Live
    <3>. QED BY <3>2, <3>3 DEF GoalsFollow
  <2>. QED BY <2>7, <2>8, <2>9 DEF SerialInv
<1>. QED BY <1>3, <1>4

LEMMA LoadSessionRulesSerial ==
  ASSUME IInv, SerialInv, NEW s \in Sessions, LoadSessionRules(s)
  PROVE  SerialInv'
<1>1. UNCHANGED <<content, status, index, goals, task>>
  BY DEF LoadSessionRules, redis
<1>2. PICK kept \in EvictStaleSessions :
        loaded' = IF \E i \in DOMAIN kept : kept[i] = s THEN kept ELSE Append(kept, s)
  BY DEF LoadSessionRules
<1>. DEFINE Held == {kept[i] : i \in DOMAIN kept}
<1>3. /\ kept \in Seq(Sessions) /\ \A i, j \in DOMAIN kept : kept[i] = kept[j] => i = j
      /\ \A x \in Loaded : ~Stale(x) => x \in Held
  <2>1. loaded \in Seq(Sessions) /\ \A j, k \in DOMAIN loaded : loaded[j] = loaded[k] => j = k
    BY DEF SerialInv, Attended, IInv, TypeInv, TypeOK
  <2>2. CASE kept = loaded
    BY <2>1, <2>2 DEF Loaded
  <2>3. ASSUME NEW i \in DOMAIN loaded, Stale(loaded[i]), kept = Without(loaded, i)
        PROVE  <1>3!:
    <3>1. kept \in Seq(Sessions)
      BY <2>1, <2>3, WithoutType
    <3>2. /\ \A j, k \in DOMAIN kept : kept[j] = kept[k] => j = k
          /\ Held = Loaded \ {loaded[i]}
      <4>1. /\ \A j, k \in DOMAIN Without(loaded, i) :
                 Without(loaded, i)[j] = Without(loaded, i)[k] => j = k
            /\ {Without(loaded, i)[j] : j \in DOMAIN Without(loaded, i)} = Loaded \ {loaded[i]}
        BY <2>1, <2>3, WithoutKeeps DEF Loaded
      <4>. QED BY <2>3, <4>1
    <3>. HIDE DEF Held
    <3>3. \A x \in Loaded : ~Stale(x) => x \in Held
      BY <2>3, <3>2
    <3>. QED BY <3>1, <3>2, <3>3
  <2>. QED BY <2>2, <2>3 DEF EvictStaleSessions
<1>4. /\ \A i, j \in DOMAIN loaded' : loaded'[i] = loaded'[j] => i = j
      /\ Held \subseteq Loaded'
  <2>1. CASE \E i \in DOMAIN kept : kept[i] = s
    BY <1>2, <1>3, <2>1 DEF Loaded
  <2>2. CASE ~\E i \in DOMAIN kept : kept[i] = s
    <3>1. loaded' = Append(kept, s) /\ Len(kept) \in Nat /\ DOMAIN kept = 1..Len(kept)
      BY <1>2, <1>3, <2>2, LenProperties
    <3>2. /\ DOMAIN loaded' = 1..(Len(kept) + 1)
          /\ \A i \in 1..Len(kept) : loaded'[i] = kept[i]
          /\ loaded'[Len(kept) + 1] = s
      BY <1>3, <3>1, AppendProperties
    <3>. QED BY <1>3, <2>2, <3>1, <3>2 DEF Loaded
  <2>. QED BY <2>1, <2>2
<1>. HIDE DEF Held
<1>5. \A x \in Loaded : ~Stale(x) => x \in Loaded'
  BY <1>3, <1>4
<1>6. OneEach'
  <2>1. \A u \in Tasks : FoundAll(task[u])'
    BY <1>1 DEF SerialInv, OneEach, FoundAll, Matching, Live
  <2>. QED BY <1>1, <2>1 DEF SerialInv, OneEach, Live
<1>7. Attended'
  <2>1. ASSUME NEW u \in Tasks, task[u].op = "check" PROVE task[u].s \in Loaded'
    BY <1>5, <2>1 DEF SerialInv, Attended, Stale
  <2>2. ASSUME NEW r \in Requests, status[r] = "pending", content[r].s \in Loaded
        PROVE  content[r].s \in Loaded'
    BY <1>5, <2>2, PendingIsFiled DEF Stale
  <2>3. \A u \in Tasks, r \in Requests : Cancels(task[u], r)' <=> Cancels(task[u], r)
    BY <1>1 DEF Cancels
  <2>. QED BY <1>1, <1>4, <2>1, <2>2, <2>3 DEF Attended, SerialInv
<1>8. GoalsFollow'
  <2>1. \A u \in Tasks : HasRead(task[u])'
    BY <1>1 DEF SerialInv, GoalsFollow, HasRead, Live, GoalOf
  <2>2. \A r \in Requests : GoalOf(r)' = GoalOf(r)
    BY <1>1 DEF GoalOf
  <2>3. ASSUME NEW r \in Requests, Live(r), GoalOf(r) # None PROVE content[r].s \in Loaded'
    BY <1>5, <2>3 DEF SerialInv, GoalsFollow, Stale
  <2>. QED BY <1>1, <2>1, <2>2, <2>3 DEF GoalsFollow, SerialInv, Live
<1>. QED BY <1>6, <1>7, <1>8 DEF SerialInv

LEMMA TickSerial ==
  ASSUME IInv, SerialInv, Tick
  PROVE  SerialInv'
<1>1. UNCHANGED <<loaded, content, goals, task>> /\ Loaded' = Loaded
  BY DEF Tick, Loaded
<1>2. /\ \A r \in Requests : status'[r] \in {status[r], None} /\ (Live(r)' => Live(r))
      /\ \A s \in Sessions : index'[s] \subseteq index[s]
  BY DEF Tick, Live, IInv, TypeInv, TypeOK
<1>3. \A s, a : s \in Sessions => Matching(s, a)' \subseteq Matching(s, a)
  BY <1>1, <1>2 DEF Matching, IInv, TypeInv, TypeOK
<1>4. \A r \in Requests : GoalOf(r)' = GoalOf(r)
  BY <1>1 DEF GoalOf
<1>5. OneEach'
  <2>1. ASSUME NEW u \in Tasks PROVE FoundAll(task[u])'
    <3>1. TaskOK(task[u]) /\ FoundAll(task[u])
      BY CallKnown
    <3>2. task[u].pc \in {"timeout_read", "timeout_write", "allocate", "sweep", "sweep_write"} =>
            task[u].s \in Sessions
      BY <3>1 DEF TaskOK, Checking
    <3>. QED BY <1>1, <1>3, <3>1, <3>2 DEF FoundAll
  <2>2. \A s \in Sessions : index[s] \subseteq Requests
    BY DEF IInv, TypeInv, TypeOK
  <2>. QED BY <1>1, <1>2, <2>1, <2>2 DEF OneEach, SerialInv
<1>6. Attended'
  <2>1. \A r \in Requests : status'[r] = "pending" => status[r] = "pending"
    BY <1>2, ConstantsAssumption DEF Statuses
  <2>2. \A u \in Tasks, r \in Requests : Cancels(task[u], r)' <=> Cancels(task[u], r)
    BY <1>1 DEF Cancels
  <2>. QED BY <1>1, <2>1, <2>2 DEF Attended, SerialInv
<1>7. GoalsFollow'
  <2>1. ASSUME NEW u \in Tasks PROVE HasRead(task[u])'
    <3>1. TaskOK(task[u]) /\ HasRead(task[u])
      BY CallKnown
    <3>2. task[u].pc \in {"add_goal_read", "add_goal_write"} \cup Resolving => task[u].r \in Requests
      BY <3>1 DEF TaskOK, Checking
    <3>. QED BY <1>1, <1>2, <1>4, <3>1, <3>2 DEF HasRead, Resolving
  <2>2. \A r \in Requests : status'[r] \in Decisions => status'[r] = status[r]
    BY <1>2, ConstantsAssumption DEF Decisions, Statuses
  <2>. QED BY <1>1, <1>2, <1>4, <2>1, <2>2 DEF GoalsFollow, SerialInv
<1>. QED BY <1>5, <1>6, <1>7 DEF SerialInv

LEMMA InitSerial == Init => SerialInv
<1>. SUFFICES ASSUME Init PROVE SerialInv
  OBVIOUS
<1>1. Idle.pc = "idle" /\ Idle.op = "none"
  BY DEF Idle
<1>2. FoundAll(Idle) /\ HasRead(Idle)
  BY <1>1, NothingKnown
<1>3. DOMAIN loaded = {} /\ \A r \in Requests : status[r] = None
  BY DEF Init
<1>4. None \notin Decisions \cup {"pending"}
  BY ConstantsAssumption DEF Decisions, Statuses
<1>. QED
  BY <1>1, <1>2, <1>3, <1>4
  DEF Init, SerialInv, OneEach, Attended, GoalsFollow, Live

LEMMA NextSerial == Serial /\ IInv /\ SerialInv /\ [Next]_vars => SerialInv'
<1>. SUFFICES ASSUME Serial, IInv, SerialInv, [Next]_vars PROVE SerialInv'
  OBVIOUS
<1>1. ASSUME NEW t \in Tasks, Step(t) PROVE SerialInv'
  BY <1>1, FindMatchingSerial, CheckTimeoutReadSerial, CheckTimeoutWriteSerial,
     AllocateSerial, OutOfRequestsSerial, SweepReadSerial, SweepWriteSerial, StoreSerial,
     AddGoalReadSerial, AddGoalWriteSerial, ReturnSerial, WriteDecisionSerial,
     GoalReadSerial, GoalWriteSerial, FlushGoalsSerial, UnloadSessionSerial,
     CancelReadSerial, SessionEndedSerial DEF Step
<1>2. ASSUME NEW t \in Tasks, Call(t) PROVE SerialInv'
  BY <1>2, StartCheckSerial, UpdateApprovalSerial, SessionEndSerial, SweepRouteSerial DEF Call
<1>3. ASSUME NEW s \in Sessions, LoadSessionRules(s) PROVE SerialInv'
  BY <1>3, LoadSessionRulesSerial
<1>4. CASE Tick
  BY <1>4, TickSerial
<1>5. CASE UNCHANGED vars
  <2>1. UNCHANGED <<loaded, content, status, index, goals, task>>
    BY <1>5 DEF vars, redis
  <2>. QED
    BY <2>1 DEF SerialInv, OneEach, FoundAll, Matching, Live, Attended, Loaded, Cancels,
                GoalsFollow, HasRead, GoalOf
<1>6. ~Restart
  BY DEF Restart, Serial
<1>. QED BY <1>1, <1>2, <1>3, <1>4, <1>5, <1>6 DEF Next

\* One call at a time and no restart: what a call has read is still so when it
\* writes, up to what the clock takes away.
THEOREM SerialInvariance ==
  ASSUME Serial PROVE Spec => [](IInv /\ SerialInv)
<1>1. Init => IInv /\ SerialInv
  BY InitInv, InitSerial
<1>2. IInv /\ SerialInv /\ [Next]_vars => (IInv /\ SerialInv)'
  BY NextInv, NextSerial
<1>. QED BY <1>1, <1>2, PTL DEF Spec

\* One call at a time, a session never has two pending requests for one action
\* (find_matching sees the first), and nothing pending outlives the unloading of
\* its session (unload_session cancels what the index still lists).
THEOREM WaitedForTheorem ==
  ASSUME Serial PROVE Spec => []PendingIsWaitedFor
<1>1. IInv /\ SerialInv => PendingIsWaitedFor
  <2>. SUFFICES ASSUME IInv, SerialInv PROVE PendingIsWaitedFor
    OBVIOUS
  <2>1. NoDuplicatePending
    <3>. SUFFICES ASSUME NEW q \in Requests, NEW r \in Requests, status[q] = "pending",
                         status[r] = "pending", content[q] = content[r]
                  PROVE  q = r
      BY DEF NoDuplicatePending
    <3>1. /\ q \in index[content[q].s] /\ r \in index[content[q].s] /\ Live(q) /\ Live(r)
          /\ content[q].s \in Sessions
      BY PendingIsFiled
    <3>. QED BY <3>1 DEF SerialInv, OneEach
  <2>2. NothingPendingAfterUnload
    BY DEF NothingPendingAfterUnload, Quiet, SerialInv, Attended, Cancels, Resolving
  <2>. QED BY <2>1, <2>2 DEF PendingIsWaitedFor
<1>. QED BY <1>1, SerialInvariance, PTL

\* One call at a time, the auto-goal of a request an operator decided ends as the
\* decision says (approve and reject resolve it last), or went with its list.
THEOREM DecisionTheorem ==
  ASSUME Serial PROVE Spec => []DecisionReachesGoal
<1>1. IInv /\ SerialInv => DecisionReachesGoal
  BY DEF DecisionReachesGoal, Quiet, SerialInv, GoalsFollow, GoalOf
<1>. QED BY <1>1, SerialInvariance, PTL
=============================================================================
