----------------------- MODULE ProcedureEvidenceProofs -----------------------
(* Theorems about ProcedureEvidence, for every procedure, every set of      *)
(* executions, claims and tasks, and every overlap of the calls.            *)
EXTENDS ProcedureEvidence, TLAPS

------------------------------------------------------------------------------
(* What every step uses                                                    *)

LEMMA Constants ==
  /\ Steps \subseteq Nat \ {0}
  /\ NeedsApproval \in BOOLEAN /\ GraphMayFail \in BOOLEAN
  /\ None \notin Executions /\ None \notin Claims /\ None \notin ClaimStatus
  /\ None \notin GoalStatus /\ None \notin ClaimRecord
  /\ \A S \in SUBSET Steps : None # S
<1>1. Steps = 1..Len(Procedure) /\ Len(Procedure) \in Nat
  BY ConstantsAssumption DEF ConstantsAssumption, Steps
<1>2. Steps \subseteq Nat \ {0}
  BY <1>1
<1>. QED BY <1>2, ConstantsAssumption DEF ConstantsAssumption, ClaimRecord

LEMMA InvParts ==
  ASSUME IInv
  PROVE  /\ TypeOK /\ ClaimsSound /\ ClaimIdsOwn
         /\ MapEarned(executions) /\ MapEarned(saved) /\ ListEarned(goals)
<1>. QED BY DEF IInv

LEMMA TaskOf ==
  ASSUME IInv, NEW t \in Tasks
  PROVE  task[t] \in TaskType /\ InHand(task[t]) /\ InHandEarned(task[t])
<1>. QED BY DEF IInv, TypeOK

LEMMA ClaimOf ==
  ASSUME IInv, NEW c \in Claims, claims[c] # None
  PROVE  claims[c] \in ClaimRecord /\ ClaimSound(claims[c])
<1>. QED BY DEF IInv, TypeOK, ClaimsSound

LEMMA KnownOf ==
  ASSUME IInv, NEW c \in known
  PROVE  c \in Claims /\ claims[c] # None
<1>. QED BY DEF IInv, TypeOK, ClaimsSound

LEMMA SameRest ==
  ASSUME IInv
  PROVE  /\ executions \in Saved /\ saved \in Saved /\ goals \in GoalList
         /\ claims \in [Claims -> ClaimRecord \cup {None}] /\ known \subseteq Claims
         /\ stored \in [Claims -> ClaimStatus \cup {None}] /\ disturbed \in BOOLEAN
<1>. QED BY DEF IInv, TypeOK

LEMMA NothingSound ==
  /\ NothingSaved \in Saved /\ NoGoals \in GoalList
  /\ MapEarned(NothingSaved) /\ ListEarned(NoGoals)
<1>1. NothingSaved \in Saved /\ NoGoals \in GoalList
  BY DEF NothingSaved, Saved, NoGoals, GoalList
<1>2. MapEarned(NothingSaved)
  BY DEF MapEarned, NothingSaved
<1>3. ListEarned(NoGoals)
  BY Constants DEF ListEarned, NoGoals, GoalStatus
<1>. QED BY <1>1, <1>2, <1>3

LEMMA IdleSound ==
  Idle \in TaskType /\ InHand(Idle) /\ InHandEarned(Idle) /\ Idle.pc = "idle" /\ Idle.c = None
<1>1. Idle \in TaskType
  <2>1. "idle" \in PCs /\ "none" \in Ops
    BY DEF PCs, Ops
  <2>. QED BY <2>1, NothingSound DEF Idle, TaskType
<1>2. InHand(Idle)
  BY DEF Idle, InHand
<1>3. InHandEarned(Idle)
  BY NothingSound DEF Idle, InHandEarned
<1>. QED BY <1>1, <1>2, <1>3 DEF Idle

LEMMA GoalOf ==
  ASSUME NEW e \in Executions
  PROVE  /\ AutoGoals(e) \subseteq Goals /\ <<e, 0, 0>> \in Goals
         /\ \A s \in Steps : \A i \in RequiredProofs(s) : <<e, s, i>> \in Goals
         /\ \A g \in AutoGoals(e) : g[1] = e
<1>1. AutoGoals(e) \subseteq Goals
  BY DEF Goals
<1>2. <<e, 0, 0>> \in AutoGoals(e)
  BY DEF AutoGoals
<1>3. \A s \in Steps : \A i \in RequiredProofs(s) : <<e, s, i>> \in AutoGoals(e)
  BY DEF AutoGoals
<1>4. \A g \in AutoGoals(e) : g[1] = e
  BY DEF AutoGoals
<1>. QED BY <1>1, <1>2, <1>3, <1>4

\* What was vouched for once is vouched for: a claim keeps its step and what it had.
LEMMA VouchedStays ==
  ASSUME \A c \in Claims : claims[c] # None =>
           /\ claims'[c] # None /\ claims'[c].step = claims[c].step
           /\ claims[c].had \subseteq claims'[c].had
  PROVE  /\ \A s : EvidenceVouched(s) => EvidenceVouched(s)'
         /\ Proven => Proven'
         /\ \A g : Earned(g) => Earned(g)'
<1>1. \A S, type : Vouched(S, type) => Vouched(S, type)'
  BY DEF Vouched
<1>2. \A s : EvidenceVouched(s) => EvidenceVouched(s)'
  BY <1>1 DEF EvidenceVouched
<1>3. Proven => Proven'
  BY <1>1 DEF Proven
<1>4. \A g : Earned(g) => Earned(g)'
  BY <1>2, <1>3 DEF Earned
<1>. QED BY <1>2, <1>3, <1>4

LEMMA EarnedStays ==
  ASSUME \A s : EvidenceVouched(s) => EvidenceVouched(s)',
         Proven => Proven', \A g : Earned(g) => Earned(g)'
  PROVE  /\ \A map : MapEarned(map) => MapEarned(map)'
         /\ \A list : ListEarned(list) => ListEarned(list)'
         /\ \A x : InHandEarned(x) => InHandEarned(x)'
<1>1. \A map : MapEarned(map) => MapEarned(map)'
  BY DEF MapEarned
<1>2. \A list : ListEarned(list) => ListEarned(list)'
  BY DEF ListEarned
<1>3. \A x : InHandEarned(x) => InHandEarned(x)'
  BY <1>1, <1>2 DEF InHandEarned
<1>. QED BY <1>1, <1>2, <1>3

\* A step of t that leaves the claims alone need only say what becomes of t and of
\* the three stores, in terms of the claims as they are.
LEMMA LocalStep ==
  ASSUME IInv, NEW t \in Tasks, NEW rec \in TaskType,
         task' = [task EXCEPT ![t] = rec], InHand(rec), InHandEarned(rec),
         claims' = claims, known' = known,
         NEW ex \in Saved, executions' = ex, MapEarned(ex),
         NEW sv \in Saved, saved' = sv, MapEarned(sv),
         NEW gl \in GoalList, goals' = gl, ListEarned(gl),
         stored' \in [Claims -> ClaimStatus \cup {None}], disturbed' \in BOOLEAN,
         ClaimIdsOwn'
  PROVE  IInv'
<1>1. TypeOK'
  BY InvParts DEF TypeOK
<1>2. ClaimsSound'
  BY InvParts DEF ClaimsSound, ClaimSound
<1>3. /\ \A map : MapEarned(map) => MapEarned(map)'
      /\ \A list : ListEarned(list) => ListEarned(list)'
      /\ \A x : InHandEarned(x) => InHandEarned(x)'
  BY VouchedStays, EarnedStays
<1>4. MapEarned(executions)' /\ MapEarned(saved)' /\ ListEarned(goals)'
  <2>1. MapEarned(ex)' /\ MapEarned(sv)' /\ ListEarned(gl)'
    BY <1>3
  <2>. QED BY <2>1 DEF MapEarned, ListEarned
<1>5. ASSUME NEW u \in Tasks PROVE (InHand(task[u]) /\ InHandEarned(task[u]))'
  <2>1. PICK x : x = task'[u]
    OBVIOUS
  <2>2. InHand(x) /\ InHandEarned(x)
    <3>1. x = IF u = t THEN rec ELSE task[u]
      BY <2>1, InvParts DEF TypeOK
    <3>. QED BY <3>1, TaskOf
  <2>3. InHandEarned(x)'
    BY <2>2, <1>3
  <2>4. InHandEarned(task[u])'
    BY <2>1, <2>3 DEF InHandEarned, MapEarned, ListEarned
  <2>5. InHand(task[u])'
    BY <2>1, <2>2 DEF InHand
  <2>. QED BY <2>4, <2>5
<1>. QED BY <1>1, <1>2, <1>4, <1>5 DEF IInv

\* A task that takes up no new claim leaves the ids in others' hands alone.
LEMMA IdsStay ==
  ASSUME IInv, NEW t \in Tasks, NEW rec, task' = [task EXCEPT ![t] = rec],
         rec.pc # "claim_keep", rec.c \in known \cup {None, task[t].c},
         \A c \in Claims : claims[c] = None /\ (\E u \in Tasks \ {t} : task[u].c = c)
                             => claims'[c] = None
  PROVE  ClaimIdsOwn'
<1>1. \A u \in Tasks : task'[u] = IF u = t THEN rec ELSE task[u]
  BY InvParts DEF TypeOK
<1>2. ASSUME NEW u \in Tasks, task'[u].pc = "claim_keep"
      PROVE  claims'[task'[u].c] = None /\ \A v \in Tasks \ {u} : task'[v].c # task'[u].c
  <2>1. u # t /\ task'[u] = task[u] /\ task[u].c \in Claims
    BY <1>1, <1>2, TaskOf DEF InHand
  <2>2. claims[task[u].c] = None /\ \A v \in Tasks \ {u} : task[v].c # task[u].c
    BY <1>2, <2>1, InvParts DEF ClaimIdsOwn
  <2>3. rec.c # task[u].c
    BY <2>1, <2>2, KnownOf, Constants
  <2>. QED BY <1>1, <2>1, <2>2, <2>3
<1>. QED BY <1>2 DEF ClaimIdsOwn

\* The same, where no store changes either.
LEMMA MoveStep ==
  ASSUME IInv, NEW t \in Tasks, NEW rec \in TaskType,
         task' = [task EXCEPT ![t] = rec], InHand(rec), InHandEarned(rec),
         rec.pc # "claim_keep", rec.c \in known \cup {None, task[t].c},
         UNCHANGED <<executions, saved, claims, known, goals>>,
         stored' \in [Claims -> ClaimStatus \cup {None}], disturbed' \in BOOLEAN
  PROVE  IInv'
<1>1. ClaimIdsOwn'
  BY IdsStay
<1>. QED BY <1>1, SameRest, InvParts, LocalStep

LEMMA Begun ==
  ASSUME IInv, NEW call, NEW t \in Tasks, NEW rec, Begin(call, t, rec)
  PROVE  task' = [task EXCEPT ![t] = rec] /\ disturbed' \in BOOLEAN
<1>. QED BY SameRest DEF Begin, Become, Quiet

LEMMA InitSound == ASSUME Init PROVE IInv
<1>1. \A t \in Tasks : task[t] = Idle
  BY DEF Init
<1>2. TypeOK
  <2>1. task \in [Tasks -> TaskType]
    BY IdleSound DEF Init
  <2>2. claims \in [Claims -> ClaimRecord \cup {None}]
        /\ stored \in [Claims -> ClaimStatus \cup {None}]
    BY DEF Init
  <2>. QED BY <2>1, <2>2, NothingSound DEF Init, TypeOK
<1>3. ClaimsSound
  BY DEF Init, ClaimsSound
<1>4. ClaimIdsOwn
  BY <1>1, IdleSound DEF ClaimIdsOwn
<1>. QED BY <1>1, <1>2, <1>3, <1>4, IdleSound, NothingSound DEF Init, IInv

------------------------------------------------------------------------------
(* The goal list and the saved map                                         *)

LEMMA GoalReadSound == ASSUME IInv, NEW t \in Tasks, GoalRead(t) PROVE IInv'
<1>1. PICK x : x = task[t]
  OBVIOUS
<1>2. x \in TaskType /\ InHand(x) /\ InHandEarned(x) /\ x.pc = "goal_read"
  BY <1>1, TaskOf DEF GoalRead
<1>3. PICK rec : rec = [x EXCEPT !.pc = "goal_write", !.list = goals]
  OBVIOUS
<1>4. task' = [task EXCEPT ![t] = rec]
  BY <1>1, <1>3 DEF GoalRead, Become
<1>5. rec \in TaskType
  BY <1>2, <1>3, SameRest DEF TaskType, PCs
<1>6. /\ rec.pc = "goal_write" /\ rec.op = x.op /\ rec.e = x.e /\ rec.s = x.s /\ rec.c = x.c
      /\ rec.map = x.map /\ rec.list = goals /\ rec.todo = x.todo /\ rec.next = x.next
  BY <1>2, <1>3 DEF TaskType
<1>7. InHand(rec) /\ InHandEarned(rec)
  BY <1>2, <1>6, InvParts DEF InHand, InHandEarned
<1>. QED BY <1>1, <1>4, <1>5, <1>6, <1>7, SameRest, MoveStep DEF GoalRead

\* What WriteGoals hands on is in hand, if its goals are.
LEMMA WriteGoalsSound ==
  ASSUME IInv, NEW x \in TaskType, InHand(x), InHandEarned(x),
         x.op \in {"activate", "complete"},
         NEW todo \in SUBSET (Goals \X GoalStatus),
         \A w \in todo : w[2] = "completed" => Earned(w[1]),
         NEW next \in {"validate", "check_save", "done"},
         next # "done" => x.op = "complete"
  PROVE  LET rec == WriteGoals(x, todo, next)
         IN /\ rec \in TaskType /\ rec.c = x.c /\ rec.pc # "claim_keep"
            /\ InHand(rec) /\ InHandEarned(rec)
<1>1. PICK rec : rec = WriteGoals(x, todo, next)
  OBVIOUS
<1>2. PICK pc : pc = IF todo = {} THEN next ELSE "goal_read"
  OBVIOUS
<1>3. rec = [x EXCEPT !.todo = todo, !.next = next, !.pc = pc]
  BY <1>1, <1>2 DEF WriteGoals
<1>4. pc \in PCs /\ next \in PCs
  <2>1. {"validate", "check_save", "done", "goal_read"} \subseteq PCs
    BY DEF PCs, Saves
  <2>. QED BY <1>2, <2>1
<1>5. rec \in TaskType
  BY <1>3, <1>4 DEF TaskType
<1>6. /\ rec.pc = pc /\ rec.op = x.op /\ rec.e = x.e /\ rec.s = x.s /\ rec.c = x.c
      /\ rec.map = x.map /\ rec.list = x.list /\ rec.todo = todo /\ rec.next = next
  BY <1>3 DEF TaskType
<1>7. InHand(rec)
  BY <1>2, <1>6 DEF InHand
<1>8. InHandEarned(rec)
  BY <1>2, <1>6 DEF InHandEarned
<1>. QED BY <1>1, <1>2, <1>5, <1>6, <1>7, <1>8

LEMMA GoalWriteSound == ASSUME IInv, NEW t \in Tasks, GoalWrite(t) PROVE IInv'
<1>1. PICK x : x = task[t]
  OBVIOUS
<1>2. x \in TaskType /\ InHand(x) /\ InHandEarned(x) /\ x.pc = "goal_write"
  BY <1>1, TaskOf DEF GoalWrite
<1>3. PICK w \in x.todo :
        /\ goals' = IF x.list[w[1]] = None /\ w[2] # "active" THEN goals
                    ELSE [x.list EXCEPT ![w[1]] = w[2]]
        /\ Become(t, WriteGoals([x EXCEPT !.list = NoGoals], x.todo \ {w}, x.next))
  BY <1>1 DEF GoalWrite
<1>4. PICK y : y = [x EXCEPT !.list = NoGoals]
  OBVIOUS
<1>5. y \in TaskType
  BY <1>2, <1>4, NothingSound DEF TaskType
<1>6. /\ y.pc = "goal_write" /\ y.op = x.op /\ y.e = x.e /\ y.s = x.s /\ y.c = x.c
      /\ y.map = x.map /\ y.list = NoGoals /\ y.todo = x.todo /\ y.next = x.next
  BY <1>2, <1>4 DEF TaskType
<1>7. InHand(y) /\ InHandEarned(y)
  BY <1>2, <1>6, NothingSound DEF InHand, InHandEarned
<1>8. PICK todo : todo = x.todo \ {w}
  OBVIOUS
<1>9. /\ todo \in SUBSET (Goals \X GoalStatus)
      /\ \A v \in todo : v[2] = "completed" => Earned(v[1])
  BY <1>2, <1>8 DEF TaskType, InHandEarned
<1>10. /\ x.op \in {"activate", "complete"} /\ x.next \in {"validate", "check_save", "done"}
  BY <1>2 DEF InHand
<1>11. x.next # "done" => x.op = "complete"
  BY <1>2, <1>10 DEF InHand
<1>12. PICK rec : rec = WriteGoals(y, todo, x.next)
  OBVIOUS
<1>13. /\ rec \in TaskType /\ rec.c = x.c /\ rec.pc # "claim_keep"
       /\ InHand(rec) /\ InHandEarned(rec)
  BY <1>5, <1>6, <1>7, <1>9, <1>10, <1>11, <1>12, WriteGoalsSound
<1>14. task' = [task EXCEPT ![t] = rec]
  BY <1>3, <1>4, <1>8, <1>12 DEF Become
<1>15. PICK gl : gl = goals'
  OBVIOUS
<1>16. gl \in GoalList /\ ListEarned(gl)
  <2>1. w \in Goals \X GoalStatus /\ x.list \in GoalList /\ ListEarned(x.list)
        /\ (w[2] = "completed" => Earned(w[1]))
    BY <1>2, <1>3 DEF TaskType, InHandEarned
  <2>2. CASE gl = goals
    BY <2>2, SameRest, InvParts
  <2>3. CASE gl = [x.list EXCEPT ![w[1]] = w[2]]
    <3>1. w[1] \in Goals /\ w[2] \in GoalStatus
      BY <2>1
    <3>2. gl \in GoalList /\ \A g \in Goals : gl[g] = IF g = w[1] THEN w[2] ELSE x.list[g]
      BY <2>1, <2>3, <3>1 DEF GoalList
    <3>. QED BY <2>1, <3>2 DEF ListEarned
  <2>. QED BY <1>3, <1>15, <2>2, <2>3
<1>17. ClaimIdsOwn'
  BY <1>1, <1>13, <1>14, IdsStay DEF GoalWrite
<1>. QED BY <1>13, <1>14, <1>15, <1>16, <1>17, SameRest, InvParts, LocalStep DEF GoalWrite

LEMMA SaveReadSound == ASSUME IInv, NEW t \in Tasks, SaveRead(t) PROVE IInv'
<1>1. PICK x : x = task[t]
  OBVIOUS
<1>2. x \in TaskType /\ InHand(x) /\ InHandEarned(x) /\ x.pc \in Saves
  BY <1>1, TaskOf DEF SaveRead
<1>3. PICK next : next = AfterSave(x)
  OBVIOUS
<1>4. /\ next \in {"orphans", "parent", "claim_new", "done"}
      /\ next = "parent" => x.pc = "validate_save"
      /\ next = "orphans" => x.pc = "activate_save"
  BY <1>2, <1>3 DEF AfterSave, Saves
<1>5. PICK rec : rec = [x EXCEPT !.pc = "save_write", !.map = saved, !.next = next]
  OBVIOUS
<1>6. task' = [task EXCEPT ![t] = rec]
  BY <1>1, <1>3, <1>5 DEF SaveRead, Become
<1>7. rec \in TaskType
  BY <1>2, <1>4, <1>5, SameRest DEF TaskType, PCs
<1>8. /\ rec.pc = "save_write" /\ rec.op = x.op /\ rec.e = x.e /\ rec.s = x.s /\ rec.c = x.c
      /\ rec.map = saved /\ rec.list = x.list /\ rec.todo = x.todo /\ rec.next = next
  BY <1>2, <1>5 DEF TaskType
<1>9. InHand(rec)
  BY <1>2, <1>4, <1>8 DEF InHand, Saves
<1>10. InHandEarned(rec)
  BY <1>2, <1>4, <1>8, InvParts DEF InHandEarned
<1>. QED BY <1>1, <1>6, <1>7, <1>8, <1>9, <1>10, SameRest, MoveStep DEF SaveRead

LEMMA SaveWriteSound == ASSUME IInv, NEW t \in Tasks, SaveWrite(t) PROVE IInv'
<1>1. PICK x : x = task[t]
  OBVIOUS
<1>2. x \in TaskType /\ InHand(x) /\ InHandEarned(x) /\ x.pc = "save_write"
  BY <1>1, TaskOf DEF SaveWrite
<1>3. PICK rec : rec = [x EXCEPT !.pc = x.next, !.map = NothingSaved]
  OBVIOUS
<1>4. task' = [task EXCEPT ![t] = rec]
  BY <1>1, <1>3 DEF SaveWrite, Become
<1>5. rec \in TaskType
  BY <1>2, <1>3, NothingSound DEF TaskType
<1>6. /\ rec.pc = x.next /\ rec.op = x.op /\ rec.e = x.e /\ rec.s = x.s /\ rec.c = x.c
      /\ rec.map = NothingSaved /\ rec.list = x.list /\ rec.todo = x.todo /\ rec.next = x.next
  BY <1>2, <1>3 DEF TaskType
<1>7. InHand(rec)
  BY <1>2, <1>6 DEF InHand
<1>8. InHandEarned(rec)
  BY <1>2, <1>6, NothingSound DEF InHand, InHandEarned
<1>9. PICK sv : sv = saved'
  OBVIOUS
<1>10. x.e \in Executions /\ x.map \in Saved /\ MapEarned(x.map)
  BY <1>2 DEF InHand, InHandEarned, TaskType
<1>11. sv \in Saved /\ MapEarned(sv)
  <2>1. sv = [x.map EXCEPT ![x.e] = executions[x.e]]
    BY <1>1, <1>9 DEF SaveWrite
  <2>2. executions[x.e] \in (SUBSET Steps) \cup {None}
    BY <1>10, SameRest DEF Saved
  <2>3. sv \in Saved /\ \A e \in Executions :
                          sv[e] = IF e = x.e THEN executions[e] ELSE x.map[e]
    BY <1>10, <2>1, <2>2 DEF Saved
  <2>. QED BY <1>10, <2>3, InvParts DEF MapEarned
<1>12. ClaimIdsOwn'
  BY <1>1, <1>2, <1>4, <1>6, IdsStay DEF SaveWrite, InHand
<1>. QED BY <1>4, <1>5, <1>7, <1>8, <1>9, <1>11, <1>12, SameRest, InvParts, LocalStep
         DEF SaveWrite

------------------------------------------------------------------------------
(* activate and complete                                                   *)

LEMMA ActivateSound ==
  ASSUME IInv, NEW t \in Tasks, NEW e \in Executions, Activate(t, e) PROVE IInv'
<1>1. PICK rec : rec = [Idle EXCEPT !.pc = "activate_save", !.op = "activate", !.e = e]
  OBVIOUS
<1>2. task' = [task EXCEPT ![t] = rec] /\ disturbed' \in BOOLEAN
  BY <1>1, Begun DEF Activate
<1>3. rec \in TaskType
  <2>1. "activate_save" \in PCs /\ "activate" \in Ops
    BY DEF PCs, Saves, Ops
  <2>. QED BY <1>1, <2>1, IdleSound DEF TaskType
<1>4. /\ rec.pc = "activate_save" /\ rec.op = "activate" /\ rec.e = e /\ rec.c = None
      /\ rec.map = NothingSaved /\ rec.list = NoGoals /\ rec.todo = {}
  BY <1>1 DEF Idle
<1>5. InHand(rec) /\ InHandEarned(rec)
  BY <1>4, NothingSound DEF InHand, InHandEarned
<1>6. PICK ex : ex = [executions EXCEPT ![e] = {}]
  OBVIOUS
<1>7. ex \in Saved /\ MapEarned(ex)
  <2>1. ex \in Saved /\ \A d \in Executions : ex[d] = IF d = e THEN {} ELSE executions[d]
    BY <1>6, SameRest DEF Saved
  <2>. QED BY <2>1, InvParts DEF MapEarned
<1>8. ClaimIdsOwn'
  BY <1>2, <1>4, IdsStay DEF Activate
<1>. QED BY <1>2, <1>3, <1>5, <1>6, <1>7, <1>8, SameRest, InvParts, LocalStep DEF Activate

LEMMA OrphansSound == ASSUME IInv, NEW t \in Tasks, Orphans(t) PROVE IInv'
<1>1. PICK x : x = task[t]
  OBVIOUS
<1>2. x \in TaskType /\ InHand(x) /\ InHandEarned(x) /\ x.pc = "orphans"
  BY <1>1, TaskOf DEF Orphans
<1>3. x.op = "activate" /\ x.e \in Executions
  BY <1>2 DEF InHand
<1>4. PICK todo : todo = ({g \in Goals \ AutoGoals(x.e) : goals[g] = "active"} \X {"abandoned"})
                           \cup (AutoGoals(x.e) \X {"active"})
  OBVIOUS
<1>5. todo \in SUBSET (Goals \X GoalStatus) /\ \A w \in todo : w[2] # "completed"
  BY <1>3, <1>4, GoalOf DEF GoalStatus
<1>6. PICK rec : rec = WriteGoals(x, todo, "done")
  OBVIOUS
<1>7. rec \in TaskType /\ rec.c = x.c /\ rec.pc # "claim_keep" /\ InHand(rec) /\ InHandEarned(rec)
  BY <1>2, <1>3, <1>5, <1>6, WriteGoalsSound
<1>8. task' = [task EXCEPT ![t] = rec]
  BY <1>1, <1>4, <1>6 DEF Orphans, Become
<1>. QED BY <1>1, <1>7, <1>8, SameRest, MoveStep DEF Orphans

LEMMA ReturnSound == ASSUME IInv, NEW t \in Tasks, Return(t) PROVE IInv'
<1>1. task' = [task EXCEPT ![t] = Idle]
  BY DEF Return, Become
<1>. QED BY <1>1, IdleSound, SameRest, MoveStep DEF Return

\* check_step passes only what some accepted claim of the procedure shows.
LEMMA CheckedStep ==
  ASSUME IInv, NEW s \in Steps, MissingEvidence(s) = {} PROVE EvidenceVouched(s)
<1>1. SUFFICES ASSUME NEW i \in RequiredProofs(s)
               PROVE  Vouched(Steps \cup {0}, ProofType(s, i))
  BY DEF EvidenceVouched
<1>2. PICK c \in known : Accepted(c) /\ ProofType(s, i) \in claims[c].evidence
  BY <1>1 DEF MissingEvidence
<1>3. c \in Claims /\ claims[c] # None /\ claims[c] \in ClaimRecord /\ ClaimSound(claims[c])
  BY KnownOf, ClaimOf
<1>4. claims[c].had = claims[c].evidence /\ claims[c].step \in Steps \cup {0}
  BY <1>2, <1>3 DEF Accepted, ClaimSound, ClaimRecord
<1>. QED BY <1>2, <1>3, <1>4 DEF Vouched

LEMMA CompleteStepSound ==
  ASSUME IInv, NEW t \in Tasks, NEW e \in Executions, NEW s \in Steps,
         NEW proof \in BOOLEAN, CompleteStep(t, e, s, proof)
  PROVE  IInv'
<1>1. PICK x : x = [Idle EXCEPT !.op = "complete", !.e = e, !.s = s, !.proof = proof]
  OBVIOUS
<1>2. x \in TaskType
  BY <1>1, IdleSound DEF TaskType, Ops
<1>3. /\ x.op = "complete" /\ x.e = e /\ x.s = s /\ x.c = None
      /\ x.map = NothingSaved /\ x.list = NoGoals /\ x.todo = {}
  BY <1>1 DEF Idle
<1>4. ASSUME NEW pc \in {"done", "step_goal"}, NEW out \in {"missing", "complete"}, NEW rec,
             rec = [x EXCEPT !.pc = pc, !.out = out],
             pc = "step_goal" => EvidenceVouched(s)
      PROVE  rec \in TaskType /\ InHand(rec) /\ InHandEarned(rec) /\ rec.c = None /\ rec.pc = pc
  <2>1. rec \in TaskType
    <3>1. pc \in PCs
      BY DEF PCs
    <3>. QED BY <1>2, <1>4, <3>1 DEF TaskType
  <2>2. /\ rec.pc = pc /\ rec.op = "complete" /\ rec.e = e /\ rec.s = s /\ rec.c = None
        /\ rec.map = NothingSaved /\ rec.list = NoGoals /\ rec.todo = {}
    BY <1>2, <1>3, <1>4 DEF TaskType
  <2>3. InHand(rec)
    BY <2>2 DEF InHand
  <2>4. InHandEarned(rec)
    BY <1>4, <2>2, NothingSound DEF InHandEarned
  <2>. QED BY <2>1, <2>2, <2>3, <2>4
<1>5. UNCHANGED <<saved, claims, known, stored, goals>>
  BY DEF CompleteStep
<1>6. CASE /\ Begin("complete", t, [x EXCEPT !.pc = "done", !.out = "missing"])
           /\ UNCHANGED executions
  <2>1. PICK rec : rec = [x EXCEPT !.pc = "done", !.out = "missing"]
    OBVIOUS
  <2>2. task' = [task EXCEPT ![t] = rec] /\ disturbed' \in BOOLEAN
    BY <1>6, <2>1, Begun
  <2>3. rec \in TaskType /\ InHand(rec) /\ InHandEarned(rec) /\ rec.c = None /\ rec.pc = "done"
    BY <1>4, <2>1
  <2>. QED BY <1>5, <1>6, <2>2, <2>3, SameRest, MoveStep
<1>7. CASE /\ MissingEvidence(s) = {}
           /\ Begin("complete", t, [x EXCEPT !.pc = "step_goal", !.out = "complete"])
           /\ executions' = [executions EXCEPT ![e] = @ \cup {s}]
  <2>1. PICK rec : rec = [x EXCEPT !.pc = "step_goal", !.out = "complete"]
    OBVIOUS
  <2>2. task' = [task EXCEPT ![t] = rec] /\ disturbed' \in BOOLEAN
    BY <1>7, <2>1, Begun
  <2>3. EvidenceVouched(s)
    BY <1>7, CheckedStep
  <2>4. rec \in TaskType /\ InHand(rec) /\ InHandEarned(rec) /\ rec.c = None /\ rec.pc = "step_goal"
    BY <1>4, <2>1, <2>3
  <2>5. PICK ex : ex = [executions EXCEPT ![e] = @ \cup {s}]
    OBVIOUS
  <2>6. executions[e] \in SUBSET Steps /\ executions[e] # None
    BY SameRest DEF CompleteStep, Saved
  <2>7. ex \in Saved /\ \A d \in Executions :
                          ex[d] = IF d = e THEN executions[d] \cup {s} ELSE executions[d]
    BY <2>5, <2>6, SameRest DEF Saved
  <2>8. MapEarned(ex)
    BY <2>3, <2>6, <2>7, InvParts DEF MapEarned
  <2>9. ClaimIdsOwn'
    BY <1>5, <2>2, <2>4, IdsStay
  <2>. QED BY <1>5, <1>7, <2>2, <2>4, <2>5, <2>7, <2>8, <2>9, SameRest, InvParts, LocalStep
<1>. QED BY <1>1, <1>6, <1>7 DEF CompleteStep

LEMMA StepGoalSound == ASSUME IInv, NEW t \in Tasks, StepGoal(t) PROVE IInv'
<1>1. PICK x : x = task[t]
  OBVIOUS
<1>2. x \in TaskType /\ InHand(x) /\ InHandEarned(x) /\ x.pc = "step_goal"
  BY <1>1, TaskOf DEF StepGoal
<1>3. x.op = "complete" /\ x.e \in Executions /\ x.s \in Steps /\ EvidenceVouched(x.s)
  BY <1>2 DEF InHand, InHandEarned
<1>4. PICK mine : mine = {i \in RequiredProofs(x.s) : goals[<<x.e, x.s, i>>] # None}
  OBVIOUS
<1>5. UNCHANGED <<executions, saved, claims, known, stored, goals, disturbed>>
  BY DEF StepGoal
<1>6. CASE Become(t, [x EXCEPT !.pc = "check_save"])
  <2>1. PICK rec : rec = [x EXCEPT !.pc = "check_save"]
    OBVIOUS
  <2>2. /\ rec \in TaskType /\ rec.pc = "check_save" /\ rec.op = x.op /\ rec.e = x.e
        /\ rec.s = x.s /\ rec.c = x.c /\ rec.map = x.map /\ rec.list = x.list
        /\ rec.todo = x.todo /\ rec.next = x.next
    BY <1>2, <2>1 DEF TaskType, PCs, Saves
  <2>3. InHand(rec) /\ InHandEarned(rec)
    BY <1>2, <1>3, <2>2 DEF InHand, InHandEarned
  <2>4. task' = [task EXCEPT ![t] = rec]
    BY <1>6, <2>1 DEF Become
  <2>. QED BY <1>1, <1>5, <2>2, <2>3, <2>4, SameRest, MoveStep
<1>7. ASSUME NEW i \in mine,
             Become(t, WriteGoals(x, {<<<<x.e, x.s, i>>, "completed">>},
                         IF AllResolved(x.e, <<x.e, x.s, i>>) THEN "validate" ELSE "check_save"))
      PROVE  IInv'
  <2>1. PICK next \in {"validate", "check_save"} :
          next = IF AllResolved(x.e, <<x.e, x.s, i>>) THEN "validate" ELSE "check_save"
    OBVIOUS
  <2>2. PICK own : own = <<x.e, x.s, i>>
    OBVIOUS
  <2>3. own \in Goals /\ own[2] = x.s
    BY <1>3, <1>4, <2>2, GoalOf
  <2>4. Earned(own)
    BY <1>3, <2>3, Constants DEF Earned
  <2>5. PICK todo : todo = {<<own, "completed">>}
    OBVIOUS
  <2>6. todo \in SUBSET (Goals \X GoalStatus) /\ \A w \in todo : Earned(w[1])
    BY <2>3, <2>4, <2>5 DEF GoalStatus
  <2>7. PICK rec : rec = WriteGoals(x, todo, next)
    OBVIOUS
  <2>8. rec \in TaskType /\ rec.c = x.c /\ rec.pc # "claim_keep" /\ InHand(rec) /\ InHandEarned(rec)
    BY <1>2, <1>3, <2>6, <2>7, WriteGoalsSound
  <2>9. task' = [task EXCEPT ![t] = rec]
    BY <1>7, <2>1, <2>2, <2>5, <2>7 DEF Become
  <2>. QED BY <1>1, <1>5, <2>8, <2>9, SameRest, MoveStep
<1>. QED BY <1>1, <1>4, <1>6, <1>7 DEF StepGoal

LEMMA ValidateSound == ASSUME IInv, NEW t \in Tasks, ValidateCompletion(t) PROVE IInv'
<1>1. PICK x : x = task[t]
  OBVIOUS
<1>2. x \in TaskType /\ InHand(x) /\ InHandEarned(x) /\ x.pc = "validate"
  BY <1>1, TaskOf DEF ValidateCompletion
<1>3. PICK rec : rec = [x EXCEPT !.pc = "completion", !.visit = known]
  OBVIOUS
<1>4. rec \in TaskType
  BY <1>2, <1>3, SameRest DEF TaskType, PCs
<1>5. /\ rec.pc = "completion" /\ rec.op = x.op /\ rec.e = x.e /\ rec.s = x.s /\ rec.c = x.c
      /\ rec.map = x.map /\ rec.list = x.list /\ rec.todo = x.todo /\ rec.next = x.next
      /\ rec.visit = known
  BY <1>2, <1>3 DEF TaskType
<1>6. InHand(rec) /\ InHandEarned(rec)
  BY <1>2, <1>5 DEF InHand, InHandEarned
<1>7. task' = [task EXCEPT ![t] = rec]
  BY <1>1, <1>3 DEF ValidateCompletion, Become
<1>. QED BY <1>1, <1>4, <1>5, <1>6, <1>7, SameRest, MoveStep DEF ValidateCompletion

\* check_completion_requirements passes only what accepted claims prove.
LEMMA CheckedCompletion ==
  ASSUME IInv, NEW S \in SUBSET known, CompletionProven(S) PROVE Proven
<1>1. ASSUME NEW c \in S, Accepted(c)
      PROVE  /\ c \in Claims /\ claims[c] # None /\ claims[c] \in ClaimRecord
             /\ claims[c].had = claims[c].evidence /\ claims[c].evidence # {}
  <2>1. c \in Claims /\ claims[c] # None /\ claims[c] \in ClaimRecord /\ ClaimSound(claims[c])
    BY KnownOf, ClaimOf
  <2>. QED BY <1>1, <2>1 DEF Accepted, ClaimSound
<1>2. ASSUME NEW s \in Steps, ~Procedure[s].optional
      PROVE  IF Procedure[s].proofs = <<>>
             THEN \E type \in AllTypes : Vouched({s}, type)
             ELSE \A i \in RequiredProofs(s) : Vouched({0, s}, ProofType(s, i))
  <2>1. StepProven(S, s)
    BY <1>2 DEF CompletionProven
  <2>2. CASE Procedure[s].proofs = <<>>
    <3>1. PICK c \in S : claims[c].step = s /\ Accepted(c)
      BY <2>1, <2>2 DEF StepProven
    <3>2. PICK type \in claims[c].evidence : TRUE
      BY <3>1, <1>1
    <3>3. type \in AllTypes
      BY <3>1, <1>1 DEF ClaimRecord
    <3>4. Vouched({s}, type)
      BY <3>1, <3>2, <1>1 DEF Vouched
    <3>. QED BY <2>2, <3>3, <3>4
  <2>3. CASE Procedure[s].proofs # <<>>
    <3>1. ASSUME NEW i \in RequiredProofs(s) PROVE Vouched({0, s}, ProofType(s, i))
      <4>1. PICK c \in S : /\ Accepted(c) /\ claims[c].step \in {0, s}
                           /\ ProofType(s, i) \in claims[c].evidence
        BY <2>1, <2>3, <3>1 DEF StepProven
      <4>. QED BY <4>1, <1>1 DEF Vouched
    <3>. QED BY <2>3, <3>1
  <2>. QED BY <2>2, <2>3
<1>3. NeedsApproval => Vouched(Steps \cup {0}, "supervisor_sign_off")
  <2>1. SUFFICES ASSUME NeedsApproval PROVE Vouched(Steps \cup {0}, "supervisor_sign_off")
    OBVIOUS
  <2>2. PICK c \in S : claims[c].status = "supervisor_verified"
    BY <2>1 DEF CompletionProven
  <2>3. c \in Claims /\ claims[c] # None /\ claims[c] \in ClaimRecord /\ ClaimSound(claims[c])
    BY KnownOf, ClaimOf
  <2>4. "supervisor_sign_off" \in claims[c].had /\ claims[c].step \in Steps \cup {0}
    BY <2>2, <2>3 DEF ClaimSound, ClaimRecord
  <2>. QED BY <2>3, <2>4 DEF Vouched
<1>. QED BY <1>2, <1>3 DEF Proven

LEMMA CheckSound == ASSUME IInv, NEW t \in Tasks, CheckCompletion(t) PROVE IInv'
<1>1. PICK x : x = task[t]
  OBVIOUS
<1>2. x \in TaskType /\ InHand(x) /\ InHandEarned(x) /\ x.pc = "completion"
  BY <1>1, TaskOf DEF CheckCompletion
<1>3. x.op = "complete" /\ x.visit \in SUBSET known
  BY <1>2 DEF InHand
<1>4. PICK proven \in {CompletionProven(x.visit)} \cup
                      (IF GraphMayFail THEN {AnySupported(x.visit)} ELSE {}) :
        Become(t, [x EXCEPT !.visit = {},
                     !.pc = IF proven THEN "validate_save" ELSE "check_save"])
  BY <1>1 DEF CheckCompletion
<1>5. proven => GraphMayFail \/ Proven
  <2>1. GraphMayFail \/ proven = CompletionProven(x.visit)
    BY <1>4
  <2>2. CompletionProven(x.visit) => Proven
    BY <1>3, CheckedCompletion
  <2>. QED BY <2>1, <2>2
<1>6. PICK pc : pc = IF proven THEN "validate_save" ELSE "check_save"
  OBVIOUS
<1>7. pc \in {"validate_save", "check_save"} /\ (pc = "validate_save" => GraphMayFail \/ Proven)
  BY <1>5, <1>6
<1>8. PICK rec : rec = [x EXCEPT !.visit = {}, !.pc = pc]
  OBVIOUS
<1>9. rec \in TaskType
  <2>1. pc \in PCs
    BY <1>7 DEF PCs, Saves
  <2>. QED BY <1>2, <1>8, <2>1 DEF TaskType
<1>10. /\ rec.pc = pc /\ rec.op = x.op /\ rec.e = x.e /\ rec.s = x.s /\ rec.c = x.c
       /\ rec.map = x.map /\ rec.list = x.list /\ rec.todo = x.todo /\ rec.next = x.next
  BY <1>2, <1>8 DEF TaskType
<1>11. InHand(rec)
  BY <1>2, <1>3, <1>7, <1>10 DEF InHand
<1>12. InHandEarned(rec)
  BY <1>2, <1>7, <1>10 DEF InHandEarned
<1>13. task' = [task EXCEPT ![t] = rec]
  BY <1>1, <1>4, <1>6, <1>8 DEF Become
<1>. QED BY <1>1, <1>7, <1>9, <1>10, <1>11, <1>12, <1>13, SameRest, MoveStep DEF CheckCompletion

LEMMA ParentSound == ASSUME IInv, NEW t \in Tasks, ResolveParent(t) PROVE IInv'
<1>1. PICK x : x = task[t]
  OBVIOUS
<1>2. x \in TaskType /\ InHand(x) /\ InHandEarned(x) /\ x.pc = "parent"
  BY <1>1, TaskOf DEF ResolveParent
<1>3. x.op = "complete" /\ x.e \in Executions /\ (GraphMayFail \/ Proven)
  BY <1>2 DEF InHand, InHandEarned
<1>4. PICK own : own = <<x.e, 0, 0>>
  OBVIOUS
<1>5. own \in Goals /\ Earned(own)
  BY <1>3, <1>4, GoalOf DEF Earned
<1>6. PICK todo : todo = {<<own, "completed">>}
  OBVIOUS
<1>7. todo \in SUBSET (Goals \X GoalStatus) /\ \A w \in todo : Earned(w[1])
  BY <1>5, <1>6 DEF GoalStatus
<1>8. PICK rec : rec = WriteGoals(x, todo, "check_save")
  OBVIOUS
<1>9. rec \in TaskType /\ rec.c = x.c /\ rec.pc # "claim_keep" /\ InHand(rec) /\ InHandEarned(rec)
  BY <1>2, <1>3, <1>7, <1>8, WriteGoalsSound
<1>10. task' = [task EXCEPT ![t] = rec]
  BY <1>1, <1>4, <1>6, <1>8 DEF ResolveParent, Become
<1>. QED BY <1>1, <1>9, <1>10, SameRest, MoveStep DEF ResolveParent

------------------------------------------------------------------------------
(* Claims                                                                  *)

\* A step of t that changes the claim c, which was known or is t's new one.
LEMMA ClaimStep ==
  ASSUME IInv, NEW t \in Tasks, NEW rec \in TaskType,
         task' = [task EXCEPT ![t] = rec], InHand(rec)', InHandEarned(rec),
         rec.pc # "claim_keep", rec.c \in known \cup {None, task[t].c},
         NEW c \in Claims, NEW r \in ClaimRecord, ClaimSound(r),
         c \in known \/ (task[t].pc = "claim_keep" /\ c = task[t].c),
         claims[c] # None => r.step = claims[c].step /\ claims[c].had \subseteq r.had,
         claims' = [claims EXCEPT ![c] = r], known' = known \cup {c},
         UNCHANGED <<executions, saved, stored, goals>>, disturbed' \in BOOLEAN
  PROVE  IInv'
<1>1. /\ claims' \in [Claims -> ClaimRecord \cup {None}]
      /\ \A d \in Claims : claims'[d] = IF d = c THEN r ELSE claims[d]
  BY SameRest
<1>2. TypeOK'
  BY <1>1, InvParts DEF TypeOK
<1>3. r # None
  BY Constants
<1>4. ClaimsSound'
  <2>1. \A d \in Claims : claims'[d] # None => ClaimSound(claims'[d])
    BY <1>1, ClaimOf
  <2>2. \A d \in known' : claims'[d] # None
    BY <1>1, <1>3, KnownOf
  <2>. QED BY <2>1, <2>2 DEF ClaimsSound, ClaimSound
<1>5. /\ \A map : MapEarned(map) => MapEarned(map)'
      /\ \A list : ListEarned(list) => ListEarned(list)'
      /\ \A x : InHandEarned(x) => InHandEarned(x)'
  <2>1. \A d \in Claims : claims[d] # None =>
          /\ claims'[d] # None /\ claims'[d].step = claims[d].step
          /\ claims[d].had \subseteq claims'[d].had
    BY <1>1, <1>3
  <2>2. /\ \A s : EvidenceVouched(s) => EvidenceVouched(s)'
        /\ Proven => Proven'
        /\ \A g : Earned(g) => Earned(g)'
    BY <2>1, VouchedStays
  <2>. QED BY <2>2, EarnedStays
<1>6. MapEarned(executions)' /\ MapEarned(saved)' /\ ListEarned(goals)'
  <2>1. MapEarned(executions) /\ MapEarned(saved) /\ ListEarned(goals)
    BY InvParts
  <2>2. PICK ex, sv, gl : ex = executions /\ sv = saved /\ gl = goals
    OBVIOUS
  <2>3. MapEarned(ex)' /\ MapEarned(sv)' /\ ListEarned(gl)'
    BY <1>5, <2>1, <2>2
  <2>. QED BY <2>2, <2>3 DEF MapEarned, ListEarned
<1>7. ASSUME NEW u \in Tasks PROVE (InHand(task[u]) /\ InHandEarned(task[u]))'
  <2>1. PICK x : x = task'[u]
    OBVIOUS
  <2>2. x = IF u = t THEN rec ELSE task[u]
    BY <2>1, InvParts DEF TypeOK
  <2>3. InHandEarned(x)'
    BY <2>2, <1>5, TaskOf
  <2>4. InHandEarned(task[u])'
    BY <2>1, <2>3 DEF InHandEarned, MapEarned, ListEarned
  <2>5. InHand(x)'
    <3>1. CASE u = t
      BY <2>2, <3>1
    <3>2. CASE u # t
      <4>1. InHand(x)
        BY <2>2, <3>2, TaskOf
      <4>. QED BY <4>1 DEF InHand
    <3>. QED BY <3>1, <3>2
  <2>6. InHand(task[u])'
    BY <2>1, <2>5 DEF InHand
  <2>. QED BY <2>4, <2>6
<1>8. ClaimIdsOwn'
  <2>1. ASSUME NEW d \in Claims, claims[d] = None, NEW u \in Tasks \ {t}, task[u].c = d
        PROVE  claims'[d] = None
    <3>1. d # c
      <4>1. CASE c \in known
        BY <2>1, <4>1, KnownOf
      <4>2. CASE task[t].pc = "claim_keep" /\ c = task[t].c
        BY <2>1, <4>2, InvParts DEF ClaimIdsOwn
      <4>. QED BY <4>1, <4>2
    <3>. QED BY <1>1, <2>1, <3>1
  <2>. QED BY <2>1, IdsStay
<1>. QED BY <1>2, <1>4, <1>6, <1>7, <1>8 DEF IInv

\* What verify makes of a claim that is not rejected.
LEMMA VerifiedSound ==
  ASSUME IInv, NEW c \in known, claims[c].status # "rejected",
         NEW r, r = [claims[c] EXCEPT !.status = VerifiedStatus(claims[c])]
  PROVE  /\ c \in Claims /\ claims[c] # None /\ r \in ClaimRecord /\ ClaimSound(r)
         /\ VerifiedStatus(claims[c]) \in ClaimStatus
         /\ r.step = claims[c].step /\ claims[c].had \subseteq r.had
<1>1. PICK old : old = claims[c]
  OBVIOUS
<1>2. c \in Claims /\ old # None /\ old \in ClaimRecord /\ ClaimSound(old)
  BY <1>1, KnownOf, ClaimOf
<1>3. PICK st : st = VerifiedStatus(old)
  OBVIOUS
<1>4. st \in ClaimStatus /\ st # "rejected"
  BY <1>1, <1>2, <1>3 DEF VerifiedStatus, ClaimStatus, ClaimRecord
<1>5. /\ r \in ClaimRecord /\ r.step = old.step /\ r.status = st
      /\ r.evidence = old.evidence /\ r.had = old.had
  BY <1>1, <1>2, <1>3, <1>4 DEF ClaimRecord
<1>6. st # "unverified" => old.status \notin {"unverified", "rejected"}
  BY <1>1, <1>2, <1>3 DEF VerifiedStatus, ClaimSound
<1>7. st = "unverified" => old.status = "unverified"
  BY <1>3 DEF VerifiedStatus
<1>8. st = "supervisor_verified" => "supervisor_sign_off" \in old.evidence
  BY <1>2, <1>3 DEF VerifiedStatus, ClaimSound
<1>9. ClaimSound(r)
  BY <1>2, <1>5, <1>6, <1>7, <1>8 DEF ClaimSound
<1>. QED BY <1>1, <1>2, <1>3, <1>4, <1>5, <1>9

LEMMA CreateClaimSound ==
  ASSUME IInv, NEW t \in Tasks, NEW s \in Steps \cup {0}, CreateClaim(t, s) PROVE IInv'
<1>1. PICK rec : rec = [Idle EXCEPT !.pc = "claim_new", !.op = "claim", !.s = s]
  OBVIOUS
<1>2. task' = [task EXCEPT ![t] = rec] /\ disturbed' \in BOOLEAN
  BY <1>1, Begun DEF CreateClaim
<1>3. rec \in TaskType
  <2>1. "claim_new" \in PCs /\ "claim" \in Ops
    BY DEF PCs, Ops
  <2>. QED BY <1>1, <2>1, IdleSound DEF TaskType
<1>4. /\ rec.pc = "claim_new" /\ rec.op = "claim" /\ rec.c = None
      /\ rec.map = NothingSaved /\ rec.list = NoGoals /\ rec.todo = {}
  BY <1>1 DEF Idle
<1>5. InHand(rec) /\ InHandEarned(rec)
  BY <1>4, NothingSound DEF InHand, InHandEarned
<1>. QED BY <1>2, <1>3, <1>4, <1>5, SameRest, MoveStep DEF CreateClaim

LEMMA NewClaimSound == ASSUME IInv, NEW t \in Tasks, NewClaim(t) PROVE IInv'
<1>1. PICK x : x = task[t]
  OBVIOUS
<1>2. x \in TaskType /\ InHand(x) /\ InHandEarned(x) /\ x.pc = "claim_new"
  BY <1>1, TaskOf DEF NewClaim
<1>3. PICK c \in Claims :
        /\ FreshClaim(c)
        /\ stored' = [stored EXCEPT ![c] = "unverified"]
        /\ Become(t, [x EXCEPT !.pc = "claim_keep", !.c = c])
  BY <1>1 DEF NewClaim
<1>4. PICK rec : rec = [x EXCEPT !.pc = "claim_keep", !.c = c]
  OBVIOUS
<1>5. rec \in TaskType
  BY <1>2, <1>4 DEF TaskType, PCs
<1>6. /\ rec.pc = "claim_keep" /\ rec.op = x.op /\ rec.e = x.e /\ rec.s = x.s /\ rec.c = c
      /\ rec.map = x.map /\ rec.list = x.list /\ rec.todo = x.todo /\ rec.next = x.next
  BY <1>2, <1>4 DEF TaskType
<1>7. InHand(rec) /\ InHandEarned(rec)
  BY <1>2, <1>6 DEF InHand, InHandEarned
<1>8. task' = [task EXCEPT ![t] = rec]
  BY <1>3, <1>4 DEF Become
<1>9. stored' \in [Claims -> ClaimStatus \cup {None}]
  BY <1>3, SameRest DEF ClaimStatus
<1>10. ClaimIdsOwn'
  <2>1. \A u \in Tasks : task'[u] = IF u = t THEN rec ELSE task[u]
    BY <1>8, InvParts DEF TypeOK
  <2>2. claims' = claims
    BY DEF NewClaim
  <2>3. claims[c] = None /\ \A u \in Tasks : task[u].c # c
    BY <1>3 DEF FreshClaim
  <2>4. ASSUME NEW u \in Tasks, task'[u].pc = "claim_keep"
        PROVE  claims'[task'[u].c] = None /\ \A v \in Tasks \ {u} : task'[v].c # task'[u].c
    <3>1. CASE u = t
      BY <1>6, <2>1, <2>2, <2>3, <3>1
    <3>2. CASE u # t
      <4>1. claims[task[u].c] = None /\ \A v \in Tasks \ {u} : task[v].c # task[u].c
        BY <2>1, <2>4, <3>2, InvParts DEF ClaimIdsOwn
      <4>. QED BY <1>6, <2>1, <2>2, <2>3, <3>2, <4>1
    <3>. QED BY <3>1, <3>2
  <2>. QED BY <2>4 DEF ClaimIdsOwn
<1>. QED BY <1>5, <1>7, <1>8, <1>9, <1>10, SameRest, InvParts, LocalStep DEF NewClaim

LEMMA OutOfClaimsSound == ASSUME IInv, NEW t \in Tasks, OutOfClaims(t) PROVE IInv'
<1>1. task' = [task EXCEPT ![t] = Idle]
  BY DEF OutOfClaims, Become
<1>. QED BY <1>1, IdleSound, SameRest, MoveStep DEF OutOfClaims

LEMMA KeepClaimSound == ASSUME IInv, NEW t \in Tasks, KeepClaim(t) PROVE IInv'
<1>1. PICK x : x = task[t]
  OBVIOUS
<1>2. x \in TaskType /\ InHand(x) /\ InHandEarned(x) /\ x.pc = "claim_keep" /\ x.c \in Claims
  BY <1>1, TaskOf DEF KeepClaim, InHand
<1>3. PICK r : r = [step |-> x.s, status |-> "unverified", evidence |-> {}, had |-> {}]
  OBVIOUS
<1>4. /\ claims' = [claims EXCEPT ![x.c] = r] /\ known' = known \cup {x.c}
      /\ Become(t, IF x.op = "complete"
                   THEN [x EXCEPT !.pc = "attach", !.type = "tool_output"] ELSE Idle)
  BY <1>1, <1>3 DEF KeepClaim
<1>5. r \in ClaimRecord /\ ClaimSound(r)
  BY <1>2, <1>3 DEF ClaimRecord, TaskType, ClaimStatus, ClaimSound
<1>6. claims[x.c] = None
  BY <1>1, <1>2, InvParts DEF ClaimIdsOwn
<1>7. PICK rec : rec = IF x.op = "complete"
                       THEN [x EXCEPT !.pc = "attach", !.type = "tool_output"] ELSE Idle
  OBVIOUS
<1>8. task' = [task EXCEPT ![t] = rec]
  BY <1>4, <1>7 DEF Become
<1>9. /\ rec \in TaskType /\ InHand(rec)' /\ InHandEarned(rec)
      /\ rec.pc # "claim_keep" /\ rec.c \in {None, x.c}
  <2>1. CASE x.op # "complete"
    <3>1. InHand(rec)
      BY <1>7, <2>1, IdleSound
    <3>2. InHand(rec)'
      BY <1>4, <3>1 DEF InHand
    <3>. QED BY <1>7, <2>1, <3>2, IdleSound
  <2>2. CASE x.op = "complete"
    <3>1. rec = [x EXCEPT !.pc = "attach", !.type = "tool_output"]
      BY <1>7, <2>2
    <3>2. "attach" \in PCs /\ "tool_output" \in AllTypes
      BY DEF PCs, AllTypes
    <3>3. rec \in TaskType
      BY <1>2, <3>1, <3>2 DEF TaskType
    <3>4. /\ rec.pc = "attach" /\ rec.op = x.op /\ rec.e = x.e /\ rec.s = x.s /\ rec.c = x.c
          /\ rec.type = "tool_output"
          /\ rec.map = x.map /\ rec.list = x.list /\ rec.todo = x.todo /\ rec.next = x.next
      BY <1>2, <3>1 DEF TaskType
    <3>5. InHand(rec)'
      BY <1>2, <1>4, <3>2, <3>4 DEF InHand
    <3>6. InHandEarned(rec)
      BY <1>2, <3>4 DEF InHandEarned
    <3>. QED BY <3>3, <3>4, <3>5, <3>6
  <2>. QED BY <2>1, <2>2
<1>. QED BY <1>1, <1>2, <1>4, <1>5, <1>6, <1>8, <1>9, SameRest, ClaimStep DEF KeepClaim

LEMMA AttachEvidenceSound ==
  ASSUME IInv, NEW t \in Tasks, NEW c \in Claims, NEW type \in EvidenceTypes,
         AttachEvidence(t, c, type)
  PROVE  IInv'
<1>1. PICK rec : rec = [Idle EXCEPT !.pc = "attach", !.op = "claim", !.c = c, !.type = type]
  OBVIOUS
<1>2. task' = [task EXCEPT ![t] = rec] /\ disturbed' \in BOOLEAN /\ c \in known
  BY <1>1, Begun DEF AttachEvidence
<1>3. rec \in TaskType
  <2>1. "attach" \in PCs /\ "claim" \in Ops /\ type \in AllTypes
    BY DEF PCs, Ops, AllTypes
  <2>. QED BY <1>1, <2>1, IdleSound DEF TaskType
<1>4. /\ rec.pc = "attach" /\ rec.op = "claim" /\ rec.c = c /\ rec.type = type
      /\ rec.map = NothingSaved /\ rec.list = NoGoals /\ rec.todo = {}
  BY <1>1 DEF Idle
<1>5. InHand(rec) /\ InHandEarned(rec)
  BY <1>2, <1>4, NothingSound DEF InHand, InHandEarned, AllTypes
<1>. QED BY <1>2, <1>3, <1>4, <1>5, SameRest, MoveStep DEF AttachEvidence

LEMMA AttachSound == ASSUME IInv, NEW t \in Tasks, Attach(t) PROVE IInv'
<1>1. PICK x : x = task[t]
  OBVIOUS
<1>2. /\ x \in TaskType /\ InHand(x) /\ InHandEarned(x) /\ x.pc = "attach"
      /\ x.c \in known /\ x.type \in AllTypes
  BY <1>1, TaskOf DEF Attach, InHand
<1>3. PICK old : old = claims[x.c]
  OBVIOUS
<1>4. x.c \in Claims /\ old # None /\ old \in ClaimRecord /\ ClaimSound(old)
  BY <1>2, <1>3, KnownOf, ClaimOf
<1>5. PICK all : all = old.evidence \cup {x.type}
  OBVIOUS
<1>6. PICK st, had : /\ st = IF old.status = "unverified" THEN "self_supported" ELSE old.status
                     /\ had = IF old.status = "rejected" THEN old.had ELSE all
  OBVIOUS
<1>7. PICK r : r = [old EXCEPT !.evidence = all, !.status = st, !.had = had]
  OBVIOUS
<1>8. PICK next : next = IF x.op = "complete" THEN "verify" ELSE "idle"
  OBVIOUS
<1>9. PICK rec : rec = [x EXCEPT !.pc = "claim_write", !.st = st, !.next = next]
  OBVIOUS
<1>10. st \in ClaimStatus /\ all \in SUBSET AllTypes /\ had \in SUBSET AllTypes
  BY <1>2, <1>4, <1>5, <1>6 DEF ClaimRecord, ClaimStatus
<1>11. /\ r \in ClaimRecord /\ r.step = old.step /\ r.status = st /\ r.evidence = all
       /\ r.had = had
  BY <1>4, <1>7, <1>10 DEF ClaimRecord
<1>12. claims' = [claims EXCEPT ![x.c] = r] /\ task' = [task EXCEPT ![t] = rec]
  <2>1. PICK new : new = [old EXCEPT
                            !.evidence = all,
                            !.status   = IF @ = "unverified" THEN "self_supported" ELSE @,
                            !.had      = IF old.status = "rejected" THEN @ ELSE all]
    OBVIOUS
  <2>2. new = r
    BY <1>4, <1>6, <1>7, <2>1 DEF ClaimRecord
  <2>3. /\ claims' = [claims EXCEPT ![x.c] = new]
        /\ Become(t, [x EXCEPT !.pc = "claim_write", !.st = new.status,
                               !.next = IF x.op = "complete" THEN "verify" ELSE "idle"])
    BY <1>1, <1>3, <1>5, <2>1 DEF Attach
  <2>. QED BY <1>8, <1>9, <1>11, <2>2, <2>3 DEF Become
<1>13. ClaimSound(r)
  BY <1>4, <1>5, <1>6, <1>11 DEF ClaimSound
<1>14. old.had \subseteq had
  BY <1>4, <1>5, <1>6 DEF ClaimSound, ClaimRecord
<1>15. known' = known \cup {x.c}
  BY <1>2 DEF Attach
<1>16. rec \in TaskType
  <2>1. "claim_write" \in PCs /\ next \in PCs
    BY <1>8 DEF PCs
  <2>. QED BY <1>2, <1>9, <1>10, <2>1 DEF TaskType
<1>17. /\ rec.pc = "claim_write" /\ rec.op = x.op /\ rec.e = x.e /\ rec.s = x.s /\ rec.c = x.c
       /\ rec.st = st /\ rec.next = next
       /\ rec.map = x.map /\ rec.list = x.list /\ rec.todo = x.todo
  BY <1>2, <1>9 DEF TaskType
<1>18. InHand(rec)'
  BY <1>2, <1>4, <1>8, <1>10, <1>15, <1>17 DEF InHand
<1>19. InHandEarned(rec)
  BY <1>2, <1>8, <1>17 DEF InHandEarned
<1>. QED BY <1>1, <1>2, <1>3, <1>4, <1>11, <1>12, <1>13, <1>14, <1>15, <1>16, <1>17, <1>18,
            <1>19, SameRest, ClaimStep DEF Attach

LEMMA ClaimWriteSound == ASSUME IInv, NEW t \in Tasks, ClaimWrite(t) PROVE IInv'
<1>1. PICK x : x = task[t]
  OBVIOUS
<1>2. /\ x \in TaskType /\ InHand(x) /\ InHandEarned(x) /\ x.pc = "claim_write"
      /\ x.c \in known /\ x.st \in ClaimStatus
      /\ x.next \in {"idle", "pipeline", "verify", "done"}
  BY <1>1, TaskOf DEF ClaimWrite, InHand
<1>3. /\ stored' = [stored EXCEPT ![x.c] = x.st]
      /\ Become(t, CASE x.next = "idle"     -> Idle
                     [] x.next = "pipeline" -> [x EXCEPT !.pc = "pipeline",
                                                  !.c = None, !.st = None]
                     [] OTHER               -> [x EXCEPT !.pc = x.next,
                                                  !.type = None, !.st = None])
  BY <1>1 DEF ClaimWrite
<1>4. stored' \in [Claims -> ClaimStatus \cup {None}]
  BY <1>2, <1>3, SameRest
<1>5. UNCHANGED <<executions, saved, claims, known, goals, disturbed>>
  BY DEF ClaimWrite
<1>6. CASE x.next = "idle"
  <2>1. task' = [task EXCEPT ![t] = Idle]
    BY <1>3, <1>6 DEF Become
  <2>. QED BY <1>4, <1>5, <2>1, IdleSound, SameRest, MoveStep
<1>7. CASE x.next = "pipeline"
  <2>1. PICK rec : rec = [x EXCEPT !.pc = "pipeline", !.c = None, !.st = None]
    OBVIOUS
  <2>2. task' = [task EXCEPT ![t] = rec]
    BY <1>3, <1>7, <2>1 DEF Become
  <2>3. "pipeline" \in PCs
    BY DEF PCs
  <2>4. rec \in TaskType
    BY <1>2, <2>1, <2>3 DEF TaskType
  <2>5. /\ rec.pc = "pipeline" /\ rec.op = x.op /\ rec.e = x.e /\ rec.s = x.s /\ rec.c = None
        /\ rec.map = x.map /\ rec.list = x.list /\ rec.todo = x.todo /\ rec.next = x.next
        /\ rec.visit = x.visit
    BY <1>2, <2>1 DEF TaskType
  <2>6. InHand(rec) /\ InHandEarned(rec)
    BY <1>2, <1>7, <2>5 DEF InHand, InHandEarned
  <2>. QED BY <1>4, <1>5, <2>2, <2>4, <2>5, <2>6, SameRest, MoveStep
<1>8. CASE x.next \in {"verify", "done"}
  <2>1. PICK rec : rec = [x EXCEPT !.pc = x.next, !.type = None, !.st = None]
    OBVIOUS
  <2>2. task' = [task EXCEPT ![t] = rec]
    BY <1>3, <1>8, <2>1 DEF Become
  <2>3. rec \in TaskType
    BY <1>2, <2>1 DEF TaskType
  <2>4. /\ rec.pc = x.next /\ rec.op = x.op /\ rec.e = x.e /\ rec.s = x.s /\ rec.c = x.c
        /\ rec.map = x.map /\ rec.list = x.list /\ rec.todo = x.todo /\ rec.next = x.next
    BY <1>2, <2>1 DEF TaskType
  <2>5. InHand(rec) /\ InHandEarned(rec)
    BY <1>2, <1>8, <2>4 DEF InHand, InHandEarned
  <2>. QED BY <1>2, <1>4, <1>5, <1>8, <2>2, <2>3, <2>4, <2>5, SameRest, MoveStep
<1>. QED BY <1>2, <1>6, <1>7, <1>8

\* A task about to write the status of the claim it has just changed.
LEMMA WritesStatus ==
  ASSUME IInv, NEW x \in TaskType, InHand(x), InHandEarned(x),
         NEW rec, rec.pc = "claim_write", rec.c \in Claims, rec.st \in ClaimStatus,
         rec.next \in {"idle", "pipeline", "done"},
         rec.next = "pipeline" => rec.visit \subseteq known,
         rec.op = x.op, rec.e = x.e, rec.s = x.s,
         rec.map = x.map, rec.list = x.list, rec.todo = x.todo,
         known' = known \cup {rec.c}
  PROVE  InHand(rec)' /\ InHandEarned(rec)
<1>1. InHand(rec)'
  BY DEF InHand
<1>2. InHandEarned(rec)
  BY DEF InHandEarned
<1>. QED BY <1>1, <1>2

LEMMA WritesPC == "claim_write" \in PCs /\ "claim" \in Ops /\ "pipeline" \in PCs /\ "done" \in PCs
<1>. QED BY DEF PCs, Ops

LEMMA ClaimOp ==
  ASSUME NEW x, x = [Idle EXCEPT !.op = "claim"]
  PROVE  x \in TaskType /\ InHand(x) /\ InHandEarned(x)
<1>1. "claim" \in Ops
  BY DEF Ops
<1>2. x \in TaskType
  BY <1>1, IdleSound DEF TaskType
<1>3. /\ x.pc = "idle" /\ x.op = "claim" /\ x.map = NothingSaved /\ x.list = NoGoals
      /\ x.todo = {}
  BY DEF Idle
<1>. QED BY <1>2, <1>3, NothingSound DEF InHand, InHandEarned

LEMMA VerifySound ==
  ASSUME IInv, NEW t \in Tasks, NEW c \in Claims, Verify(t, c) PROVE IInv'
<1>1. PICK st : st = VerifiedStatus(claims[c])
  OBVIOUS
<1>2. PICK r : r = [claims[c] EXCEPT !.status = VerifiedStatus(claims[c])]
  OBVIOUS
<1>3. c \in known /\ claims[c].status # "rejected"
  BY DEF Verify, Verifiable
<1>4. /\ claims[c] # None /\ r \in ClaimRecord /\ ClaimSound(r) /\ st \in ClaimStatus
      /\ r.step = claims[c].step /\ claims[c].had \subseteq r.had
  BY <1>1, <1>2, <1>3, VerifiedSound
<1>5. PICK rec : rec = [Idle EXCEPT !.pc = "claim_write", !.op = "claim", !.c = c, !.st = st]
  OBVIOUS
<1>6. /\ task' = [task EXCEPT ![t] = rec] /\ disturbed' \in BOOLEAN
  <2>1. Begin("verify", t, rec)
    BY <1>1, <1>5 DEF Verify
  <2>. QED BY <2>1, Begun
<1>7. claims' = [claims EXCEPT ![c] = r]
  BY <1>2 DEF Verify, SetStatus
<1>8. known' = known \cup {c}
  BY <1>3 DEF Verify
<1>9. PICK x : x = [Idle EXCEPT !.op = "claim"]
  OBVIOUS
<1>10. x \in TaskType /\ InHand(x) /\ InHandEarned(x)
  BY <1>9, ClaimOp
<1>11. /\ rec \in TaskType /\ rec.pc = "claim_write" /\ rec.c = c /\ rec.st = st
       /\ rec.next = "idle" /\ rec.op = x.op /\ rec.e = x.e /\ rec.s = x.s
       /\ rec.map = x.map /\ rec.list = x.list /\ rec.todo = x.todo
  <2>1. rec \in TaskType
    BY <1>4, <1>5, WritesPC, IdleSound DEF TaskType
  <2>. QED BY <1>5, <1>9, <2>1 DEF Idle
<1>12. InHand(rec)' /\ InHandEarned(rec)
  BY <1>4, <1>8, <1>10, <1>11, WritesStatus
<1>. QED BY <1>3, <1>4, <1>6, <1>7, <1>8, <1>11, <1>12, ClaimStep DEF Verify

LEMMA RejectSound ==
  ASSUME IInv, NEW t \in Tasks, NEW c \in Claims, Reject(t, c) PROVE IInv'
<1>1. PICK old : old = claims[c]
  OBVIOUS
<1>2. PICK r : r = [old EXCEPT !.status = "rejected"]
  OBVIOUS
<1>3. c \in known /\ old # None /\ old \in ClaimRecord /\ ClaimSound(old)
  BY <1>1, KnownOf, ClaimOf DEF Reject
<1>4. /\ r \in ClaimRecord /\ r.status = "rejected" /\ r.step = old.step /\ r.had = old.had
      /\ "rejected" \in ClaimStatus
  BY <1>2, <1>3 DEF ClaimRecord, ClaimStatus
<1>5. ClaimSound(r)
  BY <1>4 DEF ClaimSound
<1>6. PICK rec : rec = [Idle EXCEPT !.pc = "claim_write", !.op = "claim", !.c = c,
                                    !.st = "rejected"]
  OBVIOUS
<1>7. /\ task' = [task EXCEPT ![t] = rec] /\ disturbed' \in BOOLEAN
  <2>1. Begin("reject", t, rec)
    BY <1>6 DEF Reject
  <2>. QED BY <2>1, Begun
<1>8. claims' = [claims EXCEPT ![c] = r]
  BY <1>1, <1>2 DEF Reject, SetStatus
<1>9. known' = known \cup {c}
  BY <1>3 DEF Reject
<1>10. PICK x : x = [Idle EXCEPT !.op = "claim"]
  OBVIOUS
<1>11. x \in TaskType /\ InHand(x) /\ InHandEarned(x)
  BY <1>10, ClaimOp
<1>12. /\ rec \in TaskType /\ rec.pc = "claim_write" /\ rec.c = c /\ rec.st = "rejected"
       /\ rec.next = "idle" /\ rec.op = x.op /\ rec.e = x.e /\ rec.s = x.s
       /\ rec.map = x.map /\ rec.list = x.list /\ rec.todo = x.todo
  <2>1. rec \in TaskType
    BY <1>4, <1>6, WritesPC, IdleSound DEF TaskType
  <2>. QED BY <1>6, <1>10, <2>1 DEF Idle
<1>13. InHand(rec)' /\ InHandEarned(rec)
  BY <1>4, <1>9, <1>11, <1>12, WritesStatus
<1>. QED BY <1>1, <1>3, <1>4, <1>5, <1>7, <1>8, <1>9, <1>12, <1>13, ClaimStep DEF Reject

LEMMA VerifyEvidenceSound == ASSUME IInv, NEW t \in Tasks, VerifyEvidence(t) PROVE IInv'
<1>1. PICK x : x = task[t]
  OBVIOUS
<1>2. /\ x \in TaskType /\ InHand(x) /\ InHandEarned(x) /\ x.pc = "verify"
      /\ x.c \in known /\ x.c \in Claims /\ x.op = "complete"
  BY <1>1, TaskOf DEF VerifyEvidence, InHand
<1>3. PICK st : st = VerifiedStatus(claims[x.c])
  OBVIOUS
<1>4. UNCHANGED <<executions, saved, known, stored, goals, disturbed>>
  BY DEF VerifyEvidence
<1>5. CASE /\ Verifiable(x.c) /\ SetStatus(x.c, st)
           /\ Become(t, [x EXCEPT !.pc = "claim_write", !.st = st, !.next = "done"])
  <2>1. PICK r : r = [claims[x.c] EXCEPT !.status = VerifiedStatus(claims[x.c])]
    OBVIOUS
  <2>2. /\ claims[x.c] # None /\ r \in ClaimRecord /\ ClaimSound(r) /\ st \in ClaimStatus
        /\ r.step = claims[x.c].step /\ claims[x.c].had \subseteq r.had
    BY <1>2, <1>3, <1>5, <2>1, VerifiedSound DEF Verifiable
  <2>3. claims' = [claims EXCEPT ![x.c] = r]
    BY <1>3, <1>5, <2>1 DEF SetStatus
  <2>4. PICK rec : rec = [x EXCEPT !.pc = "claim_write", !.st = st, !.next = "done"]
    OBVIOUS
  <2>5. task' = [task EXCEPT ![t] = rec]
    BY <1>5, <2>4 DEF Become
  <2>6. /\ rec \in TaskType /\ rec.pc = "claim_write" /\ rec.c = x.c /\ rec.st = st
        /\ rec.next = "done" /\ rec.op = x.op /\ rec.e = x.e /\ rec.s = x.s
        /\ rec.map = x.map /\ rec.list = x.list /\ rec.todo = x.todo
    BY <1>2, <2>2, <2>4, WritesPC DEF TaskType
  <2>7. known' = known \cup {x.c}
    BY <1>2, <1>4
  <2>8. InHand(rec)' /\ InHandEarned(rec)
    BY <1>2, <2>2, <2>6, <2>7, WritesStatus
  <2>. QED BY <1>1, <1>2, <1>4, <2>2, <2>3, <2>5, <2>6, <2>7, <2>8, SameRest, ClaimStep
<1>6. CASE Become(t, [x EXCEPT !.pc = "done"]) /\ UNCHANGED claims
  <2>1. PICK rec : rec = [x EXCEPT !.pc = "done"]
    OBVIOUS
  <2>2. task' = [task EXCEPT ![t] = rec]
    BY <1>6, <2>1 DEF Become
  <2>3. "done" \in PCs
    BY DEF PCs
  <2>4. rec \in TaskType
    BY <1>2, <2>1, <2>3 DEF TaskType
  <2>5. /\ rec.pc = "done" /\ rec.op = x.op /\ rec.e = x.e /\ rec.s = x.s /\ rec.c = x.c
        /\ rec.map = x.map /\ rec.list = x.list /\ rec.todo = x.todo /\ rec.next = x.next
    BY <1>2, <2>1 DEF TaskType
  <2>6. InHand(rec) /\ InHandEarned(rec)
    BY <1>2, <2>5 DEF InHand, InHandEarned
  <2>. QED BY <1>1, <1>4, <1>6, <2>2, <2>4, <2>5, <2>6, SameRest, MoveStep
<1>. QED BY <1>1, <1>3, <1>5, <1>6 DEF VerifyEvidence

LEMMA RunVerificationSound == ASSUME IInv, NEW t \in Tasks, RunVerification(t) PROVE IInv'
<1>1. PICK rec : rec = [Idle EXCEPT !.pc = "pipeline", !.op = "pipeline", !.visit = known]
  OBVIOUS
<1>2. task' = [task EXCEPT ![t] = rec] /\ disturbed' \in BOOLEAN
  BY <1>1, Begun DEF RunVerification
<1>3. "pipeline" \in PCs /\ "pipeline" \in Ops
  BY DEF PCs, Ops
<1>4. rec \in TaskType
  BY <1>1, <1>3, IdleSound, SameRest DEF TaskType
<1>5. /\ rec.pc = "pipeline" /\ rec.op = "pipeline" /\ rec.c = None /\ rec.visit = known
      /\ rec.map = NothingSaved /\ rec.list = NoGoals /\ rec.todo = {}
  BY <1>1 DEF Idle
<1>6. InHand(rec) /\ InHandEarned(rec)
  BY <1>5, NothingSound DEF InHand, InHandEarned
<1>. QED BY <1>2, <1>4, <1>5, <1>6, SameRest, MoveStep DEF RunVerification

LEMMA VisitSound == ASSUME IInv, NEW t \in Tasks, VisitClaim(t) PROVE IInv'
<1>1. PICK x : x = task[t]
  OBVIOUS
<1>2. /\ x \in TaskType /\ InHand(x) /\ InHandEarned(x) /\ x.pc = "pipeline"
      /\ x.visit \subseteq known
  BY <1>1, TaskOf DEF VisitClaim, InHand
<1>3. UNCHANGED <<executions, saved, known, stored, goals, disturbed>>
  BY DEF VisitClaim
<1>4. CASE Become(t, Idle) /\ UNCHANGED claims
  <2>1. task' = [task EXCEPT ![t] = Idle]
    BY <1>4 DEF Become
  <2>. QED BY <1>3, <1>4, <2>1, IdleSound, SameRest, MoveStep
<1>5. ASSUME NEW c \in x.visit, NEW visit, visit = x.visit \ {c},
             NEW rest, rest = [x EXCEPT !.visit = visit],
             Become(t, rest), UNCHANGED claims
      PROVE  IInv'
  <2>1. visit \in SUBSET Claims /\ visit \subseteq known
    BY <1>2, <1>5 DEF TaskType
  <2>2. rest \in TaskType
    BY <1>2, <1>5, <2>1 DEF TaskType
  <2>3. /\ rest.pc = x.pc /\ rest.op = x.op /\ rest.e = x.e /\ rest.s = x.s /\ rest.c = x.c
        /\ rest.map = x.map /\ rest.list = x.list /\ rest.todo = x.todo /\ rest.next = x.next
        /\ rest.visit = visit
    BY <1>2, <1>5 DEF TaskType
  <2>4. InHand(rest) /\ InHandEarned(rest)
    BY <1>2, <2>1, <2>3 DEF InHand, InHandEarned
  <2>5. task' = [task EXCEPT ![t] = rest]
    BY <1>5 DEF Become
  <2>. QED BY <1>1, <1>2, <1>3, <1>5, <2>2, <2>3, <2>4, <2>5, SameRest, MoveStep
<1>6. ASSUME NEW c \in x.visit, NEW visit, visit = x.visit \ {c},
             NEW rest, rest = [x EXCEPT !.visit = visit],
             NEW st, st = VerifiedStatus(claims[c]), claims[c].status = "self_supported",
             SetStatus(c, st),
             Become(t, [rest EXCEPT !.pc = "claim_write", !.c = c, !.st = st,
                                    !.next = "pipeline"])
      PROVE  IInv'
  <2>1. c \in known /\ claims[c].status # "rejected"
    BY <1>2, <1>6
  <2>2. PICK r : r = [claims[c] EXCEPT !.status = VerifiedStatus(claims[c])]
    OBVIOUS
  <2>3. /\ c \in Claims
        /\ claims[c] # None /\ r \in ClaimRecord /\ ClaimSound(r) /\ st \in ClaimStatus
        /\ r.step = claims[c].step /\ claims[c].had \subseteq r.had
    BY <1>6, <2>1, <2>2, VerifiedSound
  <2>4. claims' = [claims EXCEPT ![c] = r]
    BY <1>6, <2>2 DEF SetStatus
  <2>5. PICK rec : rec = [rest EXCEPT !.pc = "claim_write", !.c = c, !.st = st,
                                      !.next = "pipeline"]
    OBVIOUS
  <2>6. task' = [task EXCEPT ![t] = rec]
    BY <1>6, <2>5 DEF Become
  <2>7. /\ rec \in TaskType /\ rec.pc = "claim_write" /\ rec.c = c /\ rec.st = st
        /\ rec.next = "pipeline" /\ rec.op = x.op /\ rec.e = x.e /\ rec.s = x.s
        /\ rec.map = x.map /\ rec.list = x.list /\ rec.todo = x.todo /\ rec.visit = visit
    <3>1. visit \in SUBSET Claims
      BY <1>2, <1>6 DEF TaskType
    <3>2. rest \in TaskType
      BY <1>2, <1>6, <3>1 DEF TaskType
    <3>. QED BY <1>2, <1>6, <2>3, <2>5, <3>1, <3>2, WritesPC DEF TaskType
  <2>8. known' = known \cup {c}
    BY <1>3, <2>1
  <2>9. InHand(rec)' /\ InHandEarned(rec)
    BY <1>2, <1>6, <2>3, <2>7, <2>8, WritesStatus
  <2>. QED BY <1>3, <2>1, <2>3, <2>4, <2>6, <2>7, <2>8, <2>9, SameRest, ClaimStep
<1>7. ASSUME NEW c \in x.visit PROVE [x EXCEPT !.visit = @ \ {c}] = [x EXCEPT !.visit = x.visit \ {c}]
  BY <1>2 DEF TaskType
<1>. QED
  <2>1. SUFFICES ASSUME NEW c \in x.visit,
          LET rest == [x EXCEPT !.visit = @ \ {c}]
              st   == VerifiedStatus(claims[c]) IN
            IF /\ claims[c].status = "self_supported"
               /\ "tool_output" \in claims[c].evidence
            THEN /\ SetStatus(c, st)
                 /\ Become(t, [rest EXCEPT !.pc = "claim_write", !.c = c, !.st = st,
                                           !.next = "pipeline"])
            ELSE Become(t, rest) /\ UNCHANGED claims
        PROVE  IInv'
    BY <1>1, <1>4 DEF VisitClaim
  <2>2. PICK visit : visit = x.visit \ {c}
    OBVIOUS
  <2>3. PICK rest : rest = [x EXCEPT !.visit = visit]
    OBVIOUS
  <2>4. rest = [x EXCEPT !.visit = @ \ {c}]
    BY <1>7, <2>2, <2>3
  <2>5. PICK st : st = VerifiedStatus(claims[c])
    OBVIOUS
  <2>6. CASE claims[c].status = "self_supported" /\ "tool_output" \in claims[c].evidence
    <3>1. /\ SetStatus(c, st)
          /\ Become(t, [rest EXCEPT !.pc = "claim_write", !.c = c, !.st = st,
                                    !.next = "pipeline"])
      BY <2>1, <2>4, <2>5, <2>6
    <3>. QED BY <1>6, <2>2, <2>3, <2>5, <2>6, <3>1
  <2>7. CASE ~(claims[c].status = "self_supported" /\ "tool_output" \in claims[c].evidence)
    <3>1. Become(t, rest) /\ UNCHANGED claims
      BY <2>1, <2>4, <2>7
    <3>. QED BY <1>5, <2>2, <2>3, <3>1
  <2>. QED BY <2>6, <2>7

------------------------------------------------------------------------------
(* The process                                                             *)

\* A restart leaves no task with anything in hand.
LEMMA RestartSound == ASSUME IInv, Restart PROVE IInv'
<1>1. /\ executions' = NothingSaved /\ known' = {} /\ task' = [t \in Tasks |-> Idle]
      /\ UNCHANGED <<saved, claims, stored, goals>>
  BY DEF Restart
<1>2. disturbed' \in BOOLEAN
  BY SameRest DEF Restart, Quiet
<1>3. TypeOK'
  <2>1. task' \in [Tasks -> TaskType]
    BY <1>1, IdleSound
  <2>. QED BY <1>1, <1>2, <2>1, SameRest, NothingSound DEF TypeOK
<1>4. ClaimsSound'
  BY <1>1, InvParts DEF ClaimsSound, ClaimSound
<1>5. ClaimIdsOwn'
  BY <1>1, IdleSound DEF ClaimIdsOwn
<1>6. /\ \A map : MapEarned(map) => MapEarned(map)'
      /\ \A list : ListEarned(list) => ListEarned(list)'
      /\ \A x : InHandEarned(x) => InHandEarned(x)'
  BY <1>1, VouchedStays, EarnedStays
<1>7. MapEarned(executions)' /\ MapEarned(saved)' /\ ListEarned(goals)'
  <2>1. PICK ex, sv, gl : ex = NothingSaved /\ sv = saved /\ gl = goals
    OBVIOUS
  <2>2. MapEarned(ex)' /\ MapEarned(sv)' /\ ListEarned(gl)'
    BY <1>6, <2>1, NothingSound, InvParts
  <2>. QED BY <1>1, <2>1, <2>2 DEF MapEarned, ListEarned
<1>8. ASSUME NEW u \in Tasks PROVE (InHand(task[u]) /\ InHandEarned(task[u]))'
  <2>1. PICK x : x = Idle
    OBVIOUS
  <2>2. InHandEarned(x)'
    BY <1>6, <2>1, IdleSound
  <2>3. task'[u] = x
    BY <1>1, <2>1
  <2>4. InHandEarned(task[u])'
    BY <2>2, <2>3 DEF InHandEarned, MapEarned, ListEarned
  <2>5. InHand(task[u])'
    BY <2>1, <2>3 DEF InHand, Idle
  <2>. QED BY <2>4, <2>5
<1>. QED BY <1>3, <1>4, <1>5, <1>7, <1>8 DEF IInv

\* A step no task takes, that only changes what is in memory of the executions.
LEMMA QuietStep ==
  ASSUME IInv, NEW ex \in Saved, executions' = ex, MapEarned(ex),
         UNCHANGED <<saved, claims, known, stored, goals, disturbed, task>>
  PROVE  IInv'
<1>1. TypeOK' /\ ClaimsSound' /\ ClaimIdsOwn'
  BY InvParts DEF TypeOK, ClaimsSound, ClaimSound, ClaimIdsOwn
<1>2. /\ \A map : MapEarned(map) => MapEarned(map)'
      /\ \A list : ListEarned(list) => ListEarned(list)'
      /\ \A x : InHandEarned(x) => InHandEarned(x)'
  BY VouchedStays, EarnedStays
<1>3. MapEarned(executions)' /\ MapEarned(saved)' /\ ListEarned(goals)'
  <2>1. PICK sv, gl : sv = saved /\ gl = goals
    OBVIOUS
  <2>2. MapEarned(ex)' /\ MapEarned(sv)' /\ ListEarned(gl)'
    BY <1>2, <2>1, InvParts
  <2>. QED BY <2>1, <2>2 DEF MapEarned, ListEarned
<1>4. ASSUME NEW u \in Tasks PROVE (InHand(task[u]) /\ InHandEarned(task[u]))'
  <2>1. PICK x : x = task[u]
    OBVIOUS
  <2>2. InHandEarned(x)' /\ InHand(x)
    BY <1>2, <2>1, TaskOf
  <2>3. InHandEarned(task[u])'
    BY <2>1, <2>2 DEF InHandEarned, MapEarned, ListEarned
  <2>4. InHand(task[u])'
    BY <2>1, <2>2 DEF InHand
  <2>. QED BY <2>3, <2>4
<1>. QED BY <1>1, <1>3, <1>4 DEF IInv

LEMMA RestoreSound == ASSUME IInv, RestoreExecutions PROVE IInv'
<1>1. PICK ex : ex = [e \in Executions |-> IF saved[e] = None THEN executions[e] ELSE saved[e]]
  OBVIOUS
<1>2. ex \in Saved
  BY <1>1, SameRest DEF Saved
<1>3. MapEarned(ex)
  BY <1>1, InvParts DEF MapEarned
<1>. QED BY <1>1, <1>2, <1>3, QuietStep DEF RestoreExecutions

LEMMA NextSound == ASSUME IInv, [Next]_vars PROVE IInv'
<1>1. CASE UNCHANGED vars
  BY <1>1, SameRest, InvParts, QuietStep DEF vars
<1>2. ASSUME NEW t \in Tasks, Step(t) PROVE IInv'
  BY <1>2, GoalReadSound, GoalWriteSound, SaveReadSound, SaveWriteSound, OrphansSound,
     ReturnSound, StepGoalSound, ValidateSound, CheckSound, ParentSound, NewClaimSound,
     OutOfClaimsSound, KeepClaimSound, AttachSound, ClaimWriteSound, VerifyEvidenceSound,
     VisitSound DEF Step
<1>3. ASSUME NEW t \in Tasks, Call(t) PROVE IInv'
  BY <1>3, ActivateSound, CompleteStepSound, CreateClaimSound, VerifySound, RejectSound,
     AttachEvidenceSound, RunVerificationSound DEF Call
<1>4. CASE Restart
  BY <1>4, RestartSound
<1>5. CASE RestoreExecutions
  BY <1>5, RestoreSound
<1>. QED BY <1>1, <1>2, <1>3, <1>4, <1>5 DEF Next

\* Whatever calls overlap and whenever the process stops, what a task will complete is
\* earned before it writes it: the claims' history in evidence/engine.py says so.
THEOREM EvidenceInvariant == Spec => []IInv
<1>1. Init => IInv
  BY InitSound
<1>2. IInv /\ [Next]_vars => IInv'
  BY NextSound
<1>. QED BY <1>1, <1>2, PTL DEF Spec

LEMMA InvSteps == ASSUME IInv PROVE CompletedStepProven
<1>1. MapEarned(executions) /\ MapEarned(saved) /\ ListEarned(goals)
  BY InvParts
<1>2. \A e \in Executions, f \in {executions, saved} :
        f[e] # None => \A s \in f[e] : EvidenceVouched(s)
  BY <1>1 DEF MapEarned
<1>3. \A g \in Goals : goals[g] = "completed" /\ g[2] # 0 => EvidenceVouched(g[2])
  BY <1>1 DEF ListEarned, Earned
<1>. QED BY <1>2, <1>3 DEF CompletedStepProven

\* A step is complete, in memory, in Redis or as a sub-goal, only if each of its required
\* proofs was accepted for the procedure at some time (check_step in procedures/engine.py).
THEOREM StepsProvenHold == Spec => []CompletedStepProven
<1>1. IInv => CompletedStepProven
  BY InvSteps
<1>. QED BY <1>1, EvidenceInvariant, PTL

LEMMA InvFinalized == ASSUME IInv, ~GraphMayFail PROVE FinalizedOnlyWhenProven
<1>1. SUFFICES ASSUME NEW e \in Executions, goals[<<e, 0, 0>>] = "completed" PROVE Proven
  BY DEF FinalizedOnlyWhenProven, Proven
<1>2. PICK g : g = <<e, 0, 0>>
  OBVIOUS
<1>3. g \in Goals /\ g[2] = 0
  BY <1>2, GoalOf
<1>4. Earned(g)
  BY <1>1, <1>2, <1>3, InvParts DEF ListEarned
<1>. QED BY <1>3, <1>4 DEF Earned

\* While the graph can be read, an execution's goal is completed only for a procedure whose
\* needed steps were all proven, and signed off where approval is required
\* (validate_completion, and evidence/engine.py's check_completion_requirements).
THEOREM FinalizedHolds == ~GraphMayFail => (Spec => []FinalizedOnlyWhenProven)
<1>1. SUFFICES ASSUME ~GraphMayFail PROVE Spec => []FinalizedOnlyWhenProven
  OBVIOUS
<1>2. IInv => FinalizedOnlyWhenProven
  BY <1>1, InvFinalized
<1>. QED BY <1>2, EvidenceInvariant, PTL

------------------------------------------------------------------------------
(* While calls come one after the other                                    *)

\* What the invariant says when t is the only task that may be busy.
LEMMA SerialNow ==
  ASSUME IInv, Serial, ~disturbed, NEW t \in Tasks, NEW x, x = task[t],
         \A u \in Tasks \ {t} : task[u].pc = "idle"
  PROVE  /\ HandCurrent(x)
         /\ \A e \in Executions : executions[e] # None =>
              saved[e] = executions[e] \/ (SavePending(x) /\ x.e = e)
         /\ \A c \in known : stored[c] = claims[c].status \/ (x.pc = "claim_write" /\ x.c = c)
         /\ OneActive \/ (WritingGoals(x) /\ x.op = "activate")
<1>1. HandCurrent(x) /\ StoresCurrent
  BY DEF Serial
<1>2. \A u \in Tasks \ {t} : /\ ~SavePending(task[u]) /\ ~WritingGoals(task[u])
                             /\ task[u].pc # "claim_write"
  BY DEF SavePending, WritingGoals
<1>3. \A u \in Tasks : \/ u = t
                       \/ ~SavePending(task[u]) /\ ~WritingGoals(task[u]) /\ task[u].pc # "claim_write"
  BY <1>2
<1>. QED BY <1>1, <1>3 DEF StoresCurrent

LEMMA OthersIdle ==
  ASSUME IInv, Serial, ~disturbed, NEW t \in Tasks, task[t].pc # "idle" \/ Quiet
  PROVE  \A u \in Tasks \ {t} : task[u].pc = "idle"
<1>. QED BY DEF Serial, Alone, Quiet

\* A step of the one busy task keeps the rest, if it does so for what it has in hand.
LEMMA SerialStep ==
  ASSUME IInv, NEW t \in Tasks, \A u \in Tasks \ {t} : task[u].pc = "idle",
         NEW rec, task' = [task EXCEPT ![t] = rec],
         HandCurrent(rec)',
         \A e \in Executions : executions'[e] # None =>
           saved'[e] = executions'[e] \/ (SavePending(rec) /\ rec.e = e),
         \A c \in known' : stored'[c] = claims'[c].status \/ (rec.pc = "claim_write" /\ rec.c = c),
         OneActive' \/ (WritingGoals(rec) /\ rec.op = "activate")
  PROVE  Serial'
<1>1. \A u \in Tasks : task'[u] = IF u = t THEN rec ELSE task[u]
  BY InvParts DEF TypeOK
<1>2. Alone'
  BY <1>1 DEF Alone
<1>3. ASSUME NEW u \in Tasks PROVE HandCurrent(task[u])'
  <2>1. CASE u = t
    <3>1. task'[u] = rec
      BY <1>1, <2>1
    <3>. QED BY <3>1 DEF HandCurrent, WritingGoals
  <2>2. CASE u # t
    <3>1. task'[u].pc = "idle"
      BY <1>1, <2>2
    <3>. QED BY <3>1 DEF HandCurrent, WritingGoals
  <2>. QED BY <2>1, <2>2
<1>4. StoresCurrent'
  <2>1. task'[t] = rec
    BY <1>1
  <2>2. (SavePending(task[t]))' <=> SavePending(rec)
    BY <2>1 DEF SavePending, WritingGoals
  <2>3. (WritingGoals(task[t]))' <=> WritingGoals(rec)
    BY <2>1 DEF WritingGoals
  <2>4. \A e \in Executions : executions'[e] # None =>
          saved'[e] = executions'[e] \/ ((SavePending(task[t]))' /\ task'[t].e = e)
    BY <2>1, <2>2
  <2>. QED BY <2>1, <2>3, <2>4 DEF StoresCurrent
<1>. QED BY <1>2, <1>3, <1>4 DEF Serial

\* The same, where only the task moves, and has no goal or status in hand.
LEMMA SerialMove ==
  ASSUME IInv, Serial, ~disturbed, NEW t \in Tasks, NEW x, x = task[t],
         x.pc # "idle" \/ Quiet,
         NEW rec, task' = [task EXCEPT ![t] = rec],
         UNCHANGED <<executions, saved, claims, known, stored, goals>>,
         x.pc # "claim_write", ~WritingGoals(x) \/ x.op # "activate",
         SavePending(x) => SavePending(rec) /\ rec.e = x.e,
         HandCurrent(rec)
  PROVE  Serial'
<1>1. \A u \in Tasks \ {t} : task[u].pc = "idle"
  BY OthersIdle
<1>2. HandCurrent(rec)'
  BY DEF HandCurrent, WritingGoals
<1>3. /\ \A e \in Executions : executions[e] # None =>
           saved[e] = executions[e] \/ (SavePending(rec) /\ rec.e = e)
      /\ \A c \in known : stored[c] = claims[c].status
      /\ OneActive
  BY <1>1, SerialNow
<1>4. OneActive'
  BY <1>3 DEF OneActive
<1>. QED BY <1>1, <1>2, <1>3, <1>4, SerialStep

LEMMA BegunAlone ==
  ASSUME IInv, NEW call, NEW t \in Tasks, NEW rec, Begin(call, t, rec), ~disturbed'
  PROVE  /\ ~disturbed /\ Quiet /\ task[t].pc = "idle" /\ task' = [task EXCEPT ![t] = rec]
         /\ \A u \in Tasks \ {t} : task[u].pc = "idle"
<1>1. Quiet \in BOOLEAN
  BY DEF Quiet
<1>. QED BY <1>1, SameRest DEF Begin, Become, Quiet

\* Between calls nothing is pending.
LEMMA SerialQuiet ==
  ASSUME IInv, Serial, ~disturbed, Quiet
  PROVE  /\ \A e \in Executions : executions[e] # None => saved[e] = executions[e]
         /\ \A c \in known : stored[c] = claims[c].status
         /\ OneActive
<1>1. \A t \in Tasks : ~SavePending(task[t]) /\ ~WritingGoals(task[t]) /\ task[t].pc # "claim_write"
  BY DEF Quiet, SavePending, WritingGoals
<1>. QED BY <1>1 DEF Serial, StoresCurrent

\* A record with nothing in hand.
LEMMA IdleCurrent == ASSUME NEW x, x.pc \in {"idle", "done", "claim_new", "attach", "verify",
                                             "pipeline", "parent", "orphans"}
                     PROVE  HandCurrent(x) /\ ~SavePending(x) /\ ~WritingGoals(x)
<1>. QED BY DEF HandCurrent, SavePending, WritingGoals

LEMMA PendingCurrent ==
  ASSUME NEW x, x.pc \in {"activate_save", "step_goal", "validate", "completion",
                          "validate_save", "check_save"}
  PROVE  HandCurrent(x) /\ SavePending(x) /\ ~WritingGoals(x)
<1>. QED BY DEF HandCurrent, SavePending, WritingGoals

LEMMA GoalReadSerial ==
  ASSUME IInv, Serial, ~disturbed', NEW t \in Tasks, GoalRead(t) PROVE Serial'
<1>1. PICK x : x = task[t]
  OBVIOUS
<1>2. x \in TaskType /\ x.pc = "goal_read" /\ ~disturbed
  BY <1>1, TaskOf DEF GoalRead
<1>3. PICK rec : rec = [x EXCEPT !.pc = "goal_write", !.list = goals]
  OBVIOUS
<1>4. task' = [task EXCEPT ![t] = rec]
  BY <1>1, <1>3 DEF GoalRead, Become
<1>5. /\ rec.pc = "goal_write" /\ rec.op = x.op /\ rec.e = x.e /\ rec.list = goals
      /\ rec.todo = x.todo /\ rec.next = x.next
  BY <1>2, <1>3 DEF TaskType
<1>6. \A u \in Tasks \ {t} : task[u].pc = "idle"
  BY <1>1, <1>2, OthersIdle
<1>7. /\ HandCurrent(x)
      /\ \A e \in Executions : executions[e] # None =>
           saved[e] = executions[e] \/ (SavePending(x) /\ x.e = e)
      /\ \A c \in known : stored[c] = claims[c].status
      /\ OneActive \/ (WritingGoals(x) /\ x.op = "activate")
  BY <1>1, <1>2, <1>6, SerialNow
<1>8. HandCurrent(rec)
  BY <1>2, <1>5, <1>7 DEF HandCurrent, WritingGoals
<1>9. UNCHANGED <<executions, saved, claims, known, stored, goals>>
  BY DEF GoalRead
<1>10. HandCurrent(rec)'
  BY <1>8, <1>9 DEF HandCurrent, WritingGoals
<1>11. /\ WritingGoals(rec) /\ (SavePending(x) => SavePending(rec))
  BY <1>2, <1>5 DEF WritingGoals, SavePending
<1>12. OneActive' \/ (WritingGoals(rec) /\ rec.op = "activate")
  BY <1>5, <1>7, <1>9, <1>11 DEF OneActive
<1>. QED BY <1>4, <1>5, <1>6, <1>7, <1>9, <1>10, <1>11, <1>12, SerialStep

\* What WriteGoals leaves in hand.
LEMMA WriteGoalsFields ==
  ASSUME NEW x \in TaskType, NEW todo, NEW next, NEW rec, rec = WriteGoals(x, todo, next)
  PROVE  /\ rec.pc = IF todo = {} THEN next ELSE "goal_read"
         /\ rec.op = x.op /\ rec.e = x.e /\ rec.todo = todo /\ rec.next = next
<1>. QED BY DEF WriteGoals, TaskType

LEMMA GoalWriteSerial ==
  ASSUME IInv, Serial, ~disturbed', NEW t \in Tasks, GoalWrite(t) PROVE Serial'
<1>1. PICK x : x = task[t]
  OBVIOUS
<1>2. x \in TaskType /\ InHand(x) /\ x.pc = "goal_write" /\ ~disturbed
  BY <1>1, TaskOf DEF GoalWrite
<1>3. PICK w \in x.todo :
        /\ goals' = IF x.list[w[1]] = None /\ w[2] # "active" THEN goals
                    ELSE [x.list EXCEPT ![w[1]] = w[2]]
        /\ Become(t, WriteGoals([x EXCEPT !.list = NoGoals], x.todo \ {w}, x.next))
  BY <1>1 DEF GoalWrite
<1>4. PICK y : y = [x EXCEPT !.list = NoGoals]
  OBVIOUS
<1>5. y \in TaskType /\ y.op = x.op /\ y.e = x.e
  BY <1>2, <1>4, NothingSound DEF TaskType
<1>6. PICK todo : todo = x.todo \ {w}
  OBVIOUS
<1>7. PICK rec : rec = WriteGoals(y, todo, x.next)
  OBVIOUS
<1>8. /\ rec.pc = IF todo = {} THEN x.next ELSE "goal_read"
      /\ rec.op = x.op /\ rec.e = x.e /\ rec.todo = todo /\ rec.next = x.next
  BY <1>5, <1>7, WriteGoalsFields
<1>9. task' = [task EXCEPT ![t] = rec]
  BY <1>3, <1>4, <1>6, <1>7 DEF Become
<1>10. \A u \in Tasks \ {t} : task[u].pc = "idle"
  BY <1>1, <1>2, OthersIdle
<1>11. /\ HandCurrent(x) /\ WritingGoals(x)
       /\ \A e \in Executions : executions[e] # None =>
            saved[e] = executions[e] \/ (SavePending(x) /\ x.e = e)
       /\ \A c \in known : stored[c] = claims[c].status
       /\ OneActive \/ x.op = "activate"
  BY <1>1, <1>2, <1>10, SerialNow DEF WritingGoals
<1>12. UNCHANGED <<executions, saved, claims, known, stored>>
  BY DEF GoalWrite
<1>13. /\ x.list = goals /\ w[1] \in Goals /\ w[2] \in GoalStatus
       /\ x.op \in {"activate", "complete"}
       /\ x.next = "done" \/ (x.next \in {"validate", "check_save"} /\ x.op = "complete")
  BY <1>2, <1>3, <1>11 DEF HandCurrent, InHand, TaskType
<1>14. \A g \in Goals : goals'[g] = IF g = w[1] /\ (goals[g] # None \/ w[2] = "active")
                                    THEN w[2] ELSE goals[g]
  BY <1>3, <1>13, SameRest DEF GoalList
<1>15. SavePending(x) => SavePending(rec)
  BY <1>2, <1>8, <1>13 DEF SavePending, WritingGoals
<1>16. CASE x.op = "complete"
  <2>1. \A v \in x.todo : v[2] = "completed"
    BY <1>11, <1>16 DEF HandCurrent
  <2>2. OneActive
    BY <1>11, <1>16
  <2>3. \A g \in Goals : goals'[g] = "active" => goals[g] = "active"
    BY <1>3, <1>14, <2>1
  <2>4. OneActive'
    BY <2>2, <2>3 DEF OneActive
  <2>5. HandCurrent(rec)'
    BY <1>6, <1>8, <1>13, <1>16, <2>1 DEF HandCurrent, WritingGoals
  <2>. QED BY <1>8, <1>9, <1>10, <1>11, <1>12, <1>15, <2>4, <2>5, SerialStep
<1>17. CASE x.op = "activate"
  <2>1. /\ \A v \in x.todo : v[2] = "active" => v[1][1] = x.e
        /\ \A g \in Goals : goals[g] = "active" /\ g[1] # x.e => <<g, "abandoned">> \in x.todo
    BY <1>11, <1>17 DEF HandCurrent
  <2>2. \A g \in Goals : goals'[g] = "active" /\ g[1] # x.e => <<g, "abandoned">> \in todo
    <3>1. SUFFICES ASSUME NEW g \in Goals, goals'[g] = "active", g[1] # x.e
                   PROVE  <<g, "abandoned">> \in todo
      OBVIOUS
    <3>2. goals[g] = "active"
      BY <1>3, <1>14, <2>1, <3>1
    <3>3. <<g, "abandoned">> # w
      <4>1. SUFFICES ASSUME w = <<g, "abandoned">> PROVE FALSE
        OBVIOUS
      <4>2. goals'[g] = "abandoned"
        BY <1>14, <3>2, <4>1, Constants DEF GoalStatus
      <4>. QED BY <3>1, <4>2
    <3>. QED BY <1>6, <2>1, <3>1, <3>2, <3>3
  <2>3. x.next = "done"
    BY <1>13, <1>17
  <2>4. HandCurrent(rec)'
    BY <1>6, <1>8, <1>17, <2>1, <2>2, <2>3 DEF HandCurrent, WritingGoals
  <2>5. OneActive' \/ (WritingGoals(rec) /\ rec.op = "activate")
    <3>1. CASE todo = {}
      BY <2>2, <3>1 DEF OneActive
    <3>2. CASE todo # {}
      BY <1>8, <1>17, <3>2 DEF WritingGoals
    <3>. QED BY <3>1, <3>2
  <2>. QED BY <1>8, <1>9, <1>10, <1>11, <1>12, <1>15, <2>4, <2>5, SerialStep
<1>. QED BY <1>13, <1>16, <1>17

LEMMA SaveReadSerial ==
  ASSUME IInv, Serial, ~disturbed', NEW t \in Tasks, SaveRead(t) PROVE Serial'
<1>1. PICK x : x = task[t]
  OBVIOUS
<1>2. x \in TaskType /\ x.pc \in Saves /\ ~disturbed
  BY <1>1, TaskOf DEF SaveRead
<1>3. PICK rec : rec = [x EXCEPT !.pc = "save_write", !.map = saved, !.next = AfterSave(x)]
  OBVIOUS
<1>4. task' = [task EXCEPT ![t] = rec]
  BY <1>1, <1>3 DEF SaveRead, Become
<1>5. rec.pc = "save_write" /\ rec.e = x.e /\ rec.map = saved
  BY <1>2, <1>3 DEF TaskType
<1>6. HandCurrent(rec) /\ SavePending(rec) /\ x.pc # "claim_write" /\ ~WritingGoals(x)
  BY <1>2, <1>5 DEF HandCurrent, SavePending, WritingGoals, Saves
<1>7. x.pc # "idle"
  BY <1>2 DEF Saves
<1>. QED BY <1>1, <1>2, <1>4, <1>5, <1>6, <1>7, SerialMove DEF SaveRead

LEMMA SaveWriteSerial ==
  ASSUME IInv, Serial, ~disturbed', NEW t \in Tasks, SaveWrite(t) PROVE Serial'
<1>1. PICK x : x = task[t]
  OBVIOUS
<1>2. x \in TaskType /\ InHand(x) /\ x.pc = "save_write" /\ ~disturbed
  BY <1>1, TaskOf DEF SaveWrite
<1>3. PICK rec : rec = [x EXCEPT !.pc = x.next, !.map = NothingSaved]
  OBVIOUS
<1>4. task' = [task EXCEPT ![t] = rec]
  BY <1>1, <1>3 DEF SaveWrite, Become
<1>5. rec.pc = x.next /\ rec.pc \in {"claim_new", "done", "orphans", "parent"}
  BY <1>2, <1>3 DEF TaskType, InHand
<1>6. \A u \in Tasks \ {t} : task[u].pc = "idle"
  BY <1>1, <1>2, OthersIdle
<1>7. /\ x.map = saved
      /\ \A e \in Executions : executions[e] # None => saved[e] = executions[e] \/ x.e = e
      /\ \A c \in known : stored[c] = claims[c].status
      /\ OneActive
  BY <1>1, <1>2, <1>6, SerialNow DEF HandCurrent, WritingGoals
<1>8. /\ saved' = [x.map EXCEPT ![x.e] = executions[x.e]]
      /\ UNCHANGED <<executions, goals, claims, known, stored>>
  BY <1>1 DEF SaveWrite
<1>9. \A e \in Executions : executions'[e] # None => saved'[e] = executions'[e]
  BY <1>7, <1>8, SameRest DEF Saved
<1>10. HandCurrent(rec)'
  BY <1>5 DEF HandCurrent, WritingGoals
<1>11. OneActive'
  BY <1>7, <1>8 DEF OneActive
<1>. QED BY <1>4, <1>6, <1>7, <1>8, <1>9, <1>10, <1>11, SerialStep

LEMMA ActivateSerial ==
  ASSUME IInv, Serial, ~disturbed', NEW t \in Tasks, NEW e \in Executions, Activate(t, e)
  PROVE  Serial'
<1>1. PICK rec : rec = [Idle EXCEPT !.pc = "activate_save", !.op = "activate", !.e = e]
  OBVIOUS
<1>2. rec.pc = "activate_save" /\ rec.e = e
  BY <1>1 DEF Idle
<1>3. Begin("activate", t, rec)
  BY <1>1 DEF Activate
<1>4. /\ ~disturbed /\ Quiet /\ task' = [task EXCEPT ![t] = rec]
      /\ \A u \in Tasks \ {t} : task[u].pc = "idle"
  BY <1>3, BegunAlone
<1>5. /\ executions' = [executions EXCEPT ![e] = {}]
      /\ UNCHANGED <<saved, claims, known, stored, goals>>
  BY DEF Activate
<1>6. SavePending(rec)
  BY <1>2, PendingCurrent
<1>7. HandCurrent(rec)'
  BY <1>2 DEF HandCurrent, WritingGoals
<1>8. /\ \A d \in Executions : executions[d] # None => saved[d] = executions[d]
      /\ \A c \in known : stored[c] = claims[c].status
      /\ OneActive
  BY <1>4, SerialQuiet
<1>9. \A d \in Executions : executions'[d] # None => saved'[d] = executions'[d] \/ rec.e = d
  BY <1>2, <1>5, <1>8, SameRest DEF Saved
<1>10. OneActive'
  BY <1>5, <1>8 DEF OneActive
<1>. QED BY <1>4, <1>5, <1>6, <1>7, <1>8, <1>9, <1>10, SerialStep

LEMMA OrphansSerial ==
  ASSUME IInv, Serial, ~disturbed', NEW t \in Tasks, Orphans(t) PROVE Serial'
<1>1. PICK x : x = task[t]
  OBVIOUS
<1>2. x \in TaskType /\ x.pc = "orphans" /\ ~disturbed /\ x.op = "activate" /\ x.e \in Executions
  BY <1>1, TaskOf DEF Orphans, InHand
<1>3. PICK own : own = AutoGoals(x.e)
  OBVIOUS
<1>4. PICK todo : todo = ({g \in Goals \ own : goals[g] = "active"} \X {"abandoned"})
                           \cup (own \X {"active"})
  OBVIOUS
<1>5. PICK rec : rec = WriteGoals(x, todo, "done")
  OBVIOUS
<1>6. /\ rec.pc \in {"done", "goal_read"} /\ rec.op = "activate" /\ rec.e = x.e
      /\ rec.todo = todo /\ rec.next = "done"
  BY <1>2, <1>5, WriteGoalsFields
<1>7. task' = [task EXCEPT ![t] = rec]
  BY <1>1, <1>3, <1>4, <1>5 DEF Orphans, Become
<1>8. \A w \in todo : w[2] = "active" => w[1][1] = x.e
  BY <1>2, <1>3, <1>4, GoalOf
<1>9. ASSUME NEW g \in Goals, goals[g] = "active", g[1] # x.e PROVE <<g, "abandoned">> \in todo
  <2>1. g \notin own
    BY <1>2, <1>3, <1>9, GoalOf
  <2>. QED BY <1>4, <1>9, <2>1
<1>10. HandCurrent(rec)
  BY <1>6, <1>8, <1>9 DEF HandCurrent, WritingGoals
<1>11. ~SavePending(x) /\ ~WritingGoals(x)
  BY <1>2, IdleCurrent
<1>. QED BY <1>1, <1>2, <1>7, <1>10, <1>11, SerialMove DEF Orphans

LEMMA ReturnSerial ==
  ASSUME IInv, Serial, ~disturbed', NEW t \in Tasks, Return(t) PROVE Serial'
<1>1. PICK x : x = task[t]
  OBVIOUS
<1>2. x.pc = "done" /\ ~disturbed /\ task' = [task EXCEPT ![t] = Idle]
  BY <1>1 DEF Return, Become
<1>3. HandCurrent(Idle) /\ ~SavePending(x) /\ ~WritingGoals(x)
  BY <1>2, IdleCurrent, IdleSound
<1>. QED BY <1>1, <1>2, <1>3, SerialMove DEF Return

\* A call that so far only took its arguments.
LEMMA BeginSerial ==
  ASSUME IInv, Serial, ~disturbed', NEW call, NEW t \in Tasks, NEW rec, Begin(call, t, rec),
         rec.pc \in {"done", "claim_new", "attach", "pipeline"},
         UNCHANGED <<executions, saved, claims, known, stored, goals>>
  PROVE  Serial'
<1>1. ~disturbed /\ Quiet /\ task[t].pc = "idle" /\ task' = [task EXCEPT ![t] = rec]
  BY BegunAlone
<1>2. HandCurrent(rec)
  BY IdleCurrent
<1>3. PICK x : x = task[t]
  OBVIOUS
<1>4. ~SavePending(x) /\ ~WritingGoals(x)
  BY <1>1, <1>3, IdleCurrent
<1>. QED BY <1>1, <1>2, <1>3, <1>4, SerialMove

LEMMA CompleteStepSerial ==
  ASSUME IInv, Serial, ~disturbed', NEW t \in Tasks, NEW e \in Executions, NEW s \in Steps,
         NEW proof \in BOOLEAN, CompleteStep(t, e, s, proof)
  PROVE  Serial'
<1>1. PICK x : x = [Idle EXCEPT !.op = "complete", !.e = e, !.s = s, !.proof = proof]
  OBVIOUS
<1>2. UNCHANGED <<saved, claims, known, stored, goals>>
  BY DEF CompleteStep
<1>3. CASE /\ Begin("complete", t, [x EXCEPT !.pc = "done", !.out = "missing"])
           /\ UNCHANGED executions
  <2>1. PICK rec : rec = [x EXCEPT !.pc = "done", !.out = "missing"]
    OBVIOUS
  <2>2. rec.pc = "done"
    BY <1>1, <2>1 DEF Idle
  <2>. QED BY <1>2, <1>3, <2>1, <2>2, BeginSerial
<1>4. CASE /\ Begin("complete", t, [x EXCEPT !.pc = "step_goal", !.out = "complete"])
           /\ executions' = [executions EXCEPT ![e] = @ \cup {s}]
  <2>1. PICK rec : rec = [x EXCEPT !.pc = "step_goal", !.out = "complete"]
    OBVIOUS
  <2>2. rec.pc = "step_goal" /\ rec.e = e
    BY <1>1, <2>1 DEF Idle
  <2>3. /\ ~disturbed /\ Quiet /\ task' = [task EXCEPT ![t] = rec]
        /\ \A u \in Tasks \ {t} : task[u].pc = "idle"
    BY <1>4, <2>1, BegunAlone
  <2>4. SavePending(rec)
    BY <2>2, PendingCurrent
  <2>5. HandCurrent(rec)'
    BY <2>2 DEF HandCurrent, WritingGoals
  <2>6. /\ \A d \in Executions : executions[d] # None => saved[d] = executions[d]
        /\ \A c \in known : stored[c] = claims[c].status
        /\ OneActive
    BY <2>3, SerialQuiet
  <2>7. \A d \in Executions : d # e => executions'[d] = executions[d]
    BY <1>4, SameRest DEF Saved
  <2>8. \A d \in Executions : executions'[d] # None => saved'[d] = executions'[d] \/ rec.e = d
    BY <1>2, <2>2, <2>6, <2>7
  <2>9. OneActive'
    BY <1>2, <2>6 DEF OneActive
  <2>. QED BY <1>2, <2>3, <2>4, <2>5, <2>6, <2>8, <2>9, SerialStep
<1>. QED BY <1>1, <1>3, <1>4 DEF CompleteStep

LEMMA StepGoalSerial ==
  ASSUME IInv, Serial, ~disturbed', NEW t \in Tasks, StepGoal(t) PROVE Serial'
<1>1. PICK x : x = task[t]
  OBVIOUS
<1>2. x \in TaskType /\ x.pc = "step_goal" /\ ~disturbed /\ x.op = "complete"
  BY <1>1, TaskOf DEF StepGoal, InHand
<1>3. UNCHANGED <<executions, saved, claims, known, stored, goals>> /\ ~WritingGoals(x)
  BY <1>2 DEF StepGoal, WritingGoals
<1>4. PICK mine : mine = {i \in RequiredProofs(x.s) : goals[<<x.e, x.s, i>>] # None}
  OBVIOUS
<1>5. CASE Become(t, [x EXCEPT !.pc = "check_save"])
  <2>1. PICK rec : rec = [x EXCEPT !.pc = "check_save"]
    OBVIOUS
  <2>2. rec.pc = "check_save" /\ rec.e = x.e /\ task' = [task EXCEPT ![t] = rec]
    BY <1>2, <1>5, <2>1 DEF TaskType, Become
  <2>3. HandCurrent(rec) /\ SavePending(rec)
    BY <2>2, PendingCurrent
  <2>. QED BY <1>1, <1>2, <1>3, <2>2, <2>3, SerialMove
<1>6. ASSUME NEW i \in mine,
             Become(t, WriteGoals(x, {<<<<x.e, x.s, i>>, "completed">>},
                         IF AllResolved(x.e, <<x.e, x.s, i>>) THEN "validate" ELSE "check_save"))
      PROVE  Serial'
  <2>1. PICK next \in {"validate", "check_save"} :
          next = IF AllResolved(x.e, <<x.e, x.s, i>>) THEN "validate" ELSE "check_save"
    OBVIOUS
  <2>2. PICK todo : todo = {<<<<x.e, x.s, i>>, "completed">>}
    OBVIOUS
  <2>3. PICK rec : rec = WriteGoals(x, todo, next)
    OBVIOUS
  <2>4. rec.pc = "goal_read" /\ rec.op = "complete" /\ rec.e = x.e /\ rec.todo = todo /\ rec.next = next
    <3>1. todo # {}
      BY <2>2
    <3>. QED BY <1>2, <2>3, <3>1, WriteGoalsFields
  <2>5. HandCurrent(rec) /\ SavePending(rec)
    BY <2>1, <2>2, <2>4 DEF HandCurrent, SavePending, WritingGoals
  <2>6. task' = [task EXCEPT ![t] = rec]
    BY <1>6, <2>1, <2>2, <2>3 DEF Become
  <2>. QED BY <1>1, <1>2, <1>3, <2>4, <2>5, <2>6, SerialMove
<1>. QED BY <1>1, <1>4, <1>5, <1>6 DEF StepGoal

LEMMA ValidateSerial ==
  ASSUME IInv, Serial, ~disturbed', NEW t \in Tasks, ValidateCompletion(t) PROVE Serial'
<1>1. PICK x : x = task[t]
  OBVIOUS
<1>2. x \in TaskType /\ x.pc = "validate" /\ ~disturbed
  BY <1>1, TaskOf DEF ValidateCompletion
<1>3. PICK rec : rec = [x EXCEPT !.pc = "completion", !.visit = known]
  OBVIOUS
<1>4. rec.pc = "completion" /\ rec.e = x.e /\ task' = [task EXCEPT ![t] = rec]
  BY <1>1, <1>2, <1>3 DEF TaskType, ValidateCompletion, Become
<1>5. HandCurrent(rec) /\ SavePending(rec) /\ ~WritingGoals(x)
  BY <1>2, <1>4, PendingCurrent
<1>. QED BY <1>1, <1>2, <1>4, <1>5, SerialMove DEF ValidateCompletion

LEMMA CheckSerial ==
  ASSUME IInv, Serial, ~disturbed', NEW t \in Tasks, CheckCompletion(t) PROVE Serial'
<1>1. PICK x : x = task[t]
  OBVIOUS
<1>2. x \in TaskType /\ x.pc = "completion" /\ ~disturbed
  BY <1>1, TaskOf DEF CheckCompletion
<1>3. PICK proven \in {CompletionProven(x.visit)} \cup
                      (IF GraphMayFail THEN {AnySupported(x.visit)} ELSE {}) :
        Become(t, [x EXCEPT !.visit = {},
                     !.pc = IF proven THEN "validate_save" ELSE "check_save"])
  BY <1>1 DEF CheckCompletion
<1>4. PICK pc : pc = IF proven THEN "validate_save" ELSE "check_save"
  OBVIOUS
<1>5. pc \in {"validate_save", "check_save"}
  BY <1>4
<1>6. PICK rec : rec = [x EXCEPT !.visit = {}, !.pc = pc]
  OBVIOUS
<1>7. rec.pc = pc /\ rec.e = x.e /\ task' = [task EXCEPT ![t] = rec]
  BY <1>2, <1>3, <1>4, <1>6 DEF TaskType, Become
<1>8. HandCurrent(rec) /\ SavePending(rec) /\ ~WritingGoals(x)
  BY <1>2, <1>5, <1>7, PendingCurrent
<1>. QED BY <1>1, <1>2, <1>7, <1>8, SerialMove DEF CheckCompletion

LEMMA ParentSerial ==
  ASSUME IInv, Serial, ~disturbed', NEW t \in Tasks, ResolveParent(t) PROVE Serial'
<1>1. PICK x : x = task[t]
  OBVIOUS
<1>2. x \in TaskType /\ x.pc = "parent" /\ ~disturbed /\ x.op = "complete"
  BY <1>1, TaskOf DEF ResolveParent, InHand
<1>3. PICK todo : todo = {<<<<x.e, 0, 0>>, "completed">>}
  OBVIOUS
<1>4. PICK rec : rec = WriteGoals(x, todo, "check_save")
  OBVIOUS
<1>5. rec.pc = "goal_read" /\ rec.op = "complete" /\ rec.todo = todo /\ rec.next = "check_save"
  <2>1. todo # {}
    BY <1>3
  <2>. QED BY <1>2, <1>4, <2>1, WriteGoalsFields
<1>6. HandCurrent(rec) /\ ~WritingGoals(x) /\ ~SavePending(x)
  BY <1>2, <1>3, <1>5 DEF HandCurrent, SavePending, WritingGoals
<1>7. task' = [task EXCEPT ![t] = rec]
  BY <1>1, <1>3, <1>4 DEF ResolveParent, Become
<1>. QED BY <1>1, <1>2, <1>6, <1>7, SerialMove DEF ResolveParent

LEMMA NewClaimSerial ==
  ASSUME IInv, Serial, ~disturbed', NEW t \in Tasks, NewClaim(t) PROVE Serial'
<1>1. PICK x : x = task[t]
  OBVIOUS
<1>2. x \in TaskType /\ x.pc = "claim_new" /\ ~disturbed
  BY <1>1, TaskOf DEF NewClaim
<1>3. PICK c \in Claims :
        /\ FreshClaim(c)
        /\ stored' = [stored EXCEPT ![c] = "unverified"]
        /\ Become(t, [x EXCEPT !.pc = "claim_keep", !.c = c])
  BY <1>1 DEF NewClaim
<1>4. PICK rec : rec = [x EXCEPT !.pc = "claim_keep", !.c = c]
  OBVIOUS
<1>5. rec.pc = "claim_keep" /\ rec.c = c /\ task' = [task EXCEPT ![t] = rec]
  BY <1>2, <1>3, <1>4 DEF TaskType, Become
<1>6. \A u \in Tasks \ {t} : task[u].pc = "idle"
  BY <1>1, <1>2, OthersIdle
<1>7. ~SavePending(x) /\ ~WritingGoals(x)
  BY <1>2, IdleCurrent
<1>8. /\ \A e \in Executions : executions[e] # None => saved[e] = executions[e]
      /\ \A d \in known : stored[d] = claims[d].status
      /\ OneActive
  BY <1>1, <1>2, <1>6, <1>7, SerialNow
<1>9. UNCHANGED <<executions, saved, claims, known, goals>>
  BY DEF NewClaim
<1>10. c \notin known /\ \A d \in Claims : stored'[d] = IF d = c THEN "unverified" ELSE stored[d]
  BY <1>3, KnownOf, SameRest DEF FreshClaim
<1>11. \A d \in known' : stored'[d] = claims'[d].status
  BY <1>8, <1>9, <1>10, KnownOf
<1>12. HandCurrent(rec)'
  BY <1>5, <1>10 DEF HandCurrent, WritingGoals
<1>13. OneActive'
  BY <1>8, <1>9 DEF OneActive
<1>. QED BY <1>5, <1>6, <1>8, <1>9, <1>11, <1>12, <1>13, SerialStep

LEMMA OutOfClaimsSerial ==
  ASSUME IInv, Serial, ~disturbed', NEW t \in Tasks, OutOfClaims(t) PROVE Serial'
<1>1. PICK x : x = task[t]
  OBVIOUS
<1>2. x.pc = "claim_new" /\ ~disturbed /\ task' = [task EXCEPT ![t] = Idle]
  BY <1>1 DEF OutOfClaims, Become
<1>3. HandCurrent(Idle) /\ ~SavePending(x) /\ ~WritingGoals(x)
  BY <1>2, IdleCurrent, IdleSound
<1>. QED BY <1>1, <1>2, <1>3, SerialMove DEF OutOfClaims

\* A step that changes claim c, whose status the graph has or the task will write.
LEMMA SerialClaim ==
  ASSUME IInv, Serial, ~disturbed, NEW t \in Tasks, NEW x, x = task[t],
         x.pc # "idle" \/ Quiet, ~SavePending(x), ~WritingGoals(x), x.pc # "claim_write",
         NEW rec, task' = [task EXCEPT ![t] = rec],
         NEW c \in Claims, NEW r \in ClaimRecord, claims' = [claims EXCEPT ![c] = r],
         known' = known \cup {c},
         UNCHANGED <<executions, saved, stored, goals>>,
         \/ rec.pc \in {"idle", "attach"} /\ stored[c] = r.status
         \/ rec.pc = "claim_write" /\ rec.c = c /\ rec.st = r.status
  PROVE  Serial'
<1>1. \A u \in Tasks \ {t} : task[u].pc = "idle"
  BY OthersIdle
<1>2. /\ \A e \in Executions : executions[e] # None => saved[e] = executions[e]
      /\ \A d \in known : stored[d] = claims[d].status
      /\ OneActive
  BY <1>1, SerialNow
<1>3. \A d \in Claims : claims'[d] = IF d = c THEN r ELSE claims[d]
  BY SameRest
<1>4. HandCurrent(rec)'
  BY <1>3 DEF HandCurrent, WritingGoals
<1>5. \A d \in known' : stored'[d] = claims'[d].status \/ (rec.pc = "claim_write" /\ rec.c = d)
  BY <1>2, <1>3, KnownOf
<1>6. OneActive'
  BY <1>2 DEF OneActive
<1>. QED BY <1>1, <1>2, <1>4, <1>5, <1>6, SerialStep

LEMMA KeepClaimSerial ==
  ASSUME IInv, Serial, ~disturbed', NEW t \in Tasks, KeepClaim(t) PROVE Serial'
<1>1. PICK x : x = task[t]
  OBVIOUS
<1>2. /\ x \in TaskType /\ x.pc = "claim_keep" /\ x.c \in Claims /\ ~disturbed
  BY <1>1, TaskOf DEF KeepClaim, InHand
<1>3. PICK r : r = [step |-> x.s, status |-> "unverified", evidence |-> {}, had |-> {}]
  OBVIOUS
<1>4. /\ claims' = [claims EXCEPT ![x.c] = r] /\ known' = known \cup {x.c}
      /\ Become(t, IF x.op = "complete"
                   THEN [x EXCEPT !.pc = "attach", !.type = "tool_output"] ELSE Idle)
  BY <1>1, <1>3 DEF KeepClaim
<1>5. r \in ClaimRecord /\ r.status = "unverified"
  BY <1>2, <1>3 DEF ClaimRecord, TaskType, ClaimStatus
<1>6. PICK rec : rec = IF x.op = "complete"
                       THEN [x EXCEPT !.pc = "attach", !.type = "tool_output"] ELSE Idle
  OBVIOUS
<1>7. task' = [task EXCEPT ![t] = rec]
  BY <1>4, <1>6 DEF Become
<1>8. rec.pc \in {"idle", "attach"}
  BY <1>2, <1>6, IdleSound DEF TaskType
<1>9. stored[x.c] = "unverified"
  BY <1>1, <1>2 DEF Serial, HandCurrent
<1>10. ~SavePending(x) /\ ~WritingGoals(x)
  BY <1>2 DEF SavePending, WritingGoals
<1>11. UNCHANGED <<executions, saved, stored, goals>> /\ x.pc # "idle" /\ x.pc # "claim_write"
  BY <1>2 DEF KeepClaim
<1>. QED BY <1>1, <1>2, <1>4, <1>5, <1>7, <1>8, <1>9, <1>10, <1>11, SerialClaim

LEMMA AttachSerial ==
  ASSUME IInv, Serial, ~disturbed', NEW t \in Tasks, Attach(t) PROVE Serial'
<1>1. PICK x : x = task[t]
  OBVIOUS
<1>2. /\ x \in TaskType /\ x.pc = "attach" /\ ~disturbed
      /\ x.c \in known /\ x.type \in AllTypes
  BY <1>1, TaskOf DEF Attach, InHand
<1>3. PICK old : old = claims[x.c]
  OBVIOUS
<1>4. x.c \in Claims /\ old \in ClaimRecord
  BY <1>2, <1>3, KnownOf, ClaimOf
<1>5. PICK all : all = old.evidence \cup {x.type}
  OBVIOUS
<1>6. PICK r : r = [old EXCEPT
                      !.evidence = all,
                      !.status   = IF @ = "unverified" THEN "self_supported" ELSE @,
                      !.had      = IF old.status = "rejected" THEN @ ELSE all]
  OBVIOUS
<1>7. r \in ClaimRecord
  BY <1>2, <1>4, <1>5, <1>6 DEF ClaimRecord, ClaimStatus
<1>8. PICK rec : rec = [x EXCEPT !.pc = "claim_write", !.st = r.status,
                                 !.next = IF x.op = "complete" THEN "verify" ELSE "idle"]
  OBVIOUS
<1>9. claims' = [claims EXCEPT ![x.c] = r] /\ task' = [task EXCEPT ![t] = rec]
  <2>1. /\ claims' = [claims EXCEPT ![x.c] = r]
        /\ Become(t, [x EXCEPT !.pc = "claim_write", !.st = r.status,
                               !.next = IF x.op = "complete" THEN "verify" ELSE "idle"])
    BY <1>1, <1>3, <1>5, <1>6 DEF Attach
  <2>. QED BY <1>8, <2>1 DEF Become
<1>10. rec.pc = "claim_write" /\ rec.c = x.c /\ rec.st = r.status
  BY <1>2, <1>8 DEF TaskType
<1>11. known' = known \cup {x.c}
  BY <1>2 DEF Attach
<1>12. ~SavePending(x) /\ ~WritingGoals(x)
  BY <1>2, IdleCurrent
<1>13. UNCHANGED <<executions, saved, stored, goals>> /\ x.pc # "idle" /\ x.pc # "claim_write"
  BY <1>2 DEF Attach
<1>. QED BY <1>1, <1>2, <1>4, <1>7, <1>9, <1>10, <1>11, <1>12, <1>13, SerialClaim

LEMMA ClaimWriteSerial ==
  ASSUME IInv, Serial, ~disturbed', NEW t \in Tasks, ClaimWrite(t) PROVE Serial'
<1>1. PICK x : x = task[t]
  OBVIOUS
<1>2. /\ x \in TaskType /\ x.pc = "claim_write" /\ ~disturbed
      /\ x.c \in known /\ x.next \in {"idle", "pipeline", "verify", "done"}
  BY <1>1, TaskOf DEF ClaimWrite, InHand
<1>3. /\ stored' = [stored EXCEPT ![x.c] = x.st]
      /\ Become(t, CASE x.next = "idle"     -> Idle
                     [] x.next = "pipeline" -> [x EXCEPT !.pc = "pipeline",
                                                  !.c = None, !.st = None]
                     [] OTHER               -> [x EXCEPT !.pc = x.next,
                                                  !.type = None, !.st = None])
  BY <1>1 DEF ClaimWrite
<1>4. PICK rec : rec = CASE x.next = "idle"     -> Idle
                         [] x.next = "pipeline" -> [x EXCEPT !.pc = "pipeline",
                                                      !.c = None, !.st = None]
                         [] OTHER               -> [x EXCEPT !.pc = x.next,
                                                      !.type = None, !.st = None]
  OBVIOUS
<1>5. task' = [task EXCEPT ![t] = rec]
  BY <1>3, <1>4 DEF Become
<1>6. rec.pc = x.next
  BY <1>2, <1>4, IdleSound DEF TaskType
<1>7. \A u \in Tasks \ {t} : task[u].pc = "idle"
  BY <1>1, <1>2, OthersIdle
<1>8. ~SavePending(x) /\ ~WritingGoals(x)
  BY <1>2 DEF SavePending, WritingGoals
<1>9. /\ x.st = claims[x.c].status
      /\ \A e \in Executions : executions[e] # None => saved[e] = executions[e]
      /\ \A d \in known : stored[d] = claims[d].status \/ x.c = d
      /\ OneActive
  BY <1>1, <1>2, <1>7, <1>8, SerialNow DEF HandCurrent
<1>10. UNCHANGED <<executions, saved, claims, known, goals>>
  BY DEF ClaimWrite
<1>11. \A d \in known' : stored'[d] = claims'[d].status
  BY <1>3, <1>9, <1>10, SameRest
<1>12. HandCurrent(rec)'
  BY <1>2, <1>6 DEF HandCurrent, WritingGoals
<1>13. OneActive'
  BY <1>9, <1>10 DEF OneActive
<1>. QED BY <1>5, <1>7, <1>9, <1>10, <1>11, <1>12, <1>13, SerialStep

LEMMA VerifySerial ==
  ASSUME IInv, Serial, ~disturbed', NEW t \in Tasks, NEW c \in Claims, Verify(t, c)
  PROVE  Serial'
<1>1. PICK st : st = VerifiedStatus(claims[c])
  OBVIOUS
<1>2. PICK r : r = [claims[c] EXCEPT !.status = VerifiedStatus(claims[c])]
  OBVIOUS
<1>3. c \in known /\ claims[c].status # "rejected"
  BY DEF Verify, Verifiable
<1>4. r \in ClaimRecord /\ r.status = st
  <2>1. claims[c] \in ClaimRecord /\ r \in ClaimRecord
    BY <1>2, <1>3, VerifiedSound, ClaimOf
  <2>. QED BY <1>1, <1>2, <2>1 DEF ClaimRecord
<1>5. PICK rec : rec = [Idle EXCEPT !.pc = "claim_write", !.op = "claim", !.c = c, !.st = st]
  OBVIOUS
<1>6. rec.pc = "claim_write" /\ rec.c = c /\ rec.st = st
  BY <1>5 DEF Idle
<1>7. Begin("verify", t, rec)
  BY <1>1, <1>5 DEF Verify
<1>8. ~disturbed /\ Quiet /\ task[t].pc = "idle" /\ task' = [task EXCEPT ![t] = rec]
  BY <1>7, BegunAlone
<1>9. claims' = [claims EXCEPT ![c] = r] /\ known' = known \cup {c}
  BY <1>2, <1>3 DEF Verify, SetStatus
<1>10. PICK x : x = task[t]
  OBVIOUS
<1>11. ~SavePending(x) /\ ~WritingGoals(x)
  BY <1>8, <1>10, IdleCurrent
<1>. QED BY <1>4, <1>6, <1>8, <1>9, <1>10, <1>11, SerialClaim DEF Verify

LEMMA RejectSerial ==
  ASSUME IInv, Serial, ~disturbed', NEW t \in Tasks, NEW c \in Claims, Reject(t, c)
  PROVE  Serial'
<1>1. PICK r : r = [claims[c] EXCEPT !.status = "rejected"]
  OBVIOUS
<1>2. c \in known /\ claims[c] \in ClaimRecord
  BY KnownOf, ClaimOf DEF Reject
<1>3. r \in ClaimRecord /\ r.status = "rejected"
  BY <1>1, <1>2 DEF ClaimRecord, ClaimStatus
<1>4. PICK rec : rec = [Idle EXCEPT !.pc = "claim_write", !.op = "claim", !.c = c,
                                    !.st = "rejected"]
  OBVIOUS
<1>5. rec.pc = "claim_write" /\ rec.c = c /\ rec.st = "rejected"
  BY <1>4 DEF Idle
<1>6. Begin("reject", t, rec)
  BY <1>4 DEF Reject
<1>7. ~disturbed /\ Quiet /\ task[t].pc = "idle" /\ task' = [task EXCEPT ![t] = rec]
  BY <1>6, BegunAlone
<1>8. claims' = [claims EXCEPT ![c] = r] /\ known' = known \cup {c}
  BY <1>1, <1>2 DEF Reject, SetStatus
<1>9. PICK x : x = task[t]
  OBVIOUS
<1>10. ~SavePending(x) /\ ~WritingGoals(x)
  BY <1>7, <1>9, IdleCurrent
<1>. QED BY <1>3, <1>5, <1>7, <1>8, <1>9, <1>10, SerialClaim DEF Reject

LEMMA VerifyEvidenceSerial ==
  ASSUME IInv, Serial, ~disturbed', NEW t \in Tasks, VerifyEvidence(t) PROVE Serial'
<1>1. PICK x : x = task[t]
  OBVIOUS
<1>2. x \in TaskType /\ x.pc = "verify" /\ x.c \in known /\ x.c \in Claims /\ ~disturbed
  BY <1>1, TaskOf DEF VerifyEvidence, InHand
<1>3. PICK st : st = VerifiedStatus(claims[x.c])
  OBVIOUS
<1>4. UNCHANGED <<executions, saved, known, stored, goals>>
  BY DEF VerifyEvidence
<1>5. ~SavePending(x) /\ ~WritingGoals(x)
  BY <1>2, IdleCurrent
<1>6. CASE /\ Verifiable(x.c) /\ SetStatus(x.c, st)
           /\ Become(t, [x EXCEPT !.pc = "claim_write", !.st = st, !.next = "done"])
  <2>1. PICK r : r = [claims[x.c] EXCEPT !.status = VerifiedStatus(claims[x.c])]
    OBVIOUS
  <2>2. r \in ClaimRecord /\ claims[x.c] \in ClaimRecord
    BY <1>2, <1>6, <2>1, VerifiedSound, ClaimOf DEF Verifiable
  <2>3. r.status = st
    BY <1>3, <2>1, <2>2 DEF ClaimRecord
  <2>4. claims' = [claims EXCEPT ![x.c] = r] /\ known' = known \cup {x.c}
    BY <1>2, <1>3, <1>4, <1>6, <2>1 DEF SetStatus
  <2>5. PICK rec : rec = [x EXCEPT !.pc = "claim_write", !.st = st, !.next = "done"]
    OBVIOUS
  <2>6. /\ task' = [task EXCEPT ![t] = rec]
        /\ rec.pc = "claim_write" /\ rec.c = x.c /\ rec.st = st
    BY <1>2, <1>6, <2>5 DEF TaskType, Become
  <2>. QED BY <1>1, <1>2, <1>4, <1>5, <2>2, <2>3, <2>4, <2>6, SerialClaim
<1>7. CASE Become(t, [x EXCEPT !.pc = "done"]) /\ UNCHANGED claims
  <2>1. PICK rec : rec = [x EXCEPT !.pc = "done"]
    OBVIOUS
  <2>2. task' = [task EXCEPT ![t] = rec] /\ rec.pc = "done"
    BY <1>2, <1>7, <2>1 DEF TaskType, Become
  <2>3. HandCurrent(rec)
    BY <2>2, IdleCurrent
  <2>. QED BY <1>1, <1>2, <1>4, <1>5, <1>7, <2>2, <2>3, SerialMove
<1>. QED BY <1>1, <1>3, <1>6, <1>7 DEF VerifyEvidence

LEMMA VisitSerial ==
  ASSUME IInv, Serial, ~disturbed', NEW t \in Tasks, VisitClaim(t) PROVE Serial'
<1>1. PICK x : x = task[t]
  OBVIOUS
<1>2. x \in TaskType /\ x.pc = "pipeline" /\ x.visit \subseteq known /\ ~disturbed
  BY <1>1, TaskOf DEF VisitClaim, InHand
<1>3. UNCHANGED <<executions, saved, known, stored, goals>>
  BY DEF VisitClaim
<1>4. ~SavePending(x) /\ ~WritingGoals(x)
  BY <1>2, IdleCurrent
<1>5. ASSUME NEW rec, rec.pc \in {"idle", "pipeline"}, Become(t, rec), UNCHANGED claims
      PROVE  Serial'
  <2>1. HandCurrent(rec) /\ task' = [task EXCEPT ![t] = rec]
    BY <1>5, IdleCurrent DEF Become
  <2>. QED BY <1>1, <1>2, <1>3, <1>4, <1>5, <2>1, SerialMove
<1>6. CASE Become(t, Idle) /\ UNCHANGED claims
  BY <1>5, <1>6, IdleSound
<1>7. ASSUME NEW c \in x.visit,
             LET rest == [x EXCEPT !.visit = @ \ {c}]
                 st   == VerifiedStatus(claims[c]) IN
               IF /\ claims[c].status = "self_supported"
                  /\ "tool_output" \in claims[c].evidence
               THEN /\ SetStatus(c, st)
                    /\ Become(t, [rest EXCEPT !.pc = "claim_write", !.c = c, !.st = st,
                                              !.next = "pipeline"])
               ELSE Become(t, rest) /\ UNCHANGED claims
      PROVE  Serial'
  <2>1. PICK rest : rest = [x EXCEPT !.visit = @ \ {c}]
    OBVIOUS
  <2>2. PICK st : st = VerifiedStatus(claims[c])
    OBVIOUS
  <2>3. CASE claims[c].status = "self_supported" /\ "tool_output" \in claims[c].evidence
    <3>1. /\ SetStatus(c, st)
          /\ Become(t, [rest EXCEPT !.pc = "claim_write", !.c = c, !.st = st,
                                    !.next = "pipeline"])
      BY <1>7, <2>1, <2>2, <2>3
    <3>2. PICK r : r = [claims[c] EXCEPT !.status = VerifiedStatus(claims[c])]
      OBVIOUS
    <3>3. c \in Claims /\ c \in known /\ r \in ClaimRecord /\ claims[c] \in ClaimRecord
      BY <1>2, <2>3, <3>2, VerifiedSound, ClaimOf
    <3>4. r.status = st
      BY <2>2, <3>2, <3>3 DEF ClaimRecord
    <3>5. claims' = [claims EXCEPT ![c] = r] /\ known' = known \cup {c}
      BY <1>3, <2>2, <3>1, <3>2, <3>3 DEF SetStatus
    <3>6. PICK rec : rec = [rest EXCEPT !.pc = "claim_write", !.c = c, !.st = st,
                                        !.next = "pipeline"]
      OBVIOUS
    <3>7. /\ task' = [task EXCEPT ![t] = rec]
          /\ rec.pc = "claim_write" /\ rec.c = c /\ rec.st = st
      BY <1>2, <2>1, <3>1, <3>6 DEF TaskType, Become
    <3>. QED BY <1>1, <1>2, <1>3, <1>4, <3>3, <3>4, <3>5, <3>7, SerialClaim
  <2>4. CASE ~(claims[c].status = "self_supported" /\ "tool_output" \in claims[c].evidence)
    <3>1. Become(t, rest) /\ UNCHANGED claims
      BY <1>7, <2>1, <2>4
    <3>2. rest.pc = "pipeline"
      BY <1>2, <2>1 DEF TaskType
    <3>. QED BY <1>5, <3>1, <3>2
  <2>. QED BY <2>3, <2>4
<1>. QED BY <1>1, <1>6, <1>7 DEF VisitClaim

LEMMA CallSerial ==
  ASSUME IInv, Serial, ~disturbed', NEW t \in Tasks, Call(t) PROVE Serial'
<1>1. ASSUME NEW s \in Steps \cup {0}, CreateClaim(t, s) PROVE Serial'
  <2>1. PICK rec : rec = [Idle EXCEPT !.pc = "claim_new", !.op = "claim", !.s = s]
    OBVIOUS
  <2>2. Begin("claim", t, rec) /\ rec.pc = "claim_new"
    BY <1>1, <2>1 DEF CreateClaim, Idle
  <2>. QED BY <1>1, <2>2, BeginSerial DEF CreateClaim
<1>2. ASSUME NEW c \in Claims, NEW type \in EvidenceTypes, AttachEvidence(t, c, type)
      PROVE  Serial'
  <2>1. PICK rec : rec = [Idle EXCEPT !.pc = "attach", !.op = "claim", !.c = c, !.type = type]
    OBVIOUS
  <2>2. Begin("attach", t, rec) /\ rec.pc = "attach"
    BY <1>2, <2>1 DEF AttachEvidence, Idle
  <2>. QED BY <1>2, <2>2, BeginSerial DEF AttachEvidence
<1>3. ASSUME RunVerification(t) PROVE Serial'
  <2>1. PICK rec : rec = [Idle EXCEPT !.pc = "pipeline", !.op = "pipeline", !.visit = known]
    OBVIOUS
  <2>2. Begin("pipeline", t, rec) /\ rec.pc = "pipeline"
    BY <1>3, <2>1 DEF RunVerification, Idle
  <2>. QED BY <1>3, <2>2, BeginSerial DEF RunVerification
<1>. QED BY <1>1, <1>2, <1>3, ActivateSerial, CompleteStepSerial, VerifySerial, RejectSerial
         DEF Call

LEMMA NextSerial == ASSUME IInv, Serial, [Next]_vars PROVE Serial'
<1>1. SUFFICES ASSUME ~disturbed' PROVE Serial'
  BY DEF Serial
<1>2. CASE UNCHANGED vars
  BY <1>2 DEF vars, Serial, Alone, HandCurrent, StoresCurrent, OneActive, SavePending,
              WritingGoals
<1>3. ASSUME NEW t \in Tasks, Step(t) PROVE Serial'
  BY <1>1, <1>3, GoalReadSerial, GoalWriteSerial, SaveReadSerial, SaveWriteSerial,
     OrphansSerial, ReturnSerial, StepGoalSerial, ValidateSerial, CheckSerial, ParentSerial,
     NewClaimSerial, OutOfClaimsSerial, KeepClaimSerial, AttachSerial, ClaimWriteSerial,
     VerifyEvidenceSerial, VisitSerial DEF Step
<1>4. ASSUME NEW t \in Tasks, Call(t) PROVE Serial'
  BY <1>1, <1>4, CallSerial
<1>5. CASE Restart \/ RestoreExecutions
  <2>1. ~disturbed /\ Quiet
    <3>1. CASE Restart
      <4>1. disturbed' = (disturbed \/ ~Quiet)
        BY <3>1 DEF Restart
      <4>. QED BY <1>1, <4>1
    <3>2. CASE RestoreExecutions
      BY <1>1, <3>2 DEF RestoreExecutions
    <3>. QED BY <1>5, <3>1, <3>2
  <2>2. /\ \A e \in Executions : executions[e] # None => saved[e] = executions[e]
        /\ \A c \in known : stored[c] = claims[c].status
        /\ OneActive
    BY <2>1, SerialQuiet
  <2>3. UNCHANGED <<saved, claims, stored, goals>> /\ known' \subseteq known
    BY <1>5 DEF Restart, RestoreExecutions
  <2>4. \A e \in Executions : executions'[e] # None => saved'[e] = executions'[e]
    <3>1. CASE Restart
      BY <3>1 DEF Restart, NothingSaved
    <3>2. CASE RestoreExecutions
      BY <2>2, <3>2 DEF RestoreExecutions
    <3>. QED BY <1>5, <3>1, <3>2
  <2>5. \A u \in Tasks : task'[u].pc = "idle"
    BY <1>5, <2>1, IdleSound DEF Restart, RestoreExecutions, Quiet
  <2>6. OneActive'
    BY <2>2, <2>3 DEF OneActive
  <2>7. \A u \in Tasks : HandCurrent(task[u])'
    BY <2>5 DEF HandCurrent, WritingGoals
  <2>8. StoresCurrent'
    BY <2>2, <2>3, <2>4, <2>6 DEF StoresCurrent
  <2>9. Alone'
    BY <2>5 DEF Alone
  <2>. QED BY <2>7, <2>8, <2>9 DEF Serial
<1>. QED BY <1>2, <1>3, <1>4, <1>5 DEF Next

LEMMA InitSerial == ASSUME Init PROVE Serial
<1>1. \A t \in Tasks : task[t].pc = "idle"
  BY IdleSound DEF Init
<1>2. \A t \in Tasks : HandCurrent(task[t])
  BY <1>1, IdleCurrent
<1>3. StoresCurrent
  BY Constants DEF Init, StoresCurrent, NothingSaved, NoGoals, OneActive, GoalStatus
<1>. QED BY <1>1, <1>2, <1>3 DEF Serial, Alone

\* While calls come one after the other, the one in flight has in hand what the stores hold,
\* and they agree but for what it has still to write.
THEOREM SerialInvariant == Spec => []Serial
<1>1. Init => Serial
  BY InitSerial
<1>2. IInv /\ Serial /\ [Next]_vars => Serial'
  BY NextSerial
<1>. QED BY <1>1, <1>2, EvidenceInvariant, PTL DEF Spec

LEMMA SerialStores ==
  ASSUME IInv, Serial PROVE SavedIsCurrent /\ GraphIsCurrent /\ OneActivationActive
<1>1. SUFFICES ASSUME Quiet, ~disturbed
               PROVE  /\ \A e \in Executions : executions[e] # None => saved[e] = executions[e]
                      /\ \A c \in known : stored[c] = claims[c].status
                      /\ OneActive
  BY DEF SavedIsCurrent, GraphIsCurrent, OneActivationActive, OneActive
<1>. QED BY <1>1, SerialQuiet

\* After undisturbed calls Redis has what memory has (_persist_execution), the graph has
\* what was last decided about each claim, and one activation has open goals.
THEOREM StoresAgreeHold == Spec => [](SavedIsCurrent /\ GraphIsCurrent /\ OneActivationActive)
<1>1. IInv /\ Serial => SavedIsCurrent /\ GraphIsCurrent /\ OneActivationActive
  BY SerialStores
<1>. QED BY <1>1, EvidenceInvariant, SerialInvariant, PTL
=============================================================================
