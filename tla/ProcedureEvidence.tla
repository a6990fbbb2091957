-------------------------- MODULE ProcedureEvidence --------------------------
(***************************************************************************)
(* Executions of a procedure, the auto-goals that track them and the       *)
(* claims that prove their steps.                                          *)
(*                                                                         *)
(* The procedure engine (procedures/engine.py) keeps executions in memory  *)
(* and a copy in Redis, the evidence engine (evidence/engine.py) keeps     *)
(* claims in memory and their status in the graph, the session goal store  *)
(* (working_set/session_goals.py) keeps one list of goals that every       *)
(* change reads and writes back whole.  One procedure and one session:     *)
(* claims are shared by every execution of the procedure.                  *)
(*                                                                         *)
(* As in GuardApprovals, a step is the code between two awaits.            *)
(***************************************************************************)
EXTENDS Integers, Sequences, FiniteSets

CONSTANTS
  Procedure,    \* its steps: [optional, proofs], a proof is [type, required]
  NeedsApproval,\* the procedure has approval_requirements
  Executions,   \* execution ids (a bound)
  Claims,       \* claim ids (a bound)
  Tasks,        \* asyncio tasks (a bound on concurrency)
  EvidenceTypes,\* types of evidence the claim routes are given
  Calls,        \* the calls made in an instance (a bound)
  Overlapping,  \* the calls that may start while another runs (a bound)
  GraphMayFail, \* reading the procedure from the graph may fail
  None          \* "no such record"

Steps     == DOMAIN Procedure
AllTypes  == EvidenceTypes \cup {"tool_output"}
AllCalls  == {"activate", "complete", "claim", "attach", "verify", "reject",
              "pipeline", "restart"}

ClaimStatus == {"unverified", "self_supported", "tool_supported",
                "supervisor_verified", "rejected"}
GoalStatus  == {"active", "completed", "abandoned"}

ASSUME ConstantsAssumption ==
  /\ Procedure \in Seq([optional : BOOLEAN,
                        proofs : Seq([type : STRING, required : BOOLEAN])])
  /\ NeedsApproval \in BOOLEAN /\ GraphMayFail \in BOOLEAN
  /\ EvidenceTypes \subseteq STRING
  /\ Calls \subseteq AllCalls /\ Overlapping \subseteq AllCalls
  /\ None \notin Executions \cup Claims \cup ClaimStatus \cup GoalStatus
  /\ \A S \in SUBSET Steps : None # S
  /\ None \notin [step : Steps \cup {0}, status : ClaimStatus,
                  evidence : SUBSET AllTypes, had : SUBSET AllTypes]

\* The required proofs of a step, by position.
RequiredProofs(s) ==
  {i \in DOMAIN Procedure[s].proofs : Procedure[s].proofs[i].required}

ProofType(s, i) == Procedure[s].proofs[i].type

\* _create_auto_goals: one goal for the execution (step 0) and one sub-goal
\* for each required proof.
AutoGoals(e) ==
  {<<e, 0, 0>>} \cup UNION {{<<e, s, i>> : i \in RequiredProofs(s)} : s \in Steps}

Goals == UNION {AutoGoals(e) : e \in Executions}

VARIABLES
  executions, \* ProcedureEngine._executions: the completed steps of each
  saved,      \* procedure_exec of the session in Redis: the same, as saved
  claims,     \* every claim made: its step (0: none), status and evidence
  known,      \* EvidenceEngine._claims: the claims still in memory
  stored,     \* status of each claim in the graph
  goals,      \* the auto-goals in the session's goal list
  disturbed,  \* history: calls overlapped, or the process stopped during one
  task        \* the asyncio tasks in flight

vars == <<executions, saved, claims, known, stored, goals, disturbed, task>>

Saves == {"activate_save", "validate_save", "check_save"}

PCs == Saves \cup
       {"idle", "save_write", "orphans", "goal_read", "goal_write", "step_goal",
        "validate", "completion", "parent", "claim_new", "claim_keep", "attach",
        "claim_write", "verify", "pipeline", "done"}

Ops == {"none", "activate", "complete", "claim", "pipeline"}

Saved     == [Executions -> (SUBSET Steps) \cup {None}]
GoalList  == [Goals -> GoalStatus \cup {None}]
NothingSaved == [e \in Executions |-> None]
NoGoals   == [g \in Goals |-> None]

\* e, s: the execution and step at hand; c, type, st: the claim, the evidence
\* to attach, the status to write to the graph; proof: a proof_value came with
\* the call; map, list: what was read; todo: goals to write; visit: claims to
\* visit; next: where the task goes on; out: its answer.
Idle == [pc |-> "idle", op |-> "none", e |-> None, s |-> 0, c |-> None,
         type |-> None, st |-> None, proof |-> FALSE, map |-> NothingSaved,
         list |-> NoGoals, todo |-> {}, visit |-> {}, next |-> "idle",
         out |-> None]

TaskType ==
  [pc : PCs, op : Ops, e : Executions \cup {None}, s : Steps \cup {0},
   c : Claims \cup {None}, type : AllTypes \cup {None},
   st : ClaimStatus \cup {None}, proof : BOOLEAN, map : Saved, list : GoalList,
   todo : SUBSET (Goals \X GoalStatus), visit : SUBSET Claims, next : PCs,
   out : {None, "missing", "complete"}]

\* had (history): the evidence it carried when it was last accepted.
ClaimRecord == [step : Steps \cup {0}, status : ClaimStatus,
                evidence : SUBSET AllTypes, had : SUBSET AllTypes]

Become(t, rec) == task' = [task EXCEPT ![t] = rec]

Quiet == \A t \in Tasks : task[t].pc = "idle"

\* A call starts; disturbed remembers that another one was still running.
Begin(call, t, rec) ==
  /\ call \in Calls
  /\ Quiet \/ call \in Overlapping
  /\ task[t].pc = "idle"
  /\ Become(t, rec)
  /\ disturbed' = (disturbed \/ ~Quiet)

Init ==
  /\ executions = NothingSaved
  /\ saved      = NothingSaved
  /\ claims     = [c \in Claims |-> None]
  /\ known      = {}
  /\ stored     = [c \in Claims |-> None]
  /\ goals      = NoGoals
  /\ disturbed  = FALSE
  /\ task       = [t \in Tasks |-> Idle]

------------------------------------------------------------------------------
(* What the claims prove.                                                  *)

Accepted(c) == claims[c].status \notin {"unverified", "rejected"}

\* Faulty variant: an unverified claim counts.
MissingEvidenceUnverified(s) ==
  {i \in RequiredProofs(s) :
     ~\E c \in known : ProofType(s, i) \in claims[c].evidence}

\* check_step: any accepted claim of the procedure with evidence of the type.
MissingEvidence(s) ==
  {i \in RequiredProofs(s) :
     ~\E c \in known : Accepted(c) /\ ProofType(s, i) \in claims[c].evidence}

\* check_completion_requirements with the claims in S, one step: a claim
\* without a step serves any step; a step that lists no proof at all still
\* needs a claim of its own.
StepProven(S, s) ==
  IF Procedure[s].proofs = <<>>
  THEN \E c \in S : claims[c].step = s /\ Accepted(c)
  ELSE \A i \in RequiredProofs(s) :
         \E c \in S :
           /\ Accepted(c)
           /\ claims[c].step \in {0, s}
           /\ ProofType(s, i) \in claims[c].evidence

\* Faulty variant: approval requirements are not looked at.
CompletionProvenUnapproved(S) ==
  \A s \in Steps : Procedure[s].optional \/ StepProven(S, s)

CompletionProven(S) ==
  /\ \A s \in Steps : Procedure[s].optional \/ StepProven(S, s)
  /\ NeedsApproval => \E c \in S : claims[c].status = "supervisor_verified"

\* What it goes by when the procedure cannot be read.
AnySupported(S) ==
  \E c \in S : claims[c].status \in {"tool_supported", "supervisor_verified"}

------------------------------------------------------------------------------
(* The goal list: every write is of the list read before it.               *)

\* Continue with the goals to write, then at pc next.
WriteGoals(x, todo, next) ==
  [x EXCEPT !.todo = todo, !.next = next,
            !.pc = IF todo = {} THEN next ELSE "goal_read"]

GoalRead(t) ==
  /\ task[t].pc = "goal_read"
  /\ Become(t, [task[t] EXCEPT !.pc = "goal_write", !.list = goals])
  /\ UNCHANGED <<executions, saved, claims, known, stored, goals, disturbed>>

\* add_goal appends to the list it read, update_goal changes a goal it found
\* there.  Which goal comes first is invisible outside the call.
GoalWrite(t) ==
  /\ task[t].pc = "goal_write"
  /\ LET x == task[t] IN
     \E w \in x.todo :
       /\ goals' = IF x.list[w[1]] = None /\ w[2] # "active" THEN goals
                   ELSE [x.list EXCEPT ![w[1]] = w[2]]
       /\ Become(t, WriteGoals([x EXCEPT !.list = NoGoals], x.todo \ {w}, x.next))
  /\ UNCHANGED <<executions, saved, claims, known, stored, disturbed>>

------------------------------------------------------------------------------
(* activate.                                                               *)

\* A uuid nothing refers to yet.
Fresh(e) ==
  /\ executions[e] = None /\ saved[e] = None
  /\ \A g \in AutoGoals(e) : goals[g] = None
  /\ \A t \in Tasks : task[t].e # e

\* activate enters the execution in memory, saves it and then sees to the goals.
Activate(t, e) ==
  /\ Fresh(e)
  /\ Begin("activate", t, [Idle EXCEPT !.pc = "activate_save", !.op = "activate", !.e = e])
  /\ executions' = [executions EXCEPT ![e] = {}]
  /\ UNCHANGED <<saved, claims, known, stored, goals>>

\* What follows each save.
AfterSave(x) ==
  CASE x.pc = "activate_save" -> "orphans"
    [] x.pc = "validate_save" -> "parent"
    [] x.proof                -> "claim_new"
    [] OTHER                  -> "done"

\* _persist_execution reads the session's map ...
SaveRead(t) ==
  /\ task[t].pc \in Saves
  /\ Become(t, [task[t] EXCEPT !.pc = "save_write", !.map = saved,
                               !.next = AfterSave(task[t])])
  /\ UNCHANGED <<executions, saved, claims, known, stored, goals, disturbed>>

\* Faulty variant: the map that is written starts empty.
SaveWriteAlone(t) ==
  /\ task[t].pc = "save_write"
  /\ saved' = [NothingSaved EXCEPT ![task[t].e] = executions[task[t].e]]
  /\ Become(t, [task[t] EXCEPT !.pc = task[t].next, !.map = NothingSaved])
  /\ UNCHANGED <<executions, claims, known, stored, goals, disturbed>>

\* ... and writes it back with this execution.
SaveWrite(t) ==
  /\ task[t].pc = "save_write"
  /\ LET x == task[t] IN
       /\ saved' = [x.map EXCEPT ![x.e] = executions[x.e]]
       /\ Become(t, [x EXCEPT !.pc = x.next, !.map = NothingSaved])
  /\ UNCHANGED <<executions, claims, known, stored, goals, disturbed>>

\* Active goals of earlier activations are abandoned and the goals of this one
\* are added.
Orphans(t) ==
  /\ task[t].pc = "orphans"
  /\ LET own     == AutoGoals(task[t].e)
         orphans == {g \in Goals \ own : goals[g] = "active"} IN
       Become(t, WriteGoals(task[t],
         (orphans \X {"abandoned"}) \cup (own \X {"active"}), "done"))
  /\ UNCHANGED <<executions, saved, claims, known, stored, goals, disturbed>>

Return(t) ==
  /\ task[t].pc = "done"
  /\ Become(t, Idle)
  /\ UNCHANGED <<executions, saved, claims, known, stored, goals, disturbed>>

------------------------------------------------------------------------------
(* POST .../step/{id}/complete: check_step, then record_step_evidence.     *)

\* The caller learned e from activate's answer.  Without the approval id a
\* procedure with approval_requirements gets a 409 and a request in the
\* approval queue, and nothing here changes; the id itself is never looked up.
CompleteStep(t, e, s, proof) ==
  /\ executions[e] # None
  /\ \A u \in Tasks : ~(task[u].op = "activate" /\ task[u].e = e)
  /\ LET x == [Idle EXCEPT !.op = "complete", !.e = e, !.s = s, !.proof = proof] IN
       \/ /\ MissingEvidence(s) # {}
          /\ Begin("complete", t, [x EXCEPT !.pc = "done", !.out = "missing"])
          /\ UNCHANGED executions
       \/ /\ MissingEvidence(s) = {}
          /\ Begin("complete", t, [x EXCEPT !.pc = "step_goal", !.out = "complete"])
          /\ executions' = [executions EXCEPT ![e] = @ \cup {s}]
  /\ UNCHANGED <<saved, claims, known, stored, goals>>

\* Every other sub-goal of the execution in the list is completed.
AllResolved(e, own) ==
  \A g \in AutoGoals(e) \ {own, <<e, 0, 0>>} : goals[g] \in {None, "completed"}

\* _resolve_step_auto_goal completes the first sub-goal of the step, and only
\* that one; with all the others completed the procedure is validated.
StepGoal(t) ==
  /\ task[t].pc = "step_goal"
  /\ LET x    == task[t]
         mine == {i \in RequiredProofs(x.s) : goals[<<x.e, x.s, i>>] # None} IN
       \/ /\ mine = {}
          /\ Become(t, [x EXCEPT !.pc = "check_save"])
       \/ \E i \in mine :
            LET own == <<x.e, x.s, i>> IN
            /\ \A j \in mine : i <= j
            /\ Become(t, WriteGoals(x, {<<own, "completed">>},
                           IF AllResolved(x.e, own) THEN "validate"
                           ELSE "check_save"))
  /\ UNCHANGED <<executions, saved, claims, known, stored, goals, disturbed>>

\* validate_completion lists the claims, which are live records ...
ValidateCompletion(t) ==
  /\ task[t].pc = "validate"
  /\ Become(t, [task[t] EXCEPT !.pc = "completion", !.visit = known])
  /\ UNCHANGED <<executions, saved, claims, known, stored, goals, disturbed>>

\* ... and decides on their state once the graph has answered.
CheckCompletion(t) ==
  /\ task[t].pc = "completion"
  /\ \E proven \in {CompletionProven(task[t].visit)} \cup
                   (IF GraphMayFail THEN {AnySupported(task[t].visit)} ELSE {}) :
       Become(t, [task[t] EXCEPT !.visit = {},
                    !.pc = IF proven THEN "validate_save" ELSE "check_save"])
  /\ UNCHANGED <<executions, saved, claims, known, stored, goals, disturbed>>

\* _resolve_parent_auto_goal.
ResolveParent(t) ==
  /\ task[t].pc = "parent"
  /\ Become(t, WriteGoals(task[t], {<<<<task[t].e, 0, 0>>, "completed">>},
                          "check_save"))
  /\ UNCHANGED <<executions, saved, claims, known, stored, goals, disturbed>>

------------------------------------------------------------------------------
(* Claims.  The status written to the graph is the one the claim had when  *)
(* the write was issued; concurrent writes land in any order.              *)

FreshClaim(c) ==
  /\ claims[c] = None /\ stored[c] = None
  /\ \A t \in Tasks : task[t].c # c

\* POST /claims/ with a claim about step s (0: about the procedure).
CreateClaim(t, s) ==
  /\ Begin("claim", t, [Idle EXCEPT !.pc = "claim_new", !.op = "claim", !.s = s])
  /\ UNCHANGED <<executions, saved, claims, known, stored, goals>>

\* record_claim: the graph first ...
NewClaim(t) ==
  /\ task[t].pc = "claim_new"
  /\ \E c \in Claims :
       /\ FreshClaim(c)
       /\ stored' = [stored EXCEPT ![c] = "unverified"]
       /\ Become(t, [task[t] EXCEPT !.pc = "claim_keep", !.c = c])
  /\ UNCHANGED <<executions, saved, claims, known, goals, disturbed>>

\* The bound on claim ids: a call that needs one more is not followed on.
OutOfClaims(t) ==
  /\ task[t].pc = "claim_new"
  /\ ~\E c \in Claims : FreshClaim(c)
  /\ Become(t, Idle)
  /\ UNCHANGED <<executions, saved, claims, known, stored, goals, disturbed>>

\* ... then memory.  record_step_evidence goes on to attach the proof, always
\* as tool_output.
KeepClaim(t) ==
  /\ task[t].pc = "claim_keep"
  /\ LET x == task[t] IN
       /\ claims' = [claims EXCEPT ![x.c] =
                       [step |-> x.s, status |-> "unverified",
                        evidence |-> {}, had |-> {}]]
       /\ known' = known \cup {x.c}
       /\ Become(t, IF x.op = "complete"
                    THEN [x EXCEPT !.pc = "attach", !.type = "tool_output"]
                    ELSE Idle)
  /\ UNCHANGED <<executions, saved, stored, goals, disturbed>>

AttachEvidence(t, c, type) ==
  /\ c \in known
  /\ Begin("attach", t, [Idle EXCEPT !.pc = "attach", !.op = "claim", !.c = c, !.type = type])
  /\ UNCHANGED <<executions, saved, claims, known, stored, goals>>

\* attach_evidence, once the evidence itself is in the graph.
Attach(t) ==
  /\ task[t].pc = "attach"
  /\ LET x   == task[t]
         old == claims[x.c]
         all == old.evidence \cup {x.type}
         new == [old EXCEPT
                   !.evidence = all,
                   !.status   = IF @ = "unverified" THEN "self_supported" ELSE @,
                   !.had      = IF old.status = "rejected" THEN @ ELSE all] IN
       /\ claims' = [claims EXCEPT ![x.c] = new]
       /\ Become(t, [x EXCEPT !.pc = "claim_write", !.st = new.status,
                              !.next = IF x.op = "complete" THEN "verify" ELSE "idle"])
  /\ UNCHANGED <<executions, saved, known, stored, goals, disturbed>>

\* The graph holds what was issued; where the call goes on from there.
ClaimWrite(t) ==
  /\ task[t].pc = "claim_write"
  /\ LET x == task[t] IN
       /\ stored' = [stored EXCEPT ![x.c] = x.st]
       /\ Become(t, CASE x.next = "idle"     -> Idle
                      [] x.next = "pipeline" -> [x EXCEPT !.pc = "pipeline",
                                                   !.c = None, !.st = None]
                      [] OTHER               -> [x EXCEPT !.pc = x.next,
                                                   !.type = None, !.st = None])
  /\ UNCHANGED <<executions, saved, claims, known, goals, disturbed>>

\* The status verify gives a claim, from the types of its evidence.
VerifiedStatus(claim) ==
  IF "supervisor_sign_off" \in claim.evidence THEN "supervisor_verified"
  ELSE IF "tool_output" \in claim.evidence    THEN "tool_supported"
  ELSE IF claim.evidence # {}                  THEN "self_supported"
  ELSE claim.status

\* verify raises for a claim it does not know and for a rejected one.
Verifiable(c) == c \in known /\ claims[c].status # "rejected"

\* The status changes at once, the graph when the write lands.
SetStatus(c, st) == claims' = [claims EXCEPT ![c].status = st]

Verify(t, c) ==
  /\ Verifiable(c)
  /\ LET st == VerifiedStatus(claims[c]) IN
       /\ SetStatus(c, st)
       /\ Begin("verify", t, [Idle EXCEPT !.pc = "claim_write", !.op = "claim", !.c = c,
                                !.st = st])
  /\ UNCHANGED <<executions, saved, known, stored, goals>>

\* The end of record_step_evidence, which swallows verify's exception.
VerifyEvidence(t) ==
  /\ task[t].pc = "verify"
  /\ LET x  == task[t]
         st == VerifiedStatus(claims[x.c]) IN
       IF Verifiable(x.c)
       THEN /\ SetStatus(x.c, st)
            /\ Become(t, [x EXCEPT !.pc = "claim_write", !.st = st, !.next = "done"])
       ELSE Become(t, [x EXCEPT !.pc = "done"]) /\ UNCHANGED claims
  /\ UNCHANGED <<executions, saved, known, stored, goals, disturbed>>

Reject(t, c) ==
  /\ c \in known
  /\ SetStatus(c, "rejected")
  /\ Begin("reject", t, [Idle EXCEPT !.pc = "claim_write", !.op = "claim", !.c = c,
                           !.st = "rejected"])
  /\ UNCHANGED <<executions, saved, known, stored, goals>>

\* The verification pipeline lists the claims ...
RunVerification(t) ==
  /\ known # {}
  /\ Begin("pipeline", t, [Idle EXCEPT !.pc = "pipeline", !.op = "pipeline", !.visit = known])
  /\ UNCHANGED <<executions, saved, claims, known, stored, goals>>

\* ... and verifies those that are self-supported by the output of a tool.
VisitClaim(t) ==
  /\ task[t].pc = "pipeline"
  /\ LET x == task[t] IN
       \/ /\ x.visit = {}
          /\ Become(t, Idle) /\ UNCHANGED claims
       \/ \E c \in x.visit :
            LET rest == [x EXCEPT !.visit = @ \ {c}]
                st   == VerifiedStatus(claims[c]) IN
            IF /\ claims[c].status = "self_supported"
               /\ "tool_output" \in claims[c].evidence
            THEN /\ SetStatus(c, st)
                 /\ Become(t, [rest EXCEPT !.pc = "claim_write", !.c = c, !.st = st,
                                           !.next = "pipeline"])
            ELSE Become(t, rest) /\ UNCHANGED claims
  /\ UNCHANGED <<executions, saved, known, stored, goals, disturbed>>

------------------------------------------------------------------------------
(* The process.                                                            *)

\* Memory and the calls in flight are lost, Redis and the graph are not.
Restart ==
  /\ "restart" \in Calls
  /\ known # {} \/ \E e \in Executions : executions[e] # None
  /\ executions' = NothingSaved
  /\ known' = {}
  /\ disturbed' = (disturbed \/ ~Quiet)
  /\ task' = [t \in Tasks |-> Idle]
  /\ UNCHANGED <<saved, claims, stored, goals>>

\* restore_executions, called by bootstrap before the session's other calls.
RestoreExecutions ==
  /\ Quiet
  /\ executions' = [e \in Executions |-> IF saved[e] = None THEN executions[e]
                                         ELSE saved[e]]
  /\ UNCHANGED <<saved, claims, known, stored, goals, disturbed, task>>

Step(t) ==
  \/ GoalRead(t) \/ GoalWrite(t) \/ SaveRead(t) \/ SaveWrite(t) \/ Orphans(t)
  \/ Return(t) \/ StepGoal(t) \/ ValidateCompletion(t) \/ CheckCompletion(t)
  \/ ResolveParent(t) \/ NewClaim(t) \/ OutOfClaims(t) \/ KeepClaim(t)
  \/ Attach(t) \/ ClaimWrite(t) \/ VerifyEvidence(t) \/ VisitClaim(t)

Call(t) ==
  \/ \E e \in Executions :
       \/ Activate(t, e)
       \/ \E s \in Steps, proof \in BOOLEAN : CompleteStep(t, e, s, proof)
  \/ \E s \in Steps \cup {0} : CreateClaim(t, s)
  \/ \E c \in Claims :
       \/ Verify(t, c) \/ Reject(t, c)
       \/ \E type \in EvidenceTypes : AttachEvidence(t, c, type)
  \/ RunVerification(t)

Next ==
  \/ \E t \in Tasks : Step(t) \/ Call(t)
  \/ Restart
  \/ RestoreExecutions

Spec == Init /\ [][Next]_vars
------------------------------------------------------------------------------
(* Properties.                                                             *)

\* Every variable stays in its type.
TypeOK ==
  /\ executions \in Saved
  /\ saved \in Saved
  /\ claims \in [Claims -> ClaimRecord \cup {None}]
  /\ known \subseteq Claims
  /\ stored \in [Claims -> ClaimStatus \cup {None}]
  /\ goals \in GoalList
  /\ disturbed \in BOOLEAN
  /\ task \in [Tasks -> TaskType]

\* Some claim about a step in S had this evidence while it was accepted.
Vouched(S, type) ==
  \E c \in Claims : claims[c] # None /\ claims[c].step \in S /\ type \in claims[c].had

EvidenceVouched(s) ==
  \A i \in RequiredProofs(s) : Vouched(Steps \cup {0}, ProofType(s, i))

\* A step counts as completed, in memory, in Redis or as a completed sub-goal,
\* only if each of its required proofs was at some time accepted for the
\* procedure; whatever rejections, restarts and lost updates came between.
CompletedStepProven ==
  /\ \A e \in Executions, f \in {executions, saved} :
       f[e] # None => \A s \in f[e] : EvidenceVouched(s)
  /\ \A g \in Goals : goals[g] = "completed" /\ g[2] # 0 => EvidenceVouched(g[2])

\* The goal of an execution is completed only if every step that is not
\* optional was proven by claims about it or about the whole procedure, and a
\* supervisor signed off where the procedure asks for approval.
FinalizedOnlyWhenProven ==
  \A e \in Executions :
    goals[<<e, 0, 0>>] = "completed" =>
      /\ \A s \in Steps : ~Procedure[s].optional =>
           IF Procedure[s].proofs = <<>>
           THEN \E type \in AllTypes : Vouched({s}, type)
           ELSE \A i \in RequiredProofs(s) : Vouched({0, s}, ProofType(s, i))
      /\ NeedsApproval => Vouched(Steps \cup {0}, "supervisor_sign_off")

\* While calls come one after the other, every completed step survives a restart:
\* Redis holds what memory holds.
SavedIsCurrent ==
  Quiet /\ ~disturbed =>
    \A e \in Executions : executions[e] # None => saved[e] = executions[e]

\* While calls come one after the other, the graph shows a claim as memory does:
\* a rejection is never hidden behind an older status.
GraphIsCurrent ==
  Quiet /\ ~disturbed => \A c \in known : stored[c] = claims[c].status

\* While calls come one after the other, only the latest activation has goals
\* that still ask the agent for something.
OneActivationActive ==
  Quiet /\ ~disturbed =>
    \A g, h \in Goals : goals[g] = "active" /\ goals[h] = "active" => g[1] = h[1]

------------------------------------------------------------------------------
(* The inductive invariant behind the first two                            *)

\* An accepted claim has evidence, and all of it was there when it was accepted;
\* an unverified one never had any.
ClaimSound(r) ==
  /\ r.status = "unverified" => r.evidence = {} /\ r.had = {}
  /\ r.status \notin {"unverified", "rejected"} => r.had = r.evidence /\ r.evidence # {}
  /\ r.status = "supervisor_verified" => "supervisor_sign_off" \in r.evidence

ClaimsSound ==
  /\ \A c \in Claims : claims[c] # None => ClaimSound(claims[c])
  /\ \A c \in known : claims[c] # None

\* What a procedure's completion takes, as FinalizedOnlyWhenProven has it.
Proven ==
  /\ \A s \in Steps : ~Procedure[s].optional =>
       IF Procedure[s].proofs = <<>>
       THEN \E type \in AllTypes : Vouched({s}, type)
       ELSE \A i \in RequiredProofs(s) : Vouched({0, s}, ProofType(s, i))
  /\ NeedsApproval => Vouched(Steps \cup {0}, "supervisor_sign_off")

\* A goal that may be completed.
Earned(g) ==
  IF g[2] = 0 THEN GraphMayFail \/ Proven ELSE EvidenceVouched(g[2])

MapEarned(map)   == \A e \in Executions : map[e] # None => \A s \in map[e] : EvidenceVouched(s)
ListEarned(list) == \A g \in Goals : list[g] = "completed" => Earned(g)

\* What a task has in hand at each of its steps, and that whatever it will complete
\* is earned already.
InHand(x) ==
  /\ x.op \in {"activate", "complete"} => x.e \in Executions
  /\ x.op = "complete" => x.s \in Steps
  /\ x.pc \in {"activate_save", "orphans"} => x.op = "activate"
  /\ x.pc \in {"step_goal", "validate", "completion", "validate_save", "check_save",
              "parent", "verify"} => x.op = "complete"
  /\ x.pc \in {"save_write", "goal_read", "goal_write"} => x.op \in {"activate", "complete"}
  /\ x.pc = "save_write" => \/ x.next \in {"claim_new", "done"}
                            \/ x.next = "orphans" /\ x.op = "activate"
                            \/ x.next = "parent" /\ x.op = "complete"
  /\ x.pc \in {"goal_read", "goal_write"} =>
       \/ x.next = "done"
       \/ x.next \in {"validate", "check_save"} /\ x.op = "complete"
  /\ x.pc \in {"goal_read", "goal_write"} => x.todo # {}
  /\ x.pc \in {"claim_keep", "attach", "claim_write", "verify"} => x.c \in Claims
  /\ x.pc \in {"attach", "claim_write", "verify"} => x.c \in known
  /\ x.pc = "attach" => x.type \in AllTypes
  /\ x.pc = "claim_write" => x.st \in ClaimStatus /\ x.next \in {"idle", "pipeline", "verify", "done"}
  /\ x.pc = "claim_write" /\ x.next = "verify" => x.op = "complete"
  /\ x.pc \in {"completion", "pipeline"} \/ (x.pc = "claim_write" /\ x.next = "pipeline")
     => x.visit \subseteq known

InHandEarned(x) ==
  /\ MapEarned(x.map) /\ ListEarned(x.list)
  /\ \A w \in x.todo : w[2] = "completed" => Earned(w[1])
  /\ x.pc = "step_goal" => EvidenceVouched(x.s)
  /\ x.pc \in {"validate_save", "parent"} \/ (x.pc = "save_write" /\ x.next = "parent")
     => GraphMayFail \/ Proven

\* A claim's id is in one task's hands until the claim is in memory.
ClaimIdsOwn ==
  \A t \in Tasks : task[t].pc = "claim_keep" =>
    /\ claims[task[t].c] = None
    /\ \A u \in Tasks \ {t} : task[u].c # task[t].c

IInv ==
  /\ TypeOK /\ ClaimsSound /\ ClaimIdsOwn
  /\ MapEarned(executions) /\ MapEarned(saved) /\ ListEarned(goals)
  /\ \A t \in Tasks : InHand(task[t]) /\ InHandEarned(task[t])

------------------------------------------------------------------------------
(* What holds while calls come one after the other                         *)

Alone == \A t, u \in Tasks : task[t].pc # "idle" /\ task[u].pc # "idle" => t = u

WritingGoals(x) == x.pc \in {"goal_read", "goal_write"}

\* The task has still to save the execution it changed.
SavePending(x) ==
  \/ x.pc \in {"activate_save", "step_goal", "validate", "completion", "validate_save",
               "check_save", "save_write"}
  \/ WritingGoals(x) /\ x.next # "done"

\* What a task read is still so; an activation has every goal of the others to abandon
\* in hand, and adds none but its own.
HandCurrent(x) ==
  /\ x.pc = "save_write" => x.map = saved
  /\ x.pc = "goal_write" => x.list = goals
  /\ x.pc = "claim_keep" => stored[x.c] = "unverified"
  /\ x.pc = "claim_write" => x.st = claims[x.c].status
  /\ WritingGoals(x) /\ x.op = "complete" => \A w \in x.todo : w[2] = "completed"
  /\ WritingGoals(x) /\ x.op = "activate" =>
       /\ \A w \in x.todo : w[2] = "active" => w[1][1] = x.e
       /\ \A g \in Goals : goals[g] = "active" /\ g[1] # x.e => <<g, "abandoned">> \in x.todo

OneActive ==
  \A g, h \in Goals : goals[g] = "active" /\ goals[h] = "active" => g[1] = h[1]

\* The stores agree, but for what the task in flight has still to write.
StoresCurrent ==
  /\ \A e \in Executions : executions[e] # None =>
       saved[e] = executions[e] \/ \E t \in Tasks : SavePending(task[t]) /\ task[t].e = e
  /\ \A c \in known :
       \/ stored[c] = claims[c].status
       \/ \E t \in Tasks : task[t].pc = "claim_write" /\ task[t].c = c
  /\ OneActive \/ \E t \in Tasks : WritingGoals(task[t]) /\ task[t].op = "activate"

Serial ==
  ~disturbed => Alone /\ (\A t \in Tasks : HandCurrent(task[t])) /\ StoresCurrent

=============================================================================
