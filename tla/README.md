# ElephantBroker: specifications and proofs

ElephantBroker (`src/elephantbroker/`, Python, asyncio, FastAPI) is a memory and
context service for LLM agents. A gateway calls it over HTTP around every turn of an
agent: messages come in, facts are extracted and stored in a graph, a vector store and
Cognee documents; a working set of facts, goals, procedures and constraints is put
together for the next prompt; red-line guards check what the agent is about to do and
may ask an operator; claims and evidence prove the steps of procedures; a nightly run
consolidates the facts. Two OpenClaw plugins (TypeScript) are its clients, and a small
middleware carries approval requests to operators and their answers back.

This directory holds TLA+ specifications of the parts of it whose correctness depends
on order, interleaving and failure, the TLC configurations that check them, and
theorems about them checked by TLAPS.

## The system

The server is one process with one event loop (or a few such processes over one
database). Every piece of state below is shared by the asyncio tasks of concurrent HTTP
requests, and control moves from one task to another only at an `await`. In-memory
state is lost when the process restarts; Redis, SQLite, PostgreSQL, the graph and the
vectors are not.

| Component | State it keeps | Operations | What is hard about it |
|---|---|---|---|
| RedLineGuardEngine (`runtime/guards/engine.py`, `rules.py`, `semantic_index.py`, `autonomy.py`) | per session: rules, exemplars with cached embeddings, constraints to inject; guard history in Redis | `load_session_rules`, `preflight_check` (layers 0-5, near-miss escalation), `reinject_constraints`, `unload_session` | a check spans many awaits; layers are skipped when they raise; events are stored by tasks nobody awaits |
| ApprovalQueue (`runtime/guards/approval_queue.py`, `api/routes/guards.py`) | requests and an index per session in Redis, with two TTLs; an auto-goal per request | `create`, `find_matching`, `check_timeout`, `approve`, `reject`, `cancel`, `sweep_expired` | operators, checks, sweeps, time-outs and session ends race; every write is read-modify-write |
| HITL (`runtime/guards/hitl_client.py`, `hitl-middleware/`) | tokens; the connection that waits | `request_approval` with retries, webhooks, approve and reject callbacks | either connection may break or be late; buttons are pressed twice |
| SessionGoalStore, hints (`runtime/working_set/session_goals.py`, `hint_processor.py`, `goal_refinement.py`, `api/routes/goals.py`) | one JSON list of goals per session key in Redis | get, set, add, update, remove, blockers, `flush_to_cognee`; hints of a turn | the whole list is read and rewritten by every change; hints work on a snapshot |
| ProcedureEngine (`runtime/procedures/engine.py`, `api/routes/procedures.py`) | executions in memory, a copy in Redis, auto-goals | `activate`, `check_step`, `record_step_evidence`, `validate_completion`, `restore_executions` | executions survive a restart, the claims that prove them do not |
| EvidenceEngine (`runtime/evidence/engine.py`), verification pipeline | claims in memory, their status in the graph | `record_claim`, `attach_evidence`, `verify`, `reject`, `check_completion_requirements` | a claim changes while a step is being completed on its strength |
| MemoryStoreFacade (`runtime/memory/`) | facts in the graph, embeddings, Cognee documents | store, search, update, promote, delete, decay | three stores written one after the other, each may fail |
| Turn ingest (`pipelines/turn_ingest/`) | message buffer, recent facts and decision domains in Redis | buffer, drain, extract, store, supersede, scrub | the length is read after the transaction, an LLM call lies between reading and writing the recent facts |
| ContextLifecycle (`runtime/context/lifecycle.py`, `session_store.py`) | the session context, message list and snapshot in Redis | bootstrap, ingest_batch, assemble, compact, after_turn, window report, session_end | read-modify-write of the whole context; rules are in memory, the context is not |
| WorkingSetManager, retrieval, rerank (`runtime/working_set/`, `retrieval/`, `rerank/`) | snapshots of sessions in memory and Redis | gather from parallel sources, merge, score, select under a budget, show | sources are stale or fail; two writers of one key; what must be injected exceeds the budget |
| CompactionEngine (`runtime/compaction/`) | compact state in Redis | trigger, classify, summarise, persist | classification by position among equal messages; concurrent compactions |
| ProfileRegistry (`runtime/profiles/`) | overrides in a table, a cache in each process | resolve, register and delete overrides | the cache against overrides that change during a resolution |
| ActorRegistry, authority (`runtime/actors/`, `api/routes/admin.py`, `_authority.py`) | actor nodes, MEMBER_OF edges | register, update, add and remove members | a membership is written twice |
| Session artifacts (`runtime/context/session_artifact_store.py`) | a Redis hash per session | capture, replace, search, count | placeholders outlive what they name |
| ConsolidationEngine (`runtime/consolidation/`) | a Redis lock and status, reports in SQLite | a run of nine stages, the RT-1 task | stages write back facts read at the start of the run; the lock expires |
| OpenClaw plugins (`openclaw-plugins/`) | one current session, one message buffer, one list of turn messages per host | hooks and context-engine calls | the runs of several sessions share them |
| GoalManager, persistent artifacts, procedure ingest | graph nodes | create, update, query | little: single writes |
| ScoringTuner, TraceLedger, StatsEngine, audit logs | deltas, lists and counters | append | observers only |
| HTTP API, container, CLI, adapters | none | convert and delegate | none |

How they interact where it matters here: the context plugin calls the lifecycle's
handlers one after the other, the memory plugin and the report of the context window do
not wait. `ContextLifecycle.assemble` builds the working set, replaces tool outputs and
stores the snapshot from which a later request prints the overlay; `preflight_check`
asks the ApprovalQueue in layer 0; the queue and the ProcedureEngine both create and
resolve auto-goals in the SessionGoalStore; the ProcedureEngine asks the EvidenceEngine
whether steps are proven; operators reach the queue through the middleware and
`PATCH /guards/approvals/{id}`; `session_end` flushes the goals to the graph and then
unloads the guard state, which cancels pending requests. Facts are written by the
ingest pipeline, by searches and turns (use counts) and by the stages of a
consolidation, all as whole nodes.

What makes each component correct:

- guards: no action goes ahead that a rule in force forbids, or that an operator was
  asked about and did not approve; the agent is told what stopped it; repeated near
  misses are looked at by the LLM;
- approvals: a decision is found by the next check, is never undone, belongs to the
  action it was asked for, and no request stays pending for ever; who pressed a button
  is told the truth;
- goals: no goal is lost or comes back; an auto-goal shows what happened to the request
  or step it stands for;
- procedures and evidence: a step, and a procedure, is complete only when the evidence
  it requires was accepted, across restarts and lost updates;
- memory: a deleted fact leaves nothing behind, no document is left that nothing leads to;
- ingest: every message is read once, the LLM is shown true recent facts, and what it
  says is applied to the facts it was shown;
- lifecycle: a live context has its rules, is not replaced, counts turns once and
  forgets on compaction what was injected before;
- working set: no ghost of a deleted fact, the budget kept, constraints not lost, and
  both halves of a prompt from one snapshot; a compaction loses nothing the session
  needs; every tool output stays reachable;
- profiles and organisation: overrides are served, memberships agree in both places;
- consolidation: duplicates are merged only when linked, facts promoted only when said
  often enough, nothing archived before its canonical fact is stored, use rewarded;
- plugins: a run takes nothing from another.

## Modules

| Module | Models | Run |
|---|---|---|
| `GuardApprovals` | APPROVE_FIRST actions: layer 0, the queue, the routes, `session_end` | `GA_race`, `GA_serial` |
| `ApprovalLedger` | what the queue promises, without tasks, indexes or clocks | `GA_race` (refinement) |
| `GuardApprovalsInv`, `GuardApprovalsProofs` | the inductive invariant of `GuardApprovals`, its theorems | |
| `GuardPipeline` | the other layers of `preflight_check` and the guard state | `GP_checks` |
| `GuardPipelineProofs` | its theorems | |
| `Hitl` | an operator's answer: client, middleware, callback, queue | `PA_gateway`, `HI_v_callback` |
| `ProcedureEvidence` | procedure executions, auto-goals, claims | `PE_calls` |
| `ProcedureEvidenceProofs`, `MCProcedureEvidenceProofs` | its theorems; the same for the two scenes of `PE_calls` | |
| `SessionGoals` | all writers of a session's goal list | `PA_gateway` |
| `FactMemory` | the memory facade over graph, vectors and Cognee documents | `FM_calls`, `FM_v_deleted` |
| `Consolidation` | a consolidation run over the facts of `FactMemory`, which it extends | `CO_run` |
| `ConsolidationProofs` | the theorems of both | |
| `Recurrence` | stages 1, 2 and 6: clusters, canonical facts, promotion | `PA_gateway` |
| `UseCounts` | the use counters of a fact and what consolidation makes of them | `PA_turn` |
| `TurnIngest` | from buffered messages to facts, and the scrub after a delete | `TI_calls` |
| `TurnIngestProofs` | its theorems | |
| `SessionLifecycle` | the handlers of the context engine over one session context | `SL_calls` |
| `SessionLifecycleProofs` | its theorems | |
| `WorkingSet` | building a working set and showing it to the agent | `PA_turn` |
| `Compaction` | concurrent compactions of a growing conversation | `PA_turn` |
| `Artifacts` | captured tool outputs, placeholders, searches | `PA_turn` |
| `Profiles` | profile resolution and its cache in several processes | `PA_gateway` |
| `Organisation` | membership requests and the authority check | `PA_gateway` |
| `Plugins` | the two OpenClaw plugins in one host | `PA_turn` |
| `Lists` | Python's filter of a list, as a function that proofs can unfold | |
| `MCParts`, `PartsProofs` | the parts above that are run together; their theorems | |
| `MC...` | the constants of the instances | |

In all of them an action is the code between two awaits whose order matters; a task's
`pc` names the await it waits at, and the other fields of its record are the local
variables that are used after it. Variables whose comment says "history" are no state of
the program; the properties need them. `PROJECT.json` maps every definition to its
lines. Definitions marked "mutant" or "faulty variant" are what a plausible bug would
make of the definition they stand beside; no specification uses them.

### GuardApprovals

`loaded` is `RedLineGuardEngine._sessions` in dictionary order, `status`, `ttl`,
`index` and `indexTtl` are Redis, `due` the time to a request's `timeout_at`, `goals`
the session goal lists, `graph` the goals flushed. Time is relative: `Tick` lets every
key age by one. `said` is a history variable: what operators sent.

A check finds a matching request (`FindMatching`), looks at each candidate's deadline
(`CheckTimeoutRead`, `CheckTimeoutWrite`), creates one if there is none (`Allocate`,
sweep, `Store`, `AddGoalRead`, `AddGoalWrite`) and answers (`Return`). A decision reads
the request, writes it and resolves the auto-goal (`UpdateApproval`, `WriteDecision`,
`GoalRead`, `GoalWrite`). `session_end` flushes, pops the guard state, lists the
pending requests and cancels them one by one. `smembers` has no order, so searches
choose any candidate. `Restart` empties memory and stops every task where it is.

### ApprovalLedger

A request is entered once, settled only with somebody's consent or because its time is
over, may be forgotten, and is never pending again. `GuardApprovals` implements it with
`Asked`, `status` and `said` for its variables; `GA_race` checks this and
`LedgerTheorem` proves it.

### GuardPipeline

`states` are the guard states the session has had; checks in flight keep the one they
began with, as the code does with the object it looked up. `embedded` is the cache of
exemplar embeddings in that state, by position. A policy gives, for each action, what
its rules, exemplars and validators say; matching text is data. `Finalize` schedules
an event that `StoreEvent` puts into the history later, in any order. `ruled`,
`compared` and `answer` of a check, and `unasked` of an event, are history variables
for the properties. What layer 0 may answer is `Layer0Answers`, the answers
`GuardApprovals` and the autonomy levels give.

### Hitl

A request is stored, then posted to the middleware with `Retries` more attempts
(`Sign`, `Post`); the middleware has no memory, so each attempt that arrives reaches the
webhooks. A callback (`Press`) checks the token's age and sends a PATCH with the empty
agent id that the code sends (`SentAgent`); it gives up after ten seconds while the
PATCH goes on (`GiveUp`); `Read` and `Write` are `update_approval`, and `Write` drops the
update of an expired key, as the queue does. One session of the instance has the empty
agent id, so that its answers arrive at all.

### ProcedureEvidence

`executions` and `known` are memory, `saved` and `goals` Redis, `stored` the graph;
`claims` keeps what every claim ever was, `had` the evidence it carried when accepted.
One procedure in one session. `Begin` records in `disturbed` whether a call overlapped
another or was cut by a restart, for the properties that the code gives only to calls
made one after the other. `MCProcedureEvidence` checks two instances as two scenes of
one run: a race and a serial one with restarts.

### SessionGoals

`goals` is the list in Redis, `hold` the snapshot a turn fetched: tier-1 hints change the
goal in the snapshot and copy all its fields into the list (`Hint`, `Applied`), a worker
refines the snapshot later (`Delegate`, `Think`), the routes read and write on their own
(`Request`, `PostGoal`, `Block`). `Get` and `Set` are the two halves of every change.
`due` is the list that the completed calls should have left.

### FactMemory

`graph` has for every fact the `FactDataPoint` node, reduced to its `cognee_data_id` and
its `archived` flag, `embedded` the facts in the collection `FactDataPoint_text`, `docs`
the documents in Cognee. A call (`Store`, `Amend`, `Update`, `Delete`, `Search`) reads a
node and goes on in further steps (`AddText`, `WriteFact`, `CascadeOld`, `DeleteNode`,
`DeleteEmbedding`, `DeleteDoc`); `FetchIds` and `UpdateUseCounts` are the task a search
leaves behind. `AddDataPoints` writes whole nodes and may raise before, between or after
its two stores. `Outcome` lets any await fail while `faults` is below `MaxFaults`.

Many of the facade's promises hold only for calls that do not overlap on a fact, since
nothing locks one. `disturbed` remembers the facts two tasks held at once, or that a
stopped process held, and the properties speak of the others; `reported` remembers
documents that were given up with a trace, a warning or an error to the caller;
`halfway` the facts of which a step failed and the next one went on. Ids are made by
`uuid4`, so `FreshFact` takes one that nothing has had. Cognee's ids are taken to be
unique to a document, except that the unchanged text of a fact may get its old one.

### Consolidation

A run is a task of `FactMemory` whose `pc` is `run`; `run[t]` says which stage it is in
and at which await. Stage 2 makes a canonical fact, then archives the members of the
cluster one by one and removes their documents; stage 4 archives what decayed; stages 3
to 6 write back every fact of the run, as loaded and changed since. Which facts
are clusters, decay or get stronger is left open here, `Stages` are the stages that
could be built. The lock is released with its token, and expires after an hour, wherever
its run is (`LockExpires`); `late` remembers the runs this happened to. The filter that
is to keep facts in use out of a run (AD-11) reads a property the nodes do not have, so
`StartRun` takes every live fact.

### Recurrence and UseCounts

`Recurrence` decides what `Consolidation` leaves open about duplicates: the union-find of
stage 1, with the two loops over the pairs (`Union2`, `Row`, `Forest`, `ClustersOf`), the
canonical fact with the broadest scope and the most promoted class of its members
(`Canonical`), the sessions counted over a fact and its near duplicates (`SessionsSeen`)
and the promotion matrix (`Promoted`). Every relation of near duplicates over four facts
is an initial state. The loops and the sum of the uses are recursive functions over the
numbers of the facts, which proofs can unfold. `Linked`, which the clusters are compared
with, knows nothing of trees: what is connected to f is what every set has that holds f
and all near duplicates of what it holds.

`UseCounts` follows one fact: turns that judge the counters a snapshot showed
(`AfterTurn`, `ReadNode`, `WriteNode`), the RT-1 batch, recalls of searches, and the stages
of a consolidation that store the whole node from a copy loaded earlier (`Load`, `Stage`).

### TurnIngest

`buffer` and its `age`, `recent` and `domains` are Redis; `node`, `decayed` and `edges` what
matters here of the stores. `ingest_messages` appends in one transaction and reads the
length after it; whoever fills the batch drains (`flush`) and runs the pipeline: read the
recent facts, extract, store one fact after the other, decay the superseded fact by its
place in the list shown, write the list back. `facade.delete` scrubs the list first (one
Lua script). `racing` are facts of which a scrub met a run that had read the list before.

### SessionLifecycle

`ctx` is the `SessionContext` in Redis with its counters and injection history, `rules`
whether this process's guard engine has the session's rules. The client awaits its
hooks, so a task begins only when no other is under way, except the calls in
`Overlapping`: the report of the context window is fire and forget. `raced` is set when
a handler writes its copy over another's, `unruly` when rules were lost or not loaded.

### WorkingSet

Two calls build for one session: a turn (`assemble`, then `build_overlay`) and the
build route. `Start`, the sources `Structural` and `Vector` in any order (each may time
out), `Rerank` (cap and merge of near duplicates), `Select` (`Greedy`, a sequential pass
in any order the scores allow), `Persist`, then for a turn `Assemble`, `Cache` and
`Overlay`. Facts are deleted and blacklisted meanwhile (`Change`); the vector index keeps
what the graph lost.

### Compaction, Artifacts, Profiles, Organisation

`Compaction`: a message is what the classification asks of its text; `Read`,
`Summarize`, `Persist` are the awaits of a compaction, `IndexOf` is Python's
`list.index`. `Artifacts`: `Ingest`, `Look`, `Capture` store a tool output once,
`Replace` puts placeholders for older ones, `Deduplicated` removes what the overlay's
items cover, `Search` and `Count` read and count without a lock, `Expire` drops the
session's keys. `Profiles`: `Read` (the override), `Flatten`, then the cache, against
`Write` and `Invalidate` in this and another process; `Tick` ages the entries.
`Organisation`: a request passes `Allowed`, writes the edge, reads the node and writes it
back whole; either may fail and the route answers all the same.

### Plugins

`engine` is the session the context engine takes every call to be of (its methods ignore
the session id they are given), `hooks` the key and id of the memory plugin, which are
set apart. A run of a session is `BeforeAgentStart`, `SessionStart` the first time,
`Bootstrap`, then `Ingest`, `IngestBatch`, `LlmInput` and assemblies, `AgentEnd` or
`Abort`, and `afterTurn` and `dispose` in either order (`FlushFirst`, `Resume`, `Dispose`,
`Disposed`). JavaScript runs to the next await, so a flush empties the buffer and sends
in one step. That the host bootstraps and disposes the engine in every run is what the
comments and tests of the plugins say of OpenClaw, which is not in the repository.

## Runs

| Run | Shows | Bounds |
|---|---|---|
| `GA_race` | actions go ahead only with cause, live requests are findable, the ledger is implemented | two tasks, two requests, one session; deadlines of one tick |
| `GA_serial` | what is pending is waited for, decisions reach their goals, no goal completes without consent, calls and requests end (fairness) | one task, two sessions with one session key |
| `GP_checks` | actions go ahead only when clean, near misses reach the LLM, enforcement is explained | two tasks, two actions, two policies, one refresh |
| `PE_calls` | steps and executions complete only when proven; Redis and the graph agree with memory, one activation has open goals | race: two tasks, two claims, one execution, rejections overlap every call; serial: two executions, one claim, restarts |
| `FM_calls` | no document is left that nothing leads to, live facts name existing documents | two tasks, two facts, three documents, one fault, every call |
| `CO_run` | the same through runs, and a clean delete leaves nothing; two runs never overlap unless a lock expired; nothing is archived before its canonical fact is stored | two tasks that consolidate or delete, two facts and a canonical one, stages 2 to 4, one fault |
| `TI_calls` | every message is read once or dropped for a known reason, the recent list is true, decay hits the fact that was shown | two tasks, two messages, three facts, batches of one and two, one fault |
| `SL_calls` | a live context has its rules, counts and history are true, the goal is reminded of, bootstrap keeps the context | one handler at a time and the window report, two turns, one compaction, one fault, restart and expiry |
| `PA_turn` | what a turn touches: `WorkingSet`, `Compaction`, `Artifacts`, `UseCounts`, `Plugins` | a turn and a build route over three facts and a goal, budget of two, one fault, one change; the rest in `PA_turn.cfg` |
| `PA_gateway` | what the other routes touch: `Profiles`, `Organisation`, `SessionGoals`, `Hitl`, `Recurrence` | see `PA_gateway.cfg` |
| `FM_v_deleted` | violated: the use counts of a search bring a deleted fact back | two tasks, one fact, no fault |
| `HI_v_callback` | violated: a callback does not find the pending request it is for | two requests, one with an agent id |

`PA_turn` and `PA_gateway` check parts that meet the others through no state of their
own: `MCParts` makes each an initial state of one behaviour space, in which the other
parts' variables stay 0, and `Parts` says which of them an instance has. The properties
of `PA_turn` are `NoGhostFacts`, `OverspendOnlyByMust`, `ConstraintLostOnlyToBetter` and
`OverlayIsOfThisTurn` (WorkingSet), `NothingNeededLost` (Compaction), `OutputReachable`
(Artifacts), `UseRewarded` (UseCounts) and `PluginsServe` (Plugins); those of `PA_gateway`
are `OverridesServed` (Profiles), `MembershipAgrees` (Organisation), `GoalListSound`
(SessionGoals), `AnswersAreTrue` (Hitl), `ClustersAreLinked` and `ChangesJustified`
(Recurrence).

Two tasks are enough for the races: every race in this code is between one read-modify-
write and one other writer. Two requests let a check of the same action find one and
create one, and let a sweep visit another's request. Time needs only one tick before a
deadline, one of grace and one or two after it, since the code compares ages with few
thresholds. Operators approve in the runs and never reject: a rejection takes the same
steps as an approval but for the statuses written, and the theorems cover it, as they
cover every subset of calls. Two checks with one refresh have every pair of guard
states. `MaxEvents`, `Window` and `Threshold` are small so that the history is truncated
and the threshold met within two checks. In `TI_calls` a batch of two and `Headroom` 1
let the buffer overflow with two messages; three facts fill a list of two. In `PA_turn`
a fetch of two, a cap of two and a budget of two are each exceeded by three facts and a
goal. In `SL_calls` one message reaches the compaction trigger and a reminder is due
after two turns. Four facts let two clusters be joined by a later pair. Two runs of two
sessions, or of one, with two messages and a batch of two fill the plugins' buffer,
leave it half full at a dispose and let a second session bootstrap at any await. The
`Max...` constants, `Requests`, `Claims`, `Executions`, `Tasks` and `Calls` bound what
an instance does; none is in the code. `MaxFaults` counts failed awaits, restarts and
expired locks: one is enough to lose an id, to leave a step half done or to let two runs
overlap, and each of the properties has a mutant that needs at most one. `CO_run` leaves
out stages 5 and 6, which take the same action as stage 3. `PA_turn`, `PA_gateway` and
`HI_v_callback` do not check for deadlock: their calls are bounded and end.

Many properties except what no lock of this code prevents ("unless two handlers
raced", "unless a write overtook another"). The exceptions are as narrow as they could
be made, and each is a history variable whose comment says what sets it.

A run that expects a violation checks one statement of a docstring of the repository
that the code does not keep; `findings` quotes it.

### Fairness

Only `GA_serial` needs it: weak fairness of each task's steps, since the event loop runs
every ready task and each await of the code ends, by an answer, an error or a client's
time-out; and of `Tick`, since Redis expires keys and the clock goes on by itself.
Nothing is assumed of agents and operators.

## Disagreements met while modelling

Not checked by a run of their own; most are behaviours of the models that the
properties except, some are outside the models.

- Approvals: two concurrent checks of one action both find no request and each creates
  one (`find_matching`, "Prevents duplicate requests"); with two loaded sessions of
  different keys a decision resolves its goal under the key of the first session in the
  dictionary (`api/routes/guards.py:264`); `cancel` overwrites an approval made after
  `unload_session` listed the pending requests (`approval_queue.py:183`); the sweep route
  raises on its first pending request (`guards.py:327`).
- HITL: the middleware answers 200 although every webhook failed, so the client never
  retries, while CONFIGURATION.md:2000 speaks of three retries; approve answers 200 though
  the update of an expired key was dropped; the callback URLs of an intent are never set.
- Guards: a half-filled exemplar cache is taken for the whole one (`semantic_index.py:107`).
- Procedures: a step with two proofs leaves its second sub-goal active
  (`procedures/engine.py:444`); when the graph cannot be read any supported claim
  finalizes an execution (`evidence/engine.py:236`).
- Goals: several `new_subgoal` hints of one batch exceed the limit; a stale hint writes
  its whole snapshot of the goal; a failed read makes `add_goal` overwrite the list; a
  failed flush of a goal still deletes the key; a completed hint raises the parent's
  confidence only in memory (`hint_processor.py:75`); `GoalManager.set_goal` stores the node
  before its gateway checks.
- Consolidation: archived facts are embedded again by later write-backs (`engine.py:413`);
  the AD-11 filter reads `eb_last_used_at`, which nodes lack (`engine.py:559`); the reload
  branch of `engine.py:395` never happens; README.md:161 "EPISODIC → SEMANTIC after 3+
  sessions" fails where a merge archives the members; the RT-1 counter is never saved
  (`lifecycle.py:1013`), and RT-1 is always called without messages and goals
  (`lifecycle.py:1024`).
- Ingest: the batch timeout never flushes on its own (`buffer.py:119`, CONFIGURATION.md:8104);
  `[-0:]` at `buffer.py:139` keeps everything; CONFIGURATION.md:2325 "last 4 messages" while
  the plugin sends all.
- Lifecycle: after a restart `bootstrap` returns early and the guard rules stay unloaded
  (`lifecycle.py:219`); the agent id of the last bootstrap is read after awaits
  (`lifecycle.py:295`); the window report can take back a turn's counters; `session_messages`
  is never trimmed.
- Working set: `compact_state_ids` is always empty, so novelty never sees what was
  compacted; the effective budget limits block 1 only (CONFIGURATION.md:6402); a superseded
  fact with the higher score makes its superseder take the penalty; the vector source
  offers blacklisted facts (`orchestrator.py:377`); the overlay prints every item.
- Compaction and artifacts: the slices keep the oldest questions and decisions; injected
  counts never rise; `promote_to_persistent` is called by nothing; a searched counter
  may be lost or recreate an expired hash without TTL.
- Profiles and organisation: a wrong top-level scalar passes `set_override` and then every
  resolution raises; a failed read of an override is cached for a TTL; with the PostgreSQL
  registry the membership routes write only the graph while `check_authority` reads the
  table; the synthetic agent id of `require_authority` is no UUID although its docstring
  says the check can still run.
- Plugins: where two sessions' runs overlap, requests go out under the session that
  bootstrapped last, although every call names its session; a message ingested while a
  dispose waits for its flush is dropped (`engine.ts:230`). A session that runs again
  after another one started sends its own key with the other's id
  (`before_agent_start` sets the key alone, while `index.ts:171` says "we update session state
  whenever the hook fires"), and `session_end` ends whatever session is current.
  CONFIGURATION.md:2459 has dispose "Reset all state" and call the server; it does neither.

## Proofs

Checked by `tlapm` for every value of the constants that satisfies the assumption named
in each module. A theorem `Spec => []P` rests on an inductive invariant `I` (`IInv` in
most modules) and three facts: `Init => I`, `I /\ [Next]_vars => I'`, `I => P`, with one
lemma per action. `I` stands at the end of the module whose properties it proves, and
TLC checked it on the instance of the run before it was proved. Every invariant and
every action property of a passing run is stated by a theorem. What each invariant adds
to the properties is what the calls in flight still know of the state they have read.

`GuardApprovals`
- `Invariance`: `IInv` of `GuardApprovalsInv` adds what each task still knows (`Knows`),
  that requests are filed under their own session (`Filed`), that the two TTLs stay
  ordered (`Findable`) and that a request being created is known to its creator alone
  (`CreationPrivate`). From it follow `ConsentTheorem`, `FindableTheorem`,
  `GoalConsentTheorem`, `NeverReopenedTheorem` and `LedgerTheorem` (the refinement).
- `WaitedForTheorem` and `DecisionTheorem` have the hypothesis `Serial`: one task, one
  session key, no restart. It is what `GA_serial` checks, for any number of sessions,
  requests and ticks here; without it the code does not keep the two (see the
  disagreements on `find_matching` and on the key a decision resolves under).
  `SerialInv` says that what the one call has read still holds when it writes, up to
  what the passing of time takes away: a check that is about to create a request has
  seen every other one of its session (`FoundAll`), a pending request of an unloaded
  session is among those the call has yet to cancel (`Cancels`), and a decision whose
  goal differs has its `goal_write` to come (`GoalsFollow`).

`GuardPipeline`
- `Clean`: `Sound` says at each await what the layers passed so far have established; one
  lemma per operator `After...` follows a check to its next await, whatever policy the
  other checks began with.
- `NearMissesHold` and `EnforcementHolds`: `Serial` speaks of checks that come one after
  the other, that is until `disturbed`. Every warning without the LLM has fewer than
  `Threshold` warnings in its window (`FewBefore`, over positions of the history, which
  events enter in front and leave behind), at most one event is not stored yet, and the
  constraints explain what the layers so far have stopped (`Explained`).

`FactMemory` and `Consolidation` (`ConsolidationProofs`)
- `NoSilentLeakHolds`, `ErasedHolds`, `DataIdsLiveHolds`: for each fact that no two calls
  held at once, `FactInv` says which documents are left that were not given up openly:
  the one the node names, or at most those the task in hand remembers at its await
  (`Grip`). `owner`, the fact a document was added for, keeps the facts apart.
- `LockTheorem`, `OneRunTheorem`: a run whose lock has not expired holds it; the token of
  the lock keeps the end of a late run from releasing the lock of the next one.
- `CanonicalTheorem`: `CanonicalFirst` alone is not inductive, as a delete may take the
  canonical node away. Two tasks that hold a fact have disturbed it, and only a task that
  holds a fact can delete its node. `RunTypeCorrect` gives the types of what a run
  remembers.

`ProcedureEvidence`
- `StepsProvenHold`, `FinalizedHolds`: every completed step in any copy (memory, Redis, goal
  list, a map or list in some task's hands) was earned, and so is whatever a task will
  still complete (`InHandEarned`); evidence accepted once stays recorded in `had`.
  `FinalizedHolds` needs `~GraphMayFail`: when the graph cannot be read any supported
  claim finalizes an execution.
- `StoresAgreeHold`: until calls overlap, memory, Redis and the graph agree but for what
  the one task in flight has still to write, and an activation has all other open goals
  in hand to abandon (`HandCurrent`).
- `MCProcedureEvidenceProofs` carries the three to the scenes the run checks: a step is
  one of a scene's instance, the other scene's variables stay.

`TurnIngest`
- `EveryMessageOnceHolds`: buffer, runs and the ways out (read, trimmed, expired, failed)
  divide the messages sent (`Whereabouts`), and a task has in its hands what its await says.
- `RecentListHolds`, `DecayHolds`: what a run was shown is stored, what it stored is new
  and supersedes what was meant (`RunSound`), and once a fact's node may go nobody can
  bring it back into the list, unless its scrub met a run (`Forgotten`). That the list is
  no longer than `RecentMax` is proved for `RecentMax > 0` only: `schemas/config.py` allows
  0, and the slice `[-0:]` then keeps the whole list.

`SessionLifecycle`
- `ContextTrueHolds`, `GoalRemindedHolds`: until handlers race, each copy of the context in
  flight agrees with the stored one but for what its own handler adds (`Agrees`).
- `RulesWithContextHolds`, `BootstrapHolds` need `ClientWaits`: the plugin waits for every
  hook but the report of the window (`openclaw-plugins/`). Then one hook is in flight, a
  copy outlives the context only behind a session end, and a bootstrap that could read
  has no context before it (`HookInv`).

The parts of `MCParts` (`PartsProofs`). A behaviour stays one of its part, so only the
steps of that part matter; each theorem is about all values of the part's constants.
- `WorkingSet`: what was found at any time after a start was there at the start
  (`FoundAfterStart`), cuts and merge lose no constraint to less than itself
  (`RankedKeeps`), the selection takes what it must and the rest only where it fits
  (`SelectedWell`), and what an undisturbed turn selected is what memory and Redis hold
  (`Undisturbed`). `Lists`, and `TokensUsed` as a function, exist because the provers
  unfold neither `SelectSeq` nor a fold; the sequential facts are proved by well-founded
  induction over a set of positions (`UpTo`, `StepsExist`).
- `Profiles`: what was read was true when it was read, and time stands still until it is
  in the cache, since a resolution and its caching are one step of the clock.
- `UseCounts`: a success, once stored, stays in the node and in the copy of a run that
  was loaded after it, while no write overtakes another.
- `Organisation`: node and edges agree up to what the one request under way has still to
  write (`UnderWay`); an actor without a node has nothing (`UnknownHasNothing`).
- `Hitl`: the key of a pending request runs out before its token (`TokenOutlives`), who
  pressed was asked and what was answered stays true (`Pressed`).
- `Artifacts`: an id keeps its content, in the hash and in the copies of searches.
- `Compaction`: the first n of a bucket are n if something is left out, and the index of
  a question is that of its first occurrence, unless it was asked twice.
- `SessionGoals`: a list a call has read is as sound as the stored one was, and until it
  is overtaken it is the stored one; `Prepared` is what a call has made sure of.
- `Plugins`: a message is in the buffer and was never sent, or with a request under way,
  or settled (`LettersKept`); a run waits for a call it makes where it is (`Waiting`); while
  one session runs at a time all that the plugins keep is its own (`Alone`).
- `Recurrence`: `DuplicatesAreFound` shows the union-find right for any number of facts.
  `Rooted` says of a parent function that each element has a root R, that a measure d falls
  on the way up, so that `find` returns R (`RootIs`), and that no closed set cuts a tree.
  `union` keeps that (`UnionSound`), and what was joined stays joined (`Joins`) through both
  loops (`RowSound`, `ForestSound`, by induction over the numbers of the facts); so a tree
  has all near duplicates of its members and nothing that a closed set leaves out, which
  is to say that it is a component (`TreesAreLinked`, `ClustersSound`). In the invariant
  `CopiesFresh` says that the copies a run works on are what is stored until it writes
  them back. `FactsChangeForAReason` is a property of steps: what a promotion counts lies
  inside the component (`SeenAlike`), and the canonical fact is at least each of its
  members (`MergedFact`, with `UsesSum` and `HighestIs`).

Only model-checked:
- liveness (`AllEnds`), which is out of the prover's reach;
- the two runs that expect a violation.

Theorems with a hypothesis on the constants (`Serial`, `~GraphMayFail`, `ClientWaits`,
`RecentMax > 0`) say so in their statement; the cfg of the run that checks the property
satisfies it, except that `PE_calls` has a scene for each value of `GraphMayFail`.

## Not modelled

- Real-valued scoring, embedding similarity and decay rates: scores and similarities are
  arbitrary small values. The ScoringTuner only averages such numbers, and nothing reads
  its result.
- Text: matching, classification, prompts and the LLM's answers are arbitrary choices.
- Observers: trace ledger, statistics, metrics, audit logs, reports.
- Subagents (`lifecycle.py:1093-1160`): a spawn stores one mapping that no code of the
  repository reads (`resolve_effective_session_keys` has no caller).
- The fallback dictionaries of session ids and the profile switch of the lifecycle.
- Persistent goals and artifacts, procedure and artifact ingest: one write per call. Two
  oddities met there: the artifact pipeline's hash never equals the store's, and a failed
  store leaves its hash behind, so a retry is called a duplicate; the procedure pipeline
  asks for the previous version without order.
- The PostgreSQL actor registry, organisations and teams as such, rule overrides.
- Adapters, container, CLI, deployment; the plugins' tools, compact, subagent and
  session-end requests, and a restart of their host.
- Failures of Redis where the code catches them at the call site and gives up the call.

## Plan

1. `Hitl` and the queue: `ApprovalLedger` as the abstraction of both, so that an answer
   given by a callback is one of the ledger's decisions.
2. `GuardApprovals`: `PendingIsWaitedFor` without `Serial`, for the sessions on which no two
   checks overlapped, with a history variable for the overlap as in `GuardPipeline`.
3. `FactMemory`: an abstract store of facts that the facade implements on undisturbed
   facts.
