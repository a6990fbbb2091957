-------------------------------- MODULE Plugins --------------------------------
(***************************************************************************)
(* The two OpenClaw plugins in one host process: the context engine and    *)
(* the hooks of the memory plugin.  The host runs turns of several         *)
(* sessions, at once if it likes, and both plugins keep ONE current        *)
(* session, one buffer of messages and one list of a turn's messages for   *)
(* all of them.                                                            *)
(*                                                                         *)
(* A run is: before_agent_start, session_start in the session's first run, *)
(* bootstrap, then messages, assemblies and LLM calls, then agent_end      *)
(* (unless the run is aborted), afterTurn and dispose in either order.     *)
(* JavaScript code between two awaits is one step; an await of an empty    *)
(* flush is none.  What the requests do in the runtime is the matter of    *)
(* modules SessionLifecycle and TurnIngest.                                *)
(***************************************************************************)
EXTENDS Integers, Sequences, FiniteSetsExt

CONSTANTS
    Sessions, NoSession,
    BatchSize,   \* batchSize
    MaxSaid,     \* messages of all runs
    MaxTurns,    \* runs in all
    MaxLapses    \* requests that fail

PluginsAssumption ==
    /\ NoSession \notin Sessions
    /\ BatchSize \in Nat \ {0}
    /\ {MaxSaid, MaxTurns, MaxLapses} \subseteq Nat

VARIABLES
    engine,    \* the engine's currentSessionKey and currentSessionId
    hooks,     \* the memory plugin's, which are set apart
    buffer,    \* messageBuffer
    lastTurn,  \* the run whose messages lastTurnMessages holds
    reported,  \* modelReported
    turn,      \* per session: where its run is
    flow,      \* per session: the engine call that waits for its flush
    closing,   \* per session: what the flush of its dispose took along
    letter,    \* every message: whose it is and what became of it; history
    lapses,    \* requests that failed
    crossed,   \* what a request of one run took from another; history
    overlap    \* two sessions' runs were under way at once; history

pvars == <<engine, hooks, buffer, lastTurn, reported, turn, flow, closing, letter,
           lapses, crossed, overlap>>

NoRun == <<NoSession, 0>>
NoFlow == [op |-> "none", took |-> {}]
RangeOf(seq) == {seq[k] : k \in DOMAIN seq}

PluginsInit ==
    /\ engine = NoSession
    /\ hooks = [key |-> NoSession, id |-> NoSession]
    /\ buffer = <<>> /\ lastTurn = NoRun /\ reported = FALSE
    /\ turn = [s \in Sessions |-> [pc |-> "idle", n |-> 0, after |-> TRUE, disposed |-> TRUE]]
    /\ flow = [s \in Sessions |-> NoFlow]
    /\ closing = [s \in Sessions |-> {}]
    /\ letter = <<>>
    /\ lapses = 0 /\ crossed = {} /\ overlap = FALSE

ThisRun(s) == <<s, turn[s].n>>
\* The run is at pc and the host waits for no call of it.
At(s, pc) == turn[s].pc = pc /\ flow[s] = NoFlow
Move(s, pc) == turn' = [turn EXCEPT ![s].pc = pc]
Runs == MapThenSumSet(LAMBDA s : turn[s].n, Sessions)
Mark(wrong, what) == IF wrong THEN {what} ELSE {}

------------------------------------------------------------------------------
(* Hooks of the memory plugin. *)

\* before_agent_start: the key is set, the id stays that of the last session_start.
BeforeAgentStart(s) ==
    /\ At(s, "idle") /\ Runs < MaxTurns
    /\ hooks' = [hooks EXCEPT !.key = s]
    /\ turn' = [turn EXCEPT ![s] = [pc |-> "hooked", n |-> @.n + 1,
                                    after |-> FALSE, disposed |-> FALSE]]
    /\ overlap' = (overlap \/ \E r \in Sessions \ {s} : turn[r].pc # "idle")
    /\ UNCHANGED <<engine, buffer, lastTurn, reported, flow, closing, letter, lapses,
                   crossed>>

SessionStart(s) ==
    /\ At(s, "hooked") /\ turn[s].n = 1
    /\ hooks' = [key |-> s, id |-> s]
    /\ Move(s, "started")
    /\ UNCHANGED <<engine, buffer, lastTurn, reported, flow, closing, letter, lapses,
                   crossed, overlap>>

\* agent_end: the memory plugin sends the turn under its current session and
\* waits for nothing, the context plugin keeps the turn for afterTurn.
Capture(s) ==
    crossed' = crossed \cup
      Mark(hooks.key # s \/ (turn[s].n = 1 /\ hooks.id # s), "capture")
AgentEnd(s) ==
    /\ At(s, "running")
    /\ Capture(s)
    /\ lastTurn' = ThisRun(s)
    /\ Move(s, "ended")
    /\ UNCHANGED <<engine, hooks, buffer, reported, flow, closing, letter, lapses, overlap>>

\* The run ends without agent_end and without afterTurn.
Abort(s) ==
    /\ At(s, "running")
    /\ turn' = [turn EXCEPT ![s].pc = "ended", ![s].after = TRUE]
    /\ UNCHANGED <<engine, hooks, buffer, lastTurn, reported, flow, closing, letter,
                   lapses, crossed, overlap>>

------------------------------------------------------------------------------
(* The context engine. *)

Bootstrap(s) ==
    /\ At(s, IF turn[s].n = 1 THEN "started" ELSE "hooked")
    /\ engine' = s
    /\ Move(s, "running")
    /\ UNCHANGED <<hooks, buffer, lastTurn, reported, flow, closing, letter, lapses,
                   crossed, overlap>>

\* Messages leave in a request under the engine's session of this moment.
Sent(letters, took) ==
    [m \in DOMAIN letters |->
        IF m \in took
        THEN [letters[m] EXCEPT !.fate = "sent", !.under = engine, !.sends = @ + 1]
        ELSE letters[m]]

\* A new message of s.  It is late when a dispose is waiting for its flush.
Said(s) == Append(letter, [of |-> s, fate |-> "buffered", under |-> NoSession, sends |-> 0,
                           late |-> \E r \in Sessions : closing[r] # {}])

\* ingest
Ingest(s) ==
    LET m    == Len(letter) + 1
        kept == Append(buffer, m)
        full == Len(kept) >= BatchSize
    IN  /\ At(s, "running") /\ m <= MaxSaid
        /\ buffer' = IF full THEN <<>> ELSE kept
        /\ letter' = IF full THEN Sent(Said(s), RangeOf(kept)) ELSE Said(s)
        /\ flow' = IF full THEN [flow EXCEPT ![s] = [op |-> "ingest", took |-> RangeOf(kept)]]
                   ELSE flow
        /\ UNCHANGED <<engine, hooks, lastTurn, reported, turn, closing, lapses, crossed,
                       overlap>>

\* ingestBatch goes past the buffer.
IngestBatch(s) ==
    LET m == Len(letter) + 1
    IN  /\ At(s, "running") /\ m <= MaxSaid
        /\ letter' = Sent(Said(s), {m})
        /\ flow' = [flow EXCEPT ![s] = [op |-> "ingest", took |-> {m}]]
        /\ UNCHANGED <<engine, hooks, buffer, lastTurn, reported, turn, closing, lapses,
                       crossed, overlap>>

\* flushBuffer, up to its await: the buffer is emptied before the request.
FlushBuffer == /\ buffer # <<>>
               /\ buffer' = <<>>
               /\ letter' = Sent(letter, RangeOf(buffer))

\* assemble, once the buffer is flushed, and afterTurn: the host's messages, or
\* those kept at agent_end.
Prompt(s) ==
    /\ crossed' = crossed \cup Mark(engine # s, "assemble")
    /\ UNCHANGED <<lastTurn, turn>>
Close(s, given) ==
    /\ crossed' = crossed \cup Mark(engine # s, "after_turn")
                          \cup Mark(~given /\ lastTurn # ThisRun(s), "turn")
    /\ lastTurn' = NoRun
    /\ turn' = [turn EXCEPT ![s].after = TRUE]
Rest(s, op) ==
    CASE op = "ingest" -> UNCHANGED <<crossed, lastTurn, turn>>
      [] op = "assemble" -> Prompt(s)
      [] op = "given" -> Close(s, TRUE)
      [] op = "kept" -> Close(s, FALSE)

\* assemble and afterTurn: they flush the buffer first, and wait if it has any.
FlushFirst(s, op) ==
    /\ At(s, IF op = "assemble" THEN "running" ELSE "ended")
    /\ op = "assemble" \/ ~turn[s].after
    /\ \/ /\ FlushBuffer
          /\ flow' = [flow EXCEPT ![s] = [op |-> op, took |-> RangeOf(buffer)]]
          /\ UNCHANGED <<crossed, lastTurn, turn>>
       \/ /\ buffer = <<>> /\ Rest(s, op)
          /\ UNCHANGED <<buffer, letter, flow>>
    /\ UNCHANGED <<engine, hooks, reported, closing, lapses, overlap>>

\* ingestBatch of the client never throws: a failed request loses its messages.
Lapse(ok) ==
    /\ ok \/ lapses < MaxLapses
    /\ lapses' = IF ok THEN lapses ELSE lapses + 1
Settled(took, ok) ==
    [m \in DOMAIN letter |->
        IF m \in took THEN [letter[m] EXCEPT !.fate = IF ok THEN "filed" ELSE "failed"]
        ELSE letter[m]]

Resume(s) ==
    /\ flow[s] # NoFlow
    /\ \E ok \in BOOLEAN : Lapse(ok) /\ letter' = Settled(flow[s].took, ok)
    /\ flow' = [flow EXCEPT ![s] = NoFlow]
    /\ Rest(s, flow[s].op)
    /\ UNCHANGED <<engine, hooks, buffer, reported, closing, overlap>>

\* A dispose that clears what it should have flushed.
ClearAtOnce(s) ==
    /\ turn[s].pc = "ended" /\ ~turn[s].disposed
    /\ letter' = [m \in DOMAIN letter |->
         IF m \in RangeOf(buffer) THEN [letter[m] EXCEPT !.fate = "dropped"] ELSE letter[m]]
    /\ buffer' = <<>> /\ reported' = FALSE
    /\ turn' = [turn EXCEPT ![s].disposed = TRUE]
    /\ UNCHANGED <<engine, hooks, lastTurn, flow, closing, lapses, crossed, overlap>>

\* dispose, which the host calls at the end of a run without waiting for
\* afterTurn: it flushes, then clears the buffer and modelReported.
Dispose(s) ==
    /\ turn[s].pc = "ended" /\ ~turn[s].disposed /\ closing[s] = {}
    /\ \/ /\ FlushBuffer
          /\ closing' = [closing EXCEPT ![s] = RangeOf(buffer)]
          /\ UNCHANGED <<turn, reported>>
       \/ /\ buffer = <<>>
          /\ turn' = [turn EXCEPT ![s].disposed = TRUE] /\ reported' = FALSE
          /\ UNCHANGED <<buffer, letter, closing>>
    /\ UNCHANGED <<engine, hooks, lastTurn, flow, lapses, crossed, overlap>>

Disposed(s) ==
    /\ closing[s] # {}
    /\ \E ok \in BOOLEAN :
        /\ Lapse(ok)
        /\ letter' = [m \in DOMAIN letter |->
             IF m \in RangeOf(buffer) THEN [letter[m] EXCEPT !.fate = "dropped"]
             ELSE Settled(closing[s], ok)[m]]
    /\ buffer' = <<>> /\ reported' = FALSE
    /\ closing' = [closing EXCEPT ![s] = {}]
    /\ turn' = [turn EXCEPT ![s].disposed = TRUE]
    /\ UNCHANGED <<engine, hooks, lastTurn, flow, crossed, overlap>>

\* The first llm_input of a run: onLlmInput reports the context window once.
LlmInput(s) ==
    /\ At(s, "running")
    /\ reported' = TRUE
    /\ crossed' = crossed \cup Mark(~reported /\ engine # s, "window")
    /\ UNCHANGED <<engine, hooks, buffer, lastTurn, turn, flow, closing, letter, lapses,
                   overlap>>

\* Both calls that end a run have returned.
Over(s) ==
    /\ At(s, "ended") /\ turn[s].after /\ turn[s].disposed
    /\ Move(s, "idle")
    /\ UNCHANGED <<engine, hooks, buffer, lastTurn, reported, flow, closing, letter, lapses,
                   crossed, overlap>>

PluginsNext == \E s \in Sessions :
    \/ BeforeAgentStart(s) \/ SessionStart(s) \/ Bootstrap(s)
    \/ Ingest(s) \/ IngestBatch(s) \/ LlmInput(s)
    \/ \E op \in {"assemble", "given", "kept"} : FlushFirst(s, op)
    \/ Resume(s) \/ AgentEnd(s) \/ Abort(s) \/ Dispose(s) \/ Disposed(s) \/ Over(s)

PluginsSpec == PluginsInit /\ [][PluginsNext]_pvars

------------------------------------------------------------------------------
\* However the runs interleave: a message handed to the engine goes out at most
\* once, and is lost only with a request that failed, or if it came while another
\* run's dispose was waiting for its flush.
MessagesOnce ==
    \A m \in DOMAIN letter :
        /\ letter[m].sends <= 1
        /\ letter[m].fate = "dropped" => letter[m].late
        /\ letter[m].fate = "buffered" <=> m \in RangeOf(buffer)

\* As long as no two sessions' runs are under way at once, a run takes nothing
\* from another: its messages are filed under its session and none is left when
\* it is over, its prompt is built from its session, its afterTurn carries its
\* own messages, and its first LLM call reports the window.
RunsApart ==
    ~overlap =>
        /\ crossed = {}
        /\ \A m \in DOMAIN letter :
            /\ letter[m].under \in {NoSession, letter[m].of}
            /\ turn[letter[m].of].pc = "idle" => letter[m].fate \in {"filed", "failed"}
        /\ \A s \in Sessions : turn[s].pc \in {"hooked", "started"} => ~reported

PluginsServe == MessagesOnce /\ RunsApart
------------------------------------------------------------------------------
(* Why they do: the inductive invariant of those properties.               *)

Fates == {"buffered", "sent", "filed", "failed", "dropped"}
LetterType == [of : Sessions, fate : Fates, under : Sessions \cup {NoSession},
               sends : Nat, late : BOOLEAN]
TurnType == [pc : {"idle", "hooked", "started", "running", "ended"}, n : Nat,
             after : BOOLEAN, disposed : BOOLEAN]
HooksType == [key : Sessions \cup {NoSession}, id : Sessions \cup {NoSession}]
FlowType == [op : {"none", "ingest", "assemble", "given", "kept"}, took : SUBSET Nat]

TypeInv ==
    /\ engine \in Sessions \cup {NoSession} /\ hooks \in HooksType
    /\ buffer \in Seq(DOMAIN letter) /\ letter \in Seq(LetterType)
    /\ turn \in [Sessions -> TurnType] /\ flow \in [Sessions -> FlowType]
    /\ closing \in [Sessions -> SUBSET Nat]

\* Messages whose request is under way.
Underway(s) == flow[s].took \cup closing[s]

\* A message is in the buffer and was never sent, or with a request, or settled.
LettersKept ==
    /\ \A m \in DOMAIN letter :
        /\ letter[m].fate = "buffered" => letter[m].sends = 0
        /\ letter[m].fate = "sent" => \E s \in Sessions : m \in Underway(s)
    /\ \A s \in Sessions :
        /\ \A m \in Underway(s) :
             m \in DOMAIN letter /\ letter[m].fate \in {"sent", "filed", "failed"}
        /\ closing[s] # {} => \A m \in RangeOf(buffer) : letter[m].late

\* A run waits for a call that it makes where it is.
Waiting(s) ==
    /\ flow[s].op \in {"ingest", "assemble"} => turn[s].pc = "running"
    /\ flow[s].op \in {"given", "kept"} => turn[s].pc = "ended" /\ ~turn[s].after
    /\ flow[s].op = "none" => flow[s].took = {}
    /\ closing[s] # {} => turn[s].pc = "ended" /\ ~turn[s].disposed
    /\ turn[s].pc \in {"hooked", "started", "running"} => ~turn[s].disposed

\* What the plugins keep is that of the one run under way.
Alone ==
    /\ \A r, s \in Sessions : turn[r].pc # "idle" /\ turn[s].pc # "idle" => r = s
    /\ \A s \in Sessions :
        /\ turn[s].pc # "idle" => hooks.key = s
        /\ turn[s].pc \in {"started", "running"} /\ turn[s].n = 1 => hooks.id = s
        /\ turn[s].pc \in {"running", "ended"} => engine = s
        /\ turn[s].pc = "ended" /\ ~turn[s].after => lastTurn = ThisRun(s)
        /\ turn[s].pc = "ended" /\ turn[s].disposed => buffer = <<>>
    /\ reported => \E s \in Sessions : turn[s].pc \in {"running", "ended"} /\ ~turn[s].disposed
    /\ \A m \in DOMAIN letter : ~letter[m].late

IInv ==
    /\ TypeInv /\ MessagesOnce /\ LettersKept /\ \A s \in Sessions : Waiting(s)
    /\ ~overlap => Alone
    /\ RunsApart
=============================================================================
