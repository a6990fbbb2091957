----------------------------- MODULE TurnIngest ------------------------------
(***************************************************************************)
(* From messages to facts, for one session key.                            *)
(*                                                                         *)
(* Without a context engine messages wait in a Redis list (buffer.py) until *)
(* a batch is there; whoever fills it drains it and runs the turn ingest   *)
(* pipeline (pipelines/turn_ingest/pipeline.py).  A run shows the LLM the  *)
(* facts extracted lately, stores what the LLM finds, decays what is       *)
(* superseded and writes the list of recent facts back; a delete of a fact *)
(* scrubs that list first (memory/facade.py).                              *)
(*                                                                         *)
(* A step is one Redis command or transaction, or one other await that     *)
(* matters here.  The stores are those of FactMemory; of a fact only       *)
(* whether it is there counts.  Goal hints belong to SessionGoals.         *)
(***************************************************************************)
EXTENDS Integers, Sequences, FiniteSets, Functions, Lists

CONSTANTS
  Messages,     \* the messages clients send, each once
  Facts,        \* fact ids (a bound)
  Tasks,        \* asyncio tasks (a bound on concurrency)
  BatchSizes,   \* ingest_batch_size of the profiles that calls name
  Headroom,     \* batches the buffer holds at most (3)
  RecentMax,    \* extraction_context_facts
  RunFacts,     \* facts one extraction returns at most
  DomainsKept,  \* decision domains kept for the guards (20)
  BatchTimeout, \* ingest_batch_timeout_seconds, in ticks
  BufferTtl,    \* ingest_buffer_ttl_seconds, in ticks
  Calls,        \* the calls made in an instance (a bound)
  MaxFaults,    \* failed awaits (a bound)
  None

ASSUME ConstantsAssumption ==
  /\ BatchSizes \subseteq Nat \ {0}
  /\ {Headroom, RecentMax, RunFacts, DomainsKept, MaxFaults} \subseteq Nat
  /\ BatchTimeout \in Nat \ {0} /\ BufferTtl \in Nat \ {0}
  /\ BatchTimeout <= BufferTtl
  /\ None \notin Facts

VARIABLES
  buffer,   \* the list ingest_buffer
  age,      \* ticks since its expiry was set
  recent,   \* the list recent_facts, oldest first
  node,     \* "none", "stored" or "deleted" for each fact
  decayed,  \* <<new, old>>: the confidence of old was decayed for new
  edges,    \* the edges SUPERSEDES and CONTRADICTS
  domains,  \* the list fact_domains: the decision behind each entry
  sent,     \* history: the messages sent
  trimmed,  \* history: messages the overflow guard dropped
  expired,  \* history: messages the expiry of the buffer dropped
  read,     \* history: messages of runs that came to their end
  failed,   \* history: messages of runs that raised
  meant,    \* history: the fact each new fact was said to supersede
  racing,   \* history: facts a run knew of when their scrub was due
  faults,   \* history: failed awaits
  task      \* the asyncio tasks in flight

lists   == <<buffer, age, recent, domains>>
stores  == <<node, decayed, edges>>
history == <<sent, trimmed, expired, read, failed, meant, racing, faults>>
vars    == <<lists, stores, history, task>>

PCs == {"idle", "llen", "flush", "load", "extract", "store", "decay", "relate",
        "remember", "domains", "scrub", "remove"}
Extracted == [fact : Facts, sup : Int, con : Int, decision : BOOLEAN]

\* msgs: the messages of the run; size: batch size of the call; seen: the recent
\* facts it read; raw: what the LLM returned; at: the next one of it to treat;
\* stored: the facts of it that were stored; fact: the fact to delete.
Idle == [pc |-> "idle", size |-> 1, msgs |-> <<>>, seen |-> <<>>, raw |-> <<>>,
         at |-> 1, stored |-> <<>>, fact |-> None]

Become(t, rec) == task' = [task EXCEPT ![t] = rec]
End(t)         == Become(t, Idle)
Begin(call, t) == call \in Calls /\ task[t].pc = "idle"

Outcome(ok) ==
  /\ ok \/ faults < MaxFaults
  /\ faults' = IF ok THEN faults ELSE faults + 1

\* The last n entries of a list (all of it when there are fewer).
LastOf(n, s) == SubSeq(s, IF Len(s) > n THEN Len(s) - n + 1 ELSE 1, Len(s))
FirstOf(n, s) == SubSeq(s, 1, IF Len(s) > n THEN n ELSE Len(s))

\* The facts a run in task t has in its hands.
Known(t) == Range(task[t].seen) \cup {task[t].raw[i].fact : i \in DOMAIN task[t].raw}

FreshFacts == {f \in Facts : node[f] = "none" /\ \A t \in Tasks : f \notin Known(t)}

Init ==
  /\ buffer = <<>> /\ age = 0 /\ recent = <<>> /\ domains = <<>>
  /\ node = [f \in Facts |-> "none"] /\ decayed = {} /\ edges = {}
  /\ sent = {} /\ trimmed = {} /\ expired = {} /\ read = {} /\ failed = {}
  /\ meant = [f \in Facts |-> None] /\ racing = {} /\ faults = 0
  /\ task = [t \in Tasks |-> Idle]

------------------------------------------------------------------------------
(* The buffer                                                              *)

\* The sequences of different messages a request can carry.
Requests == {s \in UNION {[1..n -> Messages \ sent] : n \in 1..Cardinality(Messages)} :
               IsInjective(s)}

\* The overflow guard: some batches of headroom.
MaxSize(size) == size * Headroom

\* add_messages, its transaction: RPUSH all, LTRIM, EXPIRE.
AddMessages(t) ==
  /\ Begin("ingest_messages", t)
  /\ \E ms \in Requests, size \in BatchSizes :
       LET all == buffer \o ms
           kept == LastOf(MaxSize(size), all)
       IN /\ buffer'  = kept
          /\ sent'    = sent \cup Range(ms)
          /\ trimmed' = trimmed \cup (Range(all) \ Range(kept))
          /\ Become(t, [Idle EXCEPT !.pc = "llen", !.size = size])
  /\ age' = 0
  /\ UNCHANGED <<recent, domains, stores, expired, read, failed, meant, racing, faults>>

\* add_messages, its LLEN: is a batch there?
MeasureBuffer(t) ==
  /\ task[t].pc = "llen"
  /\ IF Len(buffer) >= task[t].size
     THEN Become(t, [task[t] EXCEPT !.pc = "flush"])
     ELSE End(t)
  /\ UNCHANGED <<lists, stores, history>>

\* Faulty variant: the messages are read and left where they are.
FlushReading(t) ==
  /\ task[t].pc = "flush"
  /\ Become(t, [task[t] EXCEPT !.pc = IF buffer = <<>> THEN "idle" ELSE "load",
                  !.msgs = buffer])
  /\ UNCHANGED <<lists, stores, history>>

\* flush: LRANGE and DEL in one transaction.  A run without messages ends.
Flush(t) ==
  /\ task[t].pc = "flush"
  /\ buffer' = <<>> /\ age' = 0
  /\ IF buffer = <<>> THEN End(t)
     ELSE Become(t, [task[t] EXCEPT !.pc = "load", !.msgs = buffer])
  /\ UNCHANGED <<recent, domains, stores, history>>

\* POST /sessions/end drains whatever is there.
EndSession(t) ==
  /\ Begin("end", t)
  /\ Become(t, [Idle EXCEPT !.pc = "flush"])
  /\ UNCHANGED <<lists, stores, history>>

\* POST /memory/ingest-turn, and ingest_batch of the context engine, run the
\* pipeline on the messages of the request.
IngestTurn(t) ==
  /\ Begin("ingest_turn", t)
  /\ \E ms \in Requests :
       /\ sent' = sent \cup Range(ms)
       /\ Become(t, [Idle EXCEPT !.pc = "load", !.msgs = ms])
  /\ UNCHANGED <<lists, stores, trimmed, expired, read, failed, meant, racing, faults>>

\* Time passes over a buffer with messages in it; Redis drops it in the end.
\* Nothing else watches the clock: check_timeout_flush has no caller.
Tick ==
  /\ "tick" \in Calls /\ buffer # <<>>
  /\ IF age + 1 = BufferTtl
     THEN /\ expired' = expired \cup Range(buffer)
          /\ buffer' = <<>> /\ age' = 0
     ELSE age' = age + 1 /\ UNCHANGED <<buffer, expired>>
  /\ UNCHANGED <<recent, domains, stores, sent, trimmed, read, failed, meant, racing,
                 faults, task>>

\* The expiry of the recent facts, an hour after they were last written.
RecentExpires ==
  /\ "tick" \in Calls /\ recent # <<>>
  /\ recent' = <<>>
  /\ UNCHANGED <<buffer, age, domains, stores, history, task>>

------------------------------------------------------------------------------
(* A run of the pipeline                                                   *)

\* run raises: the caller learns of it, the messages are nowhere any more.
RunFails(t) ==
  /\ task[t].pc \in {"load", "extract", "remember"}
  /\ Outcome(FALSE)
  /\ failed' = failed \cup Range(task[t].msgs)
  /\ End(t)
  /\ UNCHANGED <<lists, stores, sent, trimmed, expired, read, meant, racing>>

RunEnds(t) == End(t) /\ read' = read \cup Range(task[t].msgs)

LoadRecentFacts(t) ==
  /\ task[t].pc = "load"
  /\ Become(t, [task[t] EXCEPT !.pc = "extract", !.seen = recent])
  /\ UNCHANGED <<lists, stores, history>>

\* What the LLM can return: new facts with indices into the list it was shown, or
\* beyond it (as good as the -1 of no index).  Any failure of the LLM reads as "no facts".
Extractions(t) ==
  LET Index == 0..Len(task[t].seen)
  IN  {raw \in UNION {[1..n -> [fact : FreshFacts, sup : Index, con : Index,
                                decision : BOOLEAN]] : n \in 0..RunFacts} :
         \A i, j \in DOMAIN raw : raw[i].fact = raw[j].fact => i = j}

\* The fact at a zero-based index of a list, if there is one.
At(seen, idx) == IF idx >= 0 /\ idx < Len(seen) THEN seen[idx + 1] ELSE None

\* extract_facts: without facts the run ends, the recent facts stay as they are.
ExtractFacts(t) ==
  /\ task[t].pc = "extract"
  /\ \E raw \in Extractions(t) :
       IF raw = <<>> THEN RunEnds(t) /\ UNCHANGED meant
       ELSE /\ Become(t, [task[t] EXCEPT !.pc = "store", !.raw = raw])
            /\ meant' = [f \in Facts |->
                 IF \E i \in DOMAIN raw : raw[i].fact = f
                 THEN At(task[t].seen, raw[CHOOSE i \in DOMAIN raw : raw[i].fact = f].sup)
                 ELSE meant[f]]
            /\ UNCHANGED read
  /\ UNCHANGED <<lists, stores, sent, trimmed, expired, failed, racing, faults>>

\* The next fact of the batch, and the pc once all were treated.
Advance(t, pc, next) ==
  IF task[t].at < Len(task[t].raw)
  THEN [pc |-> pc, at |-> task[t].at + 1] ELSE [pc |-> next, at |-> 1]

Current(t) == task[t].raw[task[t].at]

\* facade.store of one fact: stored, a near-duplicate, or an error.  Either way
\* the run goes on.
StoreFact(t) ==
  /\ task[t].pc = "store"
  /\ \E out \in {"stored", "duplicate", "error"} :
       LET go == Advance(t, "store", "decay") IN
       /\ Outcome(out # "error")
       /\ node' = IF out = "stored" THEN [node EXCEPT ![Current(t).fact] = "stored"]
                  ELSE node
       /\ Become(t, [task[t] EXCEPT !.pc = go.pc, !.at = go.at,
            !.stored = IF out = "stored" THEN Append(@, Current(t).fact) ELSE @])
  /\ UNCHANGED <<lists, decayed, edges, sent, trimmed, expired, read, failed, meant, racing>>

\* The fact that the current one supersedes.
OldFact(t) == At(task[t].seen, Current(t).sup)

\* Faulty variant: decay whether or not the new fact made it into the store.
ReplacedAnyway(t) == OldFact(t) # None

\* Decay is deferred until the new fact is known to be stored.
Replaced(t) == OldFact(t) # None /\ Current(t).fact \in Range(task[t].stored)

\* facade.decay lowers the confidence of a fact; one that is gone is a KeyError.
Decay(old, new) == IF node[old] = "stored" THEN {<<new, old>>} ELSE {}

\* The KeyError is passed over.
DecaySuperseded(t) ==
  /\ task[t].pc = "decay"
  /\ LET go == Advance(t, "decay", "relate") IN
       Become(t, [task[t] EXCEPT !.pc = go.pc, !.at = go.at])
  /\ decayed' = decayed \cup (IF Replaced(t) THEN Decay(OldFact(t), Current(t).fact) ELSE {})
  /\ UNCHANGED <<lists, node, edges, history>>

\* The edges of the stored facts: add_relation finds no node that is gone.
EdgesOf(t) ==
  LET Fact(i) == task[t].raw[i].fact
      Link(kind, i, idx) ==
        {<<kind, Fact(i), o>> : o \in {At(task[t].seen, idx)} \ {None}}
  IN {e \in UNION {Link("SUPERSEDES", i, task[t].raw[i].sup)
                   \cup Link("CONTRADICTS", i, task[t].raw[i].con) : i \in DOMAIN task[t].raw} :
        e[2] \in Range(task[t].stored) /\ node[e[2]] = "stored" /\ node[e[3]] = "stored"}

Relate(t) ==
  /\ task[t].pc = "relate"
  /\ edges' = edges \cup EdgesOf(t)
  /\ Become(t, [task[t] EXCEPT !.pc = "remember"])
  /\ UNCHANGED <<lists, node, decayed, history>>

\* What was read at the start, and the stored facts after it.
NewRecent(t) == task[t].seen \o task[t].stored

\* The slice [-max_count:], which is the whole list for 0.
Window(s) == IF RecentMax = 0 THEN s ELSE LastOf(RecentMax, s)

\* update_recent_facts: a blind SET.
UpdateRecentFacts(t) ==
  /\ task[t].pc = "remember"
  /\ recent' = Window(NewRecent(t))
  /\ Become(t, [task[t] EXCEPT !.pc = "domains"])
  /\ UNCHANGED <<buffer, age, domains, stores, history>>

\* LPUSH and LTRIM of the decision domains, stored facts or not.
WriteDomains(t) ==
  /\ task[t].pc = "domains"
  /\ LET raw == task[t].raw
         all == [i \in DOMAIN raw |-> raw[Len(raw) + 1 - i]]
         ds  == Kept(all, {i \in DOMAIN all : all[i].decision})
     IN domains' = FirstOf(DomainsKept, [i \in DOMAIN ds |-> ds[i].fact] \o domains)
  /\ RunEnds(t)
  /\ UNCHANGED <<buffer, age, recent, stores, sent, trimmed, expired, failed, meant,
                 racing, faults>>

------------------------------------------------------------------------------
(* Deleting a fact, as far as the recent facts are concerned               *)

\* Faulty variant: the node goes first, the scrub after it is left out.
DeleteUnscrubbed(t) ==
  /\ Begin("delete", t)
  /\ \E f \in Facts : /\ node[f] = "stored"
                      /\ Become(t, [Idle EXCEPT !.pc = "remove", !.fact = f])
  /\ UNCHANGED <<lists, stores, history>>

\* facade.delete reads the node; a fact that is gone is a KeyError.
Delete(t) ==
  /\ Begin("delete", t)
  /\ \E f \in Facts : /\ node[f] = "stored"
                      /\ Become(t, [Idle EXCEPT !.pc = "scrub", !.fact = f])
  /\ UNCHANGED <<lists, stores, history>>

\* scrub_fact_from_recent, one Lua script.  A failure is a warning, and then no
\* scrub is to be relied on.
Scrub(t) ==
  /\ task[t].pc = "scrub"
  /\ \E ok \in BOOLEAN :
       LET f == task[t].fact IN
       /\ Outcome(ok)
       /\ recent' = IF ok THEN Kept(recent, {i \in DOMAIN recent : recent[i] # f})
                    ELSE recent
       /\ racing' = IF ~ok \/ \E u \in Tasks : f \in Known(u)
                    THEN racing \cup {f} ELSE racing
  /\ Become(t, [task[t] EXCEPT !.pc = "remove"])
  /\ UNCHANGED <<buffer, age, domains, stores, sent, trimmed, expired, read, failed, meant>>

\* The first layer of the cascade; the others are in FactMemory.
Remove(t) ==
  /\ task[t].pc = "remove"
  /\ \E ok \in BOOLEAN :
       /\ Outcome(ok)
       /\ IF ok THEN /\ node' = [node EXCEPT ![task[t].fact] = "deleted"]
                     /\ edges' = {e \in edges : task[t].fact \notin {e[2], e[3]}}
          ELSE UNCHANGED <<node, edges>>
  /\ End(t)
  /\ UNCHANGED <<lists, decayed, sent, trimmed, expired, read, failed, meant, racing>>

------------------------------------------------------------------------------
IngestStep(t) ==
  \/ AddMessages(t) \/ MeasureBuffer(t) \/ Flush(t) \/ EndSession(t) \/ IngestTurn(t)
  \/ RunFails(t) \/ LoadRecentFacts(t) \/ ExtractFacts(t) \/ StoreFact(t)
  \/ DecaySuperseded(t) \/ Relate(t) \/ UpdateRecentFacts(t) \/ WriteDomains(t)
  \/ Delete(t) \/ Scrub(t) \/ Remove(t)

Next == Tick \/ RecentExpires \/ \E t \in Tasks : IngestStep(t)

Spec == Init /\ [][Next]_vars

------------------------------------------------------------------------------
TaskStates ==
  [pc : PCs, size : BatchSizes \cup {1}, msgs : Seq(Messages), seen : Seq(Facts),
   raw : Seq(Extracted), at : Nat \ {0}, stored : Seq(Facts), fact : Facts \cup {None}]

TypeOK ==
  /\ buffer \in Seq(Messages) /\ age \in 0..(BufferTtl - 1)
  /\ recent \in Seq(Facts) /\ domains \in Seq(Facts)
  /\ node \in [Facts -> {"none", "stored", "deleted"}]
  /\ decayed \subseteq Facts \X Facts
  /\ edges \subseteq {"SUPERSEDES", "CONTRADICTS"} \X Facts \X Facts
  /\ {sent, trimmed, expired, read, failed} \subseteq SUBSET Messages
  /\ meant \in [Facts -> Facts \cup {None}]
  /\ racing \subseteq Facts /\ faults \in 0..MaxFaults
  /\ task \in [Tasks -> TaskStates]

\* Every place a message can be in.
Places(m) ==
  {<<"buffer", i>> : i \in {j \in DOMAIN buffer : buffer[j] = m}}
  \cup {<<"run", t>> : t \in {u \in Tasks : m \in Range(task[u].msgs)}}
  \cup {<<"gone", d>> : d \in {k \in {"trimmed", "expired", "read", "failed"} :
          m \in CASE k = "trimmed" -> trimmed [] k = "expired" -> expired
                  [] k = "read" -> read [] k = "failed" -> failed}}

\* flush drains "atomically": whatever requests fill and drain the buffer at the
\* same time, a message is read by one run, or dropped for one of the known
\* reasons (overflow, expiry, a run that raised), and never both or twice.
EveryMessageOnce == \A m \in sent : Cardinality(Places(m)) = 1

\* The list an LLM is shown holds facts that were stored ("only stored facts --
\* skip dedup-skipped"), each once, whatever runs overlap.
RecentFactsStored ==
  /\ \A f \in Range(recent) : node[f] # "none"
  /\ IsInjective(recent)

\* A deleted fact is not in the list of recent facts once its node is gone (the
\* scrub comes before the delete), unless the scrub failed or met a run that
\* had read the list, or was about to store the fact, before.
ScrubHolds == \A f \in Range(recent) : node[f] = "deleted" => f \in racing

\* The confidence of a fact is lowered only for the fact that the LLM said
\* replaces it, by its place in the list it was shown, and that was stored.
DecayHitsWhatWasShown ==
  \A d \in decayed : meant[d[1]] = d[2] /\ node[d[1]] # "none"

\* The list an LLM is shown is true: its facts are stored, none of them deleted
\* behind its back, and update_recent_facts keeps "only the last max_count".
RecentListTrue == RecentFactsStored /\ ScrubHolds /\ Len(recent) <= RecentMax

------------------------------------------------------------------------------
(* The inductive invariant behind the three.                               *)

Done == trimmed \cup expired \cup read \cup failed

\* Buffer, runs and the ways out divide the messages sent among them.
Whereabouts ==
  /\ IsInjective(buffer)
  /\ \A m \in Messages : m \in sent <=>
       m \in Range(buffer) \cup Done \/ \E t \in Tasks : m \in Range(task[t].msgs)
  /\ Range(buffer) \cap Done = {}
  /\ \A t \in Tasks : Range(task[t].msgs) \cap (Range(buffer) \cup Done) = {}
  /\ \A t, u \in Tasks : t # u => Range(task[t].msgs) \cap Range(task[u].msgs) = {}
  /\ trimmed \cap (expired \cup read \cup failed) = {}
  /\ expired \cap (read \cup failed) = {}
  /\ read \cap failed = {}

\* A task has in its hands what its pc says.
Progress(t) ==
  LET k == task[t] IN
  /\ k.pc \in {"idle", "llen", "flush", "scrub", "remove"} => k.msgs = <<>>
  /\ k.pc \in {"idle", "llen", "flush", "load", "scrub", "remove"} => k.seen = <<>>
  /\ k.pc \in {"idle", "llen", "flush", "load", "extract", "scrub", "remove"} =>
       k.raw = <<>> /\ k.stored = <<>> /\ k.at = 1
  /\ k.pc \in {"store", "decay"} => k.at \in DOMAIN k.raw
  /\ k.pc \in {"scrub", "remove"} => k.fact \in Facts /\ node[k.fact] # "none"

\* What a run was shown is stored; what it extracted is new to it, superseding
\* what was meant; what it stored is some of that.
RunSound(t) ==
  LET k == task[t] IN
  /\ IsInjective(k.seen)
  /\ \A f \in Range(k.seen) : node[f] # "none"
  /\ \A i, j \in DOMAIN k.raw : k.raw[i].fact = k.raw[j].fact => i = j
  /\ \A i \in DOMAIN k.raw : /\ k.raw[i].fact \notin Range(k.seen)
                             /\ meant[k.raw[i].fact] = At(k.seen, k.raw[i].sup)
  /\ IsInjective(k.stored)
  /\ \A f \in Range(k.stored) :
       /\ node[f] # "none"
       /\ \E i \in DOMAIN k.raw : k.raw[i].fact = f /\ (k.pc = "store" => i < k.at)

\* Once its node may go, nobody can bring a fact back into the list.
Forgotten ==
  \A f \in Facts :
    node[f] = "deleted" \/ (\E t \in Tasks : task[t].pc = "remove" /\ task[t].fact = f) =>
      f \in racing \/ (f \notin Range(recent) /\ \A u \in Tasks : f \notin Known(u))

IInv ==
  /\ TypeOK /\ Whereabouts
  /\ \A t \in Tasks : Progress(t) /\ RunSound(t)
  /\ RecentFactsStored /\ Forgotten /\ DecayHitsWhatWasShown
  /\ RecentMax > 0 => Len(recent) <= RecentMax
=============================================================================
