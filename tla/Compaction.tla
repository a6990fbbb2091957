----------------------------- MODULE Compaction -----------------------------
(***************************************************************************)
(* runtime/compaction/engine.py: the messages of a session, what a         *)
(* compaction makes of them and the compact state it stores in Redis.      *)
(*                                                                         *)
(* A message is a record of what the classification asks of its text:      *)
(* role, whether it asks, whether it could be an answer, is phatic, names  *)
(* a decision, evidence, a goal, or is linked to a policy.  Two messages   *)
(* are equal when all of that and the turn are: AgentMessage is a value.   *)
(* No module of the repository sets eb_compacted, so no message has it.    *)
(***************************************************************************)
EXTENDS Integers, Sequences, FiniteSets

CONSTANTS
    Kinds,         \* the messages a turn may bring, without their turn
    Compactors,    \* calls of compact: by the agent, or after a turn
    Forced,        \* those with force
    Threshold,     \* target_tokens * cadence, counted in messages
    QuestionsKept, \* the state keeps the first 10 open questions
    DigestKept,    \* messages the truncated digest has room for
    MaxMessages, MaxFaults   \* bounds

\* What MCParts assumes of the constants.
CompactionAssumption ==
    /\ Forced \subseteq Compactors
    /\ {Threshold, QuestionsKept, DigestKept, MaxMessages, MaxFaults} \subseteq Nat

VARIABLES
    messages,  \* the list session_messages
    compact,   \* compact[c]: where the call is and the messages it read
    state,     \* the key compact_state_obj
    mishaps

cvars == <<messages, compact, state, mishaps>>

Messages == [kind : Kinds, turn : Nat]
NoState == [of |-> <<>>, kept |-> {}, questions |-> {}, digest |-> {}]

CompactionInit ==
    /\ messages = <<>>
    /\ compact = [c \in Compactors |-> [pc |-> "idle", seen |-> <<>>, digest |-> {}]]
    /\ state = NoState
    /\ mishaps = 0

Mishap(ok) == (ok \/ mishaps < MaxFaults)
              /\ mishaps' = IF ok THEN mishaps ELSE mishaps + 1

\* list.index: the first message equal to m.
IndexOf(m, seen) ==
    CHOOSE k \in DOMAIN seen : seen[k] = m /\ \A l \in 1..(k - 1) : seen[l] # m

OpenIfUnfollowed(m, seen) ==  \* mutant: the asker's own next words close it
    /\ m.kind.asks
    /\ \A l \in (IndexOf(m, seen) + 1)..Len(seen) : ~seen[l].kind.answers

\* _is_open_question: no later message of another role that could answer.
IsOpenQuestion(m, seen) ==
    /\ m.kind.asks
    /\ \A l \in (IndexOf(m, seen) + 1)..Len(seen) :
          ~(seen[l].kind.role # m.kind.role /\ seen[l].kind.answers)

\* What is kept for what it is: linked to facts whose highest class is policy or
\* procedural, about an active goal, a decision, or naming evidence.
Protected(m) == m.kind.keep

\* _classify_single: the rules in the order of the code, with the preserve_*
\* switches of the policy on.
Class(m, seen) ==
    IF m.kind.phatic /\ m.kind.role = "user" /\ ~m.kind.asks THEN "drop"
    ELSE IF Protected(m) \/ IsOpenQuestion(m, seen) THEN "preserve"
    ELSE "compress"

Of(class, seen) == {k \in DOMAIN seen : Class(seen[k], seen) = class}

\* Slicing [:n] of a bucket: its n oldest messages.
Oldest(S, n) == {k \in S : Cardinality({l \in S : l < k}) < n}

\* ingest_batch appends to the list, which nothing trims.
Ingest(kind, turn) ==
    /\ Len(messages) < MaxMessages
    /\ messages' = Append(messages, [kind |-> kind, turn |-> turn])
    /\ UNCHANGED <<compact, state, mishaps>>

\* _should_trigger: forced, or more than the cadence's share of the target.
ShouldTrigger(c, seen) == c \in Forced \/ Len(seen) > Threshold

\* compact: read the list; nothing to do without messages or a trigger.
Read(c) ==
    /\ compact[c].pc = "idle"
    /\ compact' = [compact EXCEPT ![c] =
         [pc |-> IF messages = <<>> \/ ~ShouldTrigger(c, messages)
                 THEN "done" ELSE "summarize",
          seen |-> messages, digest |-> {}]]
    /\ UNCHANGED <<messages, state, mishaps>>

\* _summarize: the LLM covers the whole bucket; when it fails the text is cut.
Summarize(c) ==
    /\ compact[c].pc = "summarize"
    /\ \E ok \in BOOLEAN :
        /\ Mishap(ok)
        /\ LET bucket == Of("compress", compact[c].seen)
           IN compact' = [compact EXCEPT ![c] =
                [pc |-> "persist", seen |-> @.seen,
                 digest |-> IF ok THEN bucket ELSE Oldest(bucket, DigestKept)]]
    /\ UNCHANGED <<messages, state>>

\* _persist_compact_state: the whole state replaces the stored one; a failure
\* is swallowed.
Persist(c) ==
    /\ compact[c].pc = "persist"
    /\ LET seen == compact[c].seen
           kept == Of("preserve", seen)
           new == [of |-> seen, kept |-> kept, digest |-> compact[c].digest,
                   questions |-> Oldest({k \in kept : IsOpenQuestion(seen[k], seen)},
                                        QuestionsKept)]
       IN \E ok \in BOOLEAN : Mishap(ok) /\ state' = IF ok THEN new ELSE state
    /\ compact' = [compact EXCEPT ![c].pc = "done"]
    /\ UNCHANGED messages

\* compact_state_obj has a TTL.
ExpireState ==
    /\ state # NoState /\ mishaps < MaxFaults
    /\ state' = NoState /\ mishaps' = mishaps + 1
    /\ UNCHANGED <<messages, compact>>

CompactionNext ==
    \/ \E kind \in Kinds, turn \in {0, 1} :
          \* turns only advance
          (messages # <<>> => messages[Len(messages)].turn <= turn) /\ Ingest(kind, turn)
    \/ \E c \in Compactors : Read(c) \/ Summarize(c) \/ Persist(c)
    \/ ExpireState

CompactionSpec == CompactionInit /\ [][CompactionNext]_cvars

------------------------------------------------------------------------------
\* What a reader of the conversation calls open: asked at position k, and
\* nobody of another role said anything of substance after k.
Unanswered(k, seen) ==
    /\ seen[k].kind.asks
    /\ \A l \in (k + 1)..Len(seen) :
          seen[l].kind.role # seen[k].kind.role => ~seen[l].kind.answers

\* A question nobody answered when a compaction read the messages is among the
\* open questions of the state it stores, if the state has room and the same
\* question was not asked twice in the turn (list.index finds the first).
OpenQuestionsKept ==
    LET seen == state.of
        open == {k \in DOMAIN seen : Unanswered(k, seen)}
    IN  \A k \in open :
          \/ k \in state.questions
          \/ Cardinality(open) > QuestionsKept
          \/ \E l \in DOMAIN seen : l < k /\ seen[l] = seen[k]

\* Each message a compaction read is stored verbatim, told in the digest, cut
\* off its end by a failing LLM, or small talk of the user that asks nothing.
OnlySmallTalkDropped ==
    \A k \in DOMAIN state.of :
        \/ k \in state.kept \cup state.digest
        \/ Cardinality(state.digest) = DigestKept
        \/ state.of[k].kind.phatic /\ ~Unanswered(k, state.of)

\* The state a compaction stores has what the rest of the session needs of the
\* messages it takes the place of.
NothingNeededLost == OpenQuestionsKept /\ OnlySmallTalkDropped

------------------------------------------------------------------------------
(* The inductive invariant behind it                                       *)

CallType == [pc : {"idle", "summarize", "persist", "done"}, seen : Seq(Messages),
             digest : SUBSET Nat]
StateType == [of : Seq(Messages), kept : SUBSET Nat, questions : SUBSET Nat,
              digest : SUBSET Nat]

\* A call that has its digest has it of what it read.
Summarized(c) ==
    LET bucket == Of("compress", compact[c].seen)
    IN  compact[c].pc = "persist" =>
          compact[c].digest \in {bucket, Oldest(bucket, DigestKept)}

IInv ==
    /\ messages \in Seq(Messages)
    /\ compact \in [Compactors -> CallType] /\ \A c \in Compactors : Summarized(c)
    /\ state \in StateType /\ NothingNeededLost
=============================================================================
