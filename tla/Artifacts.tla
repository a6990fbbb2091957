----------------------------- MODULE Artifacts -----------------------------
(***************************************************************************)
(* The tool outputs of one session: what ingest_batch captures in the      *)
(* Redis hash of context/session_artifact_store.py, and what assemble puts *)
(* in the place of the older ones.                                         *)
(*                                                                         *)
(* Only the messages of role "tool" of the conversation are here.  The     *)
(* plugin keeps the conversation and hands all of it to every assembly, so *)
(* the replacements of one assembly do not reach the next.  A content hash *)
(* is identified with the content.                                         *)
(***************************************************************************)
EXTENDS Integers, Sequences, FiniteSets

CONSTANTS
    Outputs,      \* contents
    Capturable,   \* within artifact_capture's limits of size, not skipped
    Replaceable,  \* above replace_tool_output_min_tokens
    KeepLast,     \* keep_last_n_tool_outputs; 0 keeps all
    Batches,      \* calls of ingest_batch
    Searches,     \* calls of the session routes of api/routes/artifacts.py
    NoOutput,
    MaxOutputs, MaxMishaps   \* bounds

\* What MCParts assumes of the constants.
ArtifactsAssumption ==
    /\ Capturable \subseteq Outputs /\ Replaceable \subseteq Outputs
    /\ NoOutput \notin Outputs
    /\ {KeepLast, MaxOutputs, MaxMishaps} \subseteq Nat

VARIABLES
    said,      \* the tool outputs of the conversation, oldest first
    hash,      \* the artifacts: id -> content and count of the searches
    timed,     \* whether the hash has a TTL
    issued,    \* artifact ids made so far
    batch, search,   \* the calls
    assembly,  \* the call of assemble: what it replaced so far
    prompt,    \* the outputs as the last assembly left them
    overlay,   \* outputs that the cached snapshot's items cover
    troubles,
    lapsed     \* artifacts or a snapshot expired or failed to be stored
               \* since the last assembly read them; history

avars == <<said, hash, timed, issued, batch, search, assembly, prompt, overlay,
           troubles, lapsed>>

Verbatim(o) == [as |-> "verbatim", of |-> o, id |-> 0]
Placeholder(o, id) == [as |-> "placeholder", of |-> o, id |-> id]
Removed(o) == [as |-> "removed", of |-> o, id |-> 0]
NoBatch == [pc |-> "idle", of |-> NoOutput]
NoSearch == [pc |-> "idle", id |-> 0, copy |-> [of |-> NoOutput, searched |-> 0]]
NoAssembly == [pc |-> "idle", given |-> <<>>, made |-> <<>>]

ArtifactsInit ==
    /\ said = <<>> /\ hash = [i \in {} |-> {}] /\ timed = FALSE /\ issued = 0
    /\ batch = [b \in Batches |-> NoBatch]
    /\ search = [s \in Searches |-> NoSearch]
    /\ assembly = NoAssembly /\ prompt = <<>> /\ overlay = {}
    /\ troubles = 0 /\ lapsed = FALSE

Trouble(ok) == (ok \/ troubles < MaxMishaps)
               /\ troubles' = IF ok THEN troubles ELSE troubles + 1

\* hset: replaces a field, or makes the key, which then has no TTL.
Put(id, artifact) ==
    hash' = [i \in DOMAIN hash \cup {id} |-> IF i = id THEN artifact ELSE hash[i]]

AnyArtifact(o) == DOMAIN hash  \* mutant: the hash is not compared

\* get_by_hash: the artifacts the scan may return.
WithContent(o) == {i \in DOMAIN hash : hash[i].of = o}

\* _should_capture_artifact: neither too short nor too long, no skipped tool.
ShouldCapture(o) == o \in Capturable

\* ingest_batch of a turn's messages: the key's TTL is renewed, then an output
\* that qualifies is looked up.
Ingest(b, o) ==
    /\ batch[b].pc = "idle" /\ Len(said) < MaxOutputs
    /\ said' = Append(said, o)
    /\ timed' = (DOMAIN hash # {})
    /\ batch' = [batch EXCEPT ![b] =
                   IF ShouldCapture(o) THEN [pc |-> "look", of |-> o] ELSE NoBatch]
    /\ UNCHANGED <<hash, issued, search, assembly, prompt, overlay, troubles, lapsed>>

\* A lookup that fails finds nothing, and the output is captured once more.
Look(b) ==
    /\ batch[b].pc = "look"
    /\ \E ok \in BOOLEAN :
        /\ Trouble(ok)
        /\ batch' = [batch EXCEPT ![b] =
             IF ok /\ WithContent(batch[b].of) # {} THEN NoBatch ELSE [@ EXCEPT !.pc = "store"]]
    /\ UNCHANGED <<said, hash, timed, issued, search, assembly, prompt, overlay, lapsed>>

\* store: hset and expire.  A failure raises out of ingest_batch.
Capture(b) ==
    /\ batch[b].pc = "store"
    /\ batch' = [batch EXCEPT ![b] = NoBatch]
    /\ \E ok \in BOOLEAN :
        /\ Trouble(ok)
        /\ IF ok THEN /\ issued' = issued + 1 /\ timed' = TRUE
                      /\ Put(issued', [of |-> batch[b].of, searched |-> 0])
                 ELSE UNCHANGED <<hash, timed, issued>>
    /\ UNCHANGED <<said, search, assembly, prompt, overlay, lapsed>>

\* assemble starts on the conversation it is given.
Assemble ==
    /\ assembly.pc = "idle" /\ said # <<>>
    /\ assembly' = [pc |-> "replace", given |-> said, made |-> <<>>]
    /\ lapsed' = FALSE
    /\ UNCHANGED <<said, hash, timed, issued, batch, search, prompt, overlay, troubles>>

\* The last KeepLast outputs stay as they are.
Kept(k) == KeepLast = 0 \/ k > Len(assembly.given) - KeepLast

\* _replace_old_tool_outputs: one output, with its lookup.
Replace ==
    LET k == Len(assembly.made) + 1
        o == assembly.given[k]
        put(m) == assembly' = [assembly EXCEPT !.made = Append(@, m)]
    IN  /\ assembly.pc = "replace" /\ k <= Len(assembly.given)
        /\ \E ok \in BOOLEAN :
            /\ Trouble(ok)
            /\ \/ /\ Kept(k) \/ o \notin Replaceable \/ ~ok \/ WithContent(o) = {}
                  /\ put(Verbatim(o))
               \/ /\ ~Kept(k) /\ o \in Replaceable /\ ok
                  /\ \E id \in WithContent(o) : put(Placeholder(o, id))
        /\ UNCHANGED <<said, hash, timed, issued, batch, search, prompt, overlay, lapsed>>

\* _deduplicate_conversation drops an output whose words the snapshot's items
\* have, and leaves a placeholder.
Deduplicated(m, covered) ==
    IF m.as = "verbatim" /\ m.of \in covered THEN Removed(m.of) ELSE m

\* The snapshot is cached for build_overlay; a failure is swallowed.
FinishAssembly(covered) ==
    /\ assembly.pc = "replace" /\ Len(assembly.made) = Len(assembly.given)
    /\ prompt' = [k \in DOMAIN assembly.made |-> Deduplicated(assembly.made[k], covered)]
    /\ assembly' = NoAssembly
    /\ \E ok \in BOOLEAN :
        /\ Trouble(ok)
        /\ overlay' = IF ok THEN covered ELSE overlay
        /\ lapsed' = (lapsed \/ ~ok)
    /\ UNCHANGED <<said, hash, timed, issued, batch, search>>

\* A search or a GET by id returns an artifact and then counts it:
\* increment_searched reads the field and stores it again.
Search(s, id) ==
    /\ search[s].pc = "idle"
    /\ search' = [search EXCEPT ![s] = [pc |-> "count", id |-> id, copy |-> hash[id]]]
    /\ UNCHANGED <<said, hash, timed, issued, batch, assembly, prompt, overlay, troubles, lapsed>>

Count(s) ==
    /\ search[s].pc = "count"
    /\ Put(search[s].id, [search[s].copy EXCEPT !.searched = @ + 1])
    /\ timed' = (timed /\ DOMAIN hash # {})
    /\ search' = [search EXCEPT ![s].pc = "done"]
    /\ UNCHANGED <<said, issued, batch, assembly, prompt, overlay, troubles, lapsed>>

\* The keys of a session nobody ingests into run out.
Expire ==
    /\ timed /\ troubles < MaxMishaps
    /\ hash' = <<>> /\ timed' = FALSE /\ overlay' = {}
    /\ lapsed' = TRUE /\ troubles' = troubles + 1
    /\ UNCHANGED <<said, issued, batch, search, assembly, prompt>>

ArtifactsNext ==
    \/ \E b \in Batches, o \in Outputs : Ingest(b, o)
    \/ \E b \in Batches : Look(b) \/ Capture(b)
    \/ Assemble \/ Replace
    \/ \E covered \in SUBSET Outputs : FinishAssembly(covered)
    \/ \E s \in Searches, id \in DOMAIN hash : Search(s, id)
    \/ \E s \in Searches : Count(s)
    \/ Expire

ArtifactsSpec == ArtifactsInit /\ [][ArtifactsNext]_avars

------------------------------------------------------------------------------
\* The agent can get at every tool output of the prompt of its last assembly:
\* it is there, or its placeholder names an artifact that has it, or the items
\* that made it redundant are in the overlay; unless a key expired or the
\* snapshot could not be cached since.
OutputReachable ==
    ~lapsed /\ assembly.pc = "idle" =>
        \A k \in DOMAIN prompt :
            LET m == prompt[k]
            IN  \/ m.as = "verbatim"
                \/ m.as = "placeholder" /\ m.id \in DOMAIN hash /\ hash[m.id].of = m.of
                \/ m.as = "removed" /\ m.of \in overlay

------------------------------------------------------------------------------
(* The inductive invariant behind it                                       *)

Artifact == [of : Outputs, searched : Nat]
Ids == 1..issued

\* What an artifact id stands for, in the hash and in the copies of searches, is one
\* content.
IdsKeepContent ==
    /\ \A s \in Searches : search[s].pc = "count" =>
          /\ search[s].id \in Ids /\ search[s].copy \in Artifact
          /\ search[s].id \in DOMAIN hash => hash[search[s].id].of = search[s].copy.of
    /\ \A s, t \in Searches :
          search[s].pc = "count" /\ search[t].pc = "count" /\ search[s].id = search[t].id =>
            search[s].copy.of = search[t].copy.of

\* A line of a prompt leads to its output.
Leads(m) ==
    \/ m.as = "verbatim"
    \/ m.as = "placeholder" /\ m.id \in DOMAIN hash /\ hash[m.id].of = m.of

Lines == [as : {"verbatim", "placeholder", "removed"}, of : Outputs, id : Nat]

IInv ==
    /\ issued \in Nat
    /\ DOMAIN hash \subseteq Ids /\ hash \in [DOMAIN hash -> Artifact]
    /\ batch \in [Batches -> [pc : {"idle", "look", "store"}, of : Outputs \cup {NoOutput}]]
    /\ \A b \in Batches : batch[b].pc # "idle" => batch[b].of \in Outputs
    /\ search \in [Searches -> [pc : {"idle", "count", "done"}, id : Nat,
                                copy : [of : Outputs \cup {NoOutput}, searched : Nat]]]
    /\ said \in Seq(Outputs)
    /\ assembly \in [pc : {"idle", "replace"}, given : Seq(Outputs), made : Seq(Lines)]
    /\ prompt \in Seq(Lines) /\ lapsed \in BOOLEAN
    /\ IdsKeepContent
    /\ assembly.pc = "replace" /\ ~lapsed =>
          \A k \in DOMAIN assembly.made : Leads(assembly.made[k])
    /\ OutputReachable
=============================================================================
