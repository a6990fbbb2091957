------------------------------ MODULE Profiles ------------------------------
(***************************************************************************)
(* runtime/profiles: the resolved policy of one profile for one            *)
(* organisation, and the cache each server process keeps of it.            *)
(*                                                                         *)
(* Overrides live in one table (org_override_store.py on SQLite, or        *)
(* PostgresOrgOverrideStore).  A policy is identified with the override it *)
(* was flattened from: the preset itself never changes.  With SQLite no    *)
(* other coroutine runs between a read of the table and the write to the   *)
(* cache; with PostgreSQL each access is an await, so every step below is  *)
(* one of its own, and SQLite's behaviours are among those of the model.   *)
(***************************************************************************)
EXTENDS Integers, FiniteSets

CONSTANTS
    Processes,   \* servers that share the table
    Resolvers,   \* calls of resolve_profile
    ServerOf,    \* Resolvers -> Processes
    Overrides,   \* overrides an operator may register
    Unvalidated, \* those set_override lets through and flatten rejects: a
                 \* wrong value for a field that is no nested model
    Ttl,         \* profile_cache.ttl_seconds, in ticks
    NoOverride,
    MaxTicks, MaxWrites, MaxFaults  \* bounds

\* What MCParts assumes of the constants.
ProfilesAssumption ==
    /\ ServerOf \in [Resolvers -> Processes]
    /\ Unvalidated \subseteq Overrides /\ NoOverride \notin Overrides
    /\ {Ttl, MaxTicks, MaxWrites, MaxFaults} \subseteq Nat

VARIABLES
    table,    \* the row of org_profile_overrides
    cache,    \* cache[p]: a policy and its age, or nothing
    resolve,  \* one record per call
    writing,  \* processes between a write to the table and the
              \* invalidation of their cache
    clock, writes, mishaps,
    since,    \* since[o]: when the table last ceased to hold o; history
    own       \* own[p]: what p registered last, while nothing else is known
              \* to replace it; history

pvars == <<table, cache, resolve, writing, clock, writes, mishaps, since, own>>

Rows == Overrides \cup {NoOverride}
NoEntry == [policy |-> NoOverride, at |-> 0, held |-> FALSE]
Unstarted == [pc |-> "idle", row |-> NoOverride, policy |-> NoOverride,
              blind |-> FALSE, begun |-> 0]

ProfilesInit ==
    /\ table = NoOverride
    /\ cache = [p \in Processes |-> NoEntry]
    /\ resolve = [r \in Resolvers |-> Unstarted]
    /\ writing = {}
    /\ clock = 0 /\ writes = 0 /\ mishaps = 0
    /\ since = [o \in Rows |-> 0]
    /\ own = [p \in Processes |-> [known |-> FALSE, row |-> NoOverride]]

\* A cached policy that has not reached the TTL.
Fresh(p) == cache[p].held /\ clock - cache[p].at < Ttl

\* resolve_profile, a hit: a copy of the cached policy.
Hit(r) ==
    LET p == ServerOf[r]
    IN  /\ resolve[r].pc = "idle" /\ Fresh(p)
        /\ resolve' = [resolve EXCEPT ![r] =
             [@ EXCEPT !.pc = "done", !.policy = cache[p].policy, !.begun = clock]]
        /\ UNCHANGED <<table, cache, writing, clock, writes, mishaps, since, own>>

\* A miss, or an expired entry, which is dropped: read the override.  A read
\* that fails is logged, and the policy goes on without override.
Read(r) ==
    LET p == ServerOf[r]
    IN  /\ resolve[r].pc = "idle" /\ ~Fresh(p)
        /\ cache' = [cache EXCEPT ![p] = NoEntry]
        /\ \E ok \in BOOLEAN :
            /\ ok \/ mishaps < MaxFaults
            /\ mishaps' = IF ok THEN mishaps ELSE mishaps + 1
            /\ own' = IF ok THEN own ELSE [own EXCEPT ![p].known = FALSE]
            /\ resolve' = [resolve EXCEPT ![r] =
                 [@ EXCEPT !.pc = "flatten", !.row = IF ok THEN table ELSE NoOverride,
                    !.blind = ~ok, !.begun = clock]]
        /\ UNCHANGED <<table, writing, clock, writes, since>>

\* flatten, cache and return; a row that is no valid policy raises, and
\* nothing is cached.
Flatten(r) ==
    LET p == ServerOf[r]  row == resolve[r].row
    IN  /\ resolve[r].pc = "flatten"
        /\ IF row \in Unvalidated
           THEN /\ resolve' = [resolve EXCEPT ![r].pc = "raised"]
                /\ UNCHANGED cache
           ELSE /\ resolve' = [resolve EXCEPT ![r].pc = "done", ![r].policy = row]
                /\ cache' = [cache EXCEPT ![p] = [policy |-> row, at |-> clock, held |-> TRUE]]
        /\ UNCHANGED <<table, writing, clock, writes, mishaps, since, own>>

Loading(p) == {r \in Resolvers : ServerOf[r] = p /\ resolve[r].pc = "flatten"}

\* register_org_override and delete_org_override: validate, write the table ...
Write(p, row) ==
    /\ p \notin writing /\ writes < MaxWrites
    /\ table' = row
    /\ writes' = writes + 1
    /\ since' = [since EXCEPT ![table] = clock]
    /\ writing' = writing \cup {p}
    /\ own' = [q \in Processes |-> [known |-> FALSE, row |-> row]]
    /\ UNCHANGED <<cache, resolve, clock, mishaps>>

InvalidateExpiredOnly(p) ==  \* mutant: a fresh entry is left in the cache
    /\ p \in writing
    /\ cache' = [cache EXCEPT ![p] = IF Fresh(p) THEN @ ELSE NoEntry]
    /\ own' = [own EXCEPT ![p].known = Loading(p) = {}]
    /\ writing' = writing \ {p}
    /\ UNCHANGED <<table, resolve, clock, writes, mishaps, since>>

\* ... and drop the entry of this process only.
Invalidate(p) ==
    /\ p \in writing
    /\ cache' = [cache EXCEPT ![p] = NoEntry]
    /\ own' = [own EXCEPT ![p].known = Loading(p) = {}]
    /\ writing' = writing \ {p}
    /\ UNCHANGED <<table, resolve, clock, writes, mishaps, since>>

\* Time passes while nothing is between a read and its use: an access to the
\* table is short against the TTL.
Tick ==
    /\ clock < MaxTicks /\ writing = {}
    /\ \A p \in Processes : Loading(p) = {}
    /\ clock' = clock + 1
    /\ UNCHANGED <<table, cache, resolve, writing, writes, mishaps, since, own>>

Restart(p) ==
    /\ mishaps < MaxFaults
    /\ writing' = writing \ {p}
    /\ mishaps' = mishaps + 1
    /\ cache' = [cache EXCEPT ![p] = NoEntry]
    /\ resolve' = [r \in Resolvers |->
         IF r \in Loading(p) THEN [resolve[r] EXCEPT !.pc = "raised"] ELSE resolve[r]]
    /\ UNCHANGED <<table, clock, writes, since, own>>

ProfilesNext ==
    \/ \E r \in Resolvers : Hit(r) \/ Read(r) \/ Flatten(r)
    \/ \E p \in Processes :
          \/ \E row \in Rows : Write(p, row)
          \/ Invalidate(p)
          \/ Restart(p)
    \/ Tick

ProfilesSpec == ProfilesInit /\ [][ProfilesNext]_pvars

------------------------------------------------------------------------------
\* A resolved policy is never older than the TTL: it was the override of the
\* organisation when the call began, or it was until at most Ttl ticks before,
\* in whatever process it was replaced.  What a failed read left is excepted:
\* the policy without override then stays for a whole TTL.
StaleAtMostTtl ==
    mishaps = 0 =>
        \A r \in Resolvers : resolve[r].pc = "done" =>
            \/ resolve[r].policy = table
            \/ resolve[r].begun - since[resolve[r].policy] <= Ttl

\* Where an override was registered it is served at once: an entry of that
\* process's cache holds it, unless a load was under way when the cache was
\* invalidated, a read failed or another process has written since.
OwnOverrideServed ==
    \A p \in Processes : own[p].known /\ cache[p].held => cache[p].policy = own[p].row

\* Sessions get the override of their organisation, at once where it was registered
\* and within a TTL elsewhere.
OverridesServed == StaleAtMostTtl /\ OwnOverrideServed

------------------------------------------------------------------------------
(* The inductive invariant behind it                                       *)

EntryType == [policy : Rows, at : Nat, held : BOOLEAN]

ResolveType ==
    [pc : {"idle", "flatten", "done", "raised"}, row : Rows, policy : Rows,
     blind : BOOLEAN, begun : Nat]

\* The table held the row at the time t or later.
HeldSince(row, t) == row = table \/ since[row] >= t

IInv ==
    /\ table \in Rows /\ writing \subseteq Processes
    /\ cache \in [Processes -> EntryType]
    /\ resolve \in [Resolvers -> ResolveType]
    /\ clock \in Nat /\ mishaps \in Nat
    /\ since \in [Rows -> Nat] /\ \A o \in Rows : since[o] <= clock
    /\ \A p \in Processes : cache[p].at <= clock
    /\ \A r \in Resolvers : resolve[r].begun <= clock
    /\ own \in [Processes -> [known : BOOLEAN, row : Rows]]
    \* What was read was true when it was read, and time stands still until it
    \* is in the cache.
    /\ \A r \in Resolvers : resolve[r].pc = "flatten" =>
          /\ resolve[r].begun = clock
          /\ mishaps = 0 => HeldSince(resolve[r].row, clock)
          /\ own[ServerOf[r]].known => resolve[r].row = own[ServerOf[r]].row
    /\ mishaps = 0 => \A p \in Processes : cache[p].held => HeldSince(cache[p].policy, cache[p].at)
    \* Whoever wrote last, all processes were told the same row.
    /\ \A p \in Processes : own[p].row = table
    /\ OverridesServed
=============================================================================
