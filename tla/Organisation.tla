---------------------------- MODULE Organisation ----------------------------
(***************************************************************************)
(* api/routes/admin.py, api/routes/_authority.py and runtime/actors: who   *)
(* is in which team, and who may change it.                                *)
(*                                                                         *)
(* A membership is written twice: as a MEMBER_OF edge, and in team_ids of  *)
(* the actor's node, which check_authority reads.  The node is always      *)
(* rewritten whole, from a copy read in an earlier step.                   *)
(***************************************************************************)
EXTENDS Integers, FiniteSets

CONSTANTS
    Actors, Teams,
    Admin,         \* registered while the system was in bootstrap mode
    Levels,        \* authority levels
    MinLevel,      \* operation -> min_authority_level
    ExemptLevel,   \* from here on require_matching_team does not bind
    Calls,         \* requests in flight at a time
    MaxCalls, MaxFailures  \* bounds

Ops == {"register", "update", "add", "remove"}

\* What MCParts assumes of the constants.
OrganisationAssumption ==
    /\ Admin \in Actors /\ Levels \subseteq Nat /\ ExemptLevel \in Levels
    /\ MinLevel \in [Ops -> Nat]
    /\ {MaxCalls, MaxFailures} \subseteq Nat

VARIABLES
    node,      \* the actors' nodes: authority level and team_ids
    edges,     \* the MEMBER_OF edges
    request,   \* one record per request in flight
    begun, failures,
    asked,     \* the level and teams the completed writes asked for; history
    overlap,   \* actors two requests were about at once; history
    degraded,  \* actors one of whose double writes was left half done; history
    spread     \* those of them whose edges were then rewritten; history

ovars == <<node, edges, request, begun, failures, asked, overlap, degraded, spread>>

NoNode == [level |-> 0, teams |-> {}, stored |-> FALSE]
NoRequest == [pc |-> "idle", op |-> "add", actor |-> Admin, team |-> {},
              level |-> 0, copy |-> NoNode]

TeamsOf(a) == {t \in Teams : <<a, t>> \in edges}

OrganisationInit ==
    /\ node = [a \in Actors |->
         IF a = Admin THEN [level |-> ExemptLevel, teams |-> {}, stored |-> TRUE] ELSE NoNode]
    /\ edges = {}
    /\ request = [c \in Calls |-> NoRequest]
    /\ begun = 0 /\ failures = 0
    /\ asked = node
    /\ overlap = {} /\ degraded = {} /\ spread = {}

\* check_authority: the level the rule of the action requires and, below the
\* exempt level, the team among the caller's team_ids.
Allowed(by, op, team) ==
    /\ node[by].stored
    /\ node[by].level >= MinLevel[op]
    /\ \/ node[by].level >= ExemptLevel
       \/ op \in {"register", "update"}
       \/ team \subseteq node[by].teams

\* The request passes _auth.  POST /actors makes a new id, so an actor is
\* registered once; it names a team or none.
Begin(c, by, op, a, team, level) ==
    /\ request[c].pc = "idle" /\ begun < MaxCalls
    /\ Allowed(by, op, team)
    /\ op = "register" =>
         ~node[a].stored /\ \A d \in Calls : request[d].pc = "idle" \/ request[d].actor # a
    /\ op \in {"add", "remove"} => Cardinality(team) = 1 /\ level = 0
    /\ op = "update" => team = {}
    /\ request' = [request EXCEPT ![c] =
         [pc |-> CASE op = "register" -> "write" [] op = "update" -> "read" [] OTHER -> "edge",
          op |-> op, actor |-> a, team |-> team, level |-> level,
          copy |-> [level |-> level, teams |-> team, stored |-> TRUE]]]
    /\ begun' = begun + 1
    /\ overlap' = IF \E d \in Calls : request[d].pc # "idle" /\ request[d].actor = a
                  THEN overlap \cup {a} ELSE overlap
    /\ UNCHANGED <<node, edges, failures, asked, degraded, spread>>

\* add_relation merges the edge between nodes that exist; delete_relation.
Edge(c) ==
    LET r == request[c]  a == r.actor  pair == {a} \X r.team
    IN  /\ r.pc = "edge"
        /\ request' = [request EXCEPT ![c].pc = "read"]
        /\ IF r.op = "remove"
           THEN edges' = edges \ pair /\ asked' = [asked EXCEPT ![a].teams = @ \ r.team]
           ELSE IF node[a].stored
           THEN edges' = edges \cup pair /\ asked' = [asked EXCEPT ![a].teams = @ \cup r.team]
           ELSE UNCHANGED <<edges, asked>>
        /\ UNCHANGED <<node, begun, failures, overlap, degraded, spread>>

\* get_entity / resolve_actor, and the change to the copy: a membership that
\* the property already tells needs no write.
Read(c) ==
    LET r == request[c]
        found == node[r.actor]
        copy == CASE r.op = "add" -> [found EXCEPT !.teams = @ \cup r.team]
                  [] r.op = "remove" -> [found EXCEPT !.teams = @ \ r.team]
                  [] OTHER -> [found EXCEPT !.level = r.level]
        needless == ~found.stored \/ (r.op # "update" /\ copy = found)
    IN  /\ r.pc = "read"
        /\ request' = [request EXCEPT ![c] =
             IF needless THEN NoRequest ELSE [r EXCEPT !.pc = "write", !.copy = copy]]
        /\ UNCHANGED <<node, edges, begun, failures, asked, overlap, degraded, spread>>

WriteAdditionsOnly(c) ==  \* mutant: a removal leaves the property
    LET r == request[c]  a == r.actor
    IN  /\ r.pc = "write"
        /\ node' = IF r.op = "remove" THEN node ELSE [node EXCEPT ![a] = r.copy]
        /\ request' = [request EXCEPT ![c] =
             IF r.op \in {"register", "update"} THEN [r EXCEPT !.pc = "link"] ELSE NoRequest]
        /\ asked' = CASE r.op = "register" -> [asked EXCEPT ![a] = r.copy]
                      [] r.op = "update" -> [asked EXCEPT ![a].level = r.level]
                      [] OTHER -> asked
        /\ UNCHANGED <<edges, begun, failures, overlap, degraded, spread>>

\* add_data_points replaces the node by the copy.
Write(c) ==
    LET r == request[c]  a == r.actor
    IN  /\ r.pc = "write"
        /\ node' = [node EXCEPT ![a] = r.copy]
        /\ request' = [request EXCEPT ![c] =
             IF r.op \in {"register", "update"} THEN [r EXCEPT !.pc = "link"] ELSE NoRequest]
        /\ asked' = CASE r.op = "register" -> [asked EXCEPT ![a] = r.copy]
                      [] r.op = "update" -> [asked EXCEPT ![a].level = r.level]
                      [] OTHER -> asked
        /\ UNCHANGED <<edges, begun, failures, overlap, degraded, spread>>

\* The read or the write of the node fails: the membership routes log it and
\* answer as usual, the actor routes raise.
FailNode(c) ==
    LET r == request[c]
    IN  /\ r.pc \in {"read", "write"} /\ failures < MaxFailures
        /\ failures' = failures + 1
        /\ degraded' = IF r.op \in {"add", "remove"} THEN degraded \cup {r.actor} ELSE degraded
        /\ request' = [request EXCEPT ![c] = NoRequest]
        /\ UNCHANGED <<node, edges, begun, asked, overlap, spread>>

\* ActorRegistry.register_actor: an edge for each team of the copy; one that
\* fails is passed over.
Link(c) ==
    LET r == request[c]  a == r.actor
    IN  /\ r.pc = "link"
        /\ \E made \in SUBSET r.copy.teams :
            /\ made # r.copy.teams => failures < MaxFailures
            /\ failures' = IF made = r.copy.teams THEN failures ELSE failures + 1
            /\ edges' = edges \cup ({a} \X made)
            /\ LET half == made # r.copy.teams \/ a \in degraded
               IN  /\ degraded' = IF half THEN degraded \cup {a} ELSE degraded
                   /\ spread' = IF half THEN spread \cup {a} ELSE spread
        /\ request' = [request EXCEPT ![c] = NoRequest]
        /\ UNCHANGED <<node, begun, asked, overlap>>

OrganisationNext ==
    \E c \in Calls :
        \/ \E by, a \in Actors, op \in Ops, level \in Levels \cup {0},
              team \in {T \in SUBSET Teams : Cardinality(T) <= 1} :
                Begin(c, by, op, a, team, level)
        \/ Edge(c) \/ Read(c) \/ Write(c) \/ FailNode(c) \/ Link(c)

OrganisationSpec == OrganisationInit /\ [][OrganisationNext]_ovars

------------------------------------------------------------------------------
Quiet(a) == \A c \in Calls : request[c].pc = "idle" \/ request[c].actor # a

\* When no request is under way for an actor and no two ever overlapped on it,
\* its node, which the authority checks read, and its edges, which the member
\* lists and the scoping of memory read, tell the membership the requests
\* asked for.  A failed node write leaves the edges right until an update
\* writes its stale team_ids back as edges.
MembershipAgrees ==
    \A a \in Actors : Quiet(a) /\ a \notin overlap =>
        /\ a \notin degraded => node[a] = asked[a]
        /\ a \notin spread => TeamsOf(a) = asked[a].teams

------------------------------------------------------------------------------
(* The inductive invariant behind it                                       *)

NodeType == [level : Nat, teams : SUBSET Teams, stored : BOOLEAN]

RequestType ==
    [pc : {"idle", "edge", "read", "write", "link"}, op : Ops, actor : Actors,
     team : SUBSET Teams, level : Nat, copy : NodeType]

\* An actor without a node has no membership, and nobody asked for one.
UnknownHasNothing ==
    \A a \in Actors : ~node[a].stored =>
        node[a] = NoNode /\ asked[a] = NoNode /\ TeamsOf(a) = {}

\* The steps a request takes, by its kind; once registered an actor stays so.
WellFormed(r) ==
    /\ r.pc = "edge" => r.op \in {"add", "remove"}
    /\ r.pc = "read" => r.op # "register"
    /\ r.pc \in {"write", "link"} => r.copy.stored
    /\ r.pc = "write" /\ r.op # "register" => node[r.actor].stored
    /\ r.pc = "link" => r.op \in {"register", "update"} /\ node[r.actor].stored

\* Both records of a membership are what the completed requests asked for.
EdgesRight(a) == a \notin spread => TeamsOf(a) = asked[a].teams
Settled(a) == EdgesRight(a) /\ (a \notin degraded => node[a] = asked[a])

TeamsAfter(r, teams) == IF r.op = "add" THEN teams \cup r.team ELSE teams \ r.team

\* How far a request of its own has brought them.
UnderWay(r) ==
    LET a == r.actor
    IN  /\ r.pc # "link" => EdgesRight(a)
        /\ r.pc # "link" /\ ~(r.pc # "edge" /\ r.op \in {"add", "remove"}) => Settled(a)
        /\ r.pc = "read" /\ r.op \in {"add", "remove"} /\ a \notin degraded /\ node[a].stored =>
              asked[a] = [node[a] EXCEPT !.teams = TeamsAfter(r, node[a].teams)]
        /\ r.pc = "write" /\ r.op \in {"add", "remove"} /\ a \notin degraded =>
              asked[a] = r.copy
        /\ r.pc = "write" /\ r.op = "update" => r.copy = [node[a] EXCEPT !.level = r.level]
        /\ r.pc = "write" /\ r.op = "register" => ~node[a].stored
        /\ r.pc = "link" /\ a \notin degraded =>
              node[a] = r.copy /\ asked[a] = r.copy /\ TeamsOf(a) \subseteq r.copy.teams

IInv ==
    /\ node \in [Actors -> NodeType] /\ asked \in [Actors -> NodeType]
    /\ edges \subseteq Actors \X Teams
    /\ request \in [Calls -> RequestType]
    /\ spread \subseteq degraded
    /\ UnknownHasNothing
    /\ \A c \in Calls : WellFormed(request[c])
    /\ \A c, d \in Calls :
          c # d /\ request[c].pc # "idle" /\ request[d].pc # "idle"
            /\ request[c].actor = request[d].actor => request[c].actor \in overlap
    /\ \A a \in Actors : Quiet(a) /\ a \notin overlap => Settled(a)
    /\ \A c \in Calls : request[c].pc # "idle" /\ request[c].actor \notin overlap =>
          UnderWay(request[c])
=============================================================================
