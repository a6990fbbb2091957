-------------------------------- MODULE Hitl --------------------------------
(***************************************************************************)
(* How a human gets to answer an approval request, and how the answer gets *)
(* back.                                                                   *)
(*                                                                         *)
(* The guard engine stores a request under its session's agent id and      *)
(* posts an intent to the HITL middleware, with retries (hitl_client.py).  *)
(* The middleware passes it on to webhooks.  A human presses approve or    *)
(* reject there; the middleware checks the age of the token and PATCHes    *)
(* the runtime, for at most ten seconds (router.py of the middleware), and *)
(* the runtime reads the request and writes it decided (approval_queue).   *)
(* Either connection may break at any point.                               *)
(*                                                                         *)
(* What else happens to a request in the runtime is GuardApprovals'.       *)
(***************************************************************************)
EXTENDS Naturals, FiniteSets

CONSTANTS
  Requests,    \* approval requests
  AgentOf,     \* the agent id of the session of each
  NoAgent,     \* the empty agent id
  Callbacks,   \* the times somebody presses a button (a bound)
  Retries,     \* hitl.retry_count
  Timeout,     \* timeout_seconds of a request, in ticks
  Grace,       \* the 60 s it is kept longer
  ResolvedTtl, \* the 300 s a timed-out request is kept
  TokenLife,   \* the 3600 s of is_token_expired
  MaxTroubles, \* what may go wrong (a bound)
  None

\* The token of a request outlives the request (MCParts assumes it).
HitlAssumption ==
  /\ Retries \in Nat /\ Timeout \in Nat \ {0} /\ Grace \in Nat /\ ResolvedTtl \in Nat
  /\ Timeout + Grace + ResolvedTtl <= TokenLife /\ TokenLife \in Nat
  /\ None \notin {"pending", "timed_out", "approved", "rejected", "ok", "expired"}

Buttons == {"approved", "rejected"}

VARIABLES
  status,   \* status of the stored request, None when Redis has none
  left,     \* ticks the key has left
  due,      \* ticks until timeout_at
  post,     \* the runtime's client: where it is with each intent, attempts made
  age,      \* age of the token of each intent
  told,     \* requests a webhook has taken
  call,     \* the callbacks: where each is, for which request and button
  heard,    \* what the one who pressed was answered
  written,  \* history: decisions written for each request
  lapsed,   \* history: callbacks whose request expired before it was rewritten
  troubles  \* what went wrong so far

hvars == <<status, left, due, post, age, told, call, heard, written, lapsed, troubles>>
store == <<status, left, due, written, lapsed>>

Uncalled == [at |-> "idle", r |-> None, button |-> None]

HitlInit ==
  /\ status = [r \in Requests |-> None]
  /\ left = [r \in Requests |-> 0] /\ due = [r \in Requests |-> 0]
  /\ post = [r \in Requests |-> [at |-> "none", attempts |-> 0]]
  /\ age = [r \in Requests |-> 0]
  /\ told = {}
  /\ call = [c \in Callbacks |-> Uncalled] /\ heard = [c \in Callbacks |-> None]
  /\ written = [r \in Requests |-> {}] /\ lapsed = {} /\ troubles = 0

Trouble(bad) ==
  /\ bad => troubles < MaxTroubles
  /\ troubles' = IF bad THEN troubles + 1 ELSE troubles

------------------------------------------------------------------------------
(* The runtime asks.                                                       *)

\* create: the request is pending.
Create(r) ==
  /\ post[r].at = "none"
  /\ status' = [status EXCEPT ![r] = "pending"]
  /\ left' = [left EXCEPT ![r] = Timeout + Grace]
  /\ due' = [due EXCEPT ![r] = Timeout]
  /\ post' = [post EXCEPT ![r].at = "stored"]
  /\ UNCHANGED <<age, told, call, heard, written, lapsed, troubles>>

\* request_approval: the token is of this moment, for every attempt.
Sign(r) ==
  /\ post[r].at = "stored"
  /\ post' = [post EXCEPT ![r] = [at |-> "post", attempts |-> 1]]
  /\ age' = [age EXCEPT ![r] = 0]
  /\ UNCHANGED <<store, told, call, heard, troubles>>

\* One attempt.  The middleware answers 200 when all its webhooks fail, too;
\* what makes the client try again is an answer that is not 200, or none.
Post(r) ==
  /\ post[r].at = "post"
  /\ \E taken \in BOOLEAN, answered \in BOOLEAN :
       /\ Trouble(~taken \/ ~answered)
       /\ told' = IF taken THEN told \cup {r} ELSE told
       /\ post' = [post EXCEPT ![r] =
            [at |-> IF answered THEN "sent"
                    ELSE IF @.attempts <= Retries THEN "post" ELSE "exhausted",
             attempts |-> IF answered \/ @.attempts > Retries THEN @.attempts
                          ELSE @.attempts + 1]]
  /\ UNCHANGED <<store, age, call, heard>>

------------------------------------------------------------------------------
(* A human answers.                                                        *)

TokenExpired(r) == age[r] > TokenLife

\* What the one who pressed gets to see, unless the connection has broken.
Answer(c, what) == heard' = [heard EXCEPT ![c] = IF @ = None THEN what ELSE @]

\* approve_callback, reject_callback: 410, or the PATCH goes out.
Press(c, r, button) ==
  /\ call[c].at = "idle" /\ r \in told
  /\ call' = [call EXCEPT ![c] =
       [at |-> IF TokenExpired(r) THEN "done" ELSE "patch", r |-> r, button |-> button]]
  /\ IF TokenExpired(r) THEN Answer(c, "expired") ELSE UNCHANGED heard
  /\ UNCHANGED <<store, post, age, told, troubles>>

\* Ten seconds have passed, or the connection broke: 502.  The PATCH may still
\* arrive, or be at work.
GiveUp(c) ==
  /\ call[c].at \in {"patch", "write"} /\ heard[c] = None
  /\ Trouble(TRUE)
  /\ Answer(c, "unreachable")
  /\ \/ UNCHANGED call
     \/ call[c].at = "patch" /\ call' = [call EXCEPT ![c].at = "done"]
  /\ UNCHANGED <<store, post, age, told>>

\* The agent id in the body the middleware sends.
SentAgent == NoAgent

\* update_approval, to the read of the request; the answer is 404 when there is
\* none under that agent id.
Read(c) ==
  LET r == call[c].r
      found == status[r] # None /\ AgentOf[r] = SentAgent
  IN  /\ call[c].at = "patch"
      /\ call' = [call EXCEPT ![c].at = IF found THEN "write" ELSE "done"]
      /\ IF found THEN UNCHANGED heard ELSE Answer(c, "not found")
      /\ UNCHANGED <<store, post, age, told, troubles>>

\* Faulty variant: the middleware does not look at the status of the answer.
AnswerToAny(failed) == "ok"

AnswerTo(failed) == IF failed THEN "unreachable" ELSE "ok"

SentStatus(button) == button

\* approve, reject, whatever the status is by now; a key that expired meanwhile
\* is not written, which the answer does not tell.  Or the runtime fails: 500.
Write(c) ==
  LET r == call[c].r
      decision == SentStatus(call[c].button)
  IN  /\ call[c].at = "write"
      /\ \E failed \in BOOLEAN :
           /\ Trouble(failed)
           /\ IF ~failed /\ left[r] > 0
              THEN /\ status' = [status EXCEPT ![r] = decision]
                   /\ written' = [written EXCEPT ![r] = @ \cup {decision}]
                   /\ UNCHANGED lapsed
              ELSE /\ lapsed' = IF failed THEN lapsed ELSE lapsed \cup {c}
                   /\ UNCHANGED <<status, written>>
           /\ Answer(c, AnswerTo(failed))
      /\ call' = [call EXCEPT ![c].at = "done"]
      /\ UNCHANGED <<left, due, post, age, told>>

------------------------------------------------------------------------------
\* check_timeout, found overdue by a check or a sweep of the session.
TimeOut(r) ==
  /\ status[r] = "pending" /\ due[r] = 0
  /\ status' = [status EXCEPT ![r] = "timed_out"]
  /\ left' = [left EXCEPT ![r] = ResolvedTtl]
  /\ UNCHANGED <<due, post, age, told, call, heard, written, lapsed, troubles>>

Less(n) == IF n = 0 THEN 0 ELSE n - 1

\* Keys expire and tokens age.
Tick ==
  /\ left' = [r \in Requests |-> Less(left[r])]
  /\ due' = [r \in Requests |-> Less(due[r])]
  /\ status' = [r \in Requests |-> IF left'[r] = 0 THEN None ELSE status[r]]
  /\ age' = [r \in Requests |->
       IF post[r].attempts = 0 \/ age[r] > TokenLife THEN age[r] ELSE age[r] + 1]
  /\ UNCHANGED <<post, told, call, heard, written, lapsed, troubles>>

HitlNext ==
  \/ Tick
  \/ \E r \in Requests : Create(r) \/ Sign(r) \/ Post(r) \/ TimeOut(r)
  \/ \E c \in Callbacks :
       \/ \E r \in Requests, button \in Buttons : Press(c, r, button)
       \/ Read(c) \/ Write(c) \/ GiveUp(c)

HitlSpec == HitlInit /\ [][HitlNext]_hvars

------------------------------------------------------------------------------
\* A button that answered "approved" or "rejected" did decide the request, which
\* is lost only when its key ran out between the read and the write.
AcknowledgedIsWritten ==
  \A c \in Callbacks :
    heard[c] = "ok" => call[c].button \in written[call[c].r] \/ c \in lapsed

\* A request is decided as somebody who was asked has pressed, whatever was sent
\* twice, given up on or late.
DecidedAsPressed ==
  \A r \in Requests : status[r] \in Buttons =>
    r \in told /\ \E c \in Callbacks : call[c].r = r /\ call[c].button = status[r]

\* Nobody is told that the token has expired while the request can be answered.
PendingAnswerable ==
  \A c \in Callbacks : heard[c] = "expired" => status[call[c].r] # "pending"

\* "Update approval status (approve/reject). Called by HITL middleware": a callback
\* is told that its request is not there only when it is not.
CallbackFindsRequest ==
  \A c \in Callbacks : heard[c] = "not found" => status[call[c].r] = None

\* The requests are decided by those who were asked, and these are told the truth.
AnswersAreTrue == AcknowledgedIsWritten /\ DecidedAsPressed /\ PendingAnswerable

------------------------------------------------------------------------------
(* The inductive invariant behind it                                       *)

\* A request that is pending has a key, which runs out before its token does.
TokenOutlives(r) ==
  status[r] = "pending" => left[r] > 0 /\ age[r] + left[r] <= Timeout + Grace

\* Nothing is known of a request before it is created, nor of a token before it is
\* signed.
Unborn(r) ==
  /\ post[r].at = "none" => status[r] = None
  /\ post[r].at \in {"none", "stored"} => age[r] = 0 /\ post[r].attempts = 0 /\ r \notin told

\* Who pressed was asked, and what was answered stays true.
Pressed(c) ==
  /\ call[c].at = "idle" => heard[c] = None /\ call[c].button = None
  /\ call[c].at # "idle" => call[c].r \in told /\ call[c].button \in Buttons
  /\ heard[c] = "ok" => call[c].button \in written[call[c].r] \/ c \in lapsed
  /\ heard[c] = "expired" => status[call[c].r] # "pending"

IInv ==
  /\ status \in [Requests -> {None, "pending", "timed_out"} \cup Buttons]
  /\ left \in [Requests -> Nat] /\ age \in [Requests -> Nat]
  /\ post \in [Requests -> [at : {"none", "stored", "post", "sent", "exhausted"}, attempts : Nat]]
  /\ told \subseteq Requests
  /\ call \in [Callbacks -> [at : {"idle", "patch", "write", "done"},
                             r : Requests \cup {None}, button : Buttons \cup {None}]]
  /\ heard \in [Callbacks -> {None, "ok", "expired", "not found", "unreachable"}]
  /\ written \in [Requests -> SUBSET Buttons]
  /\ \A r \in Requests : TokenOutlives(r) /\ Unborn(r)
  /\ \A c \in Callbacks : Pressed(c)
  /\ DecidedAsPressed
=============================================================================
