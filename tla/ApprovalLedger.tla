--------------------------- MODULE ApprovalLedger ---------------------------
(***************************************************************************)
(* What the approval queue promises about its requests, without tasks,     *)
(* indexes, goals or clocks.  A request is entered once, as pending; it is *)
(* settled any number of times, as approved or rejected only by somebody   *)
(* who said so; it may be forgotten at any moment and, once settled, is    *)
(* never pending again.                                                    *)
(***************************************************************************)
CONSTANTS Requests, None

VARIABLES
  asked,    \* requests that were entered, or will never be
  entry,    \* status of each request, None when there is none
  consent   \* decisions operators sent for each request

Init ==
  /\ asked   = {}
  /\ entry   = [r \in Requests |-> None]
  /\ consent = [r \in Requests |-> {}]

Ask(r) ==
  /\ r \notin asked
  /\ asked' = asked \cup {r}
  /\ entry' = [entry EXCEPT ![r] = "pending"]
  /\ UNCHANGED consent

\* Requests whose creator stopped before it could enter them.
Abandon(R) ==
  /\ asked' = asked \cup R
  /\ UNCHANGED <<entry, consent>>

Say(r, d) ==
  /\ entry[r] # None
  /\ consent' = [consent EXCEPT ![r] = @ \cup {d}]
  /\ UNCHANGED <<asked, entry>>

\* A time-out is written whether or not the entry is still there.
Settle(r, st) ==
  /\ r \in asked
  /\ st \in {"timed_out", "cancelled"} \cup consent[r]
  /\ st # "timed_out" => entry[r] # None
  /\ entry' = [entry EXCEPT ![r] = st]
  /\ UNCHANGED <<asked, consent>>

Forget(R) ==
  /\ entry' = [r \in Requests |-> IF r \in R THEN None ELSE entry[r]]
  /\ UNCHANGED <<asked, consent>>

Next ==
  \/ \E r \in Requests :
       \/ Ask(r)
       \/ \E d \in {"approved", "rejected"} : Say(r, d)
       \/ \E st \in {"approved", "rejected", "timed_out", "cancelled"} :
            Settle(r, st)
  \/ \E R \in SUBSET Requests : Abandon(R) \/ Forget(R)

Spec == Init /\ [][Next]_<<asked, entry, consent>>
=============================================================================
