--------------------------- MODULE EmailLifecycle ---------------------------
(***************************************************************************)
(* What a worker promises of one email's row: a slot owns the email from   *)
(* the claim to the write that gives it up; only the owner sends it and    *)
(* changes its row; and a row that is not "scheduled" and has no owner     *)
(* never changes again.  The queue, its locks and its attempts are hidden. *)
(***************************************************************************)
EXTENDS Naturals

CONSTANTS Emails, Workers

VARIABLES
  status,      \* Email.status
  deliveries,  \* how often SMTP accepted the email
  owners       \* the slots that claimed the email and have not given it up

vars == <<status, deliveries, owners>>

Init ==
  /\ status = [e \in Emails |-> "scheduled"]
  /\ deliveries = [e \in Emails |-> 0]
  /\ owners = [e \in Emails |-> {}]

\* The claim's WHERE: a scheduled row, which nobody owns.
Claimable(e) == status[e] = "scheduled" /\ owners[e] = {}

Claim(w, e) ==
  /\ Claimable(e)
  /\ status' = [status EXCEPT ![e] = "processing"]
  /\ owners' = [owners EXCEPT ![e] = {w}]
  /\ UNCHANGED deliveries

\* The claim commits and the slot does not learn it.
ClaimUnheard(e) ==
  /\ Claimable(e)
  /\ status' = [status EXCEPT ![e] = "processing"]
  /\ UNCHANGED <<deliveries, owners>>

Deliver(w, e) ==
  /\ owners[e] = {w}
  /\ status[e] = "processing"
  /\ deliveries' = [deliveries EXCEPT ![e] = @ + 1]
  /\ UNCHANGED <<status, owners>>

\* The owner gives the email up: sent after a delivery, failed, or back to
\* scheduled by a deferral or a transient failure.
Settle(w, e, new) ==
  /\ owners[e] = {w}
  /\ new = "sent" => deliveries[e] > 0
  /\ status' = [status EXCEPT ![e] = new]
  /\ owners' = [owners EXCEPT ![e] = {}]
  /\ UNCHANGED deliveries

\* markSent commits and the owner takes it for failed.
SentUnheard(w, e) ==
  /\ owners[e] = {w}
  /\ status[e] = "processing"
  /\ deliveries[e] > 0
  /\ status' = [status EXCEPT ![e] = "sent"]
  /\ UNCHANGED <<deliveries, owners>>

\* Owners vanish, by a crash or an error that no handler turns into a write.
Abandon(gone) ==
  /\ owners' = [e \in Emails |-> owners[e] \ gone]
  /\ UNCHANGED <<status, deliveries>>

Next ==
  \/ \E w \in Workers, e \in Emails :
       \/ Claim(w, e)
       \/ Deliver(w, e)
       \/ \E new \in {"scheduled", "sent", "failed"} : Settle(w, e, new)
       \/ SentUnheard(w, e)
  \/ \E e \in Emails : ClaimUnheard(e)
  \/ \E gone \in SUBSET Workers : Abandon(gone)

Spec == Init /\ [][Next]_vars
=============================================================================
