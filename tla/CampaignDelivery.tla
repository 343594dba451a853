--------------------------- MODULE CampaignDelivery ---------------------------
(***************************************************************************)
(* From POST /api/campaigns to the recipients: the API of module           *)
(* CampaignScheduling and the workers of module EmailDelivery on the rows  *)
(* and jobs they share.  A worker can take the first rows of a campaign    *)
(* while the request still adds the jobs of the last ones.                 *)
(***************************************************************************)
EXTENDS CampaignScheduling

CONSTANTS Workers, Processes, Attempts, MaxStalled, MaxWorkerFaults, None

VARIABLES
  deliveries, attemptsMade, stalledCount, lockedBy,   \* of module EmailDelivery
  slotPc,        \* its pc
  current, made, closing,
  workerFaults   \* its faults

deliveryOnly ==
  <<deliveries, attemptsMade, stalledCount, lockedBy, slotPc, current, made,
    closing, workerFaults>>
apiOnly    == <<pc, next, committed, bullJobId, faults>>
systemVars == <<vars, deliveryOnly>>

Delivery == INSTANCE EmailDelivery WITH
  Emails <- Rows, jobState <- job, pc <- slotPc,
  faults <- workerFaults, MaxFaults <- MaxWorkerFaults

\* EmailDelivery's ConstantsAssumption.
ASSUME SystemAssumption ==
  /\ None \notin Workers
  /\ None \notin Rows
  /\ Processes \subseteq SUBSET Workers
  /\ UNION Processes = Workers
  /\ Attempts \in Nat \ {0}
  /\ MaxStalled \in Nat
  /\ MaxWorkerFaults \in [Delivery!FaultKinds -> Nat]

-----------------------------------------------------------------------------
(* Specification *)

\* EmailDelivery's initial state, before any job was added.
SystemInit ==
  /\ Init
  /\ deliveries = [e \in Rows |-> 0]
  /\ attemptsMade = [e \in Rows |-> 0]
  /\ stalledCount = [e \in Rows |-> 0]
  /\ lockedBy = [e \in Rows |-> None]
  /\ slotPc = [w \in Workers |-> "idle"]
  /\ current = [w \in Workers |-> None]
  /\ made = [w \in Workers |-> 0]
  /\ closing = {}
  /\ workerFaults = [kind \in Delivery!FaultKinds |-> 0]

Api ==
  /\ (\E r \in Requests : CreateCampaign(r)) \/ Crash
  /\ UNCHANGED deliveryOnly

Deliver ==
  /\ \/ \E w \in Workers : Delivery!Process(w)
     \/ \E e \in Rows : Delivery!Queue(e)
     \/ \E w \in Workers, e \in Rows : Delivery!Take(w, e)
     \/ \E p \in Processes : Delivery!System(p)
  /\ UNCHANGED apiOnly

\* Every request has ended and every job that was added has finished.
Finished ==
  /\ \A r \in Requests : pc[r] \in Ended
  /\ \A row \in Rows : job[row] \in {"none", "completed", "failed"}
  /\ \A w \in Workers : slotPc[w] = "idle"
  /\ UNCHANGED systemVars

SystemNext == Api \/ Deliver \/ Finished

\* EmailDelivery's fairness; and the awaits of createCampaign settle.
SystemFairness ==
  /\ Delivery!Fairness
  /\ \A r \in Requests : WF_systemVars(CreateCampaign(r) /\ UNCHANGED deliveryOnly)

SystemSpec == SystemInit /\ [][SystemNext]_systemVars /\ SystemFairness

-----------------------------------------------------------------------------
(* Properties *)

\* The loop, which still writes the rows whose jobs run already, keeps what
\* EmailDelivery promises of a row: it never takes back what a worker recorded
\* or gives a claimed email to a second one.
RowsLiveOn == Delivery!ImplementsLifecycle

\* The answer 201 means that somebody has every recipient in hand, at every
\* moment after it.  The row has its job; while it is scheduled that job is
\* still to run, as long as no worker's write fails, no worker crashes and no
\* lock is lost; and while it is claimed a slot is at work on it, as long as no
\* worker's write fails and no worker crashes or is stopped.
AcknowledgedIsInHand ==
  /\ CreatedIsComplete
  /\ \A r \in Requests : pc[r] = "created" =>
       \A e \in {r} \X (1..N) :
         /\ Delivery!Never({"db", "crash", "lock"}) /\ status[e] = "scheduled"
              => job[e] \in {"delayed", "waiting", "active"}
         /\ Delivery!Never({"db", "crash", "stop"}) /\ status[e] = "processing"
              => \E w \in Workers : Delivery!Owns(w, e)

\* The answer 201 is a promise: every recipient of an acknowledged campaign is
\* settled for good, when on the workers' side only SMTP misbehaves.
AcknowledgedIsSettled ==
  []Delivery!Never({"db", "crash", "lock", "stop"}) =>
    \A r \in Requests, i \in 1..N :
      <>[](pc[r] = "created" => status[<<r, i>>] \in {"sent", "failed"})
=============================================================================
