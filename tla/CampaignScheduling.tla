------------------------- MODULE CampaignScheduling -------------------------
(***************************************************************************)
(* POST /api/campaigns: CampaignService.createCampaign commits a campaign  *)
(* and its Email rows in one PostgreSQL transaction and then, row by row,  *)
(* adds the BullMQ job and records its id.  Workers take a job as soon as  *)
(* it is due, so they run beside the loop: module CampaignDelivery puts    *)
(* them there.  PostgreSQL or Redis can fail between any two of these      *)
(* steps, and the API process can crash.                                   *)
(*                                                                         *)
(* Several requests are in flight at once: those of several users, or one  *)
(* that a user submits again.  Validation comes first and changes nothing; *)
(* a request here is one with N normalized recipients.                     *)
(***************************************************************************)
EXTENDS Naturals

CONSTANTS
  Requests,    \* calls of createCampaign, each creating a campaign of its own
  N,           \* recipients of a campaign
  ApiFaults,   \* the kinds of fault that may happen
  MaxFaults    \* bound on the number of faults

ASSUME SchedulingAssumption ==
  /\ N \in Nat \ {0}
  /\ MaxFaults \in Nat
  /\ ApiFaults \subseteq {"db", "queue", "crash"}

Rows == Requests \X (1..N)   \* an Email row: its campaign and sequenceNumber

VARIABLES
  pc,         \* the await at which createCampaign stands, or how it ended
  next,       \* the sequenceNumber of the loop's row
  committed,  \* campaigns whose transaction is committed
  status,     \* Email.status, of committed rows
  bullJobId,  \* rows whose bullJobId is set
  job,        \* BullMQ's job "email-<id>" of a row
  faults      \* faults so far

vars == <<pc, next, committed, status, bullJobId, job, faults>>

EmailStatus == {"scheduled", "processing", "sent", "failed"}
JobStates   == {"delayed", "waiting", "active", "completed", "failed"}

Running == {"create", "enqueue", "record"}
Ended   == {"created", "error", "dead"}

Goto(r, label) == pc' = [pc EXCEPT ![r] = label]

Fault(kind) ==
  /\ kind \in ApiFaults
  /\ faults < MaxFaults
  /\ faults' = faults + 1

-----------------------------------------------------------------------------
(* createCampaign *)

\* The request passed requireAuth and the schema.
Receive(r) ==
  /\ pc[r] = "new"
  /\ Goto(r, "create")
  /\ UNCHANGED <<next, committed, status, bullJobId, job, faults>>

\* Mutant: the rows are created without waiting for the transaction.
BugCreateWithEmails(r) ==
  /\ pc[r] = "create"
  /\ Goto(r, "enqueue")
  /\ committed' \in {committed, committed \cup {r}}
  /\ UNCHANGED <<next, status, bullJobId, job, faults>>

\* createWithEmails: the campaign with all its rows, or, after an error, all
\* of them (the commit's answer is lost) or none.
CreateWithEmails(r) ==
  /\ pc[r] = "create"
  /\ \/ /\ committed' = committed \cup {r}
        /\ Goto(r, "enqueue")
        /\ UNCHANGED faults
     \/ /\ Fault("db")
        /\ committed' \in {committed, committed \cup {r}}
        /\ Goto(r, "error")
  /\ UNCHANGED <<next, status, bullJobId, job>>

\* Mutant: a failed add is skipped and the loop goes on.
BugOnQueueError(r) == "record"

\* Nothing catches the error: the request answers 500.
OnQueueError(r) == "error"

\* scheduleEmail: emailQueue.add with the row's own job id and the delay to
\* its scheduledAt.
ScheduleEmail(r) ==
  LET added == [job EXCEPT ![<<r, next[r]>>] = "delayed"]
  IN /\ pc[r] = "enqueue"
     /\ \/ /\ job' = added
           /\ Goto(r, "record")
           /\ UNCHANGED faults
        \/ /\ Fault("queue")
           /\ job' \in {job, added}
           /\ Goto(r, OnQueueError(r))
     /\ UNCHANGED <<next, committed, status, bullJobId>>

\* Mutant: the loop ends one row early.
BugIsLast(r) == next[r] + 1 >= N

IsLast(r) == next[r] = N

\* Mutant: the whole row that the loop read is written back.
BugUpdatedRow(r) == [status EXCEPT ![<<r, next[r]>>] = "scheduled"]

\* prisma.email.update({data: {bullJobId}}) touches no other column.
UpdatedRow(r) == status

\* setEmailBullJobId, and the loop's next turn or the answer 201.
SetEmailBullJobId(r) ==
  LET recorded == bullJobId \cup {<<r, next[r]>>}
  IN /\ pc[r] = "record"
     /\ \/ /\ bullJobId' = recorded
           /\ status' = UpdatedRow(r)
           /\ next' = [next EXCEPT ![r] = IF IsLast(r) THEN @ ELSE @ + 1]
           /\ Goto(r, IF IsLast(r) THEN "created" ELSE "enqueue")
           /\ UNCHANGED faults
        \/ /\ Fault("db")
           /\ bullJobId' \in {bullJobId, recorded}
           /\ Goto(r, "error")
           /\ UNCHANGED <<next, status>>
     /\ UNCHANGED <<committed, job>>

\* The API process crashes, with every request in it.  A transaction that was
\* under way is committed or not.
Crash ==
  /\ Fault("crash")
  /\ \E r \in Requests : pc[r] \in Running
  /\ committed' \in {committed \cup done :
                       done \in SUBSET {r \in Requests : pc[r] = "create"}}
  /\ pc' = [r \in Requests |-> IF pc[r] \in Running THEN "dead" ELSE pc[r]]
  /\ UNCHANGED <<next, status, bullJobId, job>>

-----------------------------------------------------------------------------
(* The worker, as far as the loop can see it: a job that was added moves     *)
(* through BullMQ's sets, and its row with it.                               *)

Work(row) ==
  /\ job[row] # "none"
  /\ \E state \in JobStates : job' = [job EXCEPT ![row] = state]
  /\ \E new \in EmailStatus : status' = [status EXCEPT ![row] = new]
  /\ UNCHANGED <<pc, next, committed, bullJobId, faults>>

Init ==
  /\ pc = [r \in Requests |-> "new"]
  /\ next = [r \in Requests |-> 1]
  /\ committed = {}
  /\ status = [row \in Rows |-> "scheduled"]
  /\ bullJobId = {}
  /\ job = [row \in Rows |-> "none"]
  /\ faults = 0

CreateCampaign(r) ==
  Receive(r) \/ CreateWithEmails(r) \/ ScheduleEmail(r) \/ SetEmailBullJobId(r)

Next ==
  \/ \E r \in Requests : CreateCampaign(r)
  \/ Crash
  \/ \E row \in Rows : Work(row)

Spec == Init /\ [][Next]_vars

-----------------------------------------------------------------------------
(* Properties *)

\* Every variable has its type, and only a committed campaign gets past its
\* creation.
TypeOK ==
  /\ pc \in [Requests -> {"new"} \cup Running \cup Ended]
  /\ next \in [Requests -> 1..N]
  /\ committed \subseteq Requests
  /\ status \in [Rows -> EmailStatus]
  /\ bullJobId \subseteq Rows
  /\ job \in [Rows -> JobStates \cup {"none"}]
  /\ faults \in 0..MaxFaults
  /\ \A r \in Requests : pc[r] \in {"enqueue", "record", "created"} => r \in committed

\* A worker never finds a job whose row is not committed.
JobHasRow == \A row \in Rows : job[row] # "none" => row[1] \in committed

\* Jobs are added in the campaign's order: an interrupted request leaves the
\* rows of a tail without jobs, never one in the middle.
JobsAreAPrefix ==
  \A r \in Requests, i, j \in 1..N :
    i < j /\ job[<<r, j>>] # "none" => job[<<r, i>>] # "none"

\* The answer 201 means that every row has its job and the job's id.
CreatedIsComplete ==
  \A r \in Requests, i \in 1..N :
    pc[r] = "created" => job[<<r, i>>] # "none" /\ <<r, i>> \in bullJobId
=============================================================================
