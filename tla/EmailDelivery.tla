---------------------------- MODULE EmailDelivery ----------------------------
(***************************************************************************)
(* The delivery of scheduled emails: EmailWorker.process, run by the       *)
(* worker slots of one or more processes, against the Email rows of        *)
(* PostgreSQL and the BullMQ jobs "email-<id>" of Redis.                   *)
(*                                                                         *)
(* One step of a slot is the code between two awaits.  A slot can be       *)
(* overtaken at every await; a process can crash or be told to stop; a     *)
(* job's lock can expire under a slot that still runs; a database write    *)
(* can fail, or commit while its answer is lost; SMTP can accept a message *)
(* and lose the answer.  Each of these is a fault of a named kind.         *)
(***************************************************************************)
EXTENDS Naturals, FiniteSets

CONSTANTS
  Emails,       \* Email rows, each with its one job
  Workers,      \* worker slots (WORKER_CONCURRENCY of them in each process)
  Processes,    \* the partition of the slots into processes
  Attempts,     \* defaultJobOptions.attempts
  MaxStalled,   \* BullMQ's maxStalledCount
  MaxFaults,    \* bound on the faults of each kind in a behaviour
  None          \* "no slot" and "no email"

FaultKinds == {"db", "smtp", "crash", "lock", "stop"}

ASSUME ConstantsAssumption ==
  /\ None \notin Workers
  /\ None \notin Emails
  /\ Processes \subseteq SUBSET Workers
  /\ UNION Processes = Workers
  /\ Attempts \in Nat \ {0}
  /\ MaxStalled \in Nat
  /\ MaxFaults \in [FaultKinds -> Nat]

VARIABLES
  status,        \* Email.status
  deliveries,    \* history: how often SMTP accepted the email
  jobState,      \* which BullMQ set the job is in
  attemptsMade,  \* the job's counted attempts in Redis
  stalledCount,  \* how often BullMQ found the job stalled
  lockedBy,      \* the slot whose token holds the job's lock
  pc,            \* the await at which a slot's process(job) stands
  current,       \* the email whose job a slot processes
  made,          \* job.attemptsMade of the slot's Job object, read at fetch
  closing,       \* processes that received SIGTERM or SIGINT
  faults         \* faults of each kind so far

vars == <<status, deliveries, jobState, attemptsMade, stalledCount, lockedBy,
          pc, current, made, closing, faults>>

row     == <<status, deliveries>>
job     == <<jobState, attemptsMade, stalledCount, lockedBy>>
slot    == <<current, made>>

EmailStatus == {"scheduled", "processing", "sent", "failed"}

\* BullMQ's sets; "none" is for a job that was not added yet.
JobStates == {"none", "delayed", "waiting", "active", "completed", "failed"}

\* The awaits at which a slot is the email's owner: the claim succeeded and
\* the write that gives the row up has not been made.
OwnerLabels == {"minDelay", "hourly", "notify", "defer", "send", "markSent", "catch"}
Labels      == OwnerLabels \cup
               {"idle", "find", "claim", "moveToDelayed", "throw", "complete"}

-----------------------------------------------------------------------------
(* Helpers *)

Goto(w, label) == pc' = [pc EXCEPT ![w] = label]

Fault(kind) ==
  /\ faults[kind] < MaxFaults[kind]
  /\ faults' = [faults EXCEPT ![kind] = @ + 1]

\* No fault of these kinds has happened.
Never(kinds) == \A kind \in kinds : faults[kind] = 0

Owns(w, e)  == current[w] = e /\ pc[w] \in OwnerLabels
IsClosing(w) == \E p \in closing : w \in p

\* The slot's promise settled: BullMQ looks for the next job.
Release(w) ==
  /\ Goto(w, "idle")
  /\ current' = [current EXCEPT ![w] = None]
  /\ made' = [made EXCEPT ![w] = 0]

\* prisma.email.update({where: {id}, data: {status: new}}): it commits; or it
\* fails before it commits; or it commits and its answer is lost.
UpdateStatus(w, new, next, onError) ==
  LET written == [status EXCEPT ![current[w]] = new]
  IN \/ /\ status' = written
        /\ Goto(w, next)
        /\ UNCHANGED faults
     \/ /\ Fault("db")
        /\ status' \in {status, written}
        /\ Goto(w, onError)

-----------------------------------------------------------------------------
(* BullMQ: the queue as emailQueue.ts and the Worker of emailWorker.ts use it *)

\* A delayed job's time comes: its scheduledAt, a deferral or a backoff.
Promote(e) ==
  /\ jobState[e] = "delayed"
  /\ jobState' = [jobState EXCEPT ![e] = "waiting"]
  /\ UNCHANGED <<row, attemptsMade, stalledCount, lockedBy, pc, slot, closing, faults>>

StalledTooOften(e) == stalledCount[e] > MaxStalled

\* A free slot of a running process takes a waiting job and its lock.
Fetch(w, e) ==
  /\ pc[w] = "idle"
  /\ ~IsClosing(w)
  /\ jobState[e] = "waiting"
  /\ ~StalledTooOften(e)
  /\ jobState' = [jobState EXCEPT ![e] = "active"]
  /\ lockedBy' = [lockedBy EXCEPT ![e] = w]
  /\ Goto(w, "find")
  /\ current' = [current EXCEPT ![w] = e]
  /\ made' = [made EXCEPT ![w] = attemptsMade[e]]
  /\ UNCHANGED <<row, attemptsMade, stalledCount, closing, faults>>

\* A job that stalled more than MaxStalled times is failed when a slot takes
\* it; process(job) is not called.
FailStalled(w, e) ==
  /\ pc[w] = "idle"
  /\ ~IsClosing(w)
  /\ jobState[e] = "waiting"
  /\ StalledTooOften(e)
  /\ jobState' = [jobState EXCEPT ![e] = "failed"]
  /\ attemptsMade' = [attemptsMade EXCEPT ![e] = @ + 1]
  /\ UNCHANGED <<row, stalledCount, lockedBy, pc, slot, closing, faults>>

\* The lock expires while its slot still runs (a blocked event loop, a Redis
\* partition longer than the lock's duration).
LoseLock(e) ==
  /\ Fault("lock")
  /\ jobState[e] = "active"
  /\ lockedBy[e] # None
  /\ lockedBy' = [lockedBy EXCEPT ![e] = None]
  /\ UNCHANGED <<row, jobState, attemptsMade, stalledCount, pc, slot, closing>>

\* BullMQ's stalled check returns an active job without a lock to the queue.
Stall(e) ==
  /\ jobState[e] = "active"
  /\ lockedBy[e] = None
  /\ jobState' = [jobState EXCEPT ![e] = "waiting"]
  /\ stalledCount' = [stalledCount EXCEPT ![e] = @ + 1]
  /\ UNCHANGED <<row, attemptsMade, lockedBy, pc, slot, closing, faults>>

\* process(job) returned: the job completes if the slot still holds its lock.
Complete(w) ==
  /\ pc[w] = "complete"
  /\ LET e == current[w]
     IN IF lockedBy[e] = w
        THEN /\ jobState' = [jobState EXCEPT ![e] = "completed"]
             /\ lockedBy' = [lockedBy EXCEPT ![e] = None]
        ELSE UNCHANGED <<jobState, lockedBy>>
  /\ Release(w)
  /\ UNCHANGED <<row, attemptsMade, stalledCount, closing, faults>>

\* process(job) threw: a counted attempt, with backoff while attempts remain.
\* BullMQ decides with the Job object's attemptsMade and needs the lock.
Throw(w) ==
  /\ pc[w] = "throw"
  /\ LET e == current[w]
     IN IF lockedBy[e] = w
        THEN /\ jobState' = [jobState EXCEPT
                  ![e] = IF made[w] + 1 < Attempts THEN "delayed" ELSE "failed"]
             /\ attemptsMade' = [attemptsMade EXCEPT ![e] = @ + 1]
             /\ lockedBy' = [lockedBy EXCEPT ![e] = None]
        ELSE UNCHANGED <<jobState, attemptsMade, lockedBy>>
  /\ Release(w)
  /\ UNCHANGED <<row, stalledCount, closing, faults>>

-----------------------------------------------------------------------------
(* EmailWorker.process *)

FindForWorker(w) ==
  /\ pc[w] = "find"
  /\ \/ /\ Goto(w, IF status[current[w]] = "sent" THEN "complete" ELSE "claim")
        /\ UNCHANGED faults
     \/ /\ Fault("db")
        /\ Goto(w, "throw")
  /\ UNCHANGED <<row, job, slot, closing>>

\* Mutant: the update matches every row that is not sent.
BugCanClaim(e) == status[e] # "sent"

\* The WHERE of claimScheduled.
CanClaim(e) == status[e] = "scheduled"

ClaimScheduled(w) ==
  /\ pc[w] = "claim"
  /\ IF CanClaim(current[w])
     THEN UpdateStatus(w, "processing", "minDelay", "throw")
     ELSE /\ UNCHANGED status
          /\ \/ Goto(w, "complete") /\ UNCHANGED faults
             \/ Fault("db") /\ Goto(w, "throw")
  /\ UNCHANGED <<deliveries, job, slot, closing>>

\* The limiter's answer; it throws once shutdown() has quit the shared Redis
\* connection.  Which answer it gives is the subject of modules MinimumDelay and
\* HourlyLimit.
ReserveMinimumDelay(w, allowed) ==
  /\ pc[w] = "minDelay"
  /\ \/ IsClosing(w) /\ Goto(w, "throw")
     \/ ~IsClosing(w) /\ allowed /\ Goto(w, "hourly")
     \/ ~IsClosing(w) /\ ~allowed /\ Goto(w, "defer")
  /\ UNCHANGED <<row, job, slot, closing, faults>>

ReserveHourlySlot(w, allowed) ==
  /\ pc[w] = "hourly"
  /\ \/ IsClosing(w) /\ Goto(w, "throw")
     \/ ~IsClosing(w) /\ allowed /\ Goto(w, "send")
     \/ ~IsClosing(w) /\ ~allowed /\ Goto(w, "notify")
  /\ UNCHANGED <<row, job, slot, closing, faults>>

\* shouldNotifyRateLimit, then sendRateLimitNotification: Slack's own errors
\* are swallowed, the lookup of the connection is not.
NotifyRateLimit(w) ==
  /\ pc[w] = "notify"
  /\ \/ /\ Goto(w, IF IsClosing(w) THEN "throw" ELSE "defer")
        /\ UNCHANGED faults
     \/ /\ Fault("db")
        /\ Goto(w, "throw")
  /\ UNCHANGED <<row, job, slot, closing>>

DeferEmail(w) ==
  /\ pc[w] = "defer"
  /\ UpdateStatus(w, "scheduled", "moveToDelayed", "throw")
  /\ UNCHANGED <<deliveries, job, slot, closing>>

\* Mutant: DelayedError is thrown without the call before it.
BugMoveToDelayed(w) ==
  /\ pc[w] = "moveToDelayed"
  /\ Release(w)
  /\ UNCHANGED <<row, job, closing, faults>>

\* job.moveToDelayed needs the lock.  With it the attempt is not counted and
\* the DelayedError that follows only ends the slot's turn; without it the
\* call throws.
MoveToDelayed(w) ==
  /\ pc[w] = "moveToDelayed"
  /\ LET e == current[w]
     IN IF lockedBy[e] = w
        THEN /\ jobState' = [jobState EXCEPT ![e] = "delayed"]
             /\ lockedBy' = [lockedBy EXCEPT ![e] = None]
             /\ Release(w)
        ELSE /\ Goto(w, "throw")
             /\ UNCHANGED <<jobState, lockedBy, slot>>
  /\ UNCHANGED <<row, attemptsMade, stalledCount, closing, faults>>

\* Mutant: a rejected message is logged and recorded as sent all the same.
BugAfterRejection == "markSent"

AfterRejection == "catch"

\* sender.send: accepted; rejected; or accepted and the answer lost.
Send(w) ==
  /\ pc[w] = "send"
  /\ \/ /\ Goto(w, "markSent")
        /\ deliveries' = [deliveries EXCEPT ![current[w]] = @ + 1]
        /\ UNCHANGED faults
     \/ /\ Goto(w, AfterRejection)
        /\ UNCHANGED <<deliveries, faults>>
     \/ /\ Fault("smtp")
        /\ Goto(w, "catch")
        /\ deliveries' = [deliveries EXCEPT ![current[w]] = @ + 1]
  /\ UNCHANGED <<status, job, slot, closing>>

MarkSent(w) ==
  /\ pc[w] = "markSent"
  /\ UpdateStatus(w, "sent", "complete", "catch")
  /\ UNCHANGED <<deliveries, job, slot, closing>>

\* Mutant: attemptsMade read as if it counted the running attempt already.
BugWillRetryEarly(w) == made[w] + 2 < Attempts

\* Mutant: one retry more than BullMQ will make.
BugWillRetryLate(w) == made[w] < Attempts

WillRetry(w) == made[w] + 1 < Attempts

\* Mutant: a transient failure goes back through the deferral path, which
\* counts no attempt.
BugAfterReset == "moveToDelayed"

\* After the catch block's write the error is thrown again.
AfterReset == "throw"

Catch(w) ==
  /\ pc[w] = "catch"
  /\ IF WillRetry(w)
     THEN UpdateStatus(w, "scheduled", AfterReset, "throw")
     ELSE UpdateStatus(w, "failed", "throw", "throw")
  /\ UNCHANGED <<deliveries, job, slot, closing>>

-----------------------------------------------------------------------------
(* Processes *)

Busy(p) == {w \in p : pc[w] # "idle"}

\* All slots of a process vanish; the locks they hold will expire.
Crash(p) ==
  /\ Fault("crash")
  /\ Busy(p) # {}
  /\ pc' = [w \in Workers |-> IF w \in p THEN "idle" ELSE pc[w]]
  /\ current' = [w \in Workers |-> IF w \in p THEN None ELSE current[w]]
  /\ made' = [w \in Workers |-> IF w \in p THEN 0 ELSE made[w]]
  /\ lockedBy' = [e \in Emails |-> IF lockedBy[e] \in p THEN None ELSE lockedBy[e]]
  /\ closing' = closing \ {p}
  /\ UNCHANGED <<row, jobState, attemptsMade, stalledCount>>

\* SIGTERM: worker.close() takes no new job and waits for the running ones,
\* while getRedisConnection().quit() ends the connection they reserve through.
Shutdown(p) ==
  /\ p \notin closing
  /\ Fault("stop")
  /\ closing' = closing \cup {p}
  /\ UNCHANGED <<row, job, pc, slot>>

\* worker.close() resolved: process.exit(0), and the process is started again.
ExitAndRestart(p) ==
  /\ p \in closing
  /\ Busy(p) = {}
  /\ closing' = closing \ {p}
  /\ UNCHANGED <<row, job, pc, slot, faults>>

-----------------------------------------------------------------------------
(* Specification *)

Init ==
  /\ status = [e \in Emails |-> "scheduled"]
  /\ deliveries = [e \in Emails |-> 0]
  /\ jobState = [e \in Emails |-> "delayed"]
  /\ attemptsMade = [e \in Emails |-> 0]
  /\ stalledCount = [e \in Emails |-> 0]
  /\ lockedBy = [e \in Emails |-> None]
  /\ pc = [w \in Workers |-> "idle"]
  /\ current = [w \in Workers |-> None]
  /\ made = [w \in Workers |-> 0]
  /\ closing = {}
  /\ faults = [kind \in FaultKinds |-> 0]

Process(w) ==
  \/ FindForWorker(w)
  \/ ClaimScheduled(w)
  \/ \E allowed \in BOOLEAN : ReserveMinimumDelay(w, allowed)
  \/ \E allowed \in BOOLEAN : ReserveHourlySlot(w, allowed)
  \/ NotifyRateLimit(w)
  \/ DeferEmail(w)
  \/ MoveToDelayed(w)
  \/ Send(w)
  \/ MarkSent(w)
  \/ Catch(w)
  \/ Complete(w)
  \/ Throw(w)

Queue(e) == Promote(e) \/ LoseLock(e) \/ Stall(e)

Take(w, e) == Fetch(w, e) \/ FailStalled(w, e)

System(p) == Crash(p) \/ Shutdown(p) \/ ExitAndRestart(p)

\* Nothing is left to do: every job has finished and every slot is free.
Finished ==
  /\ \A e \in Emails : jobState[e] \in {"completed", "failed"}
  /\ \A w \in Workers : pc[w] = "idle"
  /\ UNCHANGED vars

Next ==
  \/ \E w \in Workers : Process(w)
  \/ \E e \in Emails : Queue(e)
  \/ \E w \in Workers, e \in Emails : Take(w, e)
  \/ \E p \in Processes : System(p)
  \/ Finished

Spec == Init /\ [][Next]_vars

(***************************************************************************)
(* Fairness.  A running slot's promise settles (every await has a timeout  *)
(* or a reconnecting client).  BullMQ promotes due jobs, repeats its       *)
(* stalled check and hands a waiting job to a free slot; other jobs may be *)
(* taken first, so that is strong fairness.  The limiter is strongly fair: *)
(* a job that asks again and again is let through, which is what module    *)
(* Limits shows of the two limits (EventuallyThrough).                     *)
(***************************************************************************)
Fairness ==
  /\ \A w \in Workers : /\ WF_vars(Process(w))
                        /\ SF_vars(ReserveMinimumDelay(w, TRUE))
                        /\ SF_vars(ReserveHourlySlot(w, TRUE))
  /\ \A e \in Emails : /\ WF_vars(Promote(e))
                       /\ WF_vars(Stall(e))
                       /\ SF_vars(\E w \in Workers : Take(w, e))
  /\ \A p \in Processes : WF_vars(ExitAndRestart(p))

FairSpec == Spec /\ Fairness
-----------------------------------------------------------------------------
(* Properties *)

LocksAreHeld == \A e \in Emails : lockedBy[e] # None => current[lockedBy[e]] = e

\* Every variable has its type; a slot has an email exactly while it is busy
\* with one; and a job's lock is held by the slot that runs it or by nobody:
\* no way out of process(job) leaves a lock behind that would never expire.
TypeOK ==
  /\ status \in [Emails -> EmailStatus]
  /\ deliveries \in [Emails -> Nat]
  /\ jobState \in [Emails -> JobStates]
  /\ attemptsMade \in [Emails -> Nat]
  /\ stalledCount \in [Emails -> Nat]
  /\ lockedBy \in [Emails -> Workers \cup {None}]
  /\ pc \in [Workers -> Labels]
  /\ current \in [Workers -> Emails \cup {None}]
  /\ made \in [Workers -> Nat]
  /\ closing \in SUBSET Processes
  /\ faults \in [FaultKinds -> Nat]
  /\ \A w \in Workers : pc[w] = "idle" <=> current[w] = None
  /\ LocksAreHeld

\* The conditional claim makes at most one slot the owner of an email, even
\* when the job's lock is lost and two slots run the same job.
OneOwner ==
  \A e \in Emails : \A v, w \in Workers : Owns(v, e) /\ Owns(w, e) => v = w

\* While a slot owns an email nobody else has moved its row: the row is
\* "processing", or it is "sent" because the owner's own markSent committed
\* and reported an error.
OwnedRow ==
  \A w \in Workers, e \in Emails :
    Owns(w, e) => \/ status[e] = "processing"
                  \/ status[e] = "sent" /\ pc[w] = "catch"

\* No email is recorded as sent that SMTP never accepted.
SentMeansDelivered ==
  /\ \A e \in Emails : status[e] = "sent" => deliveries[e] > 0
  /\ \A w \in Workers : pc[w] = "markSent" => deliveries[current[w]] > 0

\* A slot's copy of attemptsMade never runs ahead of the job's.
MadeBehind ==
  \A w \in Workers, e \in Emails : current[w] = e => made[w] <= attemptsMade[e]

\* markFailed is the last attempt's verdict: no email is failed while BullMQ
\* still owes its job an attempt before the current one.
FailedMeansExhausted ==
  \A e \in Emails : status[e] = "failed" => attemptsMade[e] + 1 >= Attempts

\* Whatever goes wrong, the number of messages a recipient gets is bounded by
\* the attempts and the tolerated stalls: a deferral never buys another send.
DeliveryBound ==
  \A e \in Emails : deliveries[e] <= Attempts + MaxStalled

\* A recipient gets one message, and one more at most for every database write
\* that failed and every SMTP answer that was lost.  Crashes, lost locks and
\* shutdowns repeat nothing: a crash between send and markSent leaves the row
\* "processing", which no later attempt claims.
RepeatsAreLosses ==
  \A e \in Emails : deliveries[e] <= 1 + faults["db"] + faults["smtp"]

\* No recipient gets an email twice as long as neither was lost.
AtMostOnce ==
  Never({"db", "smtp"}) => \A e \in Emails : deliveries[e] <= 1

\* No email is left behind.  A scheduled row has a job that will run, as long
\* as no write fails, no process crashes and no lock is lost: the row's status
\* and BullMQ's decision to retry, made apart from each other, agree.  And a
\* claimed row has a slot that will give it up, through lost locks and lost
\* answers: only a crash, a failed write or a shutdown leaves it "processing".
NoOrphan ==
  /\ Never({"db", "crash", "lock"}) =>
       \A e \in Emails : status[e] = "scheduled" => jobState[e] \notin {"completed", "failed"}
  /\ Never({"db", "crash", "stop"}) =>
       \A e \in Emails : status[e] = "processing" => \E w \in Workers : Owns(w, e)

\* A failed email stays failed, in every step of any slot.
FailedIsFinal ==
  [][\A e \in Emails : status[e] = "failed" => status'[e] = "failed"]_vars

\* A sent email stays sent, as long as no database write fails.
SentIsFinal ==
  [][\A e \in Emails :
       status[e] = "sent" /\ Never({"db"})' => status'[e] = "sent"]_vars

\* Every email ends as sent or failed when only SMTP misbehaves.
EventuallySettled ==
  []Never({"db", "crash", "lock", "stop"}) =>
    \A e \in Emails : <>[](status[e] \in {"sent", "failed"})

\* Whatever faults happen, every job ends: no email circulates in the queue
\* for ever.
QueueDrains ==
  \A e \in Emails : <>[](jobState[e] \in {"completed", "failed"})

\* README.md:87 knows "one unavoidable distributed-system edge case: if SMTP
\* accepts the message and the process crashes before PostgreSQL records `sent`,
\* a retry may send again".  So without a crash no email is accepted twice.
TwiceOnlyAfterCrash ==
  \A e \in Emails : deliveries[e] > 1 => faults["crash"] > 0

\* README.md:85, of a job whose claim updates no row: "another worker already
\* claimed or completed the email".
ZeroRowsMeansAnotherWorker ==
  \A w \in Workers, e \in Emails :
    pc[w] = "claim" /\ current[w] = e /\ status[e] # "scheduled"
      => \/ status[e] \in {"sent", "failed"}
         \/ \E v \in Workers : Owns(v, e)

(***************************************************************************)
(* What the worker promises of an email's row, whatever the queue does.    *)
(***************************************************************************)
Lifecycle == INSTANCE EmailLifecycle WITH
  owners <- [e \in Emails |-> {w \in Workers : Owns(w, e)}]

\* EmailDelivery implements EmailLifecycle.
ImplementsLifecycle == Lifecycle!Spec
=============================================================================
