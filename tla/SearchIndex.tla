----------------------------- MODULE SearchIndex -----------------------------
(***************************************************************************)
(* The Elasticsearch copy of the Email rows.  Two writers index an email,  *)
(* each right after a write of its own to PostgreSQL and with the row that *)
(* write returned: createCampaign in the API process (setEmailBullJobId)   *)
(* and the worker (markSent, resetAfterTransientFailure, markFailed,       *)
(* deferEmail).  indexEmail first awaits the process's ensureIndexPromise, *)
(* which is created once and kept, resolved or rejected; every error of    *)
(* indexEmail is logged and swallowed.                                     *)
(*                                                                         *)
(* Each turn of the worker with an email, from the claim to the end of     *)
(* process(job), is a writer of its own: a slot that has lost the job's    *)
(* lock may still await its index call when another slot claims the row.   *)
(* Which turn is the job's last attempt (willRetry) is left open here.     *)
(***************************************************************************)
EXTENDS Naturals

CONSTANTS
  Emails,     \* Email rows
  Api,        \* the API process
  Hosts,      \* the processes that run worker slots
  MaxTurns,   \* bound on the worker's turns with one email
  MaxFaults   \* bound on the faults of each kind

\* "es": a call of Elasticsearch fails, in vain or not; "db": an await of
\* createCampaign or of the worker on PostgreSQL (or Redis) rejects, whether
\* its write was committed or not; "crash": a process crashes.
FaultKinds == {"es", "db", "crash"}

ASSUME SearchIndexAssumption ==
  /\ MaxTurns \in Nat
  /\ MaxFaults \in [FaultKinds -> Nat]

Processes == Hosts \cup {Api}
Turns     == 1..MaxTurns
Calls     == Emails \X (0..MaxTurns)   \* <<e, 0>> is createCampaign's, <<e, t>> turn t's

VARIABLES
  indexExists,  \* Elasticsearch has the index "emails"
  promise,      \* ensureIndexPromise of each process
  doc,          \* the status in the email's document, or "absent"
  status,       \* Email.status
  delivered,    \* the emails that SMTP has accepted
  pc,           \* where the writer stands
  snapshot,     \* Email.status in the row handed to indexEmail
  host,         \* the process of each writer
  overlapped,   \* history: emails claimed with another writer of theirs at work
  faults        \* faults so far, of each kind

vars == <<indexExists, promise, doc, status, delivered, pc, snapshot, host, overlapped, faults>>

index  == <<indexExists, doc>>
worker == <<delivered, host, overlapped>>

Status   == {"scheduled", "processing", "sent", "failed"}
Promises == {"none", "exists", "create", "resolved", "rejected"}
Owning   == {"claimed", "markSent", "catch"}
Labels   == {"new", "ensure", "index", "done"} \cup Owning

Never(kinds) == \A kind \in kinds : faults[kind] = 0

Fault(kind) ==
  /\ faults[kind] < MaxFaults[kind]
  /\ faults' = [faults EXCEPT ![kind] = @ + 1]

\* The writer's code after its call of indexEmail: the loop's next row, or the
\* end of process(job).
Resume(c) ==
  /\ pc' = [pc EXCEPT ![c] = "done"]
  /\ snapshot' = [snapshot EXCEPT ![c] = "scheduled"]

\* Mutant: the row read before the write is handed over.
BugHand(c, rowStatus) ==
  /\ pc' = [pc EXCEPT ![c] = "ensure"]
  /\ snapshot' = [snapshot EXCEPT ![c] = status[c[1]]]

\* Hand the row that a database write returned to indexEmail.
Hand(c, rowStatus) ==
  /\ pc' = [pc EXCEPT ![c] = "ensure"]
  /\ snapshot' = [snapshot EXCEPT ![c] = rowStatus]

Row(e, new) == [status EXCEPT ![e] = new]

\* Mutant: the row is handed over as it should become, and the write may fail.
BugSettle(c, new) ==
  /\ status' \in {status, Row(c[1], new)}
  /\ Hand(c, new)
  /\ UNCHANGED faults

\* A write of the row, and the row handed over.
Settle(c, new) ==
  /\ status' = Row(c[1], new)
  /\ Hand(c, new)
  /\ UNCHANGED faults

\* The write rejects, committed or not, and the code goes on at next without an
\* index call.
Unheard(c, new, next) ==
  /\ Fault("db")
  /\ status' \in {status, Row(c[1], new)}
  /\ pc' = [pc EXCEPT ![c] = next]
  /\ UNCHANGED snapshot

-----------------------------------------------------------------------------
(* The writers *)

\* The loop of createCampaign: bullJobId is set, and the row that the update
\* returns has whatever status a worker has given it by now.
SetEmailBullJobId(e) ==
  LET c == <<e, 0>>
  IN /\ pc[c] = "new"
     /\ Settle(c, status[e]) \/ Unheard(c, status[e], "done")
     /\ UNCHANGED <<index, promise, worker>>

\* No turn with the email is under way.
Free(e) == \A t \in Turns : pc[<<e, t>>] \in {"new", "done"}

\* The job is due, or another slot has it after a lost lock: a slot of some
\* process claims the row.  No index call.
ClaimScheduled(e, t, p) ==
  LET c == <<e, t>>
  IN /\ pc[c] = "new"
     /\ \A s \in 1..(t - 1) : pc[<<e, s>>] # "new"
     /\ status[e] = "scheduled"
     /\ host' = [host EXCEPT ![c] = p]
     /\ overlapped' = IF pc[<<e, 0>>] = "done" /\ Free(e) THEN overlapped ELSE overlapped \cup {e}
     /\ \/ /\ status' = Row(e, "processing")
           /\ pc' = [pc EXCEPT ![c] = "claimed"]
           /\ UNCHANGED <<snapshot, faults>>
        \/ Unheard(c, "processing", "done")
     /\ UNCHANGED <<index, promise, delivered>>

\* A limit refuses, and deferEmail gives the row up.  When that write rejects,
\* or a reservation or the Slack lookup before it, process(job) throws.
DeferJob(c) ==
  /\ pc[c] = "claimed"
  /\ Settle(c, "scheduled") \/ Unheard(c, "scheduled", "done")
  /\ UNCHANGED <<index, promise, worker>>

\* sender.send: accepted; or rejected, which an accepted message whose answer
\* is lost looks like.
Send(c) ==
  /\ pc[c] = "claimed"
  /\ \/ /\ delivered' = delivered \cup {c[1]}
        /\ pc' = [pc EXCEPT ![c] = "markSent"]
     \/ /\ delivered' \in {delivered, delivered \cup {c[1]}}
        /\ pc' = [pc EXCEPT ![c] = "catch"]
  /\ UNCHANGED <<index, promise, status, snapshot, host, overlapped, faults>>

\* A markSent that rejects lands in the catch block.
MarkSent(c) ==
  /\ pc[c] = "markSent"
  /\ Settle(c, "sent") \/ Unheard(c, "sent", "catch")
  /\ UNCHANGED <<index, promise, worker>>

\* The catch block: resetAfterTransientFailure or markFailed, by id only.
Catch(c) ==
  /\ pc[c] = "catch"
  /\ \E new \in {"scheduled", "failed"} : Settle(c, new) \/ Unheard(c, new, "done")
  /\ UNCHANGED <<index, promise, worker>>

-----------------------------------------------------------------------------
(* ElasticsearchService *)

\* Mutant: indexEmail rethrows.  In the worker the error lands in the catch
\* block of sendClaimedEmail, which resets the row for a retry.
BugAfterIndexError(c) ==
  IF c[2] # 0 THEN Row(c[1], "scheduled") ELSE status

\* indexEmail logs the error and returns.
AfterIndexError(c) == status

IndexError(c) ==
  /\ Resume(c)
  /\ status' = AfterIndexError(c)

\* Mutant: the promise is not awaited.
BugIndexReady(c) == promise[host[c]] \in {"exists", "create", "resolved"}

IndexReady(c) == promise[host[c]] = "resolved"

\* The memoised promise decides.  Without one, createIndexIfMissing starts.
EnsureIndex(c) ==
  /\ pc[c] = "ensure"
  /\ \/ /\ promise[host[c]] = "none"
        /\ promise' = [promise EXCEPT ![host[c]] = "exists"]
        /\ UNCHANGED <<status, pc, snapshot>>
     \/ /\ IndexReady(c)
        /\ pc' = [pc EXCEPT ![c] = "index"]
        /\ UNCHANGED <<status, promise, snapshot>>
     \/ /\ promise[host[c]] = "rejected"
        /\ IndexError(c)
        /\ UNCHANGED promise
  /\ UNCHANGED <<index, worker, faults>>

\* GET /api/emails/search also awaits ensureIndex before it searches.
SearchEmails ==
  /\ promise[Api] = "none"
  /\ promise' = [promise EXCEPT ![Api] = "exists"]
  /\ UNCHANGED <<index, status, pc, snapshot, worker, faults>>

IndicesExists(p) ==
  /\ promise[p] = "exists"
  /\ \/ /\ promise' = [promise EXCEPT ![p] = IF indexExists THEN "resolved" ELSE "create"]
        /\ UNCHANGED faults
     \/ /\ Fault("es")
        /\ promise' = [promise EXCEPT ![p] = "rejected"]
  /\ UNCHANGED <<index, status, pc, snapshot, worker>>

\* indices.create rejects when the index exists by now.
IndicesCreate(p) ==
  /\ promise[p] = "create"
  /\ \/ /\ promise' = [promise EXCEPT ![p] = IF indexExists THEN "rejected" ELSE "resolved"]
        /\ indexExists' = TRUE
        /\ UNCHANGED faults
     \/ /\ Fault("es")
        /\ promise' = [promise EXCEPT ![p] = "rejected"]
        /\ indexExists' \in {indexExists, TRUE}
  /\ UNCHANGED <<doc, status, pc, snapshot, worker>>

\* client.index replaces the document; on an error it may have done so.
IndexEmail(c) ==
  LET written == [doc EXCEPT ![c[1]] = snapshot[c]]
  IN /\ pc[c] = "index"
     /\ \/ /\ doc' = written
           /\ Resume(c)
           /\ UNCHANGED <<status, faults>>
        \/ /\ Fault("es")
           /\ doc' \in {doc, written}
           /\ IndexError(c)
     /\ UNCHANGED <<indexExists, promise, worker>>

-----------------------------------------------------------------------------
\* A process crashes and starts again: its promise and its writers are gone.
\* The row of a turn that had it claimed stays as it is.
Crash(p) ==
  LET gone == {c \in Calls : host[c] = p /\ (c[2] = 0 \/ pc[c] # "new")}
  IN /\ Fault("crash")
     /\ promise' = [promise EXCEPT ![p] = "none"]
     /\ pc' = [c \in Calls |-> IF c \in gone THEN "done" ELSE pc[c]]
     /\ snapshot' = [c \in Calls |-> IF c \in gone THEN "scheduled" ELSE snapshot[c]]
     /\ UNCHANGED <<index, status, worker>>

Init ==
  /\ indexExists = FALSE
  /\ promise = [p \in Processes |-> "none"]
  /\ doc = [e \in Emails |-> "absent"]
  /\ status = [e \in Emails |-> "scheduled"]
  /\ delivered = {}
  /\ pc = [c \in Calls |-> "new"]
  /\ snapshot = [c \in Calls |-> "scheduled"]
  /\ host = [c \in Calls |-> Api]
  /\ overlapped = {}
  /\ faults = [kind \in FaultKinds |-> 0]

Quiet(e) == pc[<<e, 0>>] = "done" /\ Free(e)

\* Every campaign is scheduled and no job is left to run.
Finished ==
  /\ \A e \in Emails :
       /\ Quiet(e)
       /\ status[e] = "scheduled" => \A t \in Turns : pc[<<e, t>>] = "done"
  /\ \A p \in Processes : promise[p] \in {"none", "resolved", "rejected"}
  /\ UNCHANGED vars

Next ==
  \/ \E e \in Emails :
       \/ SetEmailBullJobId(e)
       \/ \E t \in Turns, p \in Hosts : ClaimScheduled(e, t, p)
  \/ \E c \in Calls :
       \/ DeferJob(c) \/ Send(c) \/ MarkSent(c) \/ Catch(c)
       \/ EnsureIndex(c) \/ IndexEmail(c)
  \/ SearchEmails
  \/ \E p \in Processes : IndicesExists(p) \/ IndicesCreate(p) \/ Crash(p)
  \/ Finished

Spec == Init /\ [][Next]_vars
-----------------------------------------------------------------------------
(* Properties *)

\* Every variable has its type, and a document exists only in an index.
TypeOK ==
  /\ indexExists \in BOOLEAN
  /\ promise \in [Processes -> Promises]
  /\ doc \in [Emails -> Status \cup {"absent"}]
  /\ status \in [Emails -> Status]
  /\ delivered \in SUBSET Emails
  /\ pc \in [Calls -> Labels]
  /\ snapshot \in [Calls -> Status]
  /\ host \in [Calls -> Processes]
  /\ overlapped \in SUBSET Emails
  /\ faults \in [FaultKinds -> Nat]
  /\ \A e \in Emails : doc[e] # "absent" => indexExists

\* The index announces no outcome that did not happen, whichever writer comes
\* last and whatever fails.  "failed" is what the row says, "sent" is of an
\* email that SMTP accepted, and it is what the row says, too, as long as no
\* database answer is lost: a markSent that was not heard is taken back by the
\* catch block, possibly after createCampaign has read the row as "sent".
OutcomesAreTrue ==
  \A e \in Emails :
    /\ doc[e] = "failed" => status[e] = "failed"
    /\ doc[e] = "sent" => e \in delivered
    /\ doc[e] = "sent" /\ Never({"db"}) => status[e] = "sent"

\* Trouble with Elasticsearch never reopens an email, although indexEmail is
\* awaited inside the try block of sendClaimedEmail, whose catch resets the
\* row: a settled row is taken back only by a turn that stood in the catch
\* block already, before it called indexEmail.
OutcomesStay ==
  [][\A e \in Emails :
       status[e] \in {"sent", "failed"} /\ status'[e] # status[e]
         => \E t \in Turns : pc[<<e, t>>] = "catch"]_vars

\* As long as nothing failed, two things keep a row's last status out of the
\* index.  One is a job claimed while another writer of its row was at work:
\* createCampaign, or a slot that lost the lock.  The other is a process that
\* lost the race to create the index, and without such a job there is none.
IndexAgrees ==
  Never(FaultKinds) =>
    /\ (\A p \in Processes : promise[p] # "rejected") =>
         \A e \in Emails \ overlapped : Quiet(e) => doc[e] = status[e]
    /\ overlapped = {} => \A p \in Processes : promise[p] # "rejected"

\* README.md:131: emails are "updated after sent/failed state changes".  With
\* Elasticsearch up, a settled email is in the index as it ended.
SettledIsIndexed ==
  \A e \in Emails : Quiet(e) /\ status[e] \in {"sent", "failed"} => doc[e] = status[e]
=============================================================================
