# A verification model of the ReachInbox email scheduler

TLA+ modules for the scheduling and delivery of emails by this repository, the
TLC configurations that check them on small instances, and theorems that TLAPS
proves for every instance. Paths below are relative to `src/`; `backend` stands
for `apps/backend/src`.

## The system

| Component | State | Operations | Talks to |
|---|---|---|---|
| Campaign service, `backend/services/campaignService.ts` | `Campaign` and `Email` rows (PostgreSQL) | `createCampaign`: one transaction, then a loop over the rows (add the job, record its id, index the row) | PostgreSQL, BullMQ, Elasticsearch |
| Email queue, `backend/queues/emailQueue.ts` | BullMQ jobs `email-<id>` (Redis): set, attempts, stalls, lock | `scheduleEmail`; BullMQ's own timers, locks, retries | Redis |
| Email worker, `backend/workers/emailWorker.ts` | nothing but the running calls of `process(job)`, `WORKER_CONCURRENCY` in each process | `process`, `sendClaimedEmail`, `deferJob` | all of the others |
| Rate limiter, `backend/services/rateLimitService.ts` | Redis keys: `email:send:last`, `email:rate:...`, `slack:rate-limit-notified:...` | two Lua scripts, one `SET NX` | Redis |
| Email sender, `backend/integrations/emailSender.ts` | a cached transporter | `send` | SMTP |
| Search, `backend/integrations/elasticsearch.ts` | the index `emails`; `ensureIndexPromise` of each process | `ensureIndex`, `indexEmail`, `searchEmails` | Elasticsearch, PostgreSQL |
| Slack service, `backend/services/slackService.ts` | `SlackConnection` rows | `handleCallback`, `disconnect`, `getStatus`, `sendRateLimitNotification` | PostgreSQL, Slack |
| Recipient normalization, `backend/services/recipientService.ts` and `apps/frontend/src/utils/validation.ts` | none | `normalizeRecipients`, `dedupeEmails` | each other, through the request |
| Entry points, `backend/worker.ts`, `backend/server.ts` | none | start, `shutdown` on a signal | worker, Redis |
| Dashboard, `apps/frontend/src` (`pages/Dashboard.tsx`, `hooks`, `components/dashboard`) | React state of `useAuth`, `useEmails`, `ComposeEmail`, `SlackConnection` | log out, list emails, read a lead file, submit a campaign, show and disconnect Slack | the HTTP API |
| Authentication, `backend/middleware/auth.ts`, `backend/services/authService.ts`, `backend/config/passport.ts` | the session cookie | `attachUser`, `requireAuth`, login through Google, logout | PostgreSQL, Google |
| HTTP layer, health check, configuration | none | | |

Three stores hold what the system knows of one email: its row (PostgreSQL), its
job (Redis) and its document (Elasticsearch). No transaction spans two of them,
and every operation above writes to several, with an await between any two
writes. That is where the hard behaviour is:

- **Concurrency.** Slots of several processes run jobs. BullMQ's lock normally
  keeps a job with one slot; a lost lock gives it to two. `createCampaign` still
  writes rows whose jobs run already. OAuth callbacks, disconnects and
  notifications cross. In the browser every handler awaits an answer, and the user
  clicks on meanwhile.
- **Failure.** Any await can reject, and a database write can commit while its
  answer is lost. SMTP can accept a message and lose the answer. A process can
  crash between any two steps, or be told to stop.
- **Ordering.** `createCampaign` and the worker's turns index one document without a
  version. A clock is read
  before the command that uses it runs. Answers of overlapping requests reach the
  dashboard in any order, and the last one wins.
- **Time.** Keys expire, jobs are deferred, attempts are retried with backoff.

`PROJECT.json` lists each hazard with its line and the properties aimed at it.

What makes each component correct, in short: *worker* - one owner per email,
every message too many is paid for with a lost write or answer, a row says what
happened, every email ends; *queue* - a scheduled row has a job that will run;
*limiter* - gaps and limits are kept whatever expires or comes late, a
refused job comes back when it has a chance, and nobody starves; *campaign* - jobs
have rows, after 201 somebody has every recipient in hand, and all are settled; *search* - documents do not announce what did not happen, and
agree with the rows in the end; *Slack* - a disconnect holds, and is seen to;
*dashboard* - nothing spins for ever, one click submits once, what was announced is
listed, a refused file is never shown.

## Modules

| Module | Models | Proofs |
|---|---|---|
| `EmailDelivery` | worker, queue, rows, processes: the core | `EmailDeliveryProofs` |
| `EmailLifecycle` | abstract: what the worker promises of one row | (implemented by `EmailDelivery`) |
| `MinimumDelay` | the global send gap | `LimitsProofs` |
| `HourlyLimit` | the hourly limit and the mark for Slack | `HourlyLimitProofs` |
| `Limits` | both limits, asked in the worker's order: extends `MinimumDelay` | `LimitsProofs` |
| `CampaignScheduling` | `createCampaign` | `CampaignDeliveryProofs` |
| `CampaignDelivery` | composes `CampaignScheduling` and `EmailDelivery` on the rows and jobs they share | `CampaignDeliveryProofs` |
| `SearchIndex` | `ensureIndex` and `indexEmail` in several processes | `SearchIndexProofs` |
| `SlackConnections` | connection rows and posts, and the panel that shows them | `SlackConnectionsProofs` |
| `Dashboard` | login, session, lists and the compose dialog in one browser tab | `DashboardProofs` |
| `Recipients` | the normalization loops of browser and API | `RecipientsProofs` |

`MC<module>` gives the constants their small values. `map` in `PROJECT.json`
names the lines each definition stands for. Definitions whose name starts with
`Bug` are mutants: plausible mistakes in the definition that follows them, each
of which breaks a property; no specification uses them.

### EmailDelivery

A slot's `pc` is the await at which its call of `process(job)` stands (`find`,
`claim`, `minDelay`, `hourly`, `notify`, `defer`, `moveToDelayed`, `send`,
`markSent`, `catch`), or the end of that call (`complete`, `throw`), which BullMQ
then acts on. One action is the code from one await to the next. `current` and
`made` are the slot's Job object: the email, and `job.attemptsMade` as it was
at fetch, which `willRetry` uses. A slot *owns* an email from the committed claim
to the write that gives the row up.

BullMQ is modelled from how this code uses it, as external: a job is in one
set; a fetch takes the lock; a job whose lock is gone is returned to the queue
by the stalled check and failed when it stalled more than `MaxStalled` times; a
throw is a counted attempt, with a retry while `attemptsMade + 1 < attempts`;
`moveToDelayed` counts none; finishing and moving need the lock, so a slot that
lost it changes nothing.

Faults have kinds and are counted by kind, so that each property is stated with
exactly the faults it survives (`Never(kinds)`): `db` (a write fails, or commits unheard), `smtp` (accepted, answer
lost; a plain rejection is no fault and always possible), `crash`, `lock` (a lock
expires under a running slot), `stop` (SIGTERM: `worker.close()` waits for the
running jobs while the shared Redis connection is quit, so that their next
reservation throws). `MaxFaults` bounds the number of each kind; nothing else in
a job's life is bounded.

Left out: `indexEmail`, which never throws (module `SearchIndex`); the return for
a missing row, which cannot be reached (`JobHasRow` of `CampaignScheduling`; rows are
never deleted); the messages' text.

### EmailLifecycle

Three variables: the row's status, how often the email was delivered, and its
owners. A claim needs a scheduled row without an owner; only the owner delivers
and settles; an owner may vanish. `EmailDelivery` implements it with
`owners[e]` being the slots that own `e` (`ImplementsLifecycle`, checked and
proved): queue, locks, attempts and processes are invisible there.

### MinimumDelay, HourlyLimit and Limits

Each Lua script is one step, as Redis runs it, and both modules include the deferral
that a refusal causes. `MinimumDelay` keeps time as ages and countdowns (`age` of what
the key holds, its `ttl`, the `wait` of a deferred job), so its behaviours have no last
day. `HourlyLimit` reads the worker's clock first (`Begin`) and runs the script up to
`MaxLag` ticks later (ioredis queues commands while it reconnects). The clocks of
workers and Redis are taken to agree.

`Limits` is a batch of emails of several senders that `process` takes through both: the
jobs of `MinimumDelay` are the emails, and an email the hourly limit refuses is `Done`
with its global slot, for nothing, until the next hour. `wasted` counts those slots, and
`through` has the emails with both reservations. The hourly count is simply right here;
how the key keeps it right is `HourlyLimit`'s. `EmailDelivery` takes the limiter's answer as a
choice; what it assumes of it is `EventuallyThrough`.

### CampaignScheduling and CampaignDelivery

`CampaignScheduling` has the transaction, and per row the add and the update, with
several requests in flight. Its worker (`Work`) may do anything to a job that was added
and to its row, which is the abstraction that the properties of the loop are proved from.

`CampaignDelivery` puts the real ones there: `EmailDelivery` is instantiated with the
same `status` and `job`, its emails being the rows. A job is `none` before
`ScheduleEmail` adds it, and BullMQ's part of `EmailDelivery` acts only on jobs in one of
BullMQ's sets. A step is one of the API (`Api`) or one of queue, slots and processes
(`Deliver`). The system implements `CampaignScheduling` (proved) and, row by row,
`EmailLifecycle` (`RowsLiveOn`, checked and proved).

### SearchIndex and Recipients

`SearchIndex` has the writers of a document: `createCampaign` (`<<e, 0>>`) and each turn
of the worker with the email (`<<e, t>>`), from the claim to the end of `process(job)`, so
that a slot that has lost the job's lock may still await its index call while another
claims the row. `pc` says where a writer stands: `claimed` (the limits and the send are
ahead), `markSent`, `catch`, `ensure` and `index` inside `indexEmail`. A write of
the row hands the row it returned to `indexEmail` (`Settle`), or it rejects, committed or
not, and the code goes on without an index call (`Unheard`): `markSent` to the catch block,
the others out of `process(job)` or of `createCampaign`. `delivered` is what SMTP accepted.
Each process has its memoised promise (`none`, `exists` and `create` while the two
requests are under way, `resolved`, `rejected`), and may crash. The history variable `overlapped` says
which emails were claimed while another of their writers was at work. Which turn is a job's last attempt is
`EmailDelivery`'s, and left open here.

`Recipients` represents a value by what normalization looks at (address or junk,
case, "mailto:", angle brackets).

### SlackConnections and Dashboard

Both are about one user, since rows of others are never touched, and one browser tab.
A request is `sent` until the API has acted on it, then `done` (or refused, or
failed), and `over` when the page has its answer; the handler's code before its
await is one action (`Refetch`, `Submit`, `Load`, `DisconnectClicked`), the code after it
another (`Answer`, `Submitted`, `Loaded`, `DisconnectAnswered`), and any click that no
disabled button prevents may come in between.

`SlackConnections` has the two writes of a callback, the one of a disconnect, what
notifications read, and the panel of `SlackConnection.tsx`. The history variable
`crossed` says whether callbacks overlapped, `before` which rows the last disconnect
found, `gone` those of the disconnects whose answer the panel got.

`Dashboard` abstracts the user's rows to the number of campaigns committed
(`version`): a list is the version it was read at, and changing the tab puts a new
list in the old one's place, whose answers reach nobody. The dialog is `leadResult` (which
of the picked files it shows), `submitting` and the timers that will close it; its
state outlives its being closed, as `Modal` renders nothing but `ComposeEmail` stays.
`user` is the page the tab is at: loading, the dashboard, the login page, or another one.
`PageLoad` puts every hook back to its first state (`FreshPage`); a campaign that the old
page had submitted is still created, without an answer (`Abandoned`). The way through
Google is `GoogleStart` (the page is left) and `GoogleCallback` (cookie and redirect, which
loads the page). Two properties (`ScheduledIsListed`, `DisconnectIsShown`) are about the
answer that came last being the one asked last, because the code does not discard older
ones: an older list, an older file and an older status do win when they come later.

## Runs

All run with `tlc -workers 2 -config <run>.cfg <module>`; `PROJECT.json` says what
each shows.

| Run | Instance | Checks |
|---|---|---|
| `delivery_safety` | 2 emails, 2 slots in 2 processes, 2 attempts; one fault each of db, smtp, crash, lock | `TypeOK`, `OneOwner`, `SentMeansDelivered`, `RepeatsAreLosses`, `SentIsFinal`, `ImplementsLifecycle` |
| `delivery_progress` | 1 email, 2 slots in 2 processes, 3 attempts; three lost SMTP answers and one fault of each other kind; fair | `FailedMeansExhausted`, `DeliveryBound`, `NoOrphan`, `EventuallySettled`, `QueueDrains` |
| `limits` | 3 emails of one sender and 1 of another, one an hour each, delay of 2 ticks, hours of 5; fair | `LimitsTypeOK`, `GapKept`, `NoIdleRefusal`, `WastedOnce`, `EventuallyThrough` |
| `hourly_limit` | 3 emails of a sender, limits 1, 1, 2, hours of 2 ticks | `TypeOK`, `GrantIffUnderLimit`, `ToldOnce`, `DeferredPastWindow` |
| `campaign_delivery` | 1 request of 2 rows with one fault of any kind; 2 slots in 2 processes, 2 attempts, one crash and one stop; fair | `TypeOK`, `JobHasRow`, `AcknowledgedIsInHand`, `RowsLiveOn`, `AcknowledgedIsSettled` |
| `search_safety` | 1 email, API and worker process, 3 turns; two faults each of es, db, crash | `TypeOK`, `OutcomesAreTrue`, `IndexAgrees`, `OutcomesStay` |
| `slack_connections` | 3 callbacks, 1 notification, 2 disconnects, 3 status requests, 2 faults | `TypeOK`, `DisconnectHolds`, `OneActive`, `DisconnectIsShown` |
| `dashboard` | 2 files, 2 campaigns, 3 requests of a list, 1 change of tab, 1 page load after the first | `TypeOK`, `SpinnersHaveRequests`, `OneSubmitAtATime`, `ScheduledIsListed` |
| `recipients` | 2 addresses and junk, lists up to 3, every wrapping | `TypeOK`, `InFileOrder`, `AnnouncedIsScheduled` |

The three runs that end in a counterexample are under "What the checks found".

**Why the bounds are enough.** Two slots are what a conflict over one email needs;
two emails let a slot leave one job and take another while the first is
redelivered. `delivery_safety` has two attempts, one that is retried and a last
one; `delivery_progress` has the configured three and reaches the limit of
`DeliveryBound` (three attempts and one tolerated stall, each delivering), which
takes three lost SMTP answers and a crash or a lost lock. One tolerated stall is
BullMQ's default. The bad ends of this code need one fault; one of each kind gives
every pair of different ones, and SIGTERM, which disturbs only the limiter's
callers, is in the run with one email.
`limits` has more emails of one sender than its hour allows, for three hours in a row, and
one of another sender whose slots they take; countdowns make its time endless, so the
key of the minimum delay lives, expires and is missed again. Two hour windows with
commands an hour late let a command reach a window that has ended.
`campaign_delivery` has one request, since requests share nothing but the slots, and two
rows, so that a worker has the first while the loop is at the second; its theorems are
for any number of both.
`search_safety` has one email, since emails share nothing in the index but its creation, which
its three turns in two processes race for as well; the theorems are for any number. Three turns
are a send whose answer is lost, its retry, and one more that overlaps with it.
Three callbacks let two cross after a third has left a row to close; three
status requests are the one on mount, one by Refresh, and the one after a disconnect. Two
files and two campaigns are what an overtaking needs, and three requests of
a list the one on mount and one after each campaign.
Symmetry is used in safety runs only, over sets of interchangeable emails,
slots, slots of a sender, requests or callbacks; not in `delivery_progress`, which
checks liveness, nor in the other two that do.

Deadlock is checked everywhere but in `Recipients`, where the loop simply ends (a
list without addresses is not submitted), and in `Dashboard`, where a user who is
logged out is done. In the other modules `Finished` or
`TimeUp` names the states in which nothing is left to do or time is up, and lets
them stutter, so any other stop is an error; in `Limits` time always goes on.

**Fairness** (`FairSpec` of `EmailDelivery`). Weak for each slot's own next step: a
promise settles, since every await has a timeout or a reconnecting client. Weak
for BullMQ's promotion of due jobs and its stalled check, which run on timers, and
for the restart of a process that has exited. Strong for taking a given job and
for a permission of the limiter: other jobs may come first, but a job that asks
again and again is let through. That last one is not taken on faith: `Limits` needs only
that time passes and that a due job asks (weak fairness), and finds that every email of
a batch gets both reservations (`EventuallyThrough`), because each refusal
by the minimum delay means that another email was granted (`NoIdleRefusal`), and each
refusal by the hour that its sender's whole limit went through in that hour. A stream of
new emails that never thins out could keep one waiting for ever; the models have finite
batches. `SystemFairness` adds that `createCampaign`'s awaits settle. Faults are never fair,
and their number is finite.

## What the checks found

Each of these runs stops at a counterexample; `findings` in `PROJECT.json` quotes
the line it contradicts. Each has one fault of one kind, or none.

- `delivery_abandoned` (one crash): "zero rows updated" does not mean that another
  worker has the email. After a crash between the claim and the settling write the
  row stays `processing`, its redelivered job completes without sending, and nothing
  ever picks it up (`README.md:85`).
- `delivery_twice` (one failed write): there is a second way to send twice, without
  a crash: `markSent` rejects and the catch block schedules the email again
  (`README.md:87`).
- `search_overtaken` (no fault): the index write of `createCampaign` can land after
  the worker's and keep an old status in the index (`README.md:131`).

A document may even say `sent` of a row that is `scheduled`, after one lost answer: `createCampaign` reads
the row between a `markSent` that committed unheard and the catch block that resets it, and
its index call lands last (`SearchIndex`). The message did go out, so what `OutcomesAreTrue` promises of `sent`
is the delivery, and the row only while no database answer is lost.

The models also show, without a run of their own: a slot that has lost its job's lock
may defer the row after another slot has completed the job, and leave a
`scheduled` row without a job (`EmailDelivery`: the first half of `NoOrphan`
excludes a lost lock for that reason); an error in `createCampaign`'s
loop leaves committed rows without jobs (`CampaignScheduling`: any state with
`pc[r] = "error"` past the first row; nothing reconciles them later); the count in
the Slack message is of reservations, also of those whose email is still to be
sent (`HourlyLimit`: `Notify` beside an email at `send`); a notification looked up
before a disconnect is posted after it (`SlackConnections`: `Lookup`, `Disconnect`,
`Post`); after a success the Schedule button is enabled for the 800 ms until the dialog
closes, and a second click schedules the campaign again (`Dashboard`: `Submitted`,
`Submit`, `CloseTimer`), as does a page loaded again while a campaign is under way
(`OpenDashboard`, `Submit`); older answers win on the dashboard, as said above; outside
production the session cookie is `SameSite=None` without `Secure`, which browsers may
drop (`GoogleCallback`).

## What is proved

`tlapm <module>Proofs.tla` checks all of it. The theorems hold for every value of
the constants that satisfies the module's `ASSUME` (only `SlackConnections` needs a finite
set, of callbacks, since it numbers them; any number of faults), where TLC needs the small
instance. Every invariant and action property of the runs has its theorem.

**EmailDelivery.** The inductive invariant has three parts, each by a lemma with
one step per action:

`TypeOK` includes *LocksAreHeld*, that a job's lock is held by a slot that runs it.

1. *Ownership*: at most one slot owns an email, and an owned row is `processing`
   (or `sent`, in the catch block after an unheard `markSent`). This is why only one claim
   wins: a claim needs `scheduled`, which no owned row is. The queue and its lock
   are not needed, which is the point: the property survives their loss.
2. *SentMeansDelivered*, with its second conjunct: a slot at `markSent` has
   delivered.
3. *Attempted*: a slot's `made` is never ahead of `attemptsMade`. Without it
   `FailedMeansExhausted` is not inductive, since `willRetry` reads the copy.

From these: `TypeCorrect`, `OwnersExclude`, `SentIsDelivered`, `FailedIsExhausted`, and
`Implementation`: initial states map to initial states and every
step to a step of `EmailLifecycle` or to a stutter.

The abstract specification is then worth something by itself. `AbandonedRowsRest`: a row that
is not `scheduled` and has no owner (a crash, a shutdown, a failed write) is neither
written nor sent again in any step, under all faults. This is the other side
of `delivery_abandoned`: what the claim leaves behind after a crash is left for good.
`FailedStaysFailed` and `SentStaysSent` (up to the first failed write; `delivery_twice` shows
that this is needed) follow from it, since settled rows have no
owner (but for an unheard `markSent`, which is a failed write).

`RepeatsArePaid` says how many messages a recipient gets: one, and one more at most for
every failed write and every lost SMTP answer. Its invariant (*Paid*) keeps a credit of one for each
row that can still be sent without a new loss: a `scheduled` one, and one whose owner is not
between its send and `markSent`. `deliveries` plus that credit is at most one plus the losses: a
send spends the credit, and only a loss gives it back (*LossCounted*). Crashes, lost locks and shutdowns are in none of it. `DeliveredOnce` is the
case without losses.

`NoneOrphaned` has two halves. A scheduled row has a job that will run, as long as no write fails,
no process crashes and no lock is lost. This needs the queue, which the others do not:
*Attached*, that a busy slot's job is active and locked by it, so that no other slot has the
email; *Agreed*, that a scheduled row has a job still to run, also between the row's write
and the job's move; and *OwnedProcessing*, that an owned row is `processing`. A claimed row
has an owner, as long as no write fails and no process crashes or is stopped (*InHand*), whatever happens to
locks: each way out of the claim's code writes the row first, and the only other ones
are an interruption, which counts a fault (*Interruptions*). `DrainedMeansSettled` puts the halves together:
when all jobs have ended and all slots are idle, every email is sent or failed, if only SMTP misbehaved.
It is what `EventuallySettled` says without "eventually", and with `QueueDrains`, which
TLC checks, gives it.

`DeliveriesAreBounded` (at most `Attempts + MaxStalled` messages, under all faults) charges
every delivery to a run of the job, from a fetch to the end of what it does. A run ends
in a counted attempt, in a stall, in a deferral before anything was sent, or completes
the job; so `deliveries` is at most the counted runs (*Runs*), plus the last one once it
is past its send (*LastRunUncounted*). A slot that has lost its lock before its send may
still deliver, to a run that is counted already: the slots that may (*Late*) are counted
against the runs, which is what makes the bound inductive. *Counted* keeps attempts and
stalls within their limits.

**MinimumDelay and Limits.** `GapIsKept` rests on the key being as old as the last grant and on
its outliving the delay; `RefusalsAreBusy` on a refused job coming back no earlier than
that grant plus the delay. `LimitsImplementDelay` shows that every step of `Limits` is one of
`MinimumDelay` or leaves it alone, which carries both over (`GapIsKeptByLimits`,
`RefusalsAreBusyByLimits`). `WastedAtMostOnce`: an email with a wasted slot in this hour waits at least for
the rest of it.

**HourlyLimit.** `LimitIsKept` (a reservation is granted exactly while the asking email's limit is not
reached) assumes `MaxLag <= Hour`: the key lives an hour longer than its
window, so a command at most an hour late finds the count its window has reached.
`WindowsAreCapped` draws the conclusion for the window: no more reservations than the largest
limit among the sender's emails. `NoneRefusedBelowLimit` needs no bound on the lateness: a key that
was lost forgets reservations, and so only ever lets more through.
The invariant says that a live key counts every reservation granted in its
window, and that a window whose key has expired can get no more commands.
`SlackIsToldOnce` has the same assumption and the same argument for the mark, which lives
two hours. `TypeCorrect` and `RefusedComeBackLater` hold for any lateness: a job that was
refused in a window comes back no earlier than its end, since `retryAfterMs` is
counted from the clock that named the window and added to a later one.

**CampaignScheduling.** By one invariant for each request, *Progress*: up to the
loop's row all rows have jobs and ids, after it none.

**CampaignDelivery.** `SystemImplementsScheduling`: a step of the queue or of a slot changes at most one
row's job, from one of BullMQ's sets to another, and its status, so it is a `Work` step;
the theorems about `CampaignScheduling` then hold beside the real workers. The other way
round, the invariants of `EmailDelivery` hold beside the loop (*LiveInv*): its lemmas are used through an
instance, so a worker's step preserves them as before; and the
API's steps change no row's status, and no job but from `none` to `delayed`, of which no slot
holds anything (*ApiOnlyAdds*, *AddedIsNoRun*). Hence `SystemRowsLiveOn`, `SystemOwnersExclude`,
`SystemRowsAreTrue`, `SystemRepeatsArePaid` and `SystemDeliveriesAreBounded`.
`AcknowledgedAreInHand` joins the two: by *Progress* an acknowledged campaign has all its jobs, and by
*LiveInv* row and job agree from there on. Before the answer it would be false: an error
in the loop leaves rows without jobs, so that the row alone is no promise.
`AcknowledgedEndsSettled` is the safety half of `AcknowledgedIsSettled`, as `DrainedMeansSettled` is of `EventuallySettled`.

**SearchIndex.** The invariant: an email has one owner at most, whose row is `processing`,
or `sent` where it stands in the catch block after a `markSent` it did not hear of (*Ownership*);
`sent` is written only after SMTP accepted (*Accepted*); a `sent` row in the catch block is a lost answer that
is counted (*LossRemembered*). So a step does to a row what *Fate* allows: `failed` is for good, and `sent` but for that catch
block. What a snapshot on its way to the index says has therefore happened and stays so (*SnapshotsAreTrue*), and
with it what the document says: `OutcomesAreTrueAlways`, from any number of writers. `OutcomesStayAlways`
is *Fate* again. A promise resolves only with
the index there. `IndexAgreesAlways` needs more, row by row (*HealthyRows*): while nothing failed and no
process lost the race to create the index, the writers of a row that is not `overlapped`
take turns (*OneAtATime*), so a snapshot on its way is the row as it is; other rows may overlap
meanwhile. Its second half is about the race: where no row is overlapped, the API process
creates the index before any worker asks for it (*ApiCreates*), and no promise is rejected.

**SlackConnections.** A closed row is never opened again, so what a disconnect found stays
closed (*Held*: `DisconnectsHold`). `DisconnectsAreShown`: a
disconnect's answer makes a new status request, so the last request is read after every
disconnect that the panel has heard of (*LastIsFresh*). `OneIsActive`, as long as callbacks do not overlap: the one under way that
is about to create a row has closed all others (*OneAtATime*).

**Recipients.** `OrderIsTheFiles`: the loop's set is the normalized addresses of the values it is
past (*SeenIsPast*), so what it appends is an address at its first place, and its index in
the result is its rank among the first places (*Ranked*). `AnnouncedAreScheduled`: the first
loop's result is distinct and as normalizing leaves it (*ResultInv*), and of such a list
the second loop drops nothing (`NothingToDrop`), unless a "mailto:" from inside brackets is
left. Lists may have any length.

**Dashboard.** `SpinnersWait` and `OneSubmission` rest on the button spinning exactly while
one of the page's submissions is under way, and on the list having a request under way
while it spins, whichever of them was asked last; `AnnouncedIsListed` on the last request
being asked after the last announcement, which already was in PostgreSQL then.

**Only model-checked.** Liveness (`EventuallySettled`, `QueueDrains`, `EventuallyThrough`,
`AcknowledgedIsSettled`), since the prover handles neither fairness nor ENABLED.
That `EmailDelivery`'s choice of limiter answers is what `Limits` does is argued above,
not proved: the two have no common instance. How a list's text becomes values is outside both.

## What is not modelled

- `emailSender`'s cached transporter promise: every send may be rejected, so its
  effect on one email is covered, that a whole process fails is not.
- A write to Elasticsearch that times out and lands after `indexEmail` returned;
  retries inside the Elasticsearch client.
- In `HourlyLimit` the minimum of a second of `getMillisecondsUntilNextHour`, which only
  makes a wait or a TTL longer, by less than a tick (`Limits` has it).
- Clocks that disagree, and time in `EmailDelivery`: a delayed job may come due at
  any time.
- How the OAuth state is signed (a callback's state is accepted or refused), what the
  session token holds, validation, error formatting, the limiters of requests, the
  health check, the configuration: stateless, or outside the program.
- A page and an API on different sites, where browsers do not take the cleared
  cookie of `clearSessionCookie` (`SameSite=Lax`); several tabs of one browser.
- How a CSV file's text becomes values; the queries of lists and searches, and
  their pages; the form's other fields and toasts.

## Plan

Done, in this order: `EmailDelivery` with `EmailLifecycle` (the system's most
important behaviour), the two limiters, `CampaignScheduling`, `SearchIndex`,
`SlackConnections`, `Recipients`, `Dashboard` with login and page loads, `Limits`, and the
composition `CampaignDelivery`.

Next, to model: the promise caches of a process (the transporter's beside
`ensureIndexPromise`), and a stream of new emails in `Limits` under an arrival rate that
leaves room.

Next, to prove: every safety property of the runs has its theorem, and the system's theorems
carry them over to the composition; what is left is the
refinement of `EmailDelivery`'s limiter answers by `Limits` and `HourlyLimit`, once one module
composes all three.
