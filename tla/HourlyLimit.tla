----------------------------- MODULE HourlyLimit -----------------------------
(***************************************************************************)
(* The hourly limit of a sender: reserveHourlySlot with its Lua script,    *)
(* shouldNotifyRateLimit with its SET NX, and what the worker does with    *)
(* their answers.  The hour window is computed from the worker's clock     *)
(* before the script runs; Redis runs it later.  ioredis queues commands   *)
(* while it reconnects, so the lag can be long: MaxLag bounds it.          *)
(*                                                                         *)
(* A scope is a sender address after sanitizeScope: addresses that it maps *)
(* to one key share one count.  The clocks of workers and Redis agree.     *)
(***************************************************************************)
EXTENDS Naturals

CONSTANTS
  Emails,   \* claimed emails, each in a worker slot when it is due
  Scopes,   \* sanitized sender addresses
  Scope,    \* the scope of an email's sender
  Limit,    \* an email's effective limit: min(campaign.hourlyLimit, MAX_EMAILS_PER_HOUR)
  Hour,     \* ticks of an hour
  MaxLag,   \* bound on the time from new Date() to the limiter's last command
  MaxTime   \* bound on time

ASSUME HourlyAssumption ==
  /\ Scope \in [Emails -> Scopes]
  /\ Limit \in [Emails -> Nat \ {0}]
  /\ Hour \in Nat \ {0}
  /\ MaxLag \in Nat
  /\ MaxTime \in Nat

VARIABLES
  now,          \* the clock
  count,        \* email:rate:{scope}:{window}, 0 when it was never set
  expires,      \* when that key expires
  markExpires,  \* when slack:rate-limit-notified:{scope}:{window} expires
  pc,           \* the await at which process(job) of an email stands
  clock,        \* new Date(), as it read it
  resume,       \* when the email's deferred job is due, 0 without one
  granted,      \* history: reservations granted under a scope and window
  told          \* history: Slack messages for a scope and window

keys    == <<count, expires, markExpires>>
history == <<granted, told>>
vars    == <<now, keys, pc, clock, resume, history>>

\* getHourWindow, and the windows a behaviour reaches.
HourWindow(t) == t \div Hour
Windows == 0..HourWindow(MaxTime)
Keys    == Scopes \X Windows

WindowEnd(w) == (w + 1) * Hour

\* getMillisecondsUntilNextHour.  Its minimum of a second is left out: it makes
\* the last second's wait and TTL longer by less than a tick.
UntilNextHour(t) == WindowEnd(HourWindow(t)) - t

Labels == {"due", "reserve", "dedupe", "notify", "defer", "deferred", "send", "done"}

Goto(e, label) == pc' = [pc EXCEPT ![e] = label]

-----------------------------------------------------------------------------
(* EmailWorker.process from the hourly limit on *)

\* A due email is claimed; reserveHourlySlot reads the clock and issues the
\* script.
Begin(e) ==
  /\ pc[e] \in {"due", "deferred"}
  /\ resume[e] <= now
  /\ Goto(e, "reserve")
  /\ clock' = [clock EXCEPT ![e] = now]
  /\ resume' = [resume EXCEPT ![e] = 0]
  /\ UNCHANGED <<now, keys, history>>

Window(e) == HourWindow(clock[e])

\* {sanitized sender}:{hourWindow}
Key(e) == <<Scope[e], Window(e)>>

\* GET KEYS[1], 0 standing for no value.
Current(e) ==
  IF now < expires[Key(e)] THEN count[Key(e)] ELSE 0

\* Mutant: the key lives to the end of its window only.
BugCountTtl(e) == UntilNextHour(clock[e])

\* ttlSeconds
CountTtl(e) == UntilNextHour(clock[e]) + Hour

\* Mutant: the check lets one more through.
BugWithinLimit(e) == Current(e) <= Limit[e]

\* The first reservation of a window is not compared with the limit.
WithinLimit(e) == Current(e) = 0 \/ Current(e) < Limit[e]

\* The script's first two branches: SET with a TTL, or INCR, which keeps it.
Reserve(e) ==
  /\ pc[e] = "reserve"
  /\ WithinLimit(e)
  /\ count' = [count EXCEPT ![Key(e)] = Current(e) + 1]
  /\ expires' = IF Current(e) = 0
                   THEN [expires EXCEPT ![Key(e)] = now + CountTtl(e)]
                   ELSE expires
  /\ granted' = [granted EXCEPT ![Key(e)] = @ + 1]
  /\ Goto(e, "send")
  /\ UNCHANGED <<now, markExpires, clock, resume, told>>

\* Mutant: the script counts before it compares.
BugRefuse(e) ==
  /\ pc[e] = "reserve"
  /\ ~WithinLimit(e)
  /\ count' = [count EXCEPT ![Key(e)] = @ + 1]
  /\ Goto(e, "dedupe")
  /\ UNCHANGED <<now, expires, markExpires, clock, resume, history>>

\* The script's last branch.
Refuse(e) ==
  /\ pc[e] = "reserve"
  /\ ~WithinLimit(e)
  /\ Goto(e, "dedupe")
  /\ UNCHANGED <<now, keys, clock, resume, history>>

\* Mutant: the mark expires before the window's last refusals ask for it.
BugMarkTtl == 1

MarkTtl == 2 * Hour

\* SET key 1 EX 7200 NX: the winner tells Slack.
ShouldNotify(e) ==
  /\ pc[e] = "dedupe"
  /\ IF now < markExpires[Key(e)]
        THEN /\ Goto(e, "defer")
             /\ UNCHANGED markExpires
        ELSE /\ Goto(e, "notify")
             /\ markExpires' = [markExpires EXCEPT ![Key(e)] = now + MarkTtl]
  /\ UNCHANGED <<now, count, expires, clock, resume, history>>

\* sendRateLimitNotification: a message, or none because the user has no
\* active connection or Slack fails; the worker goes on either way.
Notify(e) ==
  /\ pc[e] = "notify"
  /\ Goto(e, "defer")
  /\ \/ told' = [told EXCEPT ![Key(e)] = @ + 1]
     \/ UNCHANGED told
  /\ UNCHANGED <<now, keys, clock, resume, granted>>

\* Mutant: the email is deferred by the minimum of deferJob.
BugRetryAfter(e) == 1

\* retryAfterMs of a refusal, computed from the clock that named the window.
RetryAfter(e) == UntilNextHour(clock[e])

\* deferJob: scheduledAt = Date.now() + retryAfterMs.
Defer(e) ==
  /\ pc[e] = "defer"
  /\ resume' = [resume EXCEPT ![e] = now + RetryAfter(e)]
  /\ Goto(e, "deferred")
  /\ UNCHANGED <<now, keys, clock, history>>

\* sendClaimedEmail: SMTP accepts the email, or the job tries again later.  A
\* failure gives no reservation back.
Send(e) ==
  /\ pc[e] = "send"
  /\ Goto(e, "done") \/ Goto(e, "due")
  /\ clock' = [clock EXCEPT ![e] = 0]
  /\ UNCHANGED <<now, keys, resume, history>>

\* Time passes unless a limiter command is MaxLag late.
Tick ==
  /\ now < MaxTime
  /\ \A e \in Emails : pc[e] \in {"reserve", "dedupe"} => now - clock[e] < MaxLag
  /\ now' = now + 1
  /\ UNCHANGED <<keys, pc, clock, resume, history>>

TimeUp == now = MaxTime /\ UNCHANGED vars

Init ==
  /\ now = 0
  /\ count = [k \in Keys |-> 0]
  /\ expires = [k \in Keys |-> 0]
  /\ markExpires = [k \in Keys |-> 0]
  /\ pc = [e \in Emails |-> "due"]
  /\ clock = [e \in Emails |-> 0]
  /\ resume = [e \in Emails |-> 0]
  /\ granted = [k \in Keys |-> 0]
  /\ told = [k \in Keys |-> 0]

Next ==
  \/ \E e \in Emails :
       \/ Begin(e)
       \/ Reserve(e)
       \/ Refuse(e)
       \/ ShouldNotify(e)
       \/ Notify(e)
       \/ Defer(e)
       \/ Send(e)
  \/ Tick
  \/ TimeUp

Spec == Init /\ [][Next]_vars

-----------------------------------------------------------------------------
(* Properties *)

\* Every variable has its type, no clock is ahead of time, and the counter
\* counts granted reservations only.
TypeOK ==
  /\ now \in 0..MaxTime
  /\ count \in [Keys -> Nat]
  /\ expires \in [Keys -> Nat]
  /\ markExpires \in [Keys -> Nat]
  /\ pc \in [Emails -> Labels]
  /\ clock \in [Emails -> 0..MaxTime]
  /\ resume \in [Emails -> Nat]
  /\ granted \in [Keys -> Nat]
  /\ told \in [Keys -> Nat]
  /\ \A e \in Emails : clock[e] <= now
  /\ \A k \in Keys : count[k] <= granted[k]

\* A reservation is granted exactly while fewer than the asking email's limit
\* were granted in its sender's window: the counter is never lost while a
\* late command for its window can still come, it counts no refusal, and
\* campaigns with different limits share it.
GrantIffUnderLimit ==
  [][\A e \in Emails : pc[e] = "reserve" /\ pc'[e] # "reserve"
       => (pc'[e] = "send" <=> granted[Key(e)] < Limit[e])]_vars

\* Slack hears of a sender's limit at most once an hour window.
ToldOnce == \A k \in Keys : told[k] <= 1

\* An email that the limit refused comes back in a later window, not to be
\* refused by the same count again.
DeferredPastWindow ==
  \A e \in Emails : pc[e] = "deferred" => HourWindow(resume[e]) > Window(e)
=============================================================================
