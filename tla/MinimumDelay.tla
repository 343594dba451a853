---------------------------- MODULE MinimumDelay ----------------------------
(***************************************************************************)
(* The global minimum delay: minimumDelayScript, run by Redis as one step  *)
(* on the key "email:send:last", and the worker that defers the job the    *)
(* script refuses.  Time is Redis' TIME, in ticks, and is kept as ages and *)
(* countdowns, so that a behaviour needs no last day; a worker's           *)
(* Date.now() is taken to agree with it.                                   *)
(***************************************************************************)
EXTENDS Integers

CONSTANTS
  Jobs,     \* claimed emails' jobs, of any process and sender: the key is global
  Delay,    \* MIN_SEND_DELAY_SECONDS, in ticks
  Second,   \* ticks of a second
  Pauses    \* the times after which a job may need a further reservation

ASSUME DelayAssumption ==
  /\ Delay \in Nat
  /\ Second \in Nat \ {0}
  /\ Pauses \subseteq Nat

VARIABLES
  ttl,      \* how long email:send:last will live, 0 without the key
  age,      \* the time since the one in the key
  pc,       \* "ask": the job needs a reservation; "send": it has one
  wait,     \* the time until the job's scheduledAt, when it asks
  since,    \* history: time since the last reservation, Delay for any longer
  refused   \* history: jobs refused since the last reservation

delayVars == <<ttl, age, pc, wait, since, refused>>

Larger(a, b) == IF a >= b THEN a ELSE b

-----------------------------------------------------------------------------
(* minimumDelayScript *)

\* Redis' time minus GET KEYS[1]; or minus "0", which is years ago.
Elapsed == IF ttl > 0 THEN age ELSE Delay

\* Mutant: the key expires before the delay has passed.
BugKeyTtl == IF Delay = 0 THEN Second ELSE Delay \div 2

\* PX 1000 without a delay, PX max(minimumDelayMs * 4, 1000) with one.
KeyTtl == IF Delay = 0 THEN Second ELSE Larger(4 * Delay, Second)

\* Mutant: the time already waited instead of the time still to wait.
BugRetryAfter == Elapsed

RetryAfter == Delay - Elapsed

\* Mutant: the key holds the time of the next send instead of the last.
BugWrittenAge == -Delay

\* SET KEYS[1] nowMs: the age of what is written.
WrittenAge == 0

Asks(j) == pc[j] = "ask" /\ wait[j] = 0

Allow(j) ==
  /\ Asks(j)
  /\ Elapsed >= Delay
  /\ age' = WrittenAge
  /\ ttl' = KeyTtl
  /\ pc' = [pc EXCEPT ![j] = "send"]
  /\ since' = 0
  /\ refused' = {}
  /\ UNCHANGED wait

\* Mutant: the refused job's time is written to the key as well.
BugRefuse(j) ==
  /\ Asks(j)
  /\ Elapsed < Delay
  /\ wait' = [wait EXCEPT ![j] = Larger(RetryAfter, Second)]
  /\ refused' = refused \cup {j}
  /\ age' = WrittenAge
  /\ ttl' = KeyTtl
  /\ UNCHANGED <<pc, since>>

\* {0, minimumDelayMs - elapsedMs}; deferJob then moves the job by that, and
\* by one second at least.
Refuse(j) ==
  /\ Asks(j)
  /\ Elapsed < Delay
  /\ wait' = [wait EXCEPT ![j] = Larger(RetryAfter, Second)]
  /\ refused' = refused \cup {j}
  /\ UNCHANGED <<ttl, age, pc, since>>

\* The reservation is used, well or badly: a retry, a deferral by the hourly
\* limit or the next job in its place asks d ticks later.
Done(j, d) ==
  /\ pc[j] = "send"
  /\ pc' = [pc EXCEPT ![j] = "ask"]
  /\ wait' = [wait EXCEPT ![j] = d]
  /\ UNCHANGED <<ttl, age, since, refused>>

Elapse ==
  /\ ttl' = IF ttl > 0 THEN ttl - 1 ELSE 0
  /\ age' = IF ttl > 1 THEN age + 1 ELSE 0
  /\ wait' = [j \in Jobs |-> IF wait[j] > 0 THEN wait[j] - 1 ELSE 0]
  /\ since' = IF since < Delay THEN since + 1 ELSE Delay
  /\ UNCHANGED <<pc, refused>>

Init ==
  /\ ttl = 0
  /\ age = 0
  /\ pc = [j \in Jobs |-> "ask"]
  /\ wait = [j \in Jobs |-> 0]
  /\ since = Delay
  /\ refused = {}

Next ==
  \/ \E j \in Jobs : Allow(j) \/ Refuse(j) \/ \E d \in Pauses : Done(j, d)
  \/ Elapse

Spec == Init /\ [][Next]_delayVars

-----------------------------------------------------------------------------
(* Properties *)

\* Every variable has its type, and a live key is as old as the last
\* reservation: nothing else is ever written to it.
TypeOK ==
  /\ ttl \in 0..KeyTtl
  /\ age \in 0..KeyTtl
  /\ pc \in [Jobs -> {"ask", "send"}]
  /\ wait \in [Jobs -> Nat]
  /\ since \in 0..Delay
  /\ refused \subseteq Jobs
  /\ ttl > 0 => age + ttl = KeyTtl /\ since = (IF age < Delay THEN age ELSE Delay)

\* Two reservations, of any jobs, are at least the minimum delay apart, even
\* when the key has expired in between.
GapKept ==
  [][\A j \in Jobs : pc[j] = "ask" /\ pc'[j] = "send" => since >= Delay]_delayVars

\* A refusal tells the job how long to wait: a job refused again was overtaken
\* by another one, and never just came too early.
NoIdleRefusal ==
  [][\A j \in Jobs : pc[j] = "ask" /\ wait'[j] > wait[j] => j \notin refused]_delayVars
=============================================================================
