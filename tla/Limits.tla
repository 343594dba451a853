------------------------------- MODULE Limits -------------------------------
(***************************************************************************)
(* The two limits one after the other, as EmailWorker.process asks them:   *)
(* an email takes the global minimum-delay slot first and only then its    *)
(* sender's hourly slot, and a refusal by the second gives nothing back.   *)
(* The questions are whether every email of a batch gets both in the end,  *)
(* which module EmailDelivery assumes as fairness of the limiter, and how  *)
(* many slots go to waste.                                                 *)
(*                                                                         *)
(* The jobs of MinimumDelay are the emails; a retry asks like a further    *)
(* email.  Module HourlyLimit has the hourly key, its expiry and late      *)
(* commands in detail: here a window's count is right and starts at 0.     *)
(***************************************************************************)
EXTENDS MinimumDelay

CONSTANTS
  Scopes,   \* sanitized sender addresses
  Scope,    \* the scope of an email's sender
  Limit,    \* a scope's effective hourly limit
  Hour      \* ticks of an hour

ASSUME LimitsAssumption ==
  /\ Scope \in [Jobs -> Scopes]
  /\ Limit \in [Scopes -> Nat \ {0}]
  /\ Hour \in Nat \ {0}
  /\ 1..Larger(Hour, Second) \subseteq Pauses

VARIABLES
  count,     \* reservations in the current hour window, by scope
  hourLeft,  \* ticks to the next hour
  through,   \* emails with both reservations
  wasted     \* history: an email's hourly refusals in this window

hourVars   == <<count, hourLeft, through, wasted>>
limitsVars == <<delayVars, hourVars>>

\* The minimum delay was granted, and the hourly limit is asked next.
AsksHourly(e) == pc[e] = "send" /\ e \notin through

ReserveMinimumDelay(e) ==
  /\ Allow(e) \/ Refuse(e)
  /\ UNCHANGED hourVars

\* reserveHourlySlot allows: the email is on its way to SMTP.
ReserveHourlySlot(e) ==
  /\ AsksHourly(e)
  /\ count[Scope[e]] < Limit[Scope[e]]
  /\ count' = [count EXCEPT ![Scope[e]] = @ + 1]
  /\ through' = through \cup {e}
  /\ UNCHANGED <<delayVars, hourLeft, wasted>>

\* Mutant: the refused job comes back as soon as deferJob allows.
BugUntilNextHour == Second

\* getMillisecondsUntilNextHour
UntilNextHour == Larger(hourLeft, Second)

\* reserveHourlySlot refuses: the job is deferred to the next hour, and the
\* minimum-delay slot that it holds is gone for everybody.
RefuseHourlySlot(e) ==
  /\ AsksHourly(e)
  /\ count[Scope[e]] >= Limit[Scope[e]]
  /\ Done(e, UntilNextHour)
  /\ wasted' = [wasted EXCEPT ![e] = @ + 1]
  /\ UNCHANGED <<count, hourLeft, through>>

\* Mutant: the key has no window in its name.
BugNewCount == count

\* The next hour's window is another key.
NewCount == [s \in Scopes |-> 0]

Tick ==
  /\ Elapse
  /\ IF hourLeft > 1
        THEN hourLeft' = hourLeft - 1 /\ UNCHANGED <<count, wasted>>
        ELSE /\ hourLeft' = Hour
             /\ count' = NewCount
             /\ wasted' = [e \in Jobs |-> 0]
  /\ UNCHANGED through

LimitsInit ==
  /\ Init
  /\ count = [s \in Scopes |-> 0]
  /\ hourLeft = Hour
  /\ through = {}
  /\ wasted = [e \in Jobs |-> 0]

Reserve(e) == ReserveMinimumDelay(e) \/ ReserveHourlySlot(e) \/ RefuseHourlySlot(e)

LimitsNext == (\E e \in Jobs : Reserve(e)) \/ Tick

\* Time passes, and a job that is due asks.
LimitsFairness == WF_limitsVars(Tick) /\ \A e \in Jobs : WF_limitsVars(Reserve(e))

LimitsSpec == LimitsInit /\ [][LimitsNext]_limitsVars /\ LimitsFairness

-----------------------------------------------------------------------------
(* Properties *)

\* The minimum delay's invariant holds under both limits; every variable of
\* the hourly limit has its type; and only an email that holds the first
\* reservation has the second.
LimitsTypeOK ==
  /\ TypeOK
  /\ count \in [Scopes -> Nat]
  /\ \A s \in Scopes : count[s] <= Limit[s]
  /\ hourLeft \in 1..Hour
  /\ through \subseteq {e \in Jobs : pc[e] = "send"}
  /\ wasted \in [Jobs -> Nat]

\* However the senders' limits are used up and whoever takes the global slot,
\* every email gets both reservations in the end: nobody starves.
EventuallyThrough == \A e \in Jobs : <>(e \in through)

\* An email that has already burnt a global slot in vain does not burn another
\* one in the same hour: the slots wasted are at most one an email and hour.
WastedOnce == \A e \in Jobs : wasted[e] <= 1
=============================================================================
