---------------------------- MODULE LimitsProofs ----------------------------
(***************************************************************************)
(* Proofs about MinimumDelay, for any set of jobs, every delay and every   *)
(* length of a second, and then about Limits, for any emails and senders,  *)
(* all limits and every length of an hour: both limits together still      *)
(* implement MinimumDelay, and the slots that the hourly limit wastes are  *)
(* bounded.                                                                *)
(***************************************************************************)
EXTENDS Limits, TLAPS

-----------------------------------------------------------------------------
(* The minimum delay by itself *)

\* The key expires only after the delay has passed, so that a missing key and
\* an old one say the same; and a refused job comes back when it has passed.
KeyInv ==
  /\ ttl = 0 => since = Delay
  /\ \A j \in refused : pc[j] = "ask" /\ since + wait[j] >= Delay

LEMMA KeyTtlLongEnough == KeyTtl \in Nat /\ KeyTtl >= Delay /\ KeyTtl > 0
BY DelayAssumption, SMT DEF KeyTtl, Larger

\* What the script computes is the time since the last grant, or enough.
LEMMA ElapsedIsEnough ==
  ASSUME TypeOK, KeyInv
  PROVE  /\ Elapsed \in Nat
         /\ Elapsed >= Delay => since = Delay
         /\ Elapsed < Delay  => Elapsed = since
BY DelayAssumption, KeyTtlLongEnough, SMT DEF TypeOK, KeyInv, Elapsed

LEMMA InvStep == TypeOK /\ KeyInv /\ [Next]_delayVars => TypeOK' /\ KeyInv'
<1> SUFFICES ASSUME TypeOK, KeyInv, [Next]_delayVars PROVE TypeOK' /\ KeyInv'
  OBVIOUS
<1> USE DelayAssumption, KeyTtlLongEnough
<1>ttl. KeyTtl' = KeyTtl
  BY DEF KeyTtl, Larger
<1>1. ASSUME NEW j \in Jobs, Allow(j) PROVE TypeOK' /\ KeyInv'
  <2>1. TypeOK'
    BY <1>1, <1>ttl DEF Allow, TypeOK, WrittenAge
  <2>2. KeyInv'
    BY <1>1 DEF Allow, TypeOK, KeyInv
  <2> QED
    BY <2>1, <2>2
<1>2. ASSUME NEW j \in Jobs, Refuse(j) PROVE TypeOK' /\ KeyInv'
  <2> DEFINE later == Larger(RetryAfter, Second)
  <2>1. later \in Nat /\ since + later >= Delay
    BY <1>2, ElapsedIsEnough DEF Refuse, RetryAfter, Larger, TypeOK
  <2>2. /\ pc[j] = "ask"
        /\ wait' = [wait EXCEPT ![j] = later]
        /\ refused' = refused \cup {j}
        /\ UNCHANGED <<ttl, age, pc, since>>
    BY <1>2 DEF Refuse, Asks
  <2> HIDE DEF later
  <2>3. TypeOK'
    BY <1>ttl, <2>1, <2>2 DEF TypeOK
  <2>4. KeyInv'
    BY <2>1, <2>2 DEF TypeOK, KeyInv
  <2> QED
    BY <2>3, <2>4
<1>3. ASSUME NEW j \in Jobs, NEW d \in Pauses, Done(j, d) PROVE TypeOK' /\ KeyInv'
  <2>1. TypeOK'
    BY <1>3, <1>ttl DEF Done, TypeOK
  <2>2. KeyInv'
    BY <1>3 DEF Done, TypeOK, KeyInv
  <2> QED
    BY <2>1, <2>2
<1>4. CASE Elapse
  <2>1. TypeOK'
    BY <1>4, <1>ttl DEF Elapse, TypeOK
  <2>2. KeyInv'
    BY <1>4 DEF Elapse, TypeOK, KeyInv
  <2> QED
    BY <2>1, <2>2
<1>5. CASE UNCHANGED delayVars
  BY <1>5, <1>ttl DEF delayVars, TypeOK, KeyInv
<1> QED
  BY <1>1, <1>2, <1>3, <1>4, <1>5 DEF Next

LEMMA InvInit == Init => TypeOK /\ KeyInv
BY DelayAssumption, KeyTtlLongEnough DEF Init, TypeOK, KeyInv

\* Every reachable state is well typed, and the key holds the last grant.
THEOREM TypeCorrect == Spec => []TypeOK
BY InvInit, InvStep, PTL DEF Spec

THEOREM KeyInvariant == Spec => []KeyInv
BY InvInit, InvStep, PTL DEF Spec

\* Any two reservations are at least the minimum delay apart.
THEOREM GapIsKept == Spec => GapKept
<1>1. TypeOK /\ KeyInv /\ [Next]_delayVars
        => [\A j \in Jobs : pc[j] = "ask" /\ pc'[j] = "send" => since >= Delay]_delayVars
  <2> SUFFICES ASSUME TypeOK, KeyInv, [Next]_delayVars, NEW j \in Jobs,
                      pc[j] = "ask", pc'[j] = "send"
               PROVE  since >= Delay
    OBVIOUS
  <2>1. \E k \in Jobs : Allow(k)
    BY DEF Next, Refuse, Done, Elapse, TypeOK, delayVars
  <2> QED
    BY <2>1, ElapsedIsEnough, DelayAssumption DEF Allow
<1> QED
  BY <1>1, TypeCorrect, KeyInvariant, PTL DEF Spec, GapKept

\* A job that is refused again was overtaken by a grant in the meantime.
THEOREM RefusalsAreBusy == Spec => NoIdleRefusal
<1>1. TypeOK /\ KeyInv /\ [Next]_delayVars
        => [\A j \in Jobs : pc[j] = "ask" /\ wait'[j] > wait[j] => j \notin refused]_delayVars
  <2> SUFFICES ASSUME TypeOK, KeyInv, [Next]_delayVars, NEW j \in Jobs,
                      pc[j] = "ask", wait'[j] > wait[j], j \in refused
               PROVE  FALSE
    OBVIOUS
  <2>1. Refuse(j)
    BY DEF Next, Allow, Refuse, Done, Elapse, TypeOK, delayVars
  <2>2. since < Delay /\ wait[j] = 0
    BY <2>1, ElapsedIsEnough DEF Refuse, Asks
  <2> QED
    BY <2>2, DelayAssumption DEF TypeOK, KeyInv
<1> QED
  BY <1>1, TypeCorrect, KeyInvariant, PTL DEF Spec, NoIdleRefusal

-----------------------------------------------------------------------------
(* Both limits *)

\* The initial states are MinimumDelay's, and every step is one of its own or
\* a stutter.
LEMMA StepsMap ==
  ASSUME hourLeft \in 1..Hour, [LimitsNext]_limitsVars
  PROVE  [Next]_delayVars
<1> USE DelayAssumption, LimitsAssumption
<1>1. ASSUME NEW e \in Jobs, Reserve(e) PROVE [Next]_delayVars
  <2>1. UntilNextHour \in Pauses
    BY DEF UntilNextHour, Larger
  <2>2. CASE ReserveMinimumDelay(e)
    BY <2>2 DEF ReserveMinimumDelay, Next
  <2>3. CASE ReserveHourlySlot(e)
    BY <2>3 DEF ReserveHourlySlot
  <2>4. CASE RefuseHourlySlot(e)
    BY <2>1, <2>4 DEF RefuseHourlySlot, Next
  <2> QED
    BY <1>1, <2>2, <2>3, <2>4 DEF Reserve
<1>2. CASE Tick
  BY <1>2 DEF Tick, Next
<1>3. CASE UNCHANGED limitsVars
  BY <1>3 DEF limitsVars
<1> QED
  BY <1>1, <1>2, <1>3 DEF LimitsNext

\* An email that was refused in this hour waits for the next one.
WaitsForTheHour ==
  \A e \in Jobs : /\ wasted[e] <= 1
                  /\ wasted[e] > 0 => pc[e] = "ask" /\ wait[e] >= hourLeft

LimitsInv == LimitsTypeOK /\ WaitsForTheHour

LEMMA LimitsInvInit == LimitsInit => LimitsInv
BY InvInit, DelayAssumption, LimitsAssumption
DEF LimitsInit, Init, LimitsInv, LimitsTypeOK, WaitsForTheHour, NewCount

LEMMA LimitsInvStep ==
  LimitsInv /\ KeyInv /\ [LimitsNext]_limitsVars => LimitsInv'
<1> SUFFICES ASSUME LimitsInv, KeyInv, [LimitsNext]_limitsVars PROVE LimitsInv'
  OBVIOUS
<1> USE DelayAssumption, LimitsAssumption
<1>type. TypeOK'
  BY StepsMap, InvStep DEF LimitsInv, LimitsTypeOK
<1> DEFINE Rest == /\ count \in [Scopes -> Nat]
                   /\ \A s \in Scopes : count[s] <= Limit[s]
                   /\ hourLeft \in 1..Hour
                   /\ through \subseteq {e \in Jobs : pc[e] = "send"}
                   /\ wasted \in [Jobs -> Nat]
<1>1. ASSUME NEW e \in Jobs, ReserveMinimumDelay(e) PROVE Rest' /\ WaitsForTheHour'
  <2>1. pc[e] = "ask" /\ wait[e] = 0 /\ e \notin through /\ wasted[e] = 0
    BY <1>1 DEF ReserveMinimumDelay, Allow, Refuse, Asks, LimitsInv, LimitsTypeOK, WaitsForTheHour
  <2>2. /\ \A f \in Jobs : f # e => pc'[f] = pc[f] /\ wait'[f] = wait[f]
        /\ UNCHANGED hourVars
    BY <1>1 DEF ReserveMinimumDelay, Allow, Refuse, LimitsInv, LimitsTypeOK, TypeOK
  <2> QED
    BY <2>1, <2>2 DEF LimitsInv, LimitsTypeOK, WaitsForTheHour, hourVars
<1>2. ASSUME NEW e \in Jobs, ReserveHourlySlot(e) PROVE Rest' /\ WaitsForTheHour'
  BY <1>2 DEF ReserveHourlySlot, AsksHourly, delayVars, LimitsInv, LimitsTypeOK, WaitsForTheHour
<1>3. ASSUME NEW e \in Jobs, RefuseHourlySlot(e) PROVE Rest' /\ WaitsForTheHour'
  <2>1. wasted[e] = 0 /\ e \notin through
    BY <1>3 DEF RefuseHourlySlot, AsksHourly, LimitsInv, LimitsTypeOK, WaitsForTheHour
  <2>2. UntilNextHour \in Nat /\ UntilNextHour >= hourLeft
    BY DEF UntilNextHour, Larger, LimitsInv, LimitsTypeOK
  <2>3. /\ pc' = [pc EXCEPT ![e] = "ask"]
        /\ wait' = [wait EXCEPT ![e] = UntilNextHour]
        /\ wasted' = [wasted EXCEPT ![e] = @ + 1]
        /\ UNCHANGED <<count, hourLeft, through>>
    BY <1>3 DEF RefuseHourlySlot, Done
  <2> QED
    BY <2>1, <2>2, <2>3 DEF LimitsInv, LimitsTypeOK, TypeOK, WaitsForTheHour
<1>4. ASSUME Tick PROVE Rest' /\ WaitsForTheHour'
  <2>1. /\ wait' = [e \in Jobs |-> IF wait[e] > 0 THEN wait[e] - 1 ELSE 0]
        /\ UNCHANGED <<pc, through>>
    BY <1>4 DEF Tick, Elapse
  <2>2. CASE hourLeft > 1
    <3>1. hourLeft' = hourLeft - 1 /\ UNCHANGED <<count, wasted>>
      BY <1>4, <2>2 DEF Tick
    <3> QED
      BY <2>1, <2>2, <3>1 DEF LimitsInv, LimitsTypeOK, TypeOK, WaitsForTheHour
  <2>3. CASE ~(hourLeft > 1)
    <3>1. /\ hourLeft' = Hour
          /\ count' = [s \in Scopes |-> 0]
          /\ wasted' = [e \in Jobs |-> 0]
      BY <1>4, <2>3 DEF Tick, NewCount
    <3>2. Rest'
      BY <2>1, <3>1 DEF LimitsInv, LimitsTypeOK
    <3>3. WaitsForTheHour'
      BY <3>1 DEF WaitsForTheHour
    <3> QED
      BY <3>2, <3>3
  <2> QED
    BY <2>2, <2>3
<1>5. ASSUME UNCHANGED limitsVars PROVE Rest' /\ WaitsForTheHour'
  BY <1>5 DEF limitsVars, delayVars, hourVars, LimitsInv, LimitsTypeOK, WaitsForTheHour
<1> QED
  BY <1>type, <1>1, <1>2, <1>3, <1>4, <1>5 DEF LimitsNext, Reserve, LimitsInv, LimitsTypeOK

THEOREM LimitsInvariance == LimitsSpec => []LimitsInv /\ []KeyInv
<1>1. LimitsInit => LimitsInv /\ KeyInv
  BY LimitsInvInit, InvInit DEF LimitsInit
<1>2. LimitsInv /\ KeyInv /\ [LimitsNext]_limitsVars => LimitsInv' /\ KeyInv'
  BY LimitsInvStep, StepsMap, InvStep DEF LimitsInv, LimitsTypeOK
<1> QED
  BY <1>1, <1>2, PTL DEF LimitsSpec

\* The composition implements the minimum delay: what MinimumDelay promises,
\* it promises whatever the hourly limit does after it.
THEOREM LimitsImplementDelay == LimitsSpec => Spec
<1>1. LimitsInit => Init
  BY DEF LimitsInit
<1>2. LimitsInv /\ [LimitsNext]_limitsVars => [Next]_delayVars
  BY StepsMap DEF LimitsInv, LimitsTypeOK
<1> QED
  BY <1>1, <1>2, LimitsInvariance, PTL DEF LimitsSpec, Spec

\* Both limits together are well typed and no window's count passes its limit.
THEOREM LimitsTypeCorrect == LimitsSpec => []LimitsTypeOK
BY LimitsInvariance, PTL DEF LimitsInv

\* The gap is kept under both limits.
THEOREM GapIsKeptByLimits == LimitsSpec => GapKept
BY LimitsImplementDelay, GapIsKept

\* Refusals are busy under both limits.
THEOREM RefusalsAreBusyByLimits == LimitsSpec => NoIdleRefusal
BY LimitsImplementDelay, RefusalsAreBusy

\* An email wastes at most one global slot in an hour.
THEOREM WastedAtMostOnce == LimitsSpec => []WastedOnce
<1>1. LimitsInv => WastedOnce
  BY DEF LimitsInv, WaitsForTheHour, WastedOnce
<1> QED
  BY <1>1, LimitsInvariance, PTL
=============================================================================
