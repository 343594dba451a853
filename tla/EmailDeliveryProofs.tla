------------------------- MODULE EmailDeliveryProofs -------------------------
(***************************************************************************)
(* Proofs about EmailDelivery, for every set of emails, slots and          *)
(* processes, every number of attempts and of tolerated stalls, and every  *)
(* bound on the faults.                                                    *)
(***************************************************************************)
EXTENDS EmailDelivery, FiniteSetTheorems, TLAPS

LEMMA TypeStep == TypeOK /\ [Next]_vars => TypeOK'
<1> SUFFICES ASSUME TypeOK, [Next]_vars PROVE TypeOK'
  OBVIOUS
<1> USE ConstantsAssumption DEF TypeOK, LocksAreHeld, EmailStatus, JobStates, Labels, OwnerLabels, FaultKinds
<1>1. ASSUME NEW w \in Workers, FindForWorker(w) PROVE TypeOK'
  BY <1>1 DEF FindForWorker, Goto, Fault, row, job, slot
<1>2. ASSUME NEW w \in Workers, ClaimScheduled(w) PROVE TypeOK'
  BY <1>2 DEF ClaimScheduled, CanClaim, UpdateStatus, Goto, Fault, row, job, slot
<1>3. ASSUME NEW w \in Workers, NEW allowed \in BOOLEAN, ReserveMinimumDelay(w, allowed)
      PROVE TypeOK'
  BY <1>3 DEF ReserveMinimumDelay, Goto, row, job, slot
<1>4. ASSUME NEW w \in Workers, NEW allowed \in BOOLEAN, ReserveHourlySlot(w, allowed)
      PROVE TypeOK'
  BY <1>4 DEF ReserveHourlySlot, Goto, row, job, slot
<1>5. ASSUME NEW w \in Workers, NotifyRateLimit(w) PROVE TypeOK'
  BY <1>5 DEF NotifyRateLimit, Goto, Fault, row, job, slot
<1>6. ASSUME NEW w \in Workers, DeferEmail(w) PROVE TypeOK'
  BY <1>6 DEF DeferEmail, UpdateStatus, Goto, Fault, row, job, slot
<1>7. ASSUME NEW w \in Workers, MoveToDelayed(w) PROVE TypeOK'
  <2>1. CASE lockedBy[current[w]] = w
    BY <1>7, <2>1 DEF MoveToDelayed, Release, Goto, row
  <2>2. CASE lockedBy[current[w]] # w
    BY <1>7, <2>2 DEF MoveToDelayed, Goto, row, slot
  <2> QED
    BY <2>1, <2>2
<1>8. ASSUME NEW w \in Workers, Send(w) PROVE TypeOK'
  BY <1>8 DEF Send, AfterRejection, Goto, Fault, row, job, slot
<1>9. ASSUME NEW w \in Workers, MarkSent(w) PROVE TypeOK'
  BY <1>9 DEF MarkSent, UpdateStatus, Goto, Fault, row, job, slot
<1>10. ASSUME NEW w \in Workers, Catch(w) PROVE TypeOK'
  BY <1>10 DEF Catch, WillRetry, AfterReset, UpdateStatus, Goto, Fault, row, job, slot
<1>11. ASSUME NEW w \in Workers, Complete(w) PROVE TypeOK'
  BY <1>11 DEF Complete, Release, Goto, row, job, slot
<1>12. ASSUME NEW w \in Workers, Throw(w) PROVE TypeOK'
  BY <1>12 DEF Throw, Release, Goto, row, job, slot
<1>13. ASSUME NEW e \in Emails, Queue(e) PROVE TypeOK'
  BY <1>13 DEF Queue, Promote, LoseLock, Stall, Fault, row, job, slot
<1>14. ASSUME NEW w \in Workers, NEW e \in Emails, Take(w, e) PROVE TypeOK'
  BY <1>14 DEF Take, Fetch, FailStalled, Goto, row, job, slot
<1>15. ASSUME NEW p \in Processes, System(p) PROVE TypeOK'
  BY <1>15 DEF System, Crash, Shutdown, ExitAndRestart, Busy, Fault, row, job, slot
<1>16. CASE UNCHANGED vars
  BY <1>16 DEF vars, row, job, slot
<1> QED
  BY <1>1, <1>2, <1>3, <1>4, <1>5, <1>6, <1>7, <1>8, <1>9, <1>10, <1>11, <1>12,
     <1>13, <1>14, <1>15, <1>16 DEF Next, Process, Finished

\* Every reachable state is well typed, and a slot has an email exactly while
\* it is busy with one.
THEOREM TypeCorrect == Spec => []TypeOK
<1>1. Init => TypeOK
  BY ConstantsAssumption, SMT DEF Init, TypeOK, LocksAreHeld, EmailStatus, JobStates, Labels, OwnerLabels, FaultKinds
<1> QED
  BY <1>1, TypeStep, PTL DEF Spec

-----------------------------------------------------------------------------
(***************************************************************************)
(* The owner of an email.  OneOwner is not inductive: a claim adds an      *)
(* owner, and only OwnedRow says that a scheduled row has none.            *)
(***************************************************************************)
Ownership == OneOwner /\ OwnedRow

\* A step that moves no row and makes nobody an owner.
LEMMA OwnersLeave ==
  ASSUME Ownership, status' = status,
         \A v \in Workers, e \in Emails :
           Owns(v, e)' => Owns(v, e) /\ (pc'[v] = pc[v] \/ status[e] = "processing")
  PROVE  Ownership'
BY DEF Ownership, OneOwner, OwnedRow

LEMMA OwnershipStep == TypeOK /\ Ownership /\ [Next]_vars => Ownership'
<1> SUFFICES ASSUME TypeOK, Ownership, [Next]_vars PROVE Ownership'
  OBVIOUS
<1> USE ConstantsAssumption DEF TypeOK, Labels, OwnerLabels
<1>1. ASSUME NEW w \in Workers, FindForWorker(w)
      PROVE Ownership'
  <2>1. status' = status
    BY <1>1 DEF FindForWorker, row
  <2>2. ASSUME NEW v \in Workers, NEW e \in Emails, Owns(v, e)'
        PROVE  Owns(v, e) /\ (pc'[v] = pc[v] \/ status[e] = "processing")
    BY <1>1, <2>2 DEF FindForWorker, Goto, slot, Owns, Ownership, OwnedRow
  <2> QED
    BY <2>1, <2>2, OwnersLeave
<1>2. ASSUME NEW w \in Workers, ClaimScheduled(w)
      PROVE Ownership'
  <2> DEFINE e == current[w]
  <2>1. e \in Emails /\ ~Owns(w, e)
    BY <1>2 DEF ClaimScheduled, Owns
  <2>2. CASE CanClaim(e) /\ pc'[w] = "minDelay"
    <3>1. /\ \A v \in Workers : ~Owns(v, e)
          /\ status' = [status EXCEPT ![e] = "processing"]
          /\ pc' = [pc EXCEPT ![w] = "minDelay"]
          /\ current' = current
      BY <1>2, <2>1, <2>2 DEF ClaimScheduled, CanClaim, UpdateStatus, Goto, slot, Ownership, OwnedRow
    <3> QED
      BY <3>1, <2>1 DEF Ownership, OneOwner, OwnedRow, Owns
  <2>3. CASE ~(CanClaim(e) /\ pc'[w] = "minDelay")
    <3>1. /\ current' = current
          /\ \E l \in {"throw", "complete"} : pc' = [pc EXCEPT ![w] = l]
          /\ \/ status' = status
             \/ CanClaim(e) /\ status' = [status EXCEPT ![e] = "processing"]
      BY <1>2, <2>1, <2>3 DEF ClaimScheduled, UpdateStatus, Goto, slot
    <3> QED
      BY <3>1, <2>1 DEF Ownership, OneOwner, OwnedRow, Owns, CanClaim
  <2> QED
    BY <2>2, <2>3
<1>3. ASSUME NEW w \in Workers, NEW allowed \in BOOLEAN, ReserveMinimumDelay(w, allowed)
      PROVE Ownership'
  <2>1. status' = status
    BY <1>3 DEF ReserveMinimumDelay, row
  <2>2. ASSUME NEW v \in Workers, NEW e \in Emails, Owns(v, e)'
        PROVE  Owns(v, e) /\ (pc'[v] = pc[v] \/ status[e] = "processing")
    BY <1>3, <2>2 DEF ReserveMinimumDelay, Goto, slot, Owns, Ownership, OwnedRow
  <2> QED
    BY <2>1, <2>2, OwnersLeave
<1>4. ASSUME NEW w \in Workers, NEW allowed \in BOOLEAN, ReserveHourlySlot(w, allowed)
      PROVE Ownership'
  <2>1. status' = status
    BY <1>4 DEF ReserveHourlySlot, row
  <2>2. ASSUME NEW v \in Workers, NEW e \in Emails, Owns(v, e)'
        PROVE  Owns(v, e) /\ (pc'[v] = pc[v] \/ status[e] = "processing")
    BY <1>4, <2>2 DEF ReserveHourlySlot, Goto, slot, Owns, Ownership, OwnedRow
  <2> QED
    BY <2>1, <2>2, OwnersLeave
<1>5. ASSUME NEW w \in Workers, NotifyRateLimit(w)
      PROVE Ownership'
  <2>1. status' = status
    BY <1>5 DEF NotifyRateLimit, row
  <2>2. ASSUME NEW v \in Workers, NEW e \in Emails, Owns(v, e)'
        PROVE  Owns(v, e) /\ (pc'[v] = pc[v] \/ status[e] = "processing")
    BY <1>5, <2>2 DEF NotifyRateLimit, Goto, slot, Owns, Ownership, OwnedRow
  <2> QED
    BY <2>1, <2>2, OwnersLeave
<1>6. ASSUME NEW w \in Workers, DeferEmail(w)
      PROVE Ownership'
  <2> DEFINE e == current[w]
  <2>1. /\ e \in Emails
        /\ Owns(w, e)
        /\ current' = current
        /\ \E l \in {"moveToDelayed", "throw"} : pc' = [pc EXCEPT ![w] = l]
        /\ status' \in {status, [status EXCEPT ![e] = "scheduled"]}
    BY <1>6 DEF DeferEmail, UpdateStatus, Goto, slot, Owns
  <2>2. \A v \in Workers : Owns(v, e) => v = w
    BY <2>1 DEF Ownership, OneOwner
  <2>3. OneOwner'
    BY <2>1 DEF Ownership, OneOwner, Owns
  <2>4. OwnedRow'
    BY <2>1, <2>2 DEF Ownership, OwnedRow, Owns
  <2> QED
    BY <2>3, <2>4 DEF Ownership
<1>7. ASSUME NEW w \in Workers, MoveToDelayed(w)
      PROVE Ownership'
  <2>1. status' = status
    BY <1>7 DEF MoveToDelayed, row
  <2>2. ASSUME NEW v \in Workers, NEW e \in Emails, Owns(v, e)'
        PROVE  Owns(v, e) /\ pc'[v] = pc[v]
    BY <1>7, <2>2 DEF MoveToDelayed, Release, Goto, slot, Owns
  <2> QED
    BY <2>1, <2>2, OwnersLeave
<1>8. ASSUME NEW w \in Workers, Send(w)
      PROVE Ownership'
  <2>1. status' = status
    BY <1>8 DEF Send
  <2>2. ASSUME NEW v \in Workers, NEW e \in Emails, Owns(v, e)'
        PROVE  Owns(v, e) /\ (pc'[v] = pc[v] \/ status[e] = "processing")
    BY <1>8, <2>2 DEF Send, AfterRejection, Goto, slot, Owns, Ownership, OwnedRow
  <2> QED
    BY <2>1, <2>2, OwnersLeave
<1>9. ASSUME NEW w \in Workers, MarkSent(w)
      PROVE Ownership'
  <2> DEFINE e == current[w]
  <2>1. /\ e \in Emails
        /\ Owns(w, e)
        /\ current' = current
        /\ \/ pc' = [pc EXCEPT ![w] = "complete"] /\ status' = [status EXCEPT ![e] = "sent"]
           \/ pc' = [pc EXCEPT ![w] = "catch"] /\ status' \in {status, [status EXCEPT ![e] = "sent"]}
    BY <1>9 DEF MarkSent, UpdateStatus, Goto, slot, Owns
  <2>2. \A v \in Workers : Owns(v, e) => v = w
    BY <2>1 DEF Ownership, OneOwner
  <2>3. OneOwner'
    BY <2>1 DEF Ownership, OneOwner, Owns
  <2>4. OwnedRow'
    BY <2>1, <2>2 DEF Ownership, OwnedRow, Owns
  <2> QED
    BY <2>3, <2>4 DEF Ownership
<1>10. ASSUME NEW w \in Workers, Catch(w)
      PROVE Ownership'
  BY <1>10 DEF Ownership, OneOwner, OwnedRow, Owns, Catch, WillRetry, AfterReset, UpdateStatus, Goto, row, job, slot
<1>11. ASSUME NEW w \in Workers, Complete(w)
      PROVE Ownership'
  <2>1. status' = status
    BY <1>11 DEF Complete, Release, row
  <2>2. ASSUME NEW v \in Workers, NEW e \in Emails, Owns(v, e)'
        PROVE  Owns(v, e) /\ (pc'[v] = pc[v] \/ status[e] = "processing")
    BY <1>11, <2>2 DEF Complete, Release, Goto, slot, Owns, Ownership, OwnedRow
  <2> QED
    BY <2>1, <2>2, OwnersLeave
<1>12. ASSUME NEW w \in Workers, Throw(w)
      PROVE Ownership'
  <2>1. status' = status
    BY <1>12 DEF Throw, Release, row
  <2>2. ASSUME NEW v \in Workers, NEW e \in Emails, Owns(v, e)'
        PROVE  Owns(v, e) /\ (pc'[v] = pc[v] \/ status[e] = "processing")
    BY <1>12, <2>2 DEF Throw, Release, Goto, slot, Owns, Ownership, OwnedRow
  <2> QED
    BY <2>1, <2>2, OwnersLeave
<1>13. ASSUME NEW e \in Emails, Queue(e)
      PROVE Ownership'
  BY <1>13 DEF Ownership, OneOwner, OwnedRow, Owns, Queue, Promote, LoseLock, Stall, row, job, slot
<1>14. ASSUME NEW w \in Workers, NEW f \in Emails, Take(w, f)
      PROVE Ownership'
  <2>1. status' = status
    BY <1>14 DEF Take, Fetch, FailStalled, row
  <2>2. ASSUME NEW v \in Workers, NEW e \in Emails, Owns(v, e)'
        PROVE  Owns(v, e) /\ pc'[v] = pc[v]
    BY <1>14, <2>2 DEF Take, Fetch, FailStalled, Goto, slot, Owns
  <2> QED
    BY <2>1, <2>2, OwnersLeave
<1>15. ASSUME NEW p \in Processes, System(p)
      PROVE Ownership'
  <2>1. status' = status
    BY <1>15 DEF System, Crash, Shutdown, ExitAndRestart, row
  <2>2. ASSUME NEW v \in Workers, NEW e \in Emails, Owns(v, e)'
        PROVE  Owns(v, e) /\ pc'[v] = pc[v]
    BY <1>15, <2>2 DEF System, Crash, Shutdown, ExitAndRestart, slot, Owns
  <2> QED
    BY <2>1, <2>2, OwnersLeave
<1>16. CASE UNCHANGED vars
  BY <1>16 DEF Ownership, OneOwner, OwnedRow, Owns, vars, row, job, slot
<1> QED
  BY <1>1, <1>2, <1>3, <1>4, <1>5, <1>6, <1>7, <1>8, <1>9, <1>10, <1>11, <1>12, <1>13, <1>14, <1>15, <1>16
  DEF Next, Process, Finished

(***************************************************************************)
(* What a sent row and a failed row mean.                                  *)
(***************************************************************************)
LEMMA DeliveredStep ==
  TypeOK /\ Ownership /\ SentMeansDelivered /\ [Next]_vars => SentMeansDelivered'
<1> SUFFICES ASSUME TypeOK, Ownership, SentMeansDelivered, [Next]_vars
             PROVE  SentMeansDelivered'
  OBVIOUS
<1> USE ConstantsAssumption DEF TypeOK, Labels, OwnerLabels, SentMeansDelivered
<1>1. ASSUME NEW w \in Workers, FindForWorker(w)
      PROVE SentMeansDelivered'
  BY <1>1 DEF FindForWorker, Goto, row, job, slot
<1>2. ASSUME NEW w \in Workers, ClaimScheduled(w)
      PROVE SentMeansDelivered'
  BY <1>2 DEF ClaimScheduled, CanClaim, UpdateStatus, Goto, row, job, slot
<1>3. ASSUME NEW w \in Workers, NEW allowed \in BOOLEAN, ReserveMinimumDelay(w, allowed)
      PROVE SentMeansDelivered'
  BY <1>3 DEF ReserveMinimumDelay, Goto, row, job, slot
<1>4. ASSUME NEW w \in Workers, NEW allowed \in BOOLEAN, ReserveHourlySlot(w, allowed)
      PROVE SentMeansDelivered'
  BY <1>4 DEF ReserveHourlySlot, Goto, row, job, slot
<1>5. ASSUME NEW w \in Workers, NotifyRateLimit(w)
      PROVE SentMeansDelivered'
  BY <1>5 DEF NotifyRateLimit, Goto, row, job, slot
<1>6. ASSUME NEW w \in Workers, DeferEmail(w)
      PROVE SentMeansDelivered'
  BY <1>6 DEF DeferEmail, UpdateStatus, Goto, row, job, slot
<1>7. ASSUME NEW w \in Workers, MoveToDelayed(w)
      PROVE SentMeansDelivered'
  BY <1>7 DEF MoveToDelayed, Release, Goto, row, job, slot
<1>8. ASSUME NEW w \in Workers, Send(w) PROVE SentMeansDelivered'
  <2>1. /\ current' = current /\ status' = status
        /\ current[w] \in Emails
        /\ \A e \in Emails : deliveries'[e] \in Nat /\ deliveries'[e] >= deliveries[e]
        /\ \A v \in Workers \ {w} : pc'[v] = pc[v]
        /\ pc'[w] = "markSent" => deliveries'[current[w]] > 0
    BY <1>8 DEF Send, AfterRejection, Goto, slot
  <2>2. \A v \in Workers : pc[v] = "markSent" => current[v] \in Emails
    OBVIOUS
  <2> QED
    BY <2>1, <2>2
<1>9. ASSUME NEW w \in Workers, MarkSent(w)
      PROVE SentMeansDelivered'
  BY <1>9 DEF MarkSent, UpdateStatus, Goto, row, job, slot
<1>10. ASSUME NEW w \in Workers, Catch(w)
      PROVE SentMeansDelivered'
  BY <1>10 DEF Catch, WillRetry, AfterReset, UpdateStatus, Goto, row, job, slot
<1>11. ASSUME NEW w \in Workers, Complete(w)
      PROVE SentMeansDelivered'
  BY <1>11 DEF Complete, Release, Goto, row, job, slot
<1>12. ASSUME NEW w \in Workers, Throw(w)
      PROVE SentMeansDelivered'
  BY <1>12 DEF Throw, Release, Goto, row, job, slot
<1>13. ASSUME NEW e \in Emails, Queue(e)
      PROVE SentMeansDelivered'
  BY <1>13 DEF Queue, Promote, LoseLock, Stall, row, job, slot
<1>14. ASSUME NEW w \in Workers, NEW e \in Emails, Take(w, e)
      PROVE SentMeansDelivered'
  BY <1>14 DEF Take, Fetch, FailStalled, Goto, row, job, slot
<1>15. ASSUME NEW p \in Processes, System(p)
      PROVE SentMeansDelivered'
  BY <1>15 DEF System, Crash, Shutdown, ExitAndRestart, Busy, row, job, slot
<1>16. CASE UNCHANGED vars
  BY <1>16 DEF vars, row, job, slot
<1> QED
  BY <1>1, <1>2, <1>3, <1>4, <1>5, <1>6, <1>7, <1>8, <1>9, <1>10, <1>11, <1>12, <1>13, <1>14, <1>15, <1>16
  DEF Next, Process, Finished

\* The slot's copy of attemptsMade, by which the catch block decides, and the
\* row it may mark as failed.
Attempted == MadeBehind /\ FailedMeansExhausted

LEMMA AttemptedStep == TypeOK /\ Attempted /\ [Next]_vars => Attempted'
<1> SUFFICES ASSUME TypeOK, Attempted, [Next]_vars PROVE Attempted'
  OBVIOUS
<1> USE ConstantsAssumption
    DEF TypeOK, Labels, OwnerLabels, Attempted, MadeBehind, FailedMeansExhausted
<1>1. ASSUME NEW w \in Workers, FindForWorker(w)
      PROVE Attempted'
  BY <1>1 DEF FindForWorker, Goto, row, job, slot
<1>2. ASSUME NEW w \in Workers, ClaimScheduled(w)
      PROVE Attempted'
  BY <1>2 DEF ClaimScheduled, CanClaim, UpdateStatus, Goto, row, job, slot
<1>3. ASSUME NEW w \in Workers, NEW allowed \in BOOLEAN, ReserveMinimumDelay(w, allowed)
      PROVE Attempted'
  BY <1>3 DEF ReserveMinimumDelay, Goto, row, job, slot
<1>4. ASSUME NEW w \in Workers, NEW allowed \in BOOLEAN, ReserveHourlySlot(w, allowed)
      PROVE Attempted'
  BY <1>4 DEF ReserveHourlySlot, Goto, row, job, slot
<1>5. ASSUME NEW w \in Workers, NotifyRateLimit(w)
      PROVE Attempted'
  BY <1>5 DEF NotifyRateLimit, Goto, row, job, slot
<1>6. ASSUME NEW w \in Workers, DeferEmail(w)
      PROVE Attempted'
  BY <1>6 DEF DeferEmail, UpdateStatus, Goto, row, job, slot
<1>7. ASSUME NEW w \in Workers, MoveToDelayed(w)
      PROVE Attempted'
  BY <1>7 DEF MoveToDelayed, Release, Goto, row, job, slot
<1>8. ASSUME NEW w \in Workers, Send(w)
      PROVE Attempted'
  BY <1>8 DEF Send, AfterRejection, Goto, row, job, slot
<1>9. ASSUME NEW w \in Workers, MarkSent(w)
      PROVE Attempted'
  BY <1>9 DEF MarkSent, UpdateStatus, Goto, row, job, slot
<1>10. ASSUME NEW w \in Workers, Catch(w)
      PROVE Attempted'
  BY <1>10 DEF Catch, WillRetry, AfterReset, UpdateStatus, Goto, row, job, slot
<1>11. ASSUME NEW w \in Workers, Complete(w)
      PROVE Attempted'
  BY <1>11 DEF Complete, Release, Goto, row, job, slot
<1>12. ASSUME NEW w \in Workers, Throw(w)
      PROVE Attempted'
  BY <1>12 DEF Throw, Release, Goto, row, job, slot
<1>13. ASSUME NEW e \in Emails, Queue(e)
      PROVE Attempted'
  BY <1>13 DEF Queue, Promote, LoseLock, Stall, row, job, slot
<1>14. ASSUME NEW w \in Workers, NEW e \in Emails, Take(w, e)
      PROVE Attempted'
  BY <1>14 DEF Take, Fetch, FailStalled, Goto, row, job, slot
<1>15. ASSUME NEW p \in Processes, System(p)
      PROVE Attempted'
  BY <1>15 DEF System, Crash, Shutdown, ExitAndRestart, Busy, row, job, slot
<1>16. CASE UNCHANGED vars
  BY <1>16 DEF vars, row, job, slot
<1> QED
  BY <1>1, <1>2, <1>3, <1>4, <1>5, <1>6, <1>7, <1>8, <1>9, <1>10, <1>11, <1>12, <1>13, <1>14, <1>15, <1>16
  DEF Next, Process, Finished

IInv == TypeOK /\ Ownership /\ SentMeansDelivered /\ Attempted

LEMMA IInvStep == IInv /\ [Next]_vars => IInv'
BY TypeStep, OwnershipStep, DeliveredStep, AttemptedStep DEF IInv

THEOREM Invariance == Spec => []IInv
<1>1. Init => Ownership /\ SentMeansDelivered /\ Attempted
  BY ConstantsAssumption
  DEF Init, Ownership, OneOwner, OwnedRow, Owns, OwnerLabels, SentMeansDelivered,
      Attempted, MadeBehind, FailedMeansExhausted
<1> QED
  BY <1>1, TypeCorrect, IInvStep, PTL DEF Spec, IInv

\* At most one slot owns an email at any time, however locks are lost.
THEOREM OwnersExclude == Spec => []OneOwner
<1>1. IInv => OneOwner
  BY DEF IInv, Ownership
<1> QED
  BY <1>1, Invariance, PTL

\* No email is recorded as sent that SMTP never accepted.
THEOREM SentIsDelivered == Spec => []SentMeansDelivered
<1>1. IInv => SentMeansDelivered
  BY DEF IInv
<1> QED
  BY <1>1, Invariance, PTL

\* No email is failed while its job has another attempt before this one.
THEOREM FailedIsExhausted == Spec => []FailedMeansExhausted
<1>1. IInv => FailedMeansExhausted
  BY DEF IInv, Attempted
<1> QED
  BY <1>1, Invariance, PTL

-----------------------------------------------------------------------------
(***************************************************************************)
(* EmailDelivery implements EmailLifecycle: every step is one of its steps *)
(* or leaves rows and owners alone.                                        *)
(***************************************************************************)

\* A step that moves no row and frees the slots in gone.
LEMMA AbandonStep ==
  ASSUME UNCHANGED row, NEW gone \in SUBSET Workers,
         \A v \in Workers, e \in Emails : Owns(v, e)' <=> Owns(v, e) /\ v \notin gone
  PROVE  Lifecycle!Next
<1>1. [e \in Emails |-> {w \in Workers : Owns(w, e)'}]
        = [e \in Emails |-> [d \in Emails |-> {w \in Workers : Owns(w, d)}][e] \ gone]
  OBVIOUS
<1>2. Lifecycle!Abandon(gone)
  BY <1>1 DEF Lifecycle!Abandon, row
<1> QED
  BY <1>2 DEF Lifecycle!Next

\* A step that moves no row and no owner.
LEMMA QuietStep ==
  ASSUME UNCHANGED row,
         \A v \in Workers, e \in Emails : Owns(v, e)' <=> Owns(v, e)
  PROVE  Lifecycle!Next
<1>1. \A v \in Workers, e \in Emails : Owns(v, e)' <=> Owns(v, e) /\ v \notin {}
  OBVIOUS
<1>2. {} \in SUBSET Workers
  OBVIOUS
<1> QED
  BY <1>1, <1>2, AbandonStep

\* The owner's write that gives the email up.
LEMMA SettleStep ==
  ASSUME TypeOK, Ownership, NEW w \in Workers, NEW e \in Emails, Owns(w, e),
         NEW new \in {"scheduled", "sent", "failed"},
         new = "sent" => deliveries[e] > 0,
         status' = [status EXCEPT ![e] = new], deliveries' = deliveries,
         \A v \in Workers, d \in Emails : Owns(v, d)' <=> Owns(v, d) /\ v # w
  PROVE  Lifecycle!Next
<1> DEFINE owners == [d \in Emails |-> {v \in Workers : Owns(v, d)}]
<1>1. \A d \in Emails \ {e} : ~Owns(w, d)
  BY DEF Owns
<1>2. /\ \A v \in Workers : ~Owns(v, e)'
      /\ \A d \in Emails \ {e}, v \in Workers : Owns(v, d)' <=> Owns(v, d)
  BY <1>1 DEF Ownership, OneOwner
<1>3. owners[e] = {w}
  BY DEF Ownership, OneOwner
<1>4. owners' = [owners EXCEPT ![e] = {}]
  BY <1>2
<1>5. Lifecycle!Settle(w, e, new)
  BY <1>3, <1>4 DEF Lifecycle!Settle
<1> QED
  BY <1>5 DEF Lifecycle!Next

LEMMA LifecycleStep ==
  TypeOK /\ Ownership /\ SentMeansDelivered /\ [Next]_vars => [Lifecycle!Next]_(Lifecycle!vars)
<1> SUFFICES ASSUME TypeOK, Ownership, SentMeansDelivered, [Next]_vars
             PROVE [Lifecycle!Next]_(Lifecycle!vars)
  OBVIOUS
<1>1. ASSUME NEW w \in Workers, FindForWorker(w) PROVE Lifecycle!Next
  <2>1. UNCHANGED row /\ \A v \in Workers, e \in Emails : Owns(v, e)' <=> Owns(v, e)
    BY <1>1 DEF FindForWorker, Goto, row, slot, Owns, OwnerLabels, TypeOK
  <2> QED
    BY <2>1, QuietStep
<1>2. ASSUME NEW w \in Workers, ClaimScheduled(w) PROVE Lifecycle!Next
  <2> DEFINE e == current[w]
             owners == [d \in Emails |-> {v \in Workers : Owns(v, d)}]
  <2>1. /\ e \in Emails
        /\ \A d \in Emails : ~Owns(w, d)
        /\ deliveries' = deliveries
        /\ current' = current
    BY <1>2 DEF ClaimScheduled, slot, Owns, OwnerLabels, TypeOK
  <2>2. CASE CanClaim(e) /\ pc' = [pc EXCEPT ![w] = "minDelay"]
             /\ status' = [status EXCEPT ![e] = "processing"]
    <3>1. /\ \A v \in Workers : ~Owns(v, e)
          /\ \A v \in Workers, d \in Emails : Owns(v, d)' <=> Owns(v, d) \/ (v = w /\ d = e)
      BY <2>1, <2>2 DEF TypeOK, CanClaim, Ownership, OwnedRow, Owns, OwnerLabels
    <3>2. owners[e] = {} /\ owners' = [owners EXCEPT ![e] = {w}]
      BY <3>1, <2>1
    <3>3. Lifecycle!Claim(w, e)
      BY <2>1, <2>2, <3>2 DEF Lifecycle!Claim, Lifecycle!Claimable, CanClaim
    <3> QED
      BY <3>3, <2>1 DEF Lifecycle!Next
  <2>3. CASE CanClaim(e) /\ pc' = [pc EXCEPT ![w] = "throw"]
             /\ status' = [status EXCEPT ![e] = "processing"]
    <3>1. /\ \A v \in Workers : ~Owns(v, e)
          /\ \A v \in Workers, d \in Emails : Owns(v, d)' <=> Owns(v, d)
      BY <2>1, <2>3 DEF TypeOK, CanClaim, Ownership, OwnedRow, Owns, OwnerLabels
    <3>2. owners[e] = {} /\ owners' = owners
      BY <3>1, <2>1
    <3>3. Lifecycle!ClaimUnheard(e)
      BY <2>1, <2>3, <3>2 DEF Lifecycle!ClaimUnheard, Lifecycle!Claimable, CanClaim
    <3> QED
      BY <3>3, <2>1 DEF Lifecycle!Next
  <2>4. CASE /\ \E l \in {"throw", "complete"} : pc' = [pc EXCEPT ![w] = l]
             /\ status' = status
    <3>1. \A v \in Workers, d \in Emails : Owns(v, d)' <=> Owns(v, d)
      BY <2>1, <2>4 DEF TypeOK, Owns, OwnerLabels
    <3> QED
      BY <2>1, <2>4, <3>1, QuietStep DEF row
  <2> QED
    BY <1>2, <2>1, <2>2, <2>3, <2>4 DEF ClaimScheduled, UpdateStatus, Goto
<1>3. ASSUME NEW w \in Workers, NEW allowed \in BOOLEAN, ReserveMinimumDelay(w, allowed) PROVE Lifecycle!Next
  <2>1. UNCHANGED row
    BY <1>3 DEF ReserveMinimumDelay, row
  <2>2. PICK gone \in {{}, {w}} :
          \A v \in Workers, e \in Emails : Owns(v, e)' <=> Owns(v, e) /\ v \notin gone
    BY <1>3 DEF ReserveMinimumDelay, Goto, slot, Owns, OwnerLabels, TypeOK
  <2>3. gone \in SUBSET Workers
    OBVIOUS
  <2> QED
    BY <2>1, <2>2, <2>3, AbandonStep
<1>4. ASSUME NEW w \in Workers, NEW allowed \in BOOLEAN, ReserveHourlySlot(w, allowed) PROVE Lifecycle!Next
  <2>1. UNCHANGED row
    BY <1>4 DEF ReserveHourlySlot, row
  <2>2. PICK gone \in {{}, {w}} :
          \A v \in Workers, e \in Emails : Owns(v, e)' <=> Owns(v, e) /\ v \notin gone
    BY <1>4 DEF ReserveHourlySlot, Goto, slot, Owns, OwnerLabels, TypeOK
  <2>3. gone \in SUBSET Workers
    OBVIOUS
  <2> QED
    BY <2>1, <2>2, <2>3, AbandonStep
<1>5. ASSUME NEW w \in Workers, NotifyRateLimit(w) PROVE Lifecycle!Next
  <2>1. UNCHANGED row
    BY <1>5 DEF NotifyRateLimit, row
  <2>2. PICK gone \in {{}, {w}} :
          \A v \in Workers, e \in Emails : Owns(v, e)' <=> Owns(v, e) /\ v \notin gone
    BY <1>5 DEF NotifyRateLimit, Goto, slot, Owns, OwnerLabels, TypeOK
  <2>3. gone \in SUBSET Workers
    OBVIOUS
  <2> QED
    BY <2>1, <2>2, <2>3, AbandonStep
<1>6. ASSUME NEW w \in Workers, DeferEmail(w) PROVE Lifecycle!Next
  <2> DEFINE e == current[w]
  <2>1. /\ e \in Emails
        /\ Owns(w, e)
        /\ deliveries' = deliveries
        /\ current' = current
        /\ \E l \in {"throw", "moveToDelayed"} : pc' = [pc EXCEPT ![w] = l]
        /\ status' = status \/ status' = [status EXCEPT ![e] = "scheduled"]
    BY <1>6 DEF DeferEmail, UpdateStatus, Goto, slot, Owns, OwnerLabels, TypeOK
  <2>2. \A v \in Workers, d \in Emails : Owns(v, d)' <=> Owns(v, d) /\ v # w
    BY <2>1 DEF TypeOK, Owns, OwnerLabels
  <2>3. CASE status' = status
    <3>1. \A v \in Workers, d \in Emails : Owns(v, d)' <=> Owns(v, d) /\ v \notin {w}
      BY <2>2
    <3> QED
      BY <2>1, <2>3, <3>1, AbandonStep DEF row
  <2>4. CASE status' = [status EXCEPT ![e] = "scheduled"]
    BY <2>1, <2>2, <2>4, SettleStep
  <2> QED
    BY <2>1, <2>3, <2>4
<1>7. ASSUME NEW w \in Workers, MoveToDelayed(w) PROVE Lifecycle!Next
  <2>1. UNCHANGED row /\ \A v \in Workers, e \in Emails : Owns(v, e)' <=> Owns(v, e)
    BY <1>7 DEF MoveToDelayed, Release, Goto, row, slot, Owns, OwnerLabels, TypeOK
  <2> QED
    BY <2>1, QuietStep
<1>8. ASSUME NEW w \in Workers, Send(w) PROVE Lifecycle!Next
  <2> DEFINE e == current[w]
             owners == [d \in Emails |-> {v \in Workers : Owns(v, d)}]
  <2>1. /\ e \in Emails
        /\ Owns(w, e)
        /\ status[e] = "processing"
        /\ \A v \in Workers, d \in Emails : Owns(v, d)' <=> Owns(v, d)
    BY <1>8 DEF Send, AfterRejection, Goto, slot, Owns, OwnerLabels, TypeOK, Ownership, OwnedRow
  <2>2. owners' = owners /\ owners[e] = {w}
    BY <2>1 DEF Ownership, OneOwner
  <2>3. CASE deliveries' = deliveries
    <3>1. UNCHANGED row
      BY <1>8, <2>3 DEF Send, AfterRejection, row
    <3> QED
      BY <2>1, <3>1, QuietStep
  <2>4. CASE deliveries' = [deliveries EXCEPT ![e] = @ + 1]
    <3>1. Lifecycle!Deliver(w, e)
      BY <1>8, <2>1, <2>2, <2>4 DEF Send, AfterRejection, Lifecycle!Deliver
    <3> QED
      BY <3>1, <2>1 DEF Lifecycle!Next
  <2> QED
    BY <1>8, <2>3, <2>4 DEF Send, AfterRejection
<1>9. ASSUME NEW w \in Workers, MarkSent(w) PROVE Lifecycle!Next
  <2> DEFINE e == current[w]
             owners == [d \in Emails |-> {v \in Workers : Owns(v, d)}]
  <2>1. /\ e \in Emails
        /\ Owns(w, e)
        /\ status[e] = "processing"
        /\ deliveries[e] > 0
        /\ deliveries' = deliveries
        /\ current' = current
    BY <1>9 DEF MarkSent, slot, Owns, OwnerLabels, TypeOK, Ownership, OwnedRow, SentMeansDelivered
  <2>2. CASE pc' = [pc EXCEPT ![w] = "complete"] /\ status' = [status EXCEPT ![e] = "sent"]
    <3>1. \A v \in Workers, d \in Emails : Owns(v, d)' <=> Owns(v, d) /\ v # w
      BY <2>1, <2>2 DEF TypeOK, Owns, OwnerLabels
    <3> QED
      BY <2>1, <2>2, <3>1, SettleStep
  <2>3. CASE pc' = [pc EXCEPT ![w] = "catch"] /\ status' \in {status, [status EXCEPT ![e] = "sent"]}
    <3>1. \A v \in Workers, d \in Emails : Owns(v, d)' <=> Owns(v, d)
      BY <2>1, <2>3 DEF TypeOK, Owns, OwnerLabels
    <3>2. CASE status' = status
      BY <3>1, <3>2, <2>1, QuietStep DEF row
    <3>3. CASE status' = [status EXCEPT ![e] = "sent"]
      <4>1. owners' = owners /\ owners[e] = {w}
        BY <3>1, <2>1 DEF Ownership, OneOwner
      <4>2. Lifecycle!SentUnheard(w, e)
        BY <4>1, <3>3, <2>1 DEF Lifecycle!SentUnheard
      <4> QED
        BY <4>2, <2>1 DEF Lifecycle!Next
    <3> QED
      BY <2>3, <3>2, <3>3
  <2> QED
    BY <1>9, <2>2, <2>3 DEF MarkSent, UpdateStatus, Goto
<1>10. ASSUME NEW w \in Workers, Catch(w) PROVE Lifecycle!Next
  <2> DEFINE e == current[w]
  <2>1. /\ e \in Emails
        /\ Owns(w, e)
        /\ deliveries' = deliveries
        /\ current' = current
        /\ pc' = [pc EXCEPT ![w] = "throw"]
        /\ status' = status \/ \E new \in {"scheduled", "failed"} : status' = [status EXCEPT ![e] = new]
    BY <1>10 DEF Catch, AfterReset, UpdateStatus, Goto, slot, Owns, OwnerLabels, TypeOK
  <2>2. \A v \in Workers, d \in Emails : Owns(v, d)' <=> Owns(v, d) /\ v # w
    BY <2>1 DEF TypeOK, Owns, OwnerLabels
  <2>3. CASE status' = status
    <3>1. \A v \in Workers, d \in Emails : Owns(v, d)' <=> Owns(v, d) /\ v \notin {w}
      BY <2>2
    <3> QED
      BY <2>1, <2>3, <3>1, AbandonStep DEF row
  <2>4. CASE \E new \in {"scheduled", "failed"} : status' = [status EXCEPT ![e] = new]
    BY <2>1, <2>2, <2>4, SettleStep
  <2> QED
    BY <2>1, <2>3, <2>4
<1>11. ASSUME NEW w \in Workers, Complete(w) PROVE Lifecycle!Next
  <2>1. UNCHANGED row /\ \A v \in Workers, e \in Emails : Owns(v, e)' <=> Owns(v, e)
    BY <1>11 DEF Complete, Release, Goto, row, slot, Owns, OwnerLabels, TypeOK
  <2> QED
    BY <2>1, QuietStep
<1>12. ASSUME NEW w \in Workers, Throw(w) PROVE Lifecycle!Next
  <2>1. UNCHANGED row /\ \A v \in Workers, e \in Emails : Owns(v, e)' <=> Owns(v, e)
    BY <1>12 DEF Throw, Release, Goto, row, slot, Owns, OwnerLabels, TypeOK
  <2> QED
    BY <2>1, QuietStep
<1>13. ASSUME NEW e \in Emails, Queue(e) PROVE Lifecycle!Next
  <2>1. UNCHANGED row /\ \A v \in Workers, d \in Emails : Owns(v, d)' <=> Owns(v, d)
    BY <1>13 DEF Queue, Promote, LoseLock, Stall, row, slot, Owns, OwnerLabels, TypeOK
  <2> QED
    BY <2>1, QuietStep
<1>14. ASSUME NEW w \in Workers, NEW e \in Emails, Take(w, e) PROVE Lifecycle!Next
  <2>1. UNCHANGED row /\ \A v \in Workers, d \in Emails : Owns(v, d)' <=> Owns(v, d)
    BY <1>14 DEF Take, Fetch, FailStalled, Goto, row, slot, Owns, OwnerLabels, TypeOK
  <2> QED
    BY <2>1, QuietStep
<1>15. ASSUME NEW p \in Processes, System(p) PROVE Lifecycle!Next
  <2>1. PICK gone \in {{}, p} :
          \A v \in Workers, e \in Emails : Owns(v, e)' <=> Owns(v, e) /\ v \notin gone
    <3>1. CASE Crash(p)
      <4>1. \A v \in Workers, e \in Emails : Owns(v, e)' <=> Owns(v, e) /\ v \notin p
        BY <3>1, ConstantsAssumption DEF Crash, Owns, OwnerLabels, TypeOK
      <4> QED BY <4>1
    <3>2. CASE Shutdown(p) \/ ExitAndRestart(p)
      <4>1. \A v \in Workers, e \in Emails : Owns(v, e)' <=> Owns(v, e) /\ v \notin {}
        BY <3>2 DEF Shutdown, ExitAndRestart, slot, Owns
      <4> QED BY <4>1
    <3> QED
      BY <1>15, <3>1, <3>2 DEF System
  <2>2. gone \in SUBSET Workers
    BY ConstantsAssumption
  <2> QED
    BY <1>15, <2>1, <2>2, AbandonStep DEF System, Crash, Shutdown, ExitAndRestart
<1>16. CASE UNCHANGED vars
  <2>1. UNCHANGED row /\ \A v \in Workers, e \in Emails : Owns(v, e)' <=> Owns(v, e)
    BY <1>16 DEF vars, Owns, row
  <2> QED
    BY <2>1 DEF Lifecycle!vars, row
<1> QED
  BY <1>1, <1>2, <1>3, <1>4, <1>5, <1>6, <1>7, <1>8, <1>9, <1>10, <1>11, <1>12, <1>13, <1>14, <1>15, <1>16
  DEF Next, Process, Finished

\* The worker keeps what EmailLifecycle promises of every row: only its one
\* owner sends an email and settles its row.
THEOREM Implementation == Spec => ImplementsLifecycle
<1>1. Init => Lifecycle!Init
  BY DEF Init, Lifecycle!Init, Owns, OwnerLabels
<1>2. IInv /\ [Next]_vars => [Lifecycle!Next]_(Lifecycle!vars)
  BY LifecycleStep DEF IInv
<1> QED
  BY <1>1, <1>2, Invariance, PTL DEF Spec, ImplementsLifecycle, Lifecycle!Spec

-----------------------------------------------------------------------------
(***************************************************************************)
(* Finality, from the implemented specification: only a row's owner or a   *)
(* claim changes it, and a row that nobody owns and that is not            *)
(* "scheduled" has neither.                                                *)
(***************************************************************************)
Unowned(e) == \A w \in Workers : ~Owns(w, e)

RestingRowsRest ==
  [][\A e \in Emails :
       status[e] # "scheduled" /\ Unowned(e)
         => status'[e] = status[e] /\ deliveries'[e] = deliveries[e]]_vars

LEMMA RestStep ==
  ASSUME IInv, [Next]_vars, NEW e \in Emails, status[e] # "scheduled", Unowned(e)
  PROVE  status'[e] = status[e] /\ deliveries'[e] = deliveries[e]
<1> DEFINE owners == [d \in Emails |-> {w \in Workers : Owns(w, d)}]
<1>1. owners[e] = {}
  BY DEF Unowned
<1>2. status \in [Emails -> EmailStatus] /\ deliveries \in [Emails -> Nat]
  BY DEF IInv, TypeOK
<1>3. [Lifecycle!Next]_(Lifecycle!vars)
  BY LifecycleStep DEF IInv
<1> QED
  BY <1>1, <1>2, <1>3
  DEF Lifecycle!Next, Lifecycle!vars, Lifecycle!Claim, Lifecycle!ClaimUnheard, Lifecycle!Claimable,
      Lifecycle!Deliver, Lifecycle!Settle, Lifecycle!SentUnheard, Lifecycle!Abandon

\* An email that is not scheduled and has lost its owner (a crash, a shutdown,
\* a write that failed) is neither sent nor written again by any later attempt
\* of any slot: its row and its deliveries stay as the owner left them.
THEOREM AbandonedRowsRest == Spec => RestingRowsRest
<1>1. IInv /\ [Next]_vars
        => [\A e \in Emails :
              status[e] # "scheduled" /\ Unowned(e)
                => status'[e] = status[e] /\ deliveries'[e] = deliveries[e]]_vars
  BY RestStep
<1> QED
  BY <1>1, Invariance, PTL DEF Spec, RestingRowsRest

\* A failed email stays failed: a failed row has no owner.
THEOREM FailedStaysFailed == Spec => FailedIsFinal
<1>1. IInv /\ [Next]_vars => [\A e \in Emails : status[e] = "failed" => status'[e] = "failed"]_vars
  <2> SUFFICES ASSUME IInv, [Next]_vars, NEW e \in Emails, status[e] = "failed"
               PROVE  status'[e] = "failed"
    OBVIOUS
  <2>1. Unowned(e)
    BY DEF IInv, Ownership, OwnedRow, Unowned
  <2> QED
    BY <2>1, RestStep
<1> QED
  BY <1>1, Invariance, PTL DEF Spec, FailedIsFinal

(***************************************************************************)
(* Faults are counted: a step injects one fault or none, and a step after  *)
(* which none of a kind has happened started where none had happened, and  *)
(* is none itself.                                                         *)
(***************************************************************************)
LEMMA OneFaultAtMost ==
  [Next]_vars => UNCHANGED faults \/ \E kind \in FaultKinds : Fault(kind)
<1> SUFFICES ASSUME [Next]_vars
             PROVE  UNCHANGED faults \/ \E kind \in FaultKinds : Fault(kind)
  OBVIOUS
<1>1. ASSUME NEW w \in Workers, Process(w) PROVE UNCHANGED faults \/ Fault("db") \/ Fault("smtp")
  BY <1>1 DEF Process, FindForWorker, ClaimScheduled, UpdateStatus, ReserveMinimumDelay,
              ReserveHourlySlot, NotifyRateLimit, DeferEmail, MoveToDelayed, Send, MarkSent,
              Catch, Complete, Throw
<1>2. ASSUME NEW e \in Emails, Queue(e) PROVE UNCHANGED faults \/ Fault("lock")
  BY <1>2 DEF Queue, Promote, LoseLock, Stall
<1>3. ASSUME NEW w \in Workers, NEW e \in Emails, Take(w, e) PROVE UNCHANGED faults
  BY <1>3 DEF Take, Fetch, FailStalled
<1>4. ASSUME NEW p \in Processes, System(p) PROVE UNCHANGED faults \/ Fault("crash") \/ Fault("stop")
  BY <1>4 DEF System, Crash, Shutdown, ExitAndRestart
<1> QED
  BY <1>1, <1>2, <1>3, <1>4 DEF Next, Finished, vars, FaultKinds

LEMMA FaultCounted ==
  ASSUME NEW kind \in FaultKinds, TypeOK, Fault(kind)
  PROVE  /\ faults'[kind] > 0
         /\ \A k \in FaultKinds : faults'[k] >= faults[k]
BY DEF Fault, TypeOK

LEMMA FaultsRemembered ==
  TypeOK /\ [Next]_vars => \A k \in FaultKinds : faults'[k] >= faults[k]
BY OneFaultAtMost, FaultCounted DEF TypeOK

\* What Never(kinds) after a step says of the step.
LEMMA NeverStep ==
  ASSUME NEW kinds \in SUBSET FaultKinds, TypeOK, [Next]_vars, Never(kinds)'
  PROVE  Never(kinds) /\ \A kind \in kinds : ~Fault(kind)
<1>1. \A k \in kinds : faults'[k] = 0
  BY DEF Never
<1>2. Never(kinds)
  BY <1>1, FaultsRemembered DEF Never, TypeOK
<1>3. \A kind \in kinds : ~Fault(kind)
  BY <1>1, FaultCounted
<1> QED
  BY <1>2, <1>3

\* Without database faults an owner's row is "processing" to the end.
OwnedProcessing == \A w \in Workers, e \in Emails : Owns(w, e) => status[e] = "processing"

LEMMA OwnedProcessingStep ==
  TypeOK /\ Ownership /\ OwnedProcessing /\ [Next]_vars /\ Never({"db"})' => OwnedProcessing'
<1> SUFFICES ASSUME TypeOK, Ownership, OwnedProcessing, [Next]_vars, Never({"db"})'
             PROVE  OwnedProcessing'
  OBVIOUS
<1>0. ~Fault("db")
  BY NeverStep DEF FaultKinds
<1> USE ConstantsAssumption DEF TypeOK, Ownership, OneOwner, Labels, OwnerLabels
<1>1. ASSUME NEW w \in Workers, FindForWorker(w)
      PROVE OwnedProcessing'
  BY <1>1 DEF OwnedProcessing, Owns, FindForWorker, Goto, row, job, slot
<1>2. ASSUME NEW w \in Workers, ClaimScheduled(w)
      PROVE OwnedProcessing'
  BY <1>0, <1>2 DEF OwnedProcessing, Owns, ClaimScheduled, CanClaim, UpdateStatus, Goto, row, job, slot
<1>3. ASSUME NEW w \in Workers, NEW allowed \in BOOLEAN, ReserveMinimumDelay(w, allowed)
      PROVE OwnedProcessing'
  BY <1>3 DEF OwnedProcessing, Owns, ReserveMinimumDelay, Goto, row, job, slot
<1>4. ASSUME NEW w \in Workers, NEW allowed \in BOOLEAN, ReserveHourlySlot(w, allowed)
      PROVE OwnedProcessing'
  BY <1>4 DEF OwnedProcessing, Owns, ReserveHourlySlot, Goto, row, job, slot
<1>5. ASSUME NEW w \in Workers, NotifyRateLimit(w)
      PROVE OwnedProcessing'
  BY <1>5 DEF OwnedProcessing, Owns, NotifyRateLimit, Goto, row, job, slot
<1>6. ASSUME NEW w \in Workers, DeferEmail(w)
      PROVE OwnedProcessing'
  BY <1>0, <1>6 DEF OwnedProcessing, Owns, DeferEmail, UpdateStatus, Goto, row, job, slot
<1>7. ASSUME NEW w \in Workers, MoveToDelayed(w)
      PROVE OwnedProcessing'
  BY <1>7 DEF OwnedProcessing, Owns, MoveToDelayed, Release, Goto, row, job, slot
<1>8. ASSUME NEW w \in Workers, Send(w)
      PROVE OwnedProcessing'
  BY <1>0, <1>8 DEF OwnedProcessing, Owns, Send, AfterRejection, Goto, row, job, slot
<1>9. ASSUME NEW w \in Workers, MarkSent(w)
      PROVE OwnedProcessing'
  BY <1>0, <1>9 DEF OwnedProcessing, Owns, MarkSent, UpdateStatus, Goto, row, job, slot
<1>10. ASSUME NEW w \in Workers, Catch(w)
      PROVE OwnedProcessing'
  BY <1>0, <1>10 DEF OwnedProcessing, Owns, Catch, WillRetry, AfterReset, UpdateStatus, Goto, row, job, slot
<1>11. ASSUME NEW w \in Workers, Complete(w)
      PROVE OwnedProcessing'
  BY <1>11 DEF OwnedProcessing, Owns, Complete, Release, Goto, row, job, slot
<1>12. ASSUME NEW w \in Workers, Throw(w)
      PROVE OwnedProcessing'
  BY <1>12 DEF OwnedProcessing, Owns, Throw, Release, Goto, row, job, slot
<1>13. ASSUME NEW e \in Emails, Queue(e)
      PROVE OwnedProcessing'
  BY <1>13 DEF OwnedProcessing, Owns, Queue, Promote, LoseLock, Stall, row, job, slot
<1>14. ASSUME NEW w \in Workers, NEW e \in Emails, Take(w, e)
      PROVE OwnedProcessing'
  BY <1>14 DEF OwnedProcessing, Owns, Take, Fetch, FailStalled, Goto, row, job, slot
<1>15. ASSUME NEW p \in Processes, System(p)
      PROVE OwnedProcessing'
  BY <1>15 DEF OwnedProcessing, Owns, System, Crash, Shutdown, ExitAndRestart, Busy, row, job, slot
<1>16. CASE UNCHANGED vars
  BY <1>16 DEF OwnedProcessing, Owns, vars, row, job, slot
<1> QED
  BY <1>1, <1>2, <1>3, <1>4, <1>5, <1>6, <1>7, <1>8, <1>9, <1>10, <1>11, <1>12, <1>13, <1>14, <1>15, <1>16
  DEF Next, Process, Finished

\* A sent email stays sent as long as no database write fails.
THEOREM SentStaysSent == Spec => SentIsFinal
<1> DEFINE Inv == Never({"db"}) => OwnedProcessing
<1>1. Init => Inv
  BY ConstantsAssumption DEF Init, OwnedProcessing, Owns, OwnerLabels
<1>2. IInv /\ Inv /\ [Next]_vars
        => [\A e \in Emails : status[e] = "sent" /\ Never({"db"})' => status'[e] = "sent"]_vars
  <2> SUFFICES ASSUME IInv, Inv, [Next]_vars, Never({"db"})',
                      NEW e \in Emails, status[e] = "sent"
               PROVE  status'[e] = "sent"
    BY Zenon
  <2>1. Never({"db"})
    BY NeverStep DEF IInv, FaultKinds
  <2>2. Unowned(e)
    BY <2>1 DEF OwnedProcessing, Unowned
  <2> QED
    BY <2>2, RestStep
<1>3. IInv /\ Inv /\ [Next]_vars => Inv'
  <2> SUFFICES ASSUME IInv, Inv, [Next]_vars, Never({"db"})' PROVE OwnedProcessing'
    OBVIOUS
  <2>1. Never({"db"})
    BY NeverStep DEF IInv, FaultKinds
  <2> QED
    BY <2>1, OwnedProcessingStep DEF IInv
<1> QED
  BY <1>1, <1>2, <1>3, Invariance, PTL DEF Spec, SentIsFinal

(***************************************************************************)
(* Repeats are losses.  An email is claimable, or on its way to the send,  *)
(* only while every delivery so far is paid for by a loss: its owner       *)
(* records a delivery that is not, loses the write and pays for it, or     *)
(* vanishes and leaves the row "processing".                               *)
(***************************************************************************)
Losses == faults["db"] + faults["smtp"]

Paid == \A e \in Emails :
  /\ deliveries[e] <= Losses + 1
  /\ status[e] = "scheduled" => deliveries[e] <= Losses
  /\ \A w \in Workers : Owns(w, e) /\ pc[w] # "markSent" => deliveries[e] <= Losses

LEMMA LossesGrow ==
  TypeOK /\ [Next]_vars => Losses \in Nat /\ Losses' \in Nat /\ Losses' >= Losses
<1> SUFFICES ASSUME TypeOK, [Next]_vars
             PROVE  Losses \in Nat /\ Losses' \in Nat /\ Losses' >= Losses
  OBVIOUS
<1>1. /\ faults["db"] \in Nat /\ faults["smtp"] \in Nat
      /\ faults'["db"] \in Nat /\ faults'["smtp"] \in Nat
  BY TypeStep DEF TypeOK, FaultKinds
<1>2. faults'["db"] >= faults["db"] /\ faults'["smtp"] >= faults["smtp"]
  BY FaultsRemembered DEF FaultKinds
<1> QED
  BY <1>1, <1>2 DEF Losses

LEMMA LossCounted ==
  ASSUME NEW kind \in {"db", "smtp"}, TypeOK, Fault(kind)
  PROVE  Losses' = Losses + 1
BY DEF Losses, Fault, TypeOK, FaultKinds

\* A step that moves no row and puts no owner before the send or behind it.
LEMMA PaidLeave ==
  ASSUME TypeOK, Paid, UNCHANGED row,
         Losses \in Nat /\ Losses' \in Nat /\ Losses' >= Losses,
         \A v \in Workers, e \in Emails :
           Owns(v, e)' /\ pc'[v] # "markSent" => Owns(v, e) /\ pc[v] # "markSent"
  PROVE  Paid'
BY DEF TypeOK, Paid, row

LEMMA PaidStep == TypeOK /\ Ownership /\ Paid /\ [Next]_vars => Paid'
<1> SUFFICES ASSUME TypeOK, Ownership, Paid, [Next]_vars PROVE Paid'
  OBVIOUS
<1>0. Losses \in Nat /\ Losses' \in Nat /\ Losses' >= Losses
  BY LossesGrow
<1> USE ConstantsAssumption DEF TypeOK, Ownership, OneOwner, OwnedRow, Labels, OwnerLabels
<1>1. ASSUME NEW w \in Workers, FindForWorker(w)
      PROVE Paid'
  <2>1. UNCHANGED row
    BY <1>1 DEF FindForWorker
  <2>2. ASSUME NEW v \in Workers, NEW e \in Emails, Owns(v, e)', pc'[v] # "markSent"
        PROVE  Owns(v, e) /\ pc[v] # "markSent"
    BY <1>1, <2>2 DEF FindForWorker, Goto, slot, Owns
  <2> QED
    BY <1>0, <2>1, <2>2, PaidLeave
<1>2. ASSUME NEW w \in Workers, ClaimScheduled(w)
      PROVE Paid'
  <2> DEFINE d == current[w]
  <2>1. /\ d \in Emails
        /\ ~Owns(w, d)
        /\ UNCHANGED <<deliveries, current>>
        /\ \/ /\ status[d] = "scheduled"
              /\ status' = [status EXCEPT ![d] = "processing"]
              /\ \E l \in {"minDelay", "throw"} : pc' = [pc EXCEPT ![w] = l]
           \/ status' = status /\ \E l \in {"complete", "throw"} : pc' = [pc EXCEPT ![w] = l]
    BY <1>2 DEF ClaimScheduled, CanClaim, UpdateStatus, Goto, slot, Owns
  <2>2. status[d] = "scheduled" => deliveries[d] <= Losses
    BY <2>1 DEF Paid
  <2> HIDE DEF Losses
  <2> QED
    BY <1>0, <2>1, <2>2 DEF Paid, Owns
<1>3. ASSUME NEW w \in Workers, NEW allowed \in BOOLEAN, ReserveMinimumDelay(w, allowed)
      PROVE Paid'
  <2>1. UNCHANGED row
    BY <1>3 DEF ReserveMinimumDelay
  <2>2. ASSUME NEW v \in Workers, NEW e \in Emails, Owns(v, e)', pc'[v] # "markSent"
        PROVE  Owns(v, e) /\ pc[v] # "markSent"
    BY <1>3, <2>2 DEF ReserveMinimumDelay, Goto, slot, Owns
  <2> QED
    BY <1>0, <2>1, <2>2, PaidLeave
<1>4. ASSUME NEW w \in Workers, NEW allowed \in BOOLEAN, ReserveHourlySlot(w, allowed)
      PROVE Paid'
  <2>1. UNCHANGED row
    BY <1>4 DEF ReserveHourlySlot
  <2>2. ASSUME NEW v \in Workers, NEW e \in Emails, Owns(v, e)', pc'[v] # "markSent"
        PROVE  Owns(v, e) /\ pc[v] # "markSent"
    BY <1>4, <2>2 DEF ReserveHourlySlot, Goto, slot, Owns
  <2> QED
    BY <1>0, <2>1, <2>2, PaidLeave
<1>5. ASSUME NEW w \in Workers, NotifyRateLimit(w)
      PROVE Paid'
  <2>1. UNCHANGED row
    BY <1>5 DEF NotifyRateLimit
  <2>2. ASSUME NEW v \in Workers, NEW e \in Emails, Owns(v, e)', pc'[v] # "markSent"
        PROVE  Owns(v, e) /\ pc[v] # "markSent"
    BY <1>5, <2>2 DEF NotifyRateLimit, Goto, slot, Owns
  <2> QED
    BY <1>0, <2>1, <2>2, PaidLeave
<1>6. ASSUME NEW w \in Workers, DeferEmail(w)
      PROVE Paid'
  <2> DEFINE d == current[w]
  <2>1. /\ d \in Emails
        /\ Owns(w, d) /\ pc[w] # "markSent"
        /\ UNCHANGED <<deliveries, current>>
        /\ status' \in {status, [status EXCEPT ![d] = "scheduled"]}
        /\ \E l \in {"moveToDelayed", "throw"} : pc' = [pc EXCEPT ![w] = l]
    BY <1>6 DEF DeferEmail, UpdateStatus, Goto, slot, Owns
  <2>2. deliveries[d] <= Losses
    BY <2>1 DEF Paid
  <2> QED
    BY <1>0, <2>1, <2>2 DEF Paid, Owns
<1>7. ASSUME NEW w \in Workers, MoveToDelayed(w)
      PROVE Paid'
  <2>1. UNCHANGED row
    BY <1>7 DEF MoveToDelayed, Release
  <2>2. ASSUME NEW v \in Workers, NEW e \in Emails, Owns(v, e)', pc'[v] # "markSent"
        PROVE  Owns(v, e) /\ pc[v] # "markSent"
    BY <1>7, <2>2 DEF MoveToDelayed, Release, Goto, slot, Owns
  <2> QED
    BY <1>0, <2>1, <2>2, PaidLeave
<1>8. ASSUME NEW w \in Workers, Send(w)
      PROVE Paid'
  <2> DEFINE d == current[w]
  <2>1. /\ d \in Emails
        /\ Owns(w, d) /\ pc[w] # "markSent"
        /\ UNCHANGED <<status, current>>
        /\ \/ /\ pc' = [pc EXCEPT ![w] = "markSent"]
              /\ deliveries' = [deliveries EXCEPT ![d] = @ + 1]
           \/ /\ pc' = [pc EXCEPT ![w] = "catch"]
              /\ deliveries' = deliveries
           \/ /\ Fault("smtp")
              /\ pc' = [pc EXCEPT ![w] = "catch"]
              /\ deliveries' = [deliveries EXCEPT ![d] = @ + 1]
    BY <1>8 DEF Send, AfterRejection, Goto, slot, Owns
  <2>2. deliveries[d] <= Losses /\ status[d] # "scheduled"
    BY <2>1 DEF Paid
  <2>3. Fault("smtp") => Losses' = Losses + 1
    BY LossCounted
  <2>4. \A v \in Workers : Owns(v, d) => v = w
    BY <2>1
  <2> QED
    BY <1>0, <2>1, <2>2, <2>3, <2>4 DEF Paid, Owns
<1>9. ASSUME NEW w \in Workers, MarkSent(w)
      PROVE Paid'
  <2> DEFINE d == current[w]
  <2>1. /\ d \in Emails
        /\ Owns(w, d)
        /\ UNCHANGED <<deliveries, current>>
        /\ \/ /\ pc' = [pc EXCEPT ![w] = "complete"]
              /\ status' = [status EXCEPT ![d] = "sent"]
           \/ /\ Fault("db")
              /\ pc' = [pc EXCEPT ![w] = "catch"]
              /\ status' \in {status, [status EXCEPT ![d] = "sent"]}
    BY <1>9 DEF MarkSent, UpdateStatus, Goto, slot, Owns
  <2>2. Fault("db") => Losses' = Losses + 1
    BY LossCounted
  <2>3. status[d] # "scheduled"
    BY <2>1
  <2>4. CASE Fault("db")
    <3>1. \A e \in Emails : deliveries'[e] <= Losses'
      BY <1>0, <2>1, <2>2, <2>4 DEF Paid
    <3> QED
      BY <1>0, <2>1, <3>1 DEF Paid
  <2>5. CASE pc'[w] = "complete"
    BY <1>0, <2>1, <2>3, <2>5 DEF Paid, Owns
  <2> QED
    BY <2>1, <2>4, <2>5
<1>10. ASSUME NEW w \in Workers, Catch(w)
      PROVE Paid'
  <2> DEFINE d == current[w]
  <2>1. /\ d \in Emails
        /\ Owns(w, d) /\ pc[w] # "markSent"
        /\ UNCHANGED <<deliveries, current>>
        /\ \E new \in {"scheduled", "failed"} : status' \in {status, [status EXCEPT ![d] = new]}
        /\ pc' = [pc EXCEPT ![w] = "throw"]
    BY <1>10 DEF Catch, AfterReset, UpdateStatus, Goto, slot, Owns
  <2>2. deliveries[d] <= Losses
    BY <2>1 DEF Paid
  <2> QED
    BY <1>0, <2>1, <2>2 DEF Paid, Owns
<1>11. ASSUME NEW w \in Workers, Complete(w)
      PROVE Paid'
  <2>1. UNCHANGED row
    BY <1>11 DEF Complete, Release
  <2>2. ASSUME NEW v \in Workers, NEW e \in Emails, Owns(v, e)', pc'[v] # "markSent"
        PROVE  Owns(v, e) /\ pc[v] # "markSent"
    BY <1>11, <2>2 DEF Complete, Release, Goto, slot, Owns
  <2> QED
    BY <1>0, <2>1, <2>2, PaidLeave
<1>12. ASSUME NEW w \in Workers, Throw(w)
      PROVE Paid'
  <2>1. UNCHANGED row
    BY <1>12 DEF Throw, Release
  <2>2. ASSUME NEW v \in Workers, NEW e \in Emails, Owns(v, e)', pc'[v] # "markSent"
        PROVE  Owns(v, e) /\ pc[v] # "markSent"
    BY <1>12, <2>2 DEF Throw, Release, Goto, slot, Owns
  <2> QED
    BY <1>0, <2>1, <2>2, PaidLeave
<1>13. ASSUME NEW f \in Emails, Queue(f)
      PROVE Paid'
  <2>1. UNCHANGED row
    BY <1>13 DEF Queue, Promote, LoseLock, Stall
  <2>2. ASSUME NEW v \in Workers, NEW e \in Emails, Owns(v, e)', pc'[v] # "markSent"
        PROVE  Owns(v, e) /\ pc[v] # "markSent"
    BY <1>13, <2>2 DEF Queue, Promote, LoseLock, Stall, slot, Owns
  <2> QED
    BY <1>0, <2>1, <2>2, PaidLeave
<1>14. ASSUME NEW w \in Workers, NEW f \in Emails, Take(w, f)
      PROVE Paid'
  <2>1. UNCHANGED row
    BY <1>14 DEF Take, Fetch, FailStalled
  <2>2. ASSUME NEW v \in Workers, NEW e \in Emails, Owns(v, e)', pc'[v] # "markSent"
        PROVE  Owns(v, e) /\ pc[v] # "markSent"
    BY <1>14, <2>2 DEF Take, Fetch, FailStalled, Goto, slot, Owns
  <2> QED
    BY <1>0, <2>1, <2>2, PaidLeave
<1>15. ASSUME NEW p \in Processes, System(p)
      PROVE Paid'
  <2>1. UNCHANGED row
    BY <1>15 DEF System, Crash, Shutdown, ExitAndRestart
  <2>2. ASSUME NEW v \in Workers, NEW e \in Emails, Owns(v, e)', pc'[v] # "markSent"
        PROVE  Owns(v, e) /\ pc[v] # "markSent"
    BY <1>15, <2>2 DEF System, Crash, Shutdown, ExitAndRestart, slot, Owns
  <2> QED
    BY <1>0, <2>1, <2>2, PaidLeave
<1>16. CASE UNCHANGED vars
  BY <1>16 DEF Paid, Losses, Owns, vars, row, job, slot
<1> QED
  BY <1>1, <1>2, <1>3, <1>4, <1>5, <1>6, <1>7, <1>8, <1>9, <1>10, <1>11, <1>12, <1>13, <1>14, <1>15, <1>16
  DEF Next, Process, Finished

LEMMA PaidAlways == Spec => []Paid
<1>1. Init => Paid
  BY ConstantsAssumption DEF Init, Paid, Losses, Owns, OwnerLabels, FaultKinds
<1>2. IInv /\ Paid /\ [Next]_vars => Paid'
  BY PaidStep DEF IInv
<1> QED
  BY <1>1, <1>2, Invariance, PTL DEF Spec

\* A recipient gets one message, and one more at most for every database write
\* that failed and every SMTP answer that was lost, however often processes
\* crash, locks expire and the workers are restarted.
THEOREM RepeatsArePaid == Spec => []RepeatsAreLosses
<1>1. TypeOK /\ Paid => RepeatsAreLosses
  BY DEF Paid, Losses, RepeatsAreLosses, TypeOK, FaultKinds
<1> QED
  BY <1>1, PaidAlways, TypeCorrect, PTL

\* No recipient gets an email twice as long as no database write failed and no
\* SMTP answer was lost.
THEOREM DeliveredOnce == Spec => []AtMostOnce
<1>1. TypeOK /\ RepeatsAreLosses => AtMostOnce
  BY DEF AtMostOnce, RepeatsAreLosses, Never, TypeOK
<1> QED
  BY <1>1, RepeatsArePaid, TypeCorrect, PTL

-----------------------------------------------------------------------------
(***************************************************************************)
(* No orphans.  Without lost locks, crashes and failed writes a job is     *)
(* active exactly while the slot with its lock runs it, so nothing stalls, *)
(* and the slot's verdict on the row and BullMQ's on the job are taken     *)
(* from the same attempt.                                                  *)
(***************************************************************************)
Disruptions == {"db", "crash", "lock"}

Attached ==
  /\ \A w \in Workers, e \in Emails :
       current[w] = e => jobState[e] = "active" /\ lockedBy[e] = w
  /\ \A e \in Emails : jobState[e] = "active" => lockedBy[e] # None
  /\ \A e \in Emails : stalledCount[e] = 0

LEMMA AttachedStep ==
  TypeOK /\ Attached /\ [Next]_vars /\ Never(Disruptions)' => Attached'
<1> SUFFICES ASSUME TypeOK, Attached, [Next]_vars, Never(Disruptions)' PROVE Attached'
  OBVIOUS
<1>0. ~Fault("crash") /\ ~Fault("lock")
  BY NeverStep DEF FaultKinds, Disruptions
<1> USE ConstantsAssumption DEF TypeOK, LocksAreHeld
<1>1. ASSUME NEW w \in Workers, FindForWorker(w)
      PROVE Attached'
  BY <1>0, <1>1 DEF Attached, FindForWorker, Goto, row, job, slot
<1>2. ASSUME NEW w \in Workers, ClaimScheduled(w)
      PROVE Attached'
  BY <1>0, <1>2 DEF Attached, ClaimScheduled, CanClaim, UpdateStatus, Goto, row, job, slot
<1>3. ASSUME NEW w \in Workers, NEW allowed \in BOOLEAN, ReserveMinimumDelay(w, allowed)
      PROVE Attached'
  BY <1>0, <1>3 DEF Attached, ReserveMinimumDelay, Goto, row, job, slot
<1>4. ASSUME NEW w \in Workers, NEW allowed \in BOOLEAN, ReserveHourlySlot(w, allowed)
      PROVE Attached'
  BY <1>0, <1>4 DEF Attached, ReserveHourlySlot, Goto, row, job, slot
<1>5. ASSUME NEW w \in Workers, NotifyRateLimit(w)
      PROVE Attached'
  BY <1>0, <1>5 DEF Attached, NotifyRateLimit, Goto, row, job, slot
<1>6. ASSUME NEW w \in Workers, DeferEmail(w)
      PROVE Attached'
  BY <1>0, <1>6 DEF Attached, DeferEmail, UpdateStatus, Goto, row, job, slot
<1>7. ASSUME NEW w \in Workers, MoveToDelayed(w)
      PROVE Attached'
  BY <1>0, <1>7 DEF Attached, MoveToDelayed, Release, Goto, row, job, slot
<1>8. ASSUME NEW w \in Workers, Send(w)
      PROVE Attached'
  BY <1>0, <1>8 DEF Attached, Send, AfterRejection, Goto, row, job, slot
<1>9. ASSUME NEW w \in Workers, MarkSent(w)
      PROVE Attached'
  BY <1>0, <1>9 DEF Attached, MarkSent, UpdateStatus, Goto, row, job, slot
<1>10. ASSUME NEW w \in Workers, Catch(w)
      PROVE Attached'
  BY <1>0, <1>10 DEF Attached, Catch, WillRetry, AfterReset, UpdateStatus, Goto, row, job, slot
<1>11. ASSUME NEW w \in Workers, Complete(w)
      PROVE Attached'
  BY <1>0, <1>11 DEF Attached, Complete, Release, Goto, row, job, slot
<1>12. ASSUME NEW w \in Workers, Throw(w)
      PROVE Attached'
  BY <1>0, <1>12 DEF Attached, Throw, Release, Goto, row, job, slot
<1>13. ASSUME NEW e \in Emails, Queue(e)
      PROVE Attached'
  BY <1>0, <1>13 DEF Attached, Queue, Promote, LoseLock, Stall, row, job, slot
<1>14. ASSUME NEW w \in Workers, NEW e \in Emails, Take(w, e)
      PROVE Attached'
  BY <1>0, <1>14 DEF Attached, Take, Fetch, FailStalled, StalledTooOften, Goto, row, job, slot
<1>15. ASSUME NEW p \in Processes, System(p)
      PROVE Attached'
  BY <1>0, <1>15 DEF Attached, System, Crash, Shutdown, ExitAndRestart, row, job, slot
<1>16. CASE UNCHANGED vars
  BY <1>16 DEF Attached, vars, row, job, slot
<1> QED
  BY <1>1, <1>2, <1>3, <1>4, <1>5, <1>6, <1>7, <1>8, <1>9,
     <1>10, <1>11, <1>12, <1>13, <1>14, <1>15, <1>16
  DEF Next, Process, Finished

\* The last word on a scheduled row has not been said: its job goes on, or the
\* slot that runs it is about to try again.
Agreed ==
  /\ \A e \in Emails : status[e] = "scheduled" => jobState[e] \notin {"completed", "failed"}
  /\ \A w \in Workers : pc[w] = "complete" => status[current[w]] # "scheduled"
  /\ \A w \in Workers :
       pc[w] = "throw" => status[current[w]] # "scheduled" \/ made[w] + 1 < Attempts

LEMMA AgreedStep ==
  TypeOK /\ OwnedProcessing /\ Attached /\ Agreed /\ [Next]_vars /\ Never(Disruptions)' => Agreed'
<1> SUFFICES ASSUME TypeOK, OwnedProcessing, Attached, Agreed, [Next]_vars, Never(Disruptions)'
             PROVE Agreed'
  OBVIOUS
<1>0. ~Fault("db") /\ ~Fault("crash") /\ ~Fault("lock")
  BY NeverStep DEF FaultKinds, Disruptions
<1> USE ConstantsAssumption DEF TypeOK, LocksAreHeld, OwnedProcessing, Owns, OwnerLabels, Attached
<1>1. ASSUME NEW w \in Workers, FindForWorker(w)
      PROVE Agreed'
  BY <1>0, <1>1 DEF Agreed, FindForWorker, Goto, row, job, slot
<1>2. ASSUME NEW w \in Workers, ClaimScheduled(w)
      PROVE Agreed'
  BY <1>0, <1>2 DEF Agreed, ClaimScheduled, CanClaim, UpdateStatus, Goto, row, job, slot
<1>3. ASSUME NEW w \in Workers, NEW allowed \in BOOLEAN, ReserveMinimumDelay(w, allowed)
      PROVE Agreed'
  BY <1>0, <1>3 DEF Agreed, ReserveMinimumDelay, Goto, row, job, slot
<1>4. ASSUME NEW w \in Workers, NEW allowed \in BOOLEAN, ReserveHourlySlot(w, allowed)
      PROVE Agreed'
  BY <1>0, <1>4 DEF Agreed, ReserveHourlySlot, Goto, row, job, slot
<1>5. ASSUME NEW w \in Workers, NotifyRateLimit(w)
      PROVE Agreed'
  BY <1>0, <1>5 DEF Agreed, NotifyRateLimit, Goto, row, job, slot
<1>6. ASSUME NEW w \in Workers, DeferEmail(w)
      PROVE Agreed'
  BY <1>0, <1>6 DEF Agreed, DeferEmail, UpdateStatus, Goto, row, job, slot
<1>7. ASSUME NEW w \in Workers, MoveToDelayed(w)
      PROVE Agreed'
  BY <1>0, <1>7 DEF Agreed, MoveToDelayed, Release, Goto, row, job, slot
<1>8. ASSUME NEW w \in Workers, Send(w)
      PROVE Agreed'
  BY <1>0, <1>8 DEF Agreed, Send, AfterRejection, Goto, row, job, slot
<1>9. ASSUME NEW w \in Workers, MarkSent(w)
      PROVE Agreed'
  BY <1>0, <1>9 DEF Agreed, MarkSent, UpdateStatus, Goto, row, job, slot
<1>10. ASSUME NEW w \in Workers, Catch(w)
      PROVE Agreed'
  BY <1>0, <1>10 DEF Agreed, Catch, WillRetry, AfterReset, UpdateStatus, Goto, row, job, slot
<1>11. ASSUME NEW w \in Workers, Complete(w)
      PROVE Agreed'
  BY <1>0, <1>11 DEF Agreed, Complete, Release, Goto, row, job, slot
<1>12. ASSUME NEW w \in Workers, Throw(w)
      PROVE Agreed'
  BY <1>0, <1>12 DEF Agreed, Throw, Release, Goto, row, job, slot
<1>13. ASSUME NEW e \in Emails, Queue(e)
      PROVE Agreed'
  BY <1>0, <1>13 DEF Agreed, Queue, Promote, LoseLock, Stall, row, job, slot
<1>14. ASSUME NEW w \in Workers, NEW e \in Emails, Take(w, e)
      PROVE Agreed'
  BY <1>0, <1>14 DEF Agreed, Take, Fetch, FailStalled, StalledTooOften, Goto, row, job, slot
<1>15. ASSUME NEW p \in Processes, System(p)
      PROVE Agreed'
  BY <1>0, <1>15 DEF Agreed, System, Crash, Shutdown, ExitAndRestart, row, job, slot
<1>16. CASE UNCHANGED vars
  BY <1>16 DEF Agreed, vars, row, job, slot
<1> QED
  BY <1>1, <1>2, <1>3, <1>4, <1>5, <1>6, <1>7, <1>8, <1>9,
     <1>10, <1>11, <1>12, <1>13, <1>14, <1>15, <1>16
  DEF Next, Process, Finished

(***************************************************************************)
(* A claimed row has its owner until the owner gives it up by a write.     *)
(* Only a limiter that has lost its connection, which is to say a process  *)
(* that shuts down, throws past that write; so the invariant has to say    *)
(* that without a shutdown no process is closing.                          *)
(***************************************************************************)
Interruptions == {"db", "crash", "stop"}

Claimed ==
  /\ closing = {}
  /\ \A e \in Emails : status[e] = "processing" => \E w \in Workers : Owns(w, e)

\* A step that moves no row and lets no owner go.
LEMMA ClaimedLeave ==
  ASSUME Claimed, closing' = {}, status' = status,
         \A v \in Workers, f \in Emails : Owns(v, f) => Owns(v, f)'
  PROVE  Claimed'
BY DEF Claimed

LEMMA ClaimedStep == TypeOK /\ Claimed /\ [Next]_vars /\ Never(Interruptions)' => Claimed'
<1> SUFFICES ASSUME TypeOK, Claimed, [Next]_vars, Never(Interruptions)' PROVE Claimed'
  OBVIOUS
<1>a. ~Fault("db") /\ ~Fault("crash") /\ ~Fault("stop")
  BY NeverStep DEF FaultKinds, Interruptions
<1>b. closing = {} /\ \A w \in Workers : ~IsClosing(w)
  BY DEF Claimed, IsClosing
<1>c. closing' = {}
  <2>1. \A p \in Processes : System(p) => closing' = {}
    BY <1>a, <1>b DEF System, Crash, Shutdown, ExitAndRestart
  <2>2. \A w \in Workers : Process(w) => closing' = closing
    BY DEF Process, FindForWorker, ClaimScheduled, ReserveMinimumDelay, ReserveHourlySlot,
           NotifyRateLimit, DeferEmail, MoveToDelayed, Send, MarkSent, Catch, Complete, Throw
  <2>3. \A e \in Emails : Queue(e) => closing' = closing
    BY DEF Queue, Promote, LoseLock, Stall
  <2>4. \A w \in Workers, e \in Emails : Take(w, e) => closing' = closing
    BY DEF Take, Fetch, FailStalled
  <2> QED
    BY <1>b, <2>1, <2>2, <2>3, <2>4 DEF Next, Finished, vars
<1>0. /\ ~Fault("db") /\ ~Fault("crash")
      /\ \A w \in Workers : ~IsClosing(w)
      /\ closing' = {}
  BY <1>a, <1>b, <1>c
<1> USE DEF TypeOK, Labels, OwnerLabels
<1>1. ASSUME NEW w \in Workers, FindForWorker(w)
      PROVE Claimed'
  <2>1. /\ status' = status
        /\ \A v \in Workers, f \in Emails : Owns(v, f) => Owns(v, f)'
    BY <1>1 DEF FindForWorker, Goto, row, slot, Owns
  <2> QED
    BY <1>0, <2>1, ClaimedLeave
<1>2. ASSUME NEW w \in Workers, ClaimScheduled(w)
      PROVE Claimed'
  <2> DEFINE d == current[w]
  <2>1. /\ d \in Emails
        /\ current' = current
        /\ pc[w] = "claim"
        /\ \/ /\ status' = [status EXCEPT ![d] = "processing"]
              /\ pc' = [pc EXCEPT ![w] = "minDelay"]
           \/ status' = status /\ pc' = [pc EXCEPT ![w] = "complete"]
    BY <1>0, <1>2 DEF ClaimScheduled, UpdateStatus, Goto, slot
  <2> QED
    BY <1>0, <2>1 DEF Claimed, Owns
<1>3. ASSUME NEW w \in Workers, NEW allowed \in BOOLEAN, ReserveMinimumDelay(w, allowed)
      PROVE Claimed'
  <2>1. /\ status' = status
        /\ \A v \in Workers, f \in Emails : Owns(v, f) => Owns(v, f)'
    BY <1>0, <1>3 DEF ReserveMinimumDelay, Goto, row, slot, Owns
  <2> QED
    BY <1>0, <2>1, ClaimedLeave
<1>4. ASSUME NEW w \in Workers, NEW allowed \in BOOLEAN, ReserveHourlySlot(w, allowed)
      PROVE Claimed'
  <2>1. /\ status' = status
        /\ \A v \in Workers, f \in Emails : Owns(v, f) => Owns(v, f)'
    BY <1>0, <1>4 DEF ReserveHourlySlot, Goto, row, slot, Owns
  <2> QED
    BY <1>0, <2>1, ClaimedLeave
<1>5. ASSUME NEW w \in Workers, NotifyRateLimit(w)
      PROVE Claimed'
  <2>1. /\ status' = status
        /\ \A v \in Workers, f \in Emails : Owns(v, f) => Owns(v, f)'
    BY <1>0, <1>5 DEF NotifyRateLimit, Goto, row, slot, Owns
  <2> QED
    BY <1>0, <2>1, ClaimedLeave
<1>6. ASSUME NEW w \in Workers, DeferEmail(w)
      PROVE Claimed'
  <2> DEFINE d == current[w]
  <2>1. /\ d \in Emails
        /\ current' = current
        /\ \E new \in {"scheduled"} : status' = [status EXCEPT ![d] = new]
        /\ \A v \in Workers \ {w} : pc'[v] = pc[v]
    BY <1>0, <1>6 DEF DeferEmail, UpdateStatus, Goto, slot
  <2> QED
    BY <1>0, <2>1 DEF Claimed, Owns
<1>7. ASSUME NEW w \in Workers, MoveToDelayed(w)
      PROVE Claimed'
  <2>1. /\ status' = status
        /\ \A v \in Workers, f \in Emails : Owns(v, f) => Owns(v, f)'
    BY <1>7 DEF MoveToDelayed, Release, Goto, row, slot, Owns
  <2> QED
    BY <1>0, <2>1, ClaimedLeave
<1>8. ASSUME NEW w \in Workers, Send(w)
      PROVE Claimed'
  <2>1. /\ status' = status
        /\ \A v \in Workers, f \in Emails : Owns(v, f) => Owns(v, f)'
    BY <1>0, <1>8 DEF Send, AfterRejection, Goto, slot, Owns
  <2> QED
    BY <1>0, <2>1, ClaimedLeave
<1>9. ASSUME NEW w \in Workers, MarkSent(w)
      PROVE Claimed'
  <2> DEFINE d == current[w]
  <2>1. /\ d \in Emails
        /\ current' = current
        /\ \E new \in {"sent"} : status' = [status EXCEPT ![d] = new]
        /\ \A v \in Workers \ {w} : pc'[v] = pc[v]
    BY <1>0, <1>9 DEF MarkSent, UpdateStatus, Goto, slot
  <2> QED
    BY <1>0, <2>1 DEF Claimed, Owns
<1>10. ASSUME NEW w \in Workers, Catch(w)
      PROVE Claimed'
  <2> DEFINE d == current[w]
  <2>1. /\ d \in Emails
        /\ current' = current
        /\ \E new \in {"scheduled", "failed"} : status' = [status EXCEPT ![d] = new]
        /\ \A v \in Workers \ {w} : pc'[v] = pc[v]
    BY <1>0, <1>10 DEF Catch, AfterReset, UpdateStatus, Goto, slot
  <2> QED
    BY <1>0, <2>1 DEF Claimed, Owns
<1>11. ASSUME NEW w \in Workers, Complete(w)
      PROVE Claimed'
  <2>1. /\ status' = status
        /\ \A v \in Workers, f \in Emails : Owns(v, f) => Owns(v, f)'
    BY <1>11 DEF Complete, Release, Goto, row, Owns
  <2> QED
    BY <1>0, <2>1, ClaimedLeave
<1>12. ASSUME NEW w \in Workers, Throw(w)
      PROVE Claimed'
  <2>1. /\ status' = status
        /\ \A v \in Workers, f \in Emails : Owns(v, f) => Owns(v, f)'
    BY <1>12 DEF Throw, Release, Goto, row, Owns
  <2> QED
    BY <1>0, <2>1, ClaimedLeave
<1>13. ASSUME NEW e \in Emails, Queue(e)
      PROVE Claimed'
  <2>1. /\ status' = status
        /\ \A v \in Workers, f \in Emails : Owns(v, f) => Owns(v, f)'
    BY <1>13 DEF Queue, Promote, LoseLock, Stall, row, slot, Owns
  <2> QED
    BY <1>0, <2>1, ClaimedLeave
<1>14. ASSUME NEW w \in Workers, NEW e \in Emails, Take(w, e)
      PROVE Claimed'
  <2>1. /\ status' = status
        /\ \A v \in Workers, f \in Emails : Owns(v, f) => Owns(v, f)'
    BY <1>14 DEF Take, Fetch, FailStalled, Goto, row, slot, Owns
  <2> QED
    BY <1>0, <2>1, ClaimedLeave
<1>15. ASSUME NEW p \in Processes, System(p)
      PROVE Claimed'
  <2>1. /\ status' = status
        /\ \A v \in Workers, f \in Emails : Owns(v, f) => Owns(v, f)'
    BY <1>0, <1>15 DEF System, Crash, Shutdown, ExitAndRestart, row, slot, Owns
  <2> QED
    BY <1>0, <2>1, ClaimedLeave
<1>16. CASE UNCHANGED vars
  BY <1>16 DEF Claimed, Owns, vars, row, slot
<1> QED
  BY <1>1, <1>2, <1>3, <1>4, <1>5, <1>6, <1>7, <1>8, <1>9,
     <1>10, <1>11, <1>12, <1>13, <1>14, <1>15, <1>16
  DEF Next, Process, Finished

\* What the two halves of NoOrphan need beside IInv, each without the faults
\* that would break it.
InHand ==
  /\ Never(Disruptions) => OwnedProcessing /\ Attached /\ Agreed
  /\ Never(Interruptions) => Claimed

LEMMA InHandStep == TypeOK /\ Ownership /\ InHand /\ [Next]_vars => InHand'
<1> SUFFICES ASSUME TypeOK, Ownership, InHand, [Next]_vars PROVE InHand'
  OBVIOUS
<1>1. ASSUME Never(Disruptions)' PROVE OwnedProcessing' /\ Attached' /\ Agreed'
  <2>1. Never(Disruptions)
    BY <1>1, NeverStep DEF FaultKinds, Disruptions
  <2>2. Never({"db"})'
    BY <1>1 DEF Never, Disruptions
  <2> QED
    BY <1>1, <2>1, <2>2, OwnedProcessingStep, AttachedStep, AgreedStep DEF InHand
<1>2. ASSUME Never(Interruptions)' PROVE Claimed'
  <2>1. Never(Interruptions)
    BY <1>2, NeverStep DEF FaultKinds, Interruptions
  <2> QED
    BY <1>2, <2>1, ClaimedStep DEF InHand
<1> QED
  BY <1>1, <1>2 DEF InHand

LEMMA InHandAlways == Spec => []InHand
<1>1. Init => InHand
  BY ConstantsAssumption
  DEF Init, InHand, OwnedProcessing, Owns, OwnerLabels, Attached, Agreed, Claimed
<1>2. IInv /\ InHand /\ [Next]_vars => InHand'
  BY InHandStep DEF IInv
<1> QED
  BY <1>1, <1>2, Invariance, PTL DEF Spec

\* A scheduled row has a job that will run, as long as no write fails, no
\* process crashes and no lock is lost; and a claimed row has a slot that will
\* give it up, as long as no write fails, no process crashes and none is
\* stopped.
THEOREM NoneOrphaned == Spec => []NoOrphan
<1>1. InHand => NoOrphan
  BY DEF InHand, Agreed, Claimed, NoOrphan, Disruptions, Interruptions
<1> QED
  BY <1>1, InHandAlways, PTL

\* When the queue has nothing left and every slot is free, every row says how
\* its email ended, as long as only SMTP misbehaved: the safety half of
\* EventuallySettled, for every number of emails, slots and attempts.
Drained ==
  /\ \A e \in Emails : jobState[e] \in {"completed", "failed"}
  /\ \A w \in Workers : pc[w] = "idle"

Settled == \A e \in Emails : status[e] \in {"sent", "failed"}

THEOREM DrainedMeansSettled ==
  Spec => [](Never({"db", "crash", "lock", "stop"}) /\ Drained => Settled)
<1>1. TypeOK /\ InHand => (Never({"db", "crash", "lock", "stop"}) /\ Drained => Settled)
  <2> SUFFICES ASSUME TypeOK, InHand, Never({"db", "crash", "lock", "stop"}), Drained,
                      NEW e \in Emails
               PROVE  status[e] \in {"sent", "failed"}
    BY DEF Settled
  <2>1. Never(Disruptions) /\ Never(Interruptions)
    BY DEF Never, Disruptions, Interruptions
  <2>2. status[e] # "scheduled"
    BY <2>1 DEF InHand, Agreed, Drained
  <2>3. status[e] # "processing"
    BY <2>1 DEF InHand, Claimed, Drained, Owns, OwnerLabels
  <2> QED
    BY <2>2, <2>3 DEF TypeOK, EmailStatus
<1> QED
  BY <1>1, InHandAlways, TypeCorrect, PTL

-----------------------------------------------------------------------------
(***************************************************************************)
(* The number of deliveries.  A slot that takes a job can deliver its      *)
(* email once.  The run ends by completing the job, as a counted attempt,  *)
(* by losing the lock, which BullMQ counts as a stall, or by a deferral,   *)
(* before anything was sent.  So the deliveries are charged to the runs    *)
(* that have ended, and to the present one once it is past the send.  A    *)
(* slot that lost the lock before the send may still deliver: its run is   *)
(* counted already, and it is held against that count until it has sent    *)
(* or given up.                                                            *)
(***************************************************************************)
BeforeSend ==
  {"find", "claim", "minDelay", "hourly", "notify", "defer", "moveToDelayed", "send"}

\* The lock's holder read the attempts that Redis has, and neither attempts nor
\* stalls run past their limits by more than the one that ends the job.
Counted == \A e \in Emails :
  /\ lockedBy[e] # None => jobState[e] = "active" /\ made[lockedBy[e]] = attemptsMade[e]
  /\ attemptsMade[e] <= Attempts
  /\ jobState[e] # "failed" => attemptsMade[e] < Attempts
  /\ stalledCount[e] <= MaxStalled + 1
  /\ jobState[e] \notin {"waiting", "failed"} => stalledCount[e] <= MaxStalled

\* A run that has lost its lock, and is counted as stalled or is about to be,
\* may yet deliver.
IsLate(w, e) == current[w] = e /\ lockedBy[e] # w /\ pc[w] \in BeforeSend

Late(e) == {w \in Workers : IsLate(w, e)}

\* The job's last run may have delivered but is neither an attempt nor a stall:
\* it is past the send, or lost its lock, or completed the job.
LastRunUncounted(e) ==
  \/ jobState[e] = "active" /\ lockedBy[e] = None
  \/ lockedBy[e] # None /\ pc[lockedBy[e]] \notin BeforeSend
  \/ jobState[e] = "completed"

\* BullMQ counted an attempt for the stall too many, which was no run.
StalledOut(e) == jobState[e] = "failed" /\ stalledCount[e] > MaxStalled

\* The runs that may have delivered.
Runs(e) ==
  attemptsMade[e] + stalledCount[e]
    + (IF LastRunUncounted(e) THEN 1 ELSE 0) - (IF StalledOut(e) THEN 1 ELSE 0)

ChargedAt(e) ==
  /\ IsFiniteSet(Late(e))
  /\ deliveries[e] + Cardinality(Late(e)) <= Runs(e)

Charged == \A e \in Emails : ChargedAt(e)

LEMMA CountedStep == TypeOK /\ Counted /\ [Next]_vars => Counted'
<1> SUFFICES ASSUME TypeOK, Counted, [Next]_vars PROVE Counted'
  OBVIOUS
<1> USE ConstantsAssumption DEF TypeOK, LocksAreHeld, Counted
<1>1. ASSUME NEW w \in Workers, FindForWorker(w) \/ ClaimScheduled(w) \/ NotifyRateLimit(w)
      PROVE Counted'
  BY <1>1 DEF FindForWorker, ClaimScheduled, NotifyRateLimit, job, slot
<1>2. ASSUME NEW w \in Workers, NEW allowed \in BOOLEAN,
             ReserveMinimumDelay(w, allowed) \/ ReserveHourlySlot(w, allowed)
      PROVE Counted'
  BY <1>2 DEF ReserveMinimumDelay, ReserveHourlySlot, job, slot
<1>3. ASSUME NEW w \in Workers, DeferEmail(w) \/ Send(w) \/ MarkSent(w) \/ Catch(w)
      PROVE Counted'
  BY <1>3 DEF DeferEmail, Send, MarkSent, Catch, job, slot
<1>4. ASSUME NEW w \in Workers, MoveToDelayed(w) PROVE Counted'
  BY <1>4 DEF MoveToDelayed, Release, slot
<1>5. ASSUME NEW w \in Workers, Complete(w) PROVE Counted'
  BY <1>5 DEF Complete, Release
<1>6. ASSUME NEW w \in Workers, Throw(w) PROVE Counted'
  BY <1>6 DEF Throw, Release
<1>7. ASSUME NEW e \in Emails, Queue(e) PROVE Counted'
  BY <1>7 DEF Queue, Promote, LoseLock, Stall, slot
<1>8. ASSUME NEW w \in Workers, NEW e \in Emails, Take(w, e) PROVE Counted'
  BY <1>8 DEF Take, Fetch, FailStalled, StalledTooOften, slot
<1>9. ASSUME NEW p \in Processes, System(p) PROVE Counted'
  BY <1>9 DEF System, Crash, Shutdown, ExitAndRestart, job, slot
<1>10. CASE UNCHANGED vars
  BY <1>10 DEF vars, job, slot
<1> QED
  BY <1>1, <1>2, <1>3, <1>4, <1>5, <1>6, <1>7, <1>8, <1>9, <1>10 DEF Next, Process, Finished

\* The runs of an email are a number.
LEMMA RunsType == ASSUME TypeOK, NEW e \in Emails PROVE Runs(e) \in Int
BY DEF TypeOK, Runs

\* No slot became late, and the runs did not become fewer.
LEMMA NobodyLate ==
  ASSUME TypeOK, TypeOK', NEW e \in Emails, ChargedAt(e),
         \A w \in Workers : IsLate(w, e)' => IsLate(w, e),
         deliveries'[e] = deliveries[e], Runs(e)' >= Runs(e)
  PROVE  ChargedAt(e)'
<1>1. Late(e)' \in SUBSET Late(e)
  BY DEF Late
<1>2. IsFiniteSet(Late(e)') /\ Cardinality(Late(e)') <= Cardinality(Late(e))
  BY <1>1, FS_Subset DEF ChargedAt
<1>3. Cardinality(Late(e)) \in Nat /\ Cardinality(Late(e)') \in Nat
  BY <1>2, FS_CardinalityType DEF ChargedAt
<1>4. Runs(e) \in Int /\ Runs(e)' \in Int
  BY RunsType DEF TypeOK, Runs
<1>5. deliveries[e] \in Nat
  BY DEF TypeOK
<1> QED
  BY <1>2, <1>3, <1>4, <1>5 DEF ChargedAt

\* A step that leaves queue and mail server alone and takes no slot back before
\* the send.
LEMMA RunGoesOn ==
  ASSUME TypeOK, TypeOK', Counted, Charged, UNCHANGED <<job, current, deliveries>>,
         \A v \in Workers : pc'[v] \in BeforeSend => pc[v] \in BeforeSend
  PROVE  Charged'
<1> SUFFICES ASSUME NEW e \in Emails PROVE ChargedAt(e)'
  BY DEF Charged
<1>1. \A v \in Workers : IsLate(v, e)' => IsLate(v, e)
  BY DEF IsLate, job
<1>2. LastRunUncounted(e) => LastRunUncounted(e)'
  BY DEF LastRunUncounted, job, TypeOK
<1>3. Runs(e)' >= Runs(e)
  BY <1>2 DEF Runs, StalledOut, job, TypeOK
<1> QED
  BY <1>1, <1>3, NobodyLate DEF Charged

\* What a delivery is charged to: the run it ends the uncounted part of, or the
\* late slot that made it.
LEMMA Delivered ==
  ASSUME TypeOK, TypeOK', Counted, Charged, NEW w \in Workers, pc[w] = "send", pc'[w] \notin BeforeSend,
         \A v \in Workers \ {w} : pc'[v] = pc[v],
         UNCHANGED <<job, current>>,
         deliveries' = [deliveries EXCEPT ![current[w]] = @ + 1]
  PROVE  Charged'
<1> DEFINE d == current[w]
<1>0. d \in Emails
  BY DEF TypeOK
<1> SUFFICES ASSUME NEW e \in Emails PROVE ChargedAt(e)'
  BY DEF Charged
<1>1. \A v \in Workers : IsLate(v, e)' <=> IsLate(v, e) /\ v # w
  BY DEF IsLate, job
<1>2. LastRunUncounted(e) => LastRunUncounted(e)'
  BY DEF LastRunUncounted, job, TypeOK, BeforeSend
<1>3. Runs(e)' >= Runs(e)
  BY <1>2 DEF Runs, StalledOut, job, TypeOK
<1>4. CASE e # d
  <2>1. deliveries'[e] = deliveries[e]
    BY <1>0, <1>4 DEF TypeOK
  <2> QED
    BY <1>1, <1>3, <2>1, NobodyLate DEF Charged
<1>5. CASE e = d
  <2>1. deliveries[e] \in Nat /\ deliveries'[e] = deliveries[e] + 1
    BY <1>0, <1>5 DEF TypeOK
  <2>2. Late(e)' = Late(e) \ {w}
    BY <1>1 DEF Late
  <2>3. /\ IsFiniteSet(Late(e)) /\ Cardinality(Late(e)) \in Nat
        /\ deliveries[e] + Cardinality(Late(e)) <= Runs(e)
    BY FS_CardinalityType DEF Charged, ChargedAt
  <2>4. Runs(e) \in Int /\ Runs(e)' \in Int
    BY RunsType DEF TypeOK, Runs
  <2>5. /\ IsFiniteSet(Late(e) \ {w})
        /\ w \in Late(e) => Cardinality(Late(e) \ {w}) = Cardinality(Late(e)) - 1
        /\ w \notin Late(e) => Cardinality(Late(e) \ {w}) = Cardinality(Late(e))
    BY <2>3, FS_RemoveElement
  <2>6. CASE lockedBy[e] = w
    <3>1. ~LastRunUncounted(e) /\ LastRunUncounted(e)'
      BY <1>0, <1>5, <2>6, ConstantsAssumption DEF LastRunUncounted, Counted, BeforeSend, job, TypeOK
    <3>2. Runs(e)' = Runs(e) + 1
      BY <3>1 DEF Runs, StalledOut, job, TypeOK
    <3>3. w \notin Late(e)
      BY <2>6 DEF Late, IsLate
    <3> QED
      BY <2>1, <2>2, <2>3, <2>4, <2>5, <3>2, <3>3 DEF ChargedAt
  <2>7. CASE lockedBy[e] # w
    <3>1. w \in Late(e)
      BY <1>5, <2>7 DEF Late, IsLate, BeforeSend
    <3> QED
      BY <1>3, <2>1, <2>2, <2>3, <2>4, <2>5, <3>1 DEF ChargedAt
  <2> QED
    BY <2>6, <2>7
<1> QED
  BY <1>4, <1>5

LEMMA ChargedStep == TypeOK /\ Counted /\ Charged /\ [Next]_vars => Charged'
<1> SUFFICES ASSUME TypeOK, Counted, Charged, [Next]_vars PROVE Charged'
  OBVIOUS
<1>0. TypeOK' /\ Counted'
  BY TypeStep, CountedStep
<1>1. ASSUME NEW w \in Workers, FindForWorker(w) PROVE Charged'
  BY <1>0, <1>1, RunGoesOn DEF FindForWorker, Goto, BeforeSend, row, slot, TypeOK
<1>2. ASSUME NEW w \in Workers, ClaimScheduled(w) PROVE Charged'
  BY <1>0, <1>2, RunGoesOn DEF ClaimScheduled, UpdateStatus, Goto, BeforeSend, slot, TypeOK
<1>3. ASSUME NEW w \in Workers, NEW allowed \in BOOLEAN, ReserveMinimumDelay(w, allowed)
      PROVE Charged'
  BY <1>0, <1>3, RunGoesOn DEF ReserveMinimumDelay, Goto, BeforeSend, row, slot, TypeOK
<1>4. ASSUME NEW w \in Workers, NEW allowed \in BOOLEAN, ReserveHourlySlot(w, allowed)
      PROVE Charged'
  BY <1>0, <1>4, RunGoesOn DEF ReserveHourlySlot, Goto, BeforeSend, row, slot, TypeOK
<1>5. ASSUME NEW w \in Workers, NotifyRateLimit(w) PROVE Charged'
  BY <1>0, <1>5, RunGoesOn DEF NotifyRateLimit, Goto, BeforeSend, row, slot, TypeOK
<1>6. ASSUME NEW w \in Workers, DeferEmail(w) PROVE Charged'
  BY <1>0, <1>6, RunGoesOn DEF DeferEmail, UpdateStatus, Goto, BeforeSend, slot, TypeOK
<1>7. ASSUME NEW w \in Workers, MoveToDelayed(w) PROVE Charged'
  <2> DEFINE d == current[w]
  <2>0. d \in Emails
    BY <1>7 DEF MoveToDelayed, TypeOK
  <2>1. CASE lockedBy[d] # w
    BY <1>0, <1>7, <2>1, RunGoesOn DEF MoveToDelayed, Goto, BeforeSend, row, job, slot, TypeOK
  <2>2. CASE lockedBy[d] = w
    <3> SUFFICES ASSUME NEW e \in Emails PROVE ChargedAt(e)'
      BY DEF Charged
    <3>1. \A v \in Workers : IsLate(v, e)' => IsLate(v, e)
      BY <1>7, <2>0, <2>2, ConstantsAssumption DEF MoveToDelayed, Release, Goto, IsLate, BeforeSend, TypeOK
    <3>2. /\ deliveries'[e] = deliveries[e]
          /\ attemptsMade'[e] = attemptsMade[e] /\ stalledCount'[e] = stalledCount[e]
      BY <1>7 DEF MoveToDelayed, row
    <3>3. LastRunUncounted(e) => LastRunUncounted(e)'
      BY <1>7, <2>0, <2>2, ConstantsAssumption
      DEF MoveToDelayed, Release, Goto, LastRunUncounted, BeforeSend, Counted, LocksAreHeld, TypeOK
    <3>4. StalledOut(e)' => StalledOut(e)
      BY <1>7, <2>0, <2>2 DEF MoveToDelayed, StalledOut, TypeOK
    <3>5. Runs(e)' >= Runs(e)
      BY <3>2, <3>3, <3>4 DEF Runs, TypeOK
    <3> QED
      BY <1>0, <3>1, <3>2, <3>5, NobodyLate DEF Charged
  <2> QED
    BY <2>1, <2>2
<1>8. ASSUME NEW w \in Workers, Send(w) PROVE Charged'
  <2>1. CASE deliveries' = deliveries
    BY <1>0, <1>8, <2>1, RunGoesOn DEF Send, AfterRejection, Goto, BeforeSend, job, slot, TypeOK
  <2>2. CASE deliveries' # deliveries
    <3>1. /\ pc[w] = "send" /\ pc'[w] \notin BeforeSend
          /\ \A v \in Workers \ {w} : pc'[v] = pc[v]
          /\ UNCHANGED <<job, current>>
          /\ deliveries' = [deliveries EXCEPT ![current[w]] = @ + 1]
      BY <1>8, <2>2 DEF Send, Goto, BeforeSend, slot, TypeOK
    <3> QED
      BY <1>0, <3>1, Delivered
  <2> QED
    BY <2>1, <2>2
<1>9. ASSUME NEW w \in Workers, MarkSent(w) PROVE Charged'
  BY <1>0, <1>9, RunGoesOn DEF MarkSent, UpdateStatus, Goto, BeforeSend, slot, TypeOK
<1>10. ASSUME NEW w \in Workers, Catch(w) PROVE Charged'
  BY <1>0, <1>10, RunGoesOn DEF Catch, AfterReset, UpdateStatus, Goto, BeforeSend, slot, TypeOK
<1>11. ASSUME NEW w \in Workers, Complete(w) PROVE Charged'
  <2> DEFINE d == current[w]
  <2>0. d \in Emails
    BY <1>11 DEF Complete, TypeOK
  <2> SUFFICES ASSUME NEW e \in Emails PROVE ChargedAt(e)'
    BY DEF Charged
  <2>1. \A v \in Workers : IsLate(v, e)' => IsLate(v, e)
    BY <1>11, <2>0, ConstantsAssumption DEF Complete, Release, Goto, IsLate, BeforeSend, LocksAreHeld, TypeOK
  <2>2. /\ deliveries'[e] = deliveries[e]
        /\ attemptsMade'[e] = attemptsMade[e] /\ stalledCount'[e] = stalledCount[e]
    BY <1>11 DEF Complete, row
  <2>3. LastRunUncounted(e) => LastRunUncounted(e)'
    BY <1>11, <2>0, ConstantsAssumption
    DEF Complete, Release, Goto, LastRunUncounted, BeforeSend, LocksAreHeld, TypeOK
  <2>4. StalledOut(e)' => StalledOut(e)
    BY <1>11, <2>0 DEF Complete, StalledOut, TypeOK
  <2>5. Runs(e)' >= Runs(e)
    BY <2>2, <2>3, <2>4 DEF Runs, TypeOK
  <2> QED
    BY <1>0, <2>1, <2>2, <2>5, NobodyLate DEF Charged
<1>12. ASSUME NEW w \in Workers, Throw(w) PROVE Charged'
  <2> DEFINE d == current[w]
  <2>0. d \in Emails
    BY <1>12 DEF Throw, TypeOK
  <2> SUFFICES ASSUME NEW e \in Emails PROVE ChargedAt(e)'
    BY DEF Charged
  <2>1. \A v \in Workers : IsLate(v, e)' => IsLate(v, e)
    BY <1>12, <2>0, ConstantsAssumption DEF Throw, Release, Goto, IsLate, BeforeSend, LocksAreHeld, TypeOK
  <2>2. deliveries'[e] = deliveries[e] /\ stalledCount'[e] = stalledCount[e]
    BY <1>12 DEF Throw, row
  <2>3. CASE e = d /\ lockedBy[e] = w
    <3>1. /\ attemptsMade'[e] = attemptsMade[e] + 1
          /\ jobState[e] = "active" /\ stalledCount[e] <= MaxStalled
      BY <1>12, <2>0, <2>3, ConstantsAssumption DEF Throw, Counted, TypeOK
    <3>2. ~StalledOut(e)'
      BY <2>2, <3>1, ConstantsAssumption DEF StalledOut, TypeOK
    <3>3. Runs(e)' >= Runs(e)
      BY <2>2, <3>1, <3>2 DEF Runs, TypeOK
    <3> QED
      BY <1>0, <2>1, <2>2, <3>3, NobodyLate DEF Charged
  <2>4. CASE ~(e = d /\ lockedBy[e] = w)
    <3>1. /\ attemptsMade'[e] = attemptsMade[e] /\ jobState'[e] = jobState[e]
          /\ lockedBy'[e] = lockedBy[e]
      BY <1>12, <2>0, <2>4 DEF Throw, TypeOK
    <3>2. LastRunUncounted(e) => LastRunUncounted(e)'
      BY <1>12, <2>0, <2>4, <3>1, ConstantsAssumption
      DEF Throw, Release, Goto, LastRunUncounted, BeforeSend, LocksAreHeld, TypeOK
    <3>3. Runs(e)' >= Runs(e)
      BY <2>2, <3>1, <3>2 DEF Runs, StalledOut, TypeOK
    <3> QED
      BY <1>0, <2>1, <2>2, <3>3, NobodyLate DEF Charged
  <2> QED
    BY <2>3, <2>4
<1>13. ASSUME NEW f \in Emails, Queue(f) PROVE Charged'
  <2> SUFFICES ASSUME NEW e \in Emails PROVE ChargedAt(e)'
    BY DEF Charged
  <2>1. deliveries'[e] = deliveries[e] /\ attemptsMade'[e] = attemptsMade[e]
    BY <1>13 DEF Queue, Promote, LoseLock, Stall, row
  <2>2. CASE Promote(f) \/ Stall(f)
    <3>1. \A v \in Workers : IsLate(v, e)' => IsLate(v, e)
      BY <2>2 DEF Promote, Stall, slot, IsLate
    <3>2. Runs(e)' >= Runs(e)
      BY <2>2, ConstantsAssumption
      DEF Promote, Stall, Runs, LastRunUncounted, StalledOut, Counted, TypeOK
    <3> QED
      BY <1>0, <2>1, <3>1, <3>2, NobodyLate DEF Charged
  <2>3. CASE LoseLock(f) /\ e # f
    <3>1. \A v \in Workers : IsLate(v, e)' => IsLate(v, e)
      BY <2>3 DEF LoseLock, slot, IsLate, TypeOK
    <3>2. Runs(e)' >= Runs(e)
      BY <2>3 DEF LoseLock, Runs, LastRunUncounted, StalledOut, TypeOK
    <3> QED
      BY <1>0, <2>1, <3>1, <3>2, NobodyLate DEF Charged
  <2>4. CASE LoseLock(f) /\ e = f
    <3> DEFINE h == lockedBy[e]
    <3>1. /\ h \in Workers
          /\ UNCHANGED <<current, pc>>
      BY <2>4 DEF LoseLock, slot, TypeOK
    <3>2. CASE pc[h] \notin BeforeSend
      <4>1. \A v \in Workers : IsLate(v, e)' => IsLate(v, e)
        BY <3>1, <3>2 DEF IsLate
      <4>2. Runs(e)' >= Runs(e)
        BY <2>4 DEF LoseLock, Runs, LastRunUncounted, StalledOut, TypeOK
      <4> QED
        BY <1>0, <2>1, <4>1, <4>2, NobodyLate DEF Charged
    <3>3. CASE pc[h] \in BeforeSend
      <4>1. Runs(e)' = Runs(e) + 1
        BY <2>4, <3>1, <3>3, ConstantsAssumption
        DEF LoseLock, Runs, LastRunUncounted, StalledOut, Counted, TypeOK
      <4>2. /\ IsFiniteSet(Late(e)) /\ Cardinality(Late(e)) \in Nat
            /\ deliveries[e] + Cardinality(Late(e)) <= Runs(e)
        BY FS_CardinalityType DEF Charged, ChargedAt
      <4>3. /\ IsFiniteSet(Late(e) \cup {h})
            /\ \/ Cardinality(Late(e) \cup {h}) = Cardinality(Late(e))
               \/ Cardinality(Late(e) \cup {h}) = Cardinality(Late(e)) + 1
        BY <4>2, FS_AddElement
      <4>4. Late(e)' \in SUBSET (Late(e) \cup {h})
        BY <3>1 DEF Late, IsLate
      <4>5. /\ IsFiniteSet(Late(e)')
            /\ Cardinality(Late(e)') <= Cardinality(Late(e) \cup {h})
            /\ Cardinality(Late(e)') \in Nat
        BY <4>3, <4>4, FS_Subset, FS_CardinalityType
      <4>6. deliveries[e] \in Nat /\ Runs(e) \in Int
        BY RunsType DEF TypeOK
      <4> QED
        BY <2>1, <4>1, <4>2, <4>3, <4>5, <4>6 DEF ChargedAt
    <3> QED
      BY <3>2, <3>3
  <2> QED
    BY <1>13, <2>2, <2>3, <2>4 DEF Queue
<1>14. ASSUME NEW w \in Workers, NEW f \in Emails, Take(w, f) PROVE Charged'
  <2> SUFFICES ASSUME NEW e \in Emails PROVE ChargedAt(e)'
    BY DEF Charged
  <2>1. deliveries'[e] = deliveries[e] /\ stalledCount'[e] = stalledCount[e]
    BY <1>14 DEF Take, Fetch, FailStalled, row
  <2>2. CASE Fetch(w, f)
    <3>1. \A v \in Workers : IsLate(v, e)' => IsLate(v, e)
      BY <2>2, ConstantsAssumption DEF Fetch, Goto, IsLate, Counted, TypeOK
    <3>2. LastRunUncounted(e) => LastRunUncounted(e)'
      BY <2>2, ConstantsAssumption
      DEF Fetch, Goto, LastRunUncounted, BeforeSend, Counted, LocksAreHeld, TypeOK
    <3>3. StalledOut(e)' => StalledOut(e)
      BY <2>2 DEF Fetch, StalledOut, TypeOK
    <3>4. Runs(e)' >= Runs(e)
      BY <2>1, <2>2, <3>2, <3>3 DEF Fetch, Runs, TypeOK
    <3> QED
      BY <1>0, <2>1, <3>1, <3>4, NobodyLate DEF Charged
  <2>3. CASE FailStalled(w, f)
    <3>1. \A v \in Workers : IsLate(v, e)' => IsLate(v, e)
      BY <2>3 DEF FailStalled, slot, IsLate
    <3>2. Runs(e)' >= Runs(e)
      BY <2>3, ConstantsAssumption
      DEF FailStalled, Runs, LastRunUncounted, StalledOut, Counted, TypeOK
    <3> QED
      BY <1>0, <2>1, <3>1, <3>2, NobodyLate DEF Charged
  <2> QED
    BY <1>14, <2>2, <2>3 DEF Take
<1>15. ASSUME NEW p \in Processes, System(p) PROVE Charged'
  <2>1. CASE Crash(p)
    <3> SUFFICES ASSUME NEW e \in Emails PROVE ChargedAt(e)'
      BY DEF Charged
    <3>1. \A v \in Workers : IsLate(v, e)' => IsLate(v, e)
      BY <2>1, ConstantsAssumption DEF Crash, IsLate, BeforeSend, LocksAreHeld, TypeOK
    <3>2. deliveries'[e] = deliveries[e]
      BY <2>1 DEF Crash, row
    <3>3. LastRunUncounted(e) => LastRunUncounted(e)'
      BY <2>1, ConstantsAssumption DEF Crash, LastRunUncounted, Counted, TypeOK
    <3>4. Runs(e)' >= Runs(e)
      BY <2>1, <3>3 DEF Crash, Runs, StalledOut, TypeOK
    <3> QED
      BY <1>0, <3>1, <3>2, <3>4, NobodyLate DEF Charged
  <2>2. CASE Shutdown(p) \/ ExitAndRestart(p)
    BY <1>0, <2>2, RunGoesOn DEF Shutdown, ExitAndRestart, row, slot
  <2> QED
    BY <1>15, <2>1, <2>2 DEF System
<1>16. CASE UNCHANGED vars
  BY <1>0, <1>16, RunGoesOn DEF vars, row, job, slot
<1> QED
  BY <1>1, <1>2, <1>3, <1>4, <1>5, <1>6, <1>7, <1>8, <1>9, <1>10, <1>11, <1>12,
     <1>13, <1>14, <1>15, <1>16 DEF Next, Process, Finished

\* An email that was never run owes nothing.
LEMMA NothingCharged ==
  ASSUME NEW e \in Emails, Late(e) = {}, Runs(e) = 0, deliveries[e] = 0
  PROVE  ChargedAt(e)
BY FS_EmptySet DEF ChargedAt

LEMMA ChargesBound == TypeOK /\ Counted /\ Charged => DeliveryBound
<1> USE ConstantsAssumption
<1> SUFFICES ASSUME TypeOK, Counted, Charged, NEW e \in Emails
             PROVE  deliveries[e] <= Attempts + MaxStalled
  BY DEF DeliveryBound
<1>1. Cardinality(Late(e)) \in Nat /\ deliveries[e] + Cardinality(Late(e)) <= Runs(e)
  BY FS_CardinalityType DEF Charged, ChargedAt
<1>2. Runs(e) <= Attempts + MaxStalled
  BY DEF Runs, LastRunUncounted, StalledOut, Counted, TypeOK
<1>3. deliveries[e] \in Nat /\ Runs(e) \in Int
  BY RunsType DEF TypeOK
<1> QED
  BY <1>1, <1>2, <1>3

\* No recipient gets more messages than the job has attempts and tolerated
\* stalls, whatever faults happen and however many slots run.
THEOREM DeliveriesAreBounded == Spec => []DeliveryBound
<1>1. Init => Counted /\ Charged
  <2> SUFFICES ASSUME Init PROVE Counted /\ Charged
    OBVIOUS
  <2>1. Counted
    BY ConstantsAssumption DEF Init, Counted
  <2>2. ASSUME NEW e \in Emails PROVE ChargedAt(e)
    <3>1. Late(e) = {}
      BY ConstantsAssumption DEF Init, Late, IsLate
    <3>2. Runs(e) = 0 /\ deliveries[e] = 0
      BY ConstantsAssumption DEF Init, Runs, LastRunUncounted, StalledOut
    <3> QED
      BY <3>1, <3>2, NothingCharged
  <2> QED
    BY <2>1, <2>2 DEF Charged
<1> QED
  BY <1>1, ChargesBound, TypeCorrect, CountedStep, ChargedStep, PTL DEF Spec
=============================================================================
