------------------------ MODULE CampaignDeliveryProofs ------------------------
(***************************************************************************)
(* Proofs about CampaignScheduling and about its composition with          *)
(* EmailDelivery, for every number of requests, recipients, worker slots   *)
(* and processes and every bound on the faults.  The composition           *)
(* implements CampaignScheduling: whatever the workers do beside the loop, *)
(* with all their faults, is work that CampaignScheduling allows them.     *)
(* What is proved of the loop therefore holds of the whole system.         *)
(***************************************************************************)
EXTENDS CampaignDelivery, TLAPS

-----------------------------------------------------------------------------
(* The loop of createCampaign by itself *)

\* How far the loop of request r has come: the rows before the current one
\* are done, those after it untouched.
Progress(r) ==
  /\ pc[r] \in {"new", "create"} => next[r] = 1 /\ job[<<r, 1>>] = "none"
  /\ r \notin committed => next[r] = 1 /\ job[<<r, 1>>] = "none"
  /\ pc[r] = "enqueue" => job[<<r, next[r]>>] = "none"
  /\ pc[r] \in {"record", "created"} => job[<<r, next[r]>>] # "none"
  /\ pc[r] = "created" => next[r] = N /\ <<r, N>> \in bullJobId
  /\ <<r, next[r]>> \in bullJobId => job[<<r, next[r]>>] # "none"
  /\ \A i \in 1..N :
       /\ i < next[r] => job[<<r, i>>] # "none" /\ <<r, i>> \in bullJobId
       /\ i > next[r] => job[<<r, i>>] = "none" /\ <<r, i>> \notin bullJobId

Inv == TypeOK /\ \A r \in Requests : Progress(r)

\* A step of one request leaves the others' progress alone.
LEMMA OthersProgress ==
  ASSUME Inv, NEW r \in Requests, NEW q \in Requests, q # r,
         pc'[q] = pc[q], next'[q] = next[q],
         q \in committed' <=> q \in committed,
         \A i \in 1..N : /\ job'[<<q, i>>] = job[<<q, i>>]
                         /\ <<q, i>> \in bullJobId' <=> <<q, i>> \in bullJobId
  PROVE  Progress(q)'
BY SchedulingAssumption DEF Inv, Progress, TypeOK

LEMMA InvStep == Inv /\ [Next]_vars => Inv'
<1> SUFFICES ASSUME Inv, [Next]_vars PROVE Inv'
  OBVIOUS
<1> USE SchedulingAssumption DEF Running, Ended, Rows, EmailStatus, JobStates
<1>1. ASSUME NEW r \in Requests, Receive(r) PROVE Inv'
  BY <1>1 DEF Inv, TypeOK, Progress, Receive, Goto
<1>2. ASSUME NEW r \in Requests, CreateWithEmails(r) PROVE Inv'
  <2>1. TypeOK'
    BY <1>2 DEF Inv, TypeOK, CreateWithEmails, Goto, Fault
  <2>2. Progress(r)'
    BY <1>2 DEF Inv, TypeOK, Progress, CreateWithEmails, Goto
  <2>3. ASSUME NEW q \in Requests, q # r PROVE Progress(q)'
    <3>1. q \in committed' <=> q \in committed
      BY <1>2, <2>3 DEF CreateWithEmails
    <3> QED
      BY <1>2, <2>3, <3>1, OthersProgress DEF Inv, TypeOK, CreateWithEmails, Goto
  <2> QED
    BY <2>1, <2>2, <2>3 DEF Inv
<1>3. ASSUME NEW r \in Requests, ScheduleEmail(r) PROVE Inv'
  <2>1. TypeOK'
    BY <1>3 DEF Inv, TypeOK, ScheduleEmail, OnQueueError, Goto, Fault
  <2>2. Progress(r)'
    <3> DEFINE n == next[r]
    <3>1. /\ Progress(r) /\ pc[r] = "enqueue" /\ n \in 1..N /\ r \in committed
          /\ next' = next /\ committed' = committed /\ bullJobId' = bullJobId
          /\ <<r, n>> \in Rows
      BY <1>3 DEF Inv, TypeOK, ScheduleEmail
    <3>2. \/ job' = [job EXCEPT ![<<r, n>>] = "delayed"] /\ pc'[r] \in {"record", "error"}
          \/ job' = job /\ pc'[r] = "error"
      BY <1>3 DEF Inv, TypeOK, ScheduleEmail, OnQueueError, Goto
    <3>3. /\ \A i \in 1..N : i # n => job'[<<r, i>>] = job[<<r, i>>]
          /\ job'[<<r, n>>] = "delayed" \/ (job'[<<r, n>>] = job[<<r, n>>] /\ pc'[r] = "error")
      BY <3>1, <3>2 DEF Inv, TypeOK
    <3>4. pc'[r] \in {"record", "error"}
      BY <3>2
    <3> HIDE DEF n
    <3> QED
      BY <3>1, <3>3, <3>4 DEF Progress, n
  <2>3. ASSUME NEW q \in Requests, q # r PROVE Progress(q)'
    <3>1. \A i \in 1..N : job'[<<q, i>>] = job[<<q, i>>]
      BY <1>3, <2>3 DEF ScheduleEmail, Inv, TypeOK
    <3> QED
      BY <1>3, <2>3, <3>1, OthersProgress DEF Inv, TypeOK, ScheduleEmail, OnQueueError, Goto
  <2> QED
    BY <2>1, <2>2, <2>3 DEF Inv
<1>4. ASSUME NEW r \in Requests, SetEmailBullJobId(r) PROVE Inv'
  <2>1. TypeOK'
    BY <1>4 DEF Inv, TypeOK, SetEmailBullJobId, IsLast, UpdatedRow, Goto, Fault
  <2>2. Progress(r)'
    <3> DEFINE n == next[r]
    <3>1. /\ Progress(r) /\ pc[r] = "record" /\ n \in 1..N /\ r \in committed
          /\ job' = job /\ committed' = committed
          /\ bullJobId' \in {bullJobId, bullJobId \cup {<<r, n>>}}
      BY <1>4 DEF Inv, TypeOK, SetEmailBullJobId
    <3>2. \/ next'[r] = n /\ pc'[r] = "error"
          \/ /\ next'[r] = n /\ pc'[r] = "created" /\ n = N
             /\ bullJobId' = bullJobId \cup {<<r, n>>}
          \/ /\ next'[r] = n + 1 /\ pc'[r] = "enqueue" /\ n # N
             /\ bullJobId' = bullJobId \cup {<<r, n>>}
      BY <1>4, <3>1 DEF Inv, TypeOK, SetEmailBullJobId, IsLast, Goto
    <3>3. n # N => n + 1 \in 1..N
      BY <3>1
    <3> HIDE DEF n
    <3> QED
      BY <3>1, <3>2, <3>3 DEF Progress, n
  <2>3. ASSUME NEW q \in Requests, q # r PROVE Progress(q)'
    <3>1. \A i \in 1..N : <<q, i>> \in bullJobId' <=> <<q, i>> \in bullJobId
      BY <1>4, <2>3 DEF SetEmailBullJobId
    <3> QED
      BY <1>4, <2>3, <3>1, OthersProgress DEF Inv, TypeOK, SetEmailBullJobId, Goto
  <2> QED
    BY <2>1, <2>2, <2>3 DEF Inv
<1>5. CASE Crash
  <2>1. TypeOK'
    BY <1>5 DEF Inv, TypeOK, Crash, Fault
  <2>2. ASSUME NEW r \in Requests PROVE Progress(r)'
    BY <1>5 DEF Inv, TypeOK, Progress, Crash
  <2> QED
    BY <2>1, <2>2 DEF Inv
<1>6. ASSUME NEW row \in Rows, Work(row) PROVE Inv'
  <2>1. TypeOK'
    BY <1>6 DEF Inv, TypeOK, Work
  <2>2. \A r \in Requests, i \in 1..N : job'[<<r, i>>] = "none" <=> job[<<r, i>>] = "none"
    BY <1>6 DEF Inv, TypeOK, Work
  <2>3. ASSUME NEW r \in Requests PROVE Progress(r)'
    BY <1>6, <2>2 DEF Inv, TypeOK, Progress, Work
  <2> QED
    BY <2>1, <2>3 DEF Inv
<1>7. CASE UNCHANGED vars
  BY <1>7 DEF Inv, TypeOK, Progress, vars
<1> QED
  BY <1>1, <1>2, <1>3, <1>4, <1>5, <1>6, <1>7 DEF Next, CreateCampaign

THEOREM Invariance == Spec => []Inv
<1>1. Init => Inv
  BY SchedulingAssumption DEF Init, Inv, TypeOK, Progress, Rows, EmailStatus, JobStates
<1> QED
  BY <1>1, InvStep, PTL DEF Spec

\* No worker finds a job without its row.
THEOREM JobsHaveRows == Spec => []JobHasRow
<1>1. Inv => JobHasRow
  <2> SUFFICES ASSUME Inv, NEW r \in Requests, NEW i \in 1..N, r \notin committed
               PROVE  job[<<r, i>>] = "none"
    BY DEF JobHasRow, Rows
  <2>1. Progress(r) /\ i \in Nat
    BY SchedulingAssumption DEF Inv
  <2> QED
    BY <2>1, SchedulingAssumption DEF Progress
<1> QED
  BY <1>1, Invariance, PTL

\* Whatever fails, the rows that have jobs are a prefix of the campaign.
THEOREM JobsFormAPrefix == Spec => []JobsAreAPrefix
<1>1. Inv => JobsAreAPrefix
  <2> SUFFICES ASSUME Inv, NEW r \in Requests, NEW i \in 1..N, NEW j \in 1..N,
                      i < j, job[<<r, j>>] # "none"
               PROVE  job[<<r, i>>] # "none"
    BY DEF JobsAreAPrefix
  <2>1. Progress(r) /\ next[r] \in 1..N
    BY DEF Inv, TypeOK
  <2> QED
    BY <2>1, SchedulingAssumption DEF Progress
<1> QED
  BY <1>1, Invariance, PTL

\* An acknowledged campaign is complete.
THEOREM AcknowledgedIsComplete == Spec => []CreatedIsComplete
<1>1. Inv => CreatedIsComplete
  <2> SUFFICES ASSUME Inv, NEW r \in Requests, NEW i \in 1..N, pc[r] = "created"
               PROVE  job[<<r, i>>] # "none" /\ <<r, i>> \in bullJobId
    BY DEF CreatedIsComplete
  <2>1. Progress(r)
    BY DEF Inv
  <2>2. i < N \/ i = N
    BY SchedulingAssumption
  <2> QED
    BY <2>1, <2>2, SchedulingAssumption DEF Progress
<1> QED
  BY <1>1, Invariance, PTL

-----------------------------------------------------------------------------
(* The loop beside the workers *)

\* A busy slot works on a row whose job was added.
SlotsHaveJobs ==
  /\ slotPc \in [Workers -> Delivery!Labels]
  /\ current \in [Workers -> Rows \cup {None}]
  /\ \A w \in Workers :
       slotPc[w] # "idle" => current[w] \in Rows /\ job[current[w]] # "none"

SystemInv == TypeOK /\ SlotsHaveJobs

\* A step that moves at most one added job and its row is work.
LEMMA WorkIf ==
  ASSUME TypeOK, UNCHANGED apiOnly, NEW e \in Rows, job[e] # "none",
         job' = job \/ \E state \in JobStates : job' = [job EXCEPT ![e] = state],
         status' = status \/ \E new \in EmailStatus : status' = [status EXCEPT ![e] = new]
  PROVE  Work(e)
<1>1. job[e] \in JobStates /\ status[e] \in EmailStatus
  BY DEF TypeOK
<1>2. job = [job EXCEPT ![e] = job[e]] /\ status = [status EXCEPT ![e] = status[e]]
  BY DEF TypeOK
<1>3. \E state \in JobStates : job' = [job EXCEPT ![e] = state]
  BY <1>1, <1>2
<1>4. \E new \in EmailStatus : status' = [status EXCEPT ![e] = new]
  BY <1>1, <1>2
<1> QED
  BY <1>3, <1>4 DEF Work, apiOnly

\* process(job) between two awaits.
LEMMA SlotWorks ==
  ASSUME SystemInv, NEW w \in Workers, Delivery!Process(w), UNCHANGED apiOnly
  PROVE  Work(current[w])
<1> DEFINE e == current[w]
<1>1. slotPc[w] # "idle"
  BY DEF Delivery!Process, Delivery!FindForWorker, Delivery!ClaimScheduled,
         Delivery!ReserveMinimumDelay, Delivery!ReserveHourlySlot,
         Delivery!NotifyRateLimit, Delivery!DeferEmail, Delivery!MoveToDelayed,
         Delivery!Send, Delivery!MarkSent, Delivery!Catch, Delivery!Complete,
         Delivery!Throw
<1>2. e \in Rows /\ job[e] # "none" /\ TypeOK
  BY <1>1 DEF SystemInv, SlotsHaveJobs
<1>3. job' = job \/ \E state \in JobStates : job' = [job EXCEPT ![e] = state]
  <2>1. CASE Delivery!Complete(w)
    BY <2>1 DEF Delivery!Complete, JobStates
  <2>2. CASE Delivery!Throw(w)
    BY <2>2 DEF Delivery!Throw, JobStates
  <2>3. CASE Delivery!MoveToDelayed(w)
    BY <2>3 DEF Delivery!MoveToDelayed, JobStates
  <2> QED
    BY <2>1, <2>2, <2>3
    DEF Delivery!Process, Delivery!FindForWorker, Delivery!ClaimScheduled,
        Delivery!ReserveMinimumDelay, Delivery!ReserveHourlySlot,
        Delivery!NotifyRateLimit, Delivery!DeferEmail, Delivery!Send,
        Delivery!MarkSent, Delivery!Catch, Delivery!job
<1>4. status' = status \/ \E new \in EmailStatus : status' = [status EXCEPT ![e] = new]
  <2>1. ASSUME NEW new \in EmailStatus, NEW n, NEW x, Delivery!UpdateStatus(w, new, n, x)
        PROVE  status' = status \/ status' = [status EXCEPT ![e] = new]
    BY <2>1 DEF Delivery!UpdateStatus
  <2>2. CASE Delivery!ClaimScheduled(w)
    BY <2>1, <2>2 DEF Delivery!ClaimScheduled, EmailStatus
  <2>3. CASE Delivery!DeferEmail(w)
    BY <2>1, <2>3 DEF Delivery!DeferEmail, EmailStatus
  <2>4. CASE Delivery!MarkSent(w)
    BY <2>1, <2>4 DEF Delivery!MarkSent, EmailStatus
  <2>5. CASE Delivery!Catch(w)
    BY <2>1, <2>5 DEF Delivery!Catch, EmailStatus
  <2> QED
    BY <2>2, <2>3, <2>4, <2>5
    DEF Delivery!Process, Delivery!FindForWorker, Delivery!ReserveMinimumDelay,
        Delivery!ReserveHourlySlot, Delivery!NotifyRateLimit,
        Delivery!MoveToDelayed, Delivery!Send, Delivery!Complete,
        Delivery!Throw, Delivery!row
<1> HIDE DEF e
<1>5. Work(e)
  BY <1>2, <1>3, <1>4, WorkIf
<1> QED
  BY <1>5 DEF e

\* A slot goes on with the email it has or becomes idle.
LEMMA SlotKeeps ==
  ASSUME SystemInv, NEW w \in Workers, Delivery!Process(w)
  PROVE  /\ slotPc' \in [Workers -> Delivery!Labels]
         /\ current' \in [Workers -> Rows \cup {None}]
         /\ \A v \in Workers : slotPc'[v] # "idle" => slotPc[v] # "idle" /\ current'[v] = current[v]
<1> DEFINE Kept ==
      /\ slotPc' \in [Workers -> Delivery!Labels]
      /\ current' \in [Workers -> Rows \cup {None}]
      /\ \A v \in Workers : slotPc'[v] # "idle" => slotPc[v] # "idle" /\ current'[v] = current[v]
<1>1. ASSUME NEW label \in Delivery!Labels, slotPc[w] # "idle",
             Delivery!Goto(w, label), current' = current
      PROVE  Kept
  BY <1>1 DEF Delivery!Goto, SystemInv, SlotsHaveJobs
<1>2. ASSUME slotPc[w] # "idle", Delivery!Release(w) PROVE Kept
  BY <1>2 DEF Delivery!Release, Delivery!Goto, Delivery!Labels, SystemInv, SlotsHaveJobs
<1>3. ASSUME slotPc[w] # "idle", current' = current, NEW new,
             NEW n \in Delivery!Labels, NEW x \in Delivery!Labels,
             Delivery!UpdateStatus(w, new, n, x)
      PROVE  Kept
  BY <1>1, <1>3 DEF Delivery!UpdateStatus
<1> HIDE DEF Kept
<1> USE DEF Delivery!Labels, Delivery!OwnerLabels, Delivery!slot
<1>4. ASSUME Delivery!FindForWorker(w) PROVE Kept
  BY <1>4, <1>1 DEF Delivery!FindForWorker
<1>5. ASSUME Delivery!ClaimScheduled(w) PROVE Kept
  BY <1>5, <1>1, <1>3 DEF Delivery!ClaimScheduled
<1>6. ASSUME \E allowed \in BOOLEAN : Delivery!ReserveMinimumDelay(w, allowed) PROVE Kept
  BY <1>6, <1>1 DEF Delivery!ReserveMinimumDelay
<1>7. ASSUME \E allowed \in BOOLEAN : Delivery!ReserveHourlySlot(w, allowed) PROVE Kept
  BY <1>7, <1>1 DEF Delivery!ReserveHourlySlot
<1>8. ASSUME Delivery!NotifyRateLimit(w) PROVE Kept
  BY <1>8, <1>1 DEF Delivery!NotifyRateLimit
<1>9. ASSUME Delivery!DeferEmail(w) PROVE Kept
  BY <1>9, <1>3 DEF Delivery!DeferEmail
<1>10. ASSUME Delivery!MoveToDelayed(w) PROVE Kept
  BY <1>10, <1>1, <1>2 DEF Delivery!MoveToDelayed
<1>11. ASSUME Delivery!Send(w) PROVE Kept
  BY <1>11, <1>1 DEF Delivery!Send, Delivery!AfterRejection
<1>12. ASSUME Delivery!MarkSent(w) PROVE Kept
  BY <1>12, <1>3 DEF Delivery!MarkSent
<1>13. ASSUME Delivery!Catch(w) PROVE Kept
  BY <1>13, <1>3 DEF Delivery!Catch, Delivery!AfterReset
<1>14. ASSUME Delivery!Complete(w) PROVE Kept
  BY <1>14, <1>2 DEF Delivery!Complete
<1>15. ASSUME Delivery!Throw(w) PROVE Kept
  BY <1>15, <1>2 DEF Delivery!Throw
<1>16. Kept
  BY <1>4, <1>5, <1>6, <1>7, <1>8, <1>9, <1>10, <1>11, <1>12, <1>13, <1>14, <1>15
  DEF Delivery!Process
<1> QED
  BY <1>16 DEF Kept

\* What BullMQ and the processes do to a job and its row is work too.
LEMMA QueueWorks ==
  ASSUME SystemInv, NEW e \in Rows, UNCHANGED apiOnly,
         Delivery!Queue(e) \/ \E w \in Workers : Delivery!Take(w, e)
  PROVE  Work(e)
<1>1. job[e] # "none"
  BY DEF Delivery!Queue, Delivery!Promote, Delivery!LoseLock, Delivery!Stall,
         Delivery!Take, Delivery!Fetch, Delivery!FailStalled
<1>2. job' = job \/ \E state \in JobStates : job' = [job EXCEPT ![e] = state]
  BY DEF Delivery!Queue, Delivery!Promote, Delivery!LoseLock, Delivery!Stall,
         Delivery!Take, Delivery!Fetch, Delivery!FailStalled, JobStates
<1>3. status' = status
  BY DEF Delivery!Queue, Delivery!Promote, Delivery!LoseLock, Delivery!Stall,
         Delivery!Take, Delivery!Fetch, Delivery!FailStalled, Delivery!row
<1> QED
  BY <1>1, <1>2, <1>3, WorkIf DEF SystemInv

\* Every step of the workers is work or a stutter for CampaignScheduling, and
\* leaves every busy slot with a job.
LEMMA DeliverWorks ==
  ASSUME SystemInv, Deliver
  PROVE  /\ (\E row \in Rows : Work(row)) \/ UNCHANGED vars
         /\ SlotsHaveJobs'
<1>1. UNCHANGED apiOnly
  BY DEF Deliver
<1>2. ASSUME NEW row \in Rows, Work(row), NEW e \in Rows, job[e] # "none"
      PROVE  job'[e] # "none"
  BY <1>2 DEF Work, SystemInv, TypeOK, JobStates
<1>3. ASSUME NEW w \in Workers, Delivery!Process(w)
      PROVE  (\E row \in Rows : Work(row)) /\ SlotsHaveJobs'
  <2>1. slotPc[w] # "idle"
    BY <1>3 DEF Delivery!Process, Delivery!FindForWorker, Delivery!ClaimScheduled,
           Delivery!ReserveMinimumDelay, Delivery!ReserveHourlySlot,
           Delivery!NotifyRateLimit, Delivery!DeferEmail, Delivery!MoveToDelayed,
           Delivery!Send, Delivery!MarkSent, Delivery!Catch, Delivery!Complete,
           Delivery!Throw
  <2>2. current[w] \in Rows /\ Work(current[w])
    BY <1>1, <1>3, <2>1, SlotWorks DEF SystemInv, SlotsHaveJobs
  <2> QED
    BY <1>2, <1>3, <2>2, SlotKeeps DEF SystemInv, SlotsHaveJobs
<1>4. ASSUME NEW e \in Rows, Delivery!Queue(e)
      PROVE  (\E row \in Rows : Work(row)) /\ SlotsHaveJobs'
  <2>1. Work(e)
    BY <1>1, <1>4, QueueWorks
  <2>2. UNCHANGED <<slotPc, current>>
    BY <1>4 DEF Delivery!Queue, Delivery!Promote, Delivery!LoseLock, Delivery!Stall, Delivery!slot
  <2> QED
    BY <1>2, <2>1, <2>2 DEF SystemInv, SlotsHaveJobs
<1>5. ASSUME NEW w \in Workers, NEW e \in Rows, Delivery!Take(w, e)
      PROVE  (\E row \in Rows : Work(row)) /\ SlotsHaveJobs'
  <2>1. Work(e) /\ job[e] # "none"
    BY <1>1, <1>5, QueueWorks DEF Work
  <2>2. CASE Delivery!Fetch(w, e)
    BY <1>2, <2>1, <2>2
    DEF Delivery!Fetch, Delivery!Goto, Delivery!Labels, SystemInv, SlotsHaveJobs
  <2>3. CASE Delivery!FailStalled(w, e)
    BY <1>2, <2>1, <2>3 DEF Delivery!FailStalled, Delivery!slot, SystemInv, SlotsHaveJobs
  <2> QED
    BY <1>5, <2>2, <2>3 DEF Delivery!Take
<1>6. ASSUME NEW p \in Processes, Delivery!System(p)
      PROVE  UNCHANGED vars /\ SlotsHaveJobs'
  <2>1. UNCHANGED <<status, job>>
    BY <1>6 DEF Delivery!System, Delivery!Crash, Delivery!Shutdown,
                Delivery!ExitAndRestart, Delivery!row, Delivery!job
  <2>2. UNCHANGED vars
    BY <1>1, <2>1 DEF apiOnly, vars
  <2>3. ASSUME Delivery!Crash(p) PROVE SlotsHaveJobs'
    BY <2>1, <2>3 DEF Delivery!Crash, Delivery!Labels, SystemInv, SlotsHaveJobs
  <2>4. ASSUME Delivery!Shutdown(p) \/ Delivery!ExitAndRestart(p) PROVE SlotsHaveJobs'
    BY <2>1, <2>4 DEF Delivery!Shutdown, Delivery!ExitAndRestart, Delivery!slot,
                      SystemInv, SlotsHaveJobs
  <2> QED
    BY <1>6, <2>2, <2>3, <2>4 DEF Delivery!System
<1> QED
  BY <1>3, <1>4, <1>5, <1>6 DEF Deliver

\* The loop only adds jobs.
LEMMA ApiAdds ==
  ASSUME SystemInv, Api
  PROVE  [Next]_vars /\ SlotsHaveJobs'
<1>1. \A e \in Rows : job[e] # "none" => job'[e] # "none"
  BY DEF Api, CreateCampaign, Receive, CreateWithEmails, ScheduleEmail,
         SetEmailBullJobId, Crash, SystemInv, TypeOK
<1>2. UNCHANGED <<slotPc, current>>
  BY DEF Api, deliveryOnly
<1> QED
  BY <1>1, <1>2 DEF Api, Next, SystemInv, SlotsHaveJobs

LEMMA SystemStep ==
  ASSUME SystemInv, Inv, [SystemNext]_systemVars
  PROVE  [Next]_vars /\ SystemInv' /\ Inv'
<1>1. [Next]_vars /\ SlotsHaveJobs'
  <2>1. CASE Api
    BY <2>1, ApiAdds
  <2>2. CASE Deliver
    BY <2>2, DeliverWorks DEF Next
  <2>3. CASE UNCHANGED systemVars
    BY <2>3 DEF systemVars, vars, deliveryOnly, SystemInv, SlotsHaveJobs
  <2> QED
    BY <2>1, <2>2, <2>3 DEF SystemNext, Finished
<1> QED
  BY <1>1, InvStep DEF SystemInv, Inv

LEMMA SystemStart == SystemInit => Init /\ Inv /\ SystemInv
<1> SUFFICES ASSUME SystemInit PROVE Init /\ Inv /\ SystemInv
  OBVIOUS
<1>1. Init /\ Inv
  BY SchedulingAssumption
  DEF SystemInit, Init, Inv, TypeOK, Progress, Rows, EmailStatus, JobStates
<1>2. SlotsHaveJobs
  BY DEF SystemInit, SlotsHaveJobs, Delivery!Labels
<1> QED
  BY <1>1, <1>2 DEF Inv, SystemInv

\* The whole system implements CampaignScheduling.
THEOREM SystemImplementsScheduling == SystemSpec => Spec
<1>1. SystemInit => Init /\ Inv /\ SystemInv
  BY SystemStart
<1>2. Inv /\ SystemInv /\ [SystemNext]_systemVars => [Next]_vars /\ Inv' /\ SystemInv'
  BY SystemStep
<1> QED
  BY <1>1, <1>2, PTL DEF SystemSpec, Spec

\* No worker of the system finds a job without its row.
THEOREM SystemJobsHaveRows == SystemSpec => []JobHasRow
BY SystemImplementsScheduling, JobsHaveRows

\* Beside all workers, the rows that have jobs are a prefix of the campaign.
THEOREM SystemJobsFormAPrefix == SystemSpec => []JobsAreAPrefix
BY SystemImplementsScheduling, JobsFormAPrefix

\* Beside all workers, an acknowledged campaign is complete.
THEOREM SystemAcknowledgedIsComplete == SystemSpec => []CreatedIsComplete
BY SystemImplementsScheduling, AcknowledgedIsComplete

\* The loop's variables keep their types beside all workers.
THEOREM SystemTypeCorrect == SystemSpec => []TypeOK
<1>1. Inv => TypeOK
  BY DEF Inv
<1> QED
  BY <1>1, SystemImplementsScheduling, Invariance, PTL

-----------------------------------------------------------------------------
(***************************************************************************)
(* The other way round: the loop, which writes rows and adds jobs while    *)
(* workers run, keeps what is proved of EmailDelivery.  Its lemmas are     *)
(* used for the rows and jobs of the composition.                          *)
(***************************************************************************)
Proved == INSTANCE EmailDeliveryProofs WITH
  Emails <- Rows, jobState <- job, pc <- slotPc,
  faults <- workerFaults, MaxFaults <- MaxWorkerFaults

LEMMA ProvedAssumption == Proved!ConstantsAssumption
BY SystemAssumption DEF Proved!ConstantsAssumption, Proved!FaultKinds, Delivery!FaultKinds

LEMMA DeliverIsNext == Deliver => Proved!Next
<1> USE DEF Delivery!Goto, Proved!Goto, Delivery!Fault, Proved!Fault, Delivery!row, Proved!row,
            Delivery!job, Proved!job, Delivery!slot, Proved!slot,
            Delivery!UpdateStatus, Proved!UpdateStatus, Delivery!Release, Proved!Release,
            Delivery!IsClosing, Proved!IsClosing
<1>1. ASSUME NEW w \in Workers, Delivery!Process(w) PROVE Proved!Process(w)
  BY <1>1 DEF Delivery!Process, Proved!Process, Delivery!FindForWorker, Proved!FindForWorker,
       Delivery!ClaimScheduled, Proved!ClaimScheduled, Delivery!CanClaim, Proved!CanClaim,
       Delivery!ReserveMinimumDelay, Proved!ReserveMinimumDelay,
       Delivery!ReserveHourlySlot, Proved!ReserveHourlySlot,
       Delivery!NotifyRateLimit, Proved!NotifyRateLimit,
       Delivery!DeferEmail, Proved!DeferEmail, Delivery!MoveToDelayed, Proved!MoveToDelayed,
       Delivery!Send, Proved!Send, Delivery!AfterRejection, Proved!AfterRejection,
       Delivery!MarkSent, Proved!MarkSent, Delivery!Catch, Proved!Catch,
       Delivery!WillRetry, Proved!WillRetry, Delivery!AfterReset, Proved!AfterReset,
       Delivery!Complete, Proved!Complete, Delivery!Throw, Proved!Throw
<1>2. ASSUME NEW e \in Rows, Delivery!Queue(e) PROVE Proved!Queue(e)
  BY <1>2 DEF Delivery!Queue, Proved!Queue, Delivery!Promote, Proved!Promote,
       Delivery!LoseLock, Proved!LoseLock, Delivery!Stall, Proved!Stall
<1>3. ASSUME NEW w \in Workers, NEW e \in Rows, Delivery!Take(w, e) PROVE Proved!Take(w, e)
  BY <1>3 DEF Delivery!Take, Proved!Take, Delivery!Fetch, Proved!Fetch,
       Delivery!FailStalled, Proved!FailStalled,
       Delivery!StalledTooOften, Proved!StalledTooOften
<1>4. ASSUME NEW p \in Processes, Delivery!System(p) PROVE Proved!System(p)
  BY <1>4 DEF Delivery!System, Proved!System, Delivery!Crash, Proved!Crash,
       Delivery!Shutdown, Proved!Shutdown, Delivery!ExitAndRestart, Proved!ExitAndRestart,
       Delivery!Busy, Proved!Busy
<1> QED
  BY <1>1, <1>2, <1>3, <1>4 DEF Deliver, Proved!Next

\* What is invariant of rows and workers.
LiveInv ==
  /\ Proved!IInv /\ Proved!Paid /\ Proved!InHand
  /\ Proved!Counted /\ Proved!Charged

\* The loop moves no row and no worker, and no job but the one it adds.
ApiOnlyAdds ==
  /\ UNCHANGED <<status, deliveryOnly>>
  /\ job' \in [Rows -> JobStates \cup {"none"}]
  /\ \A e \in Rows : job'[e] = job[e] \/ (job[e] = "none" /\ job'[e] = "delayed")

LEMMA ApiKeepsRows == ASSUME Inv, Api PROVE ApiOnlyAdds
<1>1. UNCHANGED <<status, deliveryOnly>>
  BY DEF Api, CreateCampaign, Receive, CreateWithEmails, ScheduleEmail,
         SetEmailBullJobId, UpdatedRow, Crash
<1>2. ASSUME NEW r \in Requests, ScheduleEmail(r)
      PROVE  job' = job \/ (job[<<r, next[r]>>] = "none"
                            /\ job' = [job EXCEPT ![<<r, next[r]>>] = "delayed"])
  BY <1>2 DEF ScheduleEmail, Inv, Progress
<1>3. (\E r \in Requests : ScheduleEmail(r)) \/ job' = job
  BY DEF Api, CreateCampaign, Receive, CreateWithEmails, SetEmailBullJobId, Crash
<1>4. job \in [Rows -> JobStates \cup {"none"}]
  BY DEF Inv, TypeOK
<1>5. job' \in [Rows -> JobStates \cup {"none"}]
  BY <1>2, <1>3, <1>4 DEF JobStates
<1>6. \A e \in Rows : job'[e] = job[e] \/ (job[e] = "none" /\ job'[e] = "delayed")
  BY <1>2, <1>3, <1>4
<1> QED
  BY <1>1, <1>5, <1>6 DEF ApiOnlyAdds

\* A job that was just added is no run: nothing that the workers' invariant
\* counts changes.
LEMMA AddedIsNoRun ==
  ASSUME LiveInv, ApiOnlyAdds
  PROVE  LiveInv' /\ UNCHANGED Proved!Lifecycle!vars
<1> USE DEF ApiOnlyAdds, deliveryOnly
<1>1. Proved!IInv' /\ UNCHANGED Proved!Lifecycle!vars
  BY DEF LiveInv, JobStates, Proved!IInv, Proved!TypeOK, Proved!JobStates,
       Proved!LocksAreHeld, Proved!Ownership, Proved!OneOwner, Proved!OwnedRow, Proved!Owns,
       Proved!SentMeansDelivered, Proved!Attempted, Proved!MadeBehind,
       Proved!FailedMeansExhausted, Proved!Lifecycle!vars
<1>2. Proved!Paid'
  BY DEF LiveInv, Proved!Paid, Proved!Losses, Proved!Owns
<1>3. Proved!InHand'
  <2>1. \A kinds \in SUBSET Proved!FaultKinds : Proved!Never(kinds)' <=> Proved!Never(kinds)
    BY DEF Proved!Never
  <2>2. /\ Proved!OwnedProcessing => Proved!OwnedProcessing'
        /\ Proved!Claimed => Proved!Claimed'
    BY DEF Proved!OwnedProcessing, Proved!Claimed, Proved!Owns
  <2>3. Proved!TypeOK /\ Proved!Attached => Proved!Attached'
    BY DEF Proved!Attached, Proved!TypeOK
  <2>4. Proved!TypeOK /\ Proved!Agreed => Proved!Agreed'
    BY DEF Proved!Agreed, Proved!TypeOK
  <2> QED
    BY <2>1, <2>2, <2>3, <2>4
    DEF LiveInv, Proved!IInv, Proved!InHand, Proved!Disruptions, Proved!Interruptions,
        Proved!FaultKinds
<1>4. Proved!Counted'
  BY DEF LiveInv, Proved!Counted
<1>5. Proved!Charged'
  <2> SUFFICES ASSUME NEW e \in Rows PROVE Proved!ChargedAt(e)'
    BY DEF Proved!Charged
  <2>1. Proved!Late(e)' = Proved!Late(e)
    BY DEF Proved!Late, Proved!IsLate
  <2>2. Proved!Runs(e)' = Proved!Runs(e)
    BY DEF LiveInv, Proved!Counted, Proved!Runs, Proved!LastRunUncounted, Proved!StalledOut
  <2>3. Proved!ChargedAt(e)
    BY DEF LiveInv, Proved!Charged
  <2> QED
    BY <2>1, <2>2, <2>3 DEF Proved!ChargedAt
<1> QED
  BY <1>1, <1>2, <1>3, <1>4, <1>5 DEF LiveInv

LEMMA LiveStep ==
  ASSUME Inv, LiveInv, [SystemNext]_systemVars
  PROVE  LiveInv' /\ [Proved!Lifecycle!Next]_(Proved!Lifecycle!vars)
<1>1. ASSUME Deliver PROVE LiveInv' /\ [Proved!Lifecycle!Next]_(Proved!Lifecycle!vars)
  <2>1. [Proved!Next]_(Proved!vars)
    BY <1>1, DeliverIsNext
  <2>2. Proved!IInv' /\ [Proved!Lifecycle!Next]_(Proved!Lifecycle!vars)
    BY <2>1, ProvedAssumption, Proved!IInvStep, Proved!LifecycleStep DEF LiveInv, Proved!IInv
  <2>3. Proved!Paid' /\ Proved!InHand'
    BY <2>1, ProvedAssumption, Proved!PaidStep, Proved!InHandStep DEF LiveInv, Proved!IInv
  <2>4. Proved!Counted' /\ Proved!Charged'
    BY <2>1, ProvedAssumption, Proved!CountedStep, Proved!ChargedStep DEF LiveInv, Proved!IInv
  <2> QED
    BY <2>2, <2>3, <2>4 DEF LiveInv
<1>2. ASSUME Api \/ UNCHANGED systemVars PROVE ApiOnlyAdds
  BY <1>2, ApiKeepsRows DEF systemVars, vars, deliveryOnly, ApiOnlyAdds, Inv, TypeOK
<1> QED
  BY <1>1, <1>2, AddedIsNoRun DEF SystemNext, Finished

LEMMA LiveStart == SystemInit => LiveInv /\ Proved!Lifecycle!Init
<1> SUFFICES ASSUME SystemInit PROVE LiveInv /\ Proved!Lifecycle!Init
  OBVIOUS
<1> USE SystemAssumption DEF SystemInit, Init, Proved!Labels, Proved!OwnerLabels, Proved!Owns
<1>1. Proved!TypeOK
  BY DEF Proved!TypeOK, Proved!LocksAreHeld, Proved!EmailStatus, Proved!JobStates,
         Proved!FaultKinds, Delivery!FaultKinds
<1>2. Proved!Ownership /\ Proved!SentMeansDelivered /\ Proved!Attempted
  BY DEF Proved!Ownership, Proved!OneOwner, Proved!OwnedRow, Proved!SentMeansDelivered,
         Proved!Attempted, Proved!MadeBehind, Proved!FailedMeansExhausted
<1>3. Proved!Paid
  BY DEF Proved!Paid, Proved!Losses, Delivery!FaultKinds
<1>4. Proved!InHand
  BY DEF Proved!InHand, Proved!OwnedProcessing, Proved!Attached, Proved!Agreed, Proved!Claimed
<1>5. Proved!Counted
  BY DEF Proved!Counted
<1>6. Proved!Charged
  <2> SUFFICES ASSUME NEW e \in Rows PROVE Proved!ChargedAt(e)
    BY DEF Proved!Charged
  <2>1. Proved!Late(e) = {}
    BY DEF Proved!Late, Proved!IsLate
  <2>2. /\ job[e] = "none" /\ lockedBy[e] = None
        /\ attemptsMade[e] = 0 /\ stalledCount[e] = 0 /\ deliveries[e] = 0
    OBVIOUS
  <2>3. ~Proved!LastRunUncounted(e) /\ ~Proved!StalledOut(e)
    BY <2>2 DEF Proved!LastRunUncounted, Proved!StalledOut
  <2>4. Proved!Runs(e) = 0
    BY <2>2, <2>3 DEF Proved!Runs
  <2> QED
    BY <2>1, <2>2, <2>4, ProvedAssumption, Proved!NothingCharged
<1>7. Proved!Lifecycle!Init
  BY DEF Proved!Lifecycle!Init
<1> QED
  BY <1>1, <1>2, <1>3, <1>4, <1>5, <1>6, <1>7 DEF LiveInv, Proved!IInv

LEMMA LiveInvariance == SystemSpec => [](SystemInv /\ Inv /\ LiveInv)
BY SystemStart, SystemStep, LiveStart, LiveStep, PTL DEF SystemSpec

\* The two names of the rows' life.
LEMMA OneLifecycle ==
  /\ Proved!Lifecycle!Init => Delivery!Lifecycle!Init
  /\ [Proved!Lifecycle!Next]_(Proved!Lifecycle!vars)
       => [Delivery!Lifecycle!Next]_(Delivery!Lifecycle!vars)
BY DEF Proved!Lifecycle!Init, Delivery!Lifecycle!Init,
       Proved!Lifecycle!vars, Delivery!Lifecycle!vars,
       Proved!Lifecycle!Next, Delivery!Lifecycle!Next,
       Proved!Lifecycle!Claimable, Delivery!Lifecycle!Claimable,
       Proved!Lifecycle!Claim, Delivery!Lifecycle!Claim,
       Proved!Lifecycle!ClaimUnheard, Delivery!Lifecycle!ClaimUnheard,
       Proved!Lifecycle!Deliver, Delivery!Lifecycle!Deliver,
       Proved!Lifecycle!Settle, Delivery!Lifecycle!Settle,
       Proved!Lifecycle!SentUnheard, Delivery!Lifecycle!SentUnheard,
       Proved!Lifecycle!Abandon, Delivery!Lifecycle!Abandon,
       Proved!Owns, Delivery!Owns, Proved!OwnerLabels, Delivery!OwnerLabels

\* Every row of every campaign lives as EmailLifecycle says, also while the
\* loop that created it still runs.
THEOREM SystemRowsLiveOn == SystemSpec => RowsLiveOn
<1>1. SystemInit => Delivery!Lifecycle!Init
  BY LiveStart, OneLifecycle
<1>2. Inv /\ LiveInv /\ [SystemNext]_systemVars
        => [Delivery!Lifecycle!Next]_(Delivery!Lifecycle!vars)
  BY LiveStep, OneLifecycle
<1> QED
  BY <1>1, <1>2, LiveInvariance, PTL
  DEF SystemSpec, RowsLiveOn, Delivery!ImplementsLifecycle, Delivery!Lifecycle!Spec

-----------------------------------------------------------------------------
(***************************************************************************)
(* What is proved of the workers by themselves therefore holds beside the  *)
(* loop, for the rows of every campaign.                                   *)
(***************************************************************************)

\* No two slots own one recipient's email, also while its campaign is still
\* being scheduled.
THEOREM SystemOwnersExclude == SystemSpec => []Delivery!OneOwner
<1>1. LiveInv => Delivery!OneOwner
  BY DEF LiveInv, Proved!IInv, Proved!Ownership, Proved!OneOwner, Delivery!OneOwner,
         Proved!Owns, Delivery!Owns, Proved!OwnerLabels, Delivery!OwnerLabels
<1> QED
  BY <1>1, LiveInvariance, PTL

\* What a campaign's rows say of their emails is true: "sent" was accepted by
\* SMTP, and "failed" has no attempt left.
THEOREM SystemRowsAreTrue ==
  SystemSpec => [](Delivery!SentMeansDelivered /\ Delivery!FailedMeansExhausted)
<1>1. LiveInv => Delivery!SentMeansDelivered /\ Delivery!FailedMeansExhausted
  BY DEF LiveInv, Proved!IInv, Proved!SentMeansDelivered, Delivery!SentMeansDelivered,
         Proved!Attempted, Proved!FailedMeansExhausted, Delivery!FailedMeansExhausted
<1> QED
  BY <1>1, LiveInvariance, PTL

\* A recipient of any campaign gets one message, and one more at most for every
\* worker's write that failed and every SMTP answer that was lost, whatever
\* fails or crashes on the API's side.
THEOREM SystemRepeatsArePaid == SystemSpec => []Delivery!RepeatsAreLosses
<1>1. LiveInv => Delivery!RepeatsAreLosses
  BY DEF LiveInv, Proved!IInv, Proved!TypeOK, Proved!FaultKinds, Proved!Paid, Proved!Losses,
         Delivery!RepeatsAreLosses
<1> QED
  BY <1>1, LiveInvariance, PTL

\* Under all faults of the API and of the workers a recipient gets at most as
\* many messages as a job has attempts and tolerated stalls.
THEOREM SystemDeliveriesAreBounded == SystemSpec => []Delivery!DeliveryBound
<1>1. LiveInv => Delivery!DeliveryBound
  BY ProvedAssumption, Proved!ChargesBound
  DEF LiveInv, Proved!IInv, Proved!DeliveryBound, Delivery!DeliveryBound
<1> QED
  BY <1>1, LiveInvariance, PTL

\* At every moment after the answer 201 somebody has every recipient in hand:
\* a job that is to run, or a slot at work, or the row has its outcome.
THEOREM AcknowledgedAreInHand == SystemSpec => []AcknowledgedIsInHand
<1>1. Inv /\ CreatedIsComplete /\ LiveInv => AcknowledgedIsInHand
  <2> SUFFICES ASSUME Inv, CreatedIsComplete, LiveInv,
                      NEW r \in Requests, pc[r] = "created", NEW e \in {r} \X (1..N)
               PROVE  /\ Delivery!Never({"db", "crash", "lock"}) /\ status[e] = "scheduled"
                           => job[e] \in {"delayed", "waiting", "active"}
                      /\ Delivery!Never({"db", "crash", "stop"}) /\ status[e] = "processing"
                           => \E w \in Workers : Delivery!Owns(w, e)
    BY DEF AcknowledgedIsInHand
  <2>1. e \in Rows /\ e = <<r, e[2]>> /\ e[2] \in 1..N
    BY DEF Rows
  <2>2. job[e] # "none" /\ job[e] \in JobStates \cup {"none"}
    BY <2>1 DEF CreatedIsComplete, Inv, TypeOK
  <2>3. ASSUME Delivery!Never({"db", "crash", "lock"}), status[e] = "scheduled"
        PROVE  job[e] \notin {"completed", "failed"}
    <3>1. Proved!Agreed
      BY <2>3 DEF LiveInv, Proved!InHand, Proved!Never, Delivery!Never, Proved!Disruptions
    <3> QED
      BY <2>1, <2>3, <3>1 DEF Proved!Agreed
  <2>4. ASSUME Delivery!Never({"db", "crash", "stop"}), status[e] = "processing"
        PROVE  \E w \in Workers : Delivery!Owns(w, e)
    <3>1. Proved!Claimed
      BY <2>4 DEF LiveInv, Proved!InHand, Proved!Never, Delivery!Never, Proved!Interruptions
    <3> QED
      BY <2>1, <2>4, <3>1
      DEF Proved!Claimed, Proved!Owns, Delivery!Owns, Proved!OwnerLabels, Delivery!OwnerLabels
  <2> QED
    BY <2>2, <2>3, <2>4 DEF JobStates
<1> QED
  BY <1>1, LiveInvariance, SystemAcknowledgedIsComplete, PTL

\* The answer 201 is kept, as far as safety can say it: once every job has
\* ended and every slot is free, each recipient of an acknowledged campaign is
\* sent or failed, as long as on the workers' side only SMTP misbehaved.
THEOREM AcknowledgedEndsSettled ==
  SystemSpec =>
    [](/\ Delivery!Never({"db", "crash", "lock", "stop"})
       /\ \A e \in Rows : job[e] \in {"none", "completed", "failed"}
       /\ \A w \in Workers : slotPc[w] = "idle"
       => \A r \in Requests : pc[r] = "created" =>
            \A e \in {r} \X (1..N) : status[e] \in {"sent", "failed"})
<1> DEFINE Ending ==
      (/\ Delivery!Never({"db", "crash", "lock", "stop"})
       /\ \A e \in Rows : job[e] \in {"none", "completed", "failed"}
       /\ \A w \in Workers : slotPc[w] = "idle"
       => \A r \in Requests : pc[r] = "created" =>
            \A e \in {r} \X (1..N) : status[e] \in {"sent", "failed"})
<1>1. TypeOK /\ AcknowledgedIsInHand => Ending
  <2> SUFFICES ASSUME TypeOK, AcknowledgedIsInHand,
                      Delivery!Never({"db", "crash", "lock", "stop"}),
                      \A e \in Rows : job[e] \in {"none", "completed", "failed"},
                      \A w \in Workers : slotPc[w] = "idle",
                      NEW r \in Requests, pc[r] = "created", NEW e \in {r} \X (1..N)
               PROVE  status[e] \in {"sent", "failed"}
    OBVIOUS
  <2>1. e \in Rows /\ status[e] \in EmailStatus
    BY DEF Rows, TypeOK
  <2>2. Delivery!Never({"db", "crash", "lock"}) /\ Delivery!Never({"db", "crash", "stop"})
    BY DEF Delivery!Never
  <2>3. status[e] # "scheduled"
    BY <2>1, <2>2 DEF AcknowledgedIsInHand
  <2>4. status[e] # "processing"
    BY <2>2 DEF AcknowledgedIsInHand, Delivery!Owns, Delivery!OwnerLabels
  <2> QED
    BY <2>1, <2>3, <2>4 DEF EmailStatus
<1> QED
  BY <1>1, AcknowledgedAreInHand, SystemTypeCorrect, PTL
===============================================================================
