------------------------- MODULE SearchIndexProofs -------------------------
(***************************************************************************)
(* Theorems about SearchIndex, for every set of emails and processes,      *)
(* every bound, and every number of faults.  A row is handed to indexEmail *)
(* only after the write that made it so, and what a row says of its email  *)
(* goes on being true, but for a "sent" whose writer did not hear of it:   *)
(* that is the invariant.                                                  *)
(***************************************************************************)
EXTENDS SearchIndex, TLAPS

\* The turns between a claim and the write that gives the row up: an email has
\* one at most, and its row is "processing", or "sent" where markSent committed
\* unheard.
Ownership ==
  /\ \A c \in Calls : pc[c] \in Owning =>
       /\ c[2] # 0
       /\ \/ status[c[1]] = "processing"
          \/ status[c[1]] = "sent" /\ pc[c] = "catch"
  /\ \A c, d \in Calls : c[1] = d[1] /\ pc[c] \in Owning /\ pc[d] \in Owning => c = d

\* "sent" is written only after SMTP accepted.
Accepted ==
  /\ \A e \in Emails : status[e] = "sent" => e \in delivered
  /\ \A c \in Calls : pc[c] = "markSent" => c[1] \in delivered

\* A "sent" row in the catch block is a lost answer.
LossRemembered ==
  \A c \in Calls : pc[c] = "catch" /\ status[c[1]] = "sent" => ~Never({"db"})

Rows == Ownership /\ Accepted /\ LossRemembered

\* What OutcomesAreTrue says of a document, said of any status s of the email e.
Happened(e, s) ==
  /\ s = "failed" => status[e] = "failed"
  /\ s = "sent" => e \in delivered
  /\ s = "sent" /\ Never({"db"}) => status[e] = "sent"

Handed == {"ensure", "index"}

\* A row on its way to the index has its outcome.
SnapshotsAreTrue == \A c \in Calls : pc[c] \in Handed => Happened(c[1], snapshot[c])

\* A promise resolves, and a document is written, only with the index there.
PromisesAreTrue ==
  /\ \A p \in Processes : promise[p] = "resolved" => indexExists
  /\ \A c \in Calls : pc[c] = "index" => indexExists

IInv == TypeOK /\ PromisesAreTrue /\ Rows /\ SnapshotsAreTrue /\ OutcomesAreTrue

\* A writer is an email's, createCampaign or one of its turns.
LEMMA CallIs ==
  /\ \A c \in Calls : c[1] \in Emails /\ c[2] \in 0..MaxTurns /\ c = <<c[1], c[2]>>
  /\ \A e \in Emails, t \in 0..MaxTurns : <<e, t>> \in Calls
  /\ \A t \in Turns : t \in 0..MaxTurns /\ t # 0
  /\ \A t \in 0..MaxTurns : t # 0 => t \in Turns
  /\ 0 \in 0..MaxTurns
BY SearchIndexAssumption DEF Calls, Turns

\* A fault is counted.
LEMMA FaultIs ==
  ASSUME TypeOK, NEW kind \in FaultKinds, Fault(kind)
  PROVE  /\ faults' \in [FaultKinds -> Nat]
         /\ faults'[kind] = faults[kind] + 1
         /\ \A other \in FaultKinds : faults'[other] \in Nat /\ faults'[other] >= faults[other]
BY DEF TypeOK, Fault

\* Faults are never forgotten.
Remembered ==
  /\ faults' \in [FaultKinds -> Nat]
  /\ \A kind \in FaultKinds : faults'[kind] >= faults[kind]

\* Every step remembers them.
LEMMA FaultsGrow == ASSUME TypeOK, [Next]_vars PROVE Remembered
<1>1. ASSUME UNCHANGED faults PROVE Remembered
  BY <1>1 DEF Remembered, TypeOK
<1>2. ASSUME NEW kind \in FaultKinds, Fault(kind) PROVE Remembered
  BY <1>2, FaultIs DEF Remembered
<1>3. "es" \in FaultKinds /\ "db" \in FaultKinds /\ "crash" \in FaultKinds
  BY DEF FaultKinds
<1>4. \A c, new, next : Settle(c, new) \/ Unheard(c, new, next) => UNCHANGED faults \/ Fault("db")
  BY DEF Settle, Unheard
<1>5. ASSUME NEW e \in Emails, SetEmailBullJobId(e) PROVE UNCHANGED faults \/ Fault("db")
  BY <1>4, <1>5 DEF SetEmailBullJobId
<1>6. ASSUME NEW e \in Emails, NEW t \in Turns, NEW p \in Hosts, ClaimScheduled(e, t, p)
      PROVE  UNCHANGED faults \/ Fault("db")
  BY <1>4, <1>6 DEF ClaimScheduled
<1>7. ASSUME NEW c \in Calls, DeferJob(c) \/ Send(c) \/ MarkSent(c) \/ Catch(c)
      PROVE  UNCHANGED faults \/ Fault("db")
  BY <1>4, <1>7, Zenon DEF DeferJob, Send, MarkSent, Catch
<1>8. ASSUME NEW c \in Calls, EnsureIndex(c) \/ IndexEmail(c)
      PROVE  UNCHANGED faults \/ Fault("es")
  BY <1>8, Zenon DEF EnsureIndex, IndexEmail
<1>9. ASSUME SearchEmails \/ Finished \/ UNCHANGED vars PROVE UNCHANGED faults
  BY <1>9 DEF SearchEmails, Finished, vars
<1>10. ASSUME NEW p \in Processes, IndicesExists(p) \/ IndicesCreate(p) \/ Crash(p)
       PROVE  UNCHANGED faults \/ Fault("es") \/ Fault("crash")
  BY <1>10, Zenon DEF IndicesExists, IndicesCreate, Crash
<1> QED
  BY <1>1, <1>2, <1>3, <1>5, <1>6, <1>7, <1>8, <1>9, <1>10 DEF Next

-----------------------------------------------------------------------------
(* Types *)

\* Every step keeps the types, and the index where something relies on it.
LEMMA TypeStep ==
  ASSUME TypeOK, PromisesAreTrue, [Next]_vars
  PROVE  TypeOK' /\ PromisesAreTrue'
<1>a. faults' \in [FaultKinds -> Nat]
  BY FaultsGrow DEF Remembered
<1> USE CallIs DEF TypeOK, PromisesAreTrue, Processes, Status, Promises, Labels, Owning
<1>0. \A e \in Emails, new \in Status : Row(e, new) \in [Emails -> Status]
  BY DEF Row
<1>1. CASE UNCHANGED vars
  BY <1>1 DEF vars
<1>2. ASSUME NEW c \in Calls, NEW new \in Status, NEW next \in {"catch", "done"},
             Settle(c, new) \/ Unheard(c, new, next),
             UNCHANGED <<index, promise, overlapped>>,
             host' \in [Calls -> Processes], delivered' \in SUBSET Emails
      PROVE  TypeOK' /\ PromisesAreTrue'
  <2>1. /\ status' \in [Emails -> Status]
        /\ snapshot' \in [Calls -> Status]
        /\ pc' \in [Calls -> Labels]
        /\ \A d \in Calls : pc'[d] = "index" => pc[d] = "index"
    <3>1. c[1] \in Emails /\ Row(c[1], new) \in [Emails -> Status]
      BY <1>0
    <3>2. CASE Settle(c, new)
      BY <3>1, <3>2 DEF Settle, Hand
    <3>3. CASE Unheard(c, new, next)
      BY <3>1, <3>3 DEF Unheard
    <3> QED
      BY <1>2, <3>2, <3>3
  <2> QED
    BY <1>a, <1>2, <2>1 DEF index
<1>3. ASSUME NEW e \in Emails, SetEmailBullJobId(e) PROVE TypeOK' /\ PromisesAreTrue'
  <2>1. <<e, 0>> \in Calls /\ status[e] \in Status
    OBVIOUS
  <2> QED
    BY <1>2, <1>3, <2>1 DEF SetEmailBullJobId, worker
<1>4. ASSUME NEW e \in Emails, NEW t \in Turns, NEW p \in Hosts, ClaimScheduled(e, t, p)
      PROVE  TypeOK' /\ PromisesAreTrue'
  <2>1. <<e, t>> \in Calls
    OBVIOUS
  <2>2. /\ host' \in [Calls -> Processes] /\ overlapped' \in SUBSET Emails
        /\ UNCHANGED <<index, promise, delivered>>
    BY <1>4 DEF ClaimScheduled
  <2>3. /\ status' \in [Emails -> Status]
        /\ snapshot' = snapshot
        /\ pc' \in [Calls -> Labels]
        /\ \A d \in Calls : pc'[d] = "index" => pc[d] = "index"
    <3>1. /\ snapshot' = snapshot
          /\ status' \in {status, Row(e, "processing")}
          /\ \E next \in {"claimed", "done"} : pc' = [pc EXCEPT ![<<e, t>>] = next]
      BY <1>4, Zenon DEF ClaimScheduled, Unheard
    <3>2. Row(e, "processing") \in [Emails -> Status]
      BY <1>0
    <3> QED
      BY <2>1, <3>1, <3>2
  <2> QED
    BY <1>a, <2>2, <2>3 DEF index
<1>5. ASSUME NEW c \in Calls, DeferJob(c) \/ MarkSent(c) \/ Catch(c)
      PROVE  TypeOK' /\ PromisesAreTrue'
  BY <1>2, <1>5 DEF DeferJob, MarkSent, Catch, worker
<1>6. ASSUME NEW c \in Calls, Send(c) PROVE TypeOK' /\ PromisesAreTrue'
  BY <1>a, <1>6 DEF Send, index
<1>7. ASSUME NEW c \in Calls, EnsureIndex(c) PROVE TypeOK' /\ PromisesAreTrue'
  <2>1. UNCHANGED <<index, worker, status>>
    BY <1>7 DEF EnsureIndex, IndexError, AfterIndexError
  <2>2. /\ \/ promise' = promise
           \/ promise' = [promise EXCEPT ![host[c]] = "exists"]
        /\ \/ UNCHANGED <<pc, snapshot>>
           \/ /\ pc' = [pc EXCEPT ![c] = "index"] /\ UNCHANGED snapshot
              /\ promise[host[c]] = "resolved"
           \/ /\ pc' = [pc EXCEPT ![c] = "done"]
              /\ snapshot' = [snapshot EXCEPT ![c] = "scheduled"]
    BY <1>7 DEF EnsureIndex, IndexReady, IndexError, Resume
  <2>3. host[c] \in Processes
    OBVIOUS
  <2>4. /\ promise' \in [Processes -> Promises]
        /\ \A p \in Processes : promise'[p] = "resolved" => promise[p] = "resolved"
    BY <2>2, <2>3
  <2>5. /\ pc' \in [Calls -> Labels] /\ snapshot' \in [Calls -> Status]
        /\ \A d \in Calls : pc'[d] = "index" => pc[d] = "index" \/ promise[host[c]] = "resolved"
    <3>1. CASE UNCHANGED <<pc, snapshot>>
      BY <3>1
    <3>2. CASE pc' = [pc EXCEPT ![c] = "index"] /\ UNCHANGED snapshot /\ promise[host[c]] = "resolved"
      BY <3>2
    <3>3. CASE pc' = [pc EXCEPT ![c] = "done"] /\ snapshot' = [snapshot EXCEPT ![c] = "scheduled"]
      BY <3>3
    <3> QED
      BY <2>2, <3>1, <3>2, <3>3
  <2> QED
    BY <1>a, <2>1, <2>3, <2>4, <2>5 DEF index, worker
<1>8. ASSUME NEW c \in Calls, IndexEmail(c) PROVE TypeOK' /\ PromisesAreTrue'
  BY <1>a, <1>8 DEF IndexEmail, IndexError, AfterIndexError, Resume, worker
<1>9. CASE SearchEmails
  BY <1>a, <1>9 DEF SearchEmails, index, worker
<1>10. ASSUME NEW p \in Processes, IndicesExists(p) PROVE TypeOK' /\ PromisesAreTrue'
  BY <1>a, <1>10 DEF IndicesExists, index, worker
<1>11. ASSUME NEW p \in Processes, IndicesCreate(p) PROVE TypeOK' /\ PromisesAreTrue'
  <2>1. UNCHANGED <<doc, status, pc, snapshot, delivered, host, overlapped>>
    BY <1>11 DEF IndicesCreate, worker
  <2>2. \/ promise' = [promise EXCEPT ![p] = "rejected"]
        \/ promise' = [promise EXCEPT ![p] = "resolved"] /\ indexExists' = TRUE
    BY <1>11, Zenon DEF IndicesCreate
  <2>3. indexExists' = TRUE \/ indexExists' = indexExists
    BY <1>11, Zenon DEF IndicesCreate
  <2> QED
    BY <1>a, <2>1, <2>2, <2>3
<1>12. ASSUME NEW p \in Processes, Crash(p) PROVE TypeOK' /\ PromisesAreTrue'
  <2>1. UNCHANGED <<index, status, worker>> /\ promise' = [promise EXCEPT ![p] = "none"]
    BY <1>12 DEF Crash
  <2>2. \A c \in Calls : /\ pc'[c] \in {pc[c], "done"}
                         /\ snapshot'[c] \in {snapshot[c], "scheduled"}
    BY <1>12 DEF Crash
  <2>3. pc' \in [Calls -> Labels] /\ snapshot' \in [Calls -> Status]
    <3>1. pc' = [c \in Calls |-> pc'[c]] /\ snapshot' = [c \in Calls |-> snapshot'[c]]
      BY <1>12, Zenon DEF Crash
    <3> QED
      BY <2>2, <3>1
  <2> QED
    BY <1>a, <2>1, <2>2, <2>3 DEF index, worker
<1>13. CASE Finished
  BY <1>13 DEF Finished, vars
<1> QED
  BY <1>1, <1>3, <1>4, <1>5, <1>6, <1>7, <1>8, <1>9, <1>10, <1>11, <1>12, <1>13 DEF Next

-----------------------------------------------------------------------------
(* Rows *)

\* What a step may do to a row: "failed" is for good, and "sent" but for the
\* catch block of a turn that lost an answer.
Fate ==
  \A e \in Emails :
    /\ status[e] = "failed" => status'[e] = "failed"
    /\ status[e] = "sent" =>
         \/ status'[e] = "sent"
         \/ ~Never({"db"}) /\ \E t \in Turns : pc[<<e, t>>] = "catch"
    /\ e \in delivered => e \in delivered'

\* A lost answer is never forgotten.
LEMMA LossStays == ASSUME TypeOK, Remembered, ~Never({"db"}) PROVE ~Never({"db"})'
BY DEF Never, TypeOK, Remembered, FaultKinds

\* A step that moves no row and makes no owner.
LEMMA RowsLeave ==
  ASSUME TypeOK, Rows, Remembered, UNCHANGED <<status, delivered>>,
         \A c \in Calls : pc'[c] \in Owning => pc'[c] = pc[c]
  PROVE  Rows' /\ Fate
<1>1. ~Never({"db"}) => ~Never({"db"})'
  BY LossStays
<1> QED
  BY <1>1, CallIs DEF Rows, Ownership, Accepted, LossRemembered, Fate, Owning

\* A step of an email's owner.
LEMMA RowsByOwner ==
  ASSUME TypeOK, Rows, Remembered, NEW c \in Calls, pc[c] \in Owning,
         NEW new \in Status, NEW next \in Labels,
         status' = Row(c[1], new), pc' = [pc EXCEPT ![c] = next],
         delivered \subseteq delivered',
         new = "sent" => c[1] \in delivered',
         next = "markSent" => c[1] \in delivered',
         status[c[1]] = "sent" /\ new # "sent" => pc[c] = "catch",
         next \in Owning => new = "processing" \/ (new = "sent" /\ next = "catch"),
         next = "catch" /\ new = "sent" => ~Never({"db"})'
  PROVE  Rows' /\ Fate
<1> DEFINE e == c[1]
<1>0. e \in Emails /\ c[2] # 0 /\ c[2] \in Turns /\ c = <<e, c[2]>>
  BY CallIs DEF Rows, Ownership
<1>1. /\ status'[e] = new /\ \A f \in Emails : f # e => status'[f] = status[f]
      /\ pc'[c] = next /\ \A d \in Calls : d # c => pc'[d] = pc[d]
  BY <1>0 DEF Row, TypeOK
<1>2. \A d \in Calls : d # c /\ pc'[d] \in Owning => d[1] # e /\ d[1] \in Emails
  BY <1>1, CallIs DEF Rows, Ownership
<1>3. ~Never({"db"}) => ~Never({"db"})'
  BY LossStays
<1>4. status[e] = "processing" \/ (status[e] = "sent" /\ pc[c] = "catch")
  BY DEF Rows, Ownership
<1>5. Ownership'
  BY <1>0, <1>1, <1>2 DEF Rows, Ownership
<1>6. Accepted'
  <2>1. \A f \in Emails : status'[f] = "sent" => f \in delivered'
    BY <1>0, <1>1 DEF Rows, Accepted
  <2>2. \A d \in Calls : pc'[d] = "markSent" => d[1] \in delivered'
    BY <1>0, <1>1 DEF Rows, Accepted
  <2> QED
    BY <2>1, <2>2 DEF Accepted
<1>7. LossRemembered'
  <2> SUFFICES ASSUME NEW d \in Calls, pc'[d] = "catch", status'[d[1]] = "sent"
               PROVE  ~Never({"db"})'
    BY DEF LossRemembered
  <2>1. CASE d = c
    BY <1>1, <2>1
  <2>2. CASE d # c
    BY <1>1, <1>2, <1>3, <2>2 DEF Rows, LossRemembered, Owning
  <2> QED
    BY <2>1, <2>2
<1>8. Fate
  <2> SUFFICES ASSUME NEW f \in Emails
               PROVE  /\ status[f] = "failed" => status'[f] = "failed"
                      /\ status[f] = "sent" =>
                           \/ status'[f] = "sent"
                           \/ ~Never({"db"}) /\ \E t \in Turns : pc[<<f, t>>] = "catch"
                      /\ f \in delivered => f \in delivered'
    BY DEF Fate
  <2>1. CASE f # e
    BY <1>1, <2>1
  <2>2. CASE f = e
    BY <1>0, <1>1, <1>4, <2>2 DEF Rows, LossRemembered
  <2> QED
    BY <2>1, <2>2
<1> QED
  BY <1>5, <1>6, <1>7, <1>8 DEF Rows

\* A settling write, heard or not, by the owner.
LEMMA RowsBySettling ==
  ASSUME TypeOK, Rows, Remembered, NEW c \in Calls, pc[c] \in Owning,
         NEW new \in {"scheduled", "sent", "failed"},
         new = "sent" <=> pc[c] = "markSent",
         \/ Settle(c, new)
         \/ Unheard(c, new, IF new = "sent" THEN "catch" ELSE "done"),
         UNCHANGED delivered
  PROVE  Rows' /\ Fate
<1>0. c[1] \in Emails
  BY CallIs
<1>1. status = Row(c[1], status[c[1]]) /\ status[c[1]] \in Status /\ new \in Status
  BY <1>0 DEF Row, TypeOK, Status
<1>2. pc[c] = "markSent" => c[1] \in delivered /\ status[c[1]] = "processing"
  BY DEF Rows, Accepted, Ownership
<1>3. status[c[1]] = "sent" => pc[c] = "catch" /\ c[1] \in delivered
  BY <1>0 DEF Rows, Accepted, Ownership
<1>4. CASE Settle(c, new)
  <2>1. status' = Row(c[1], new) /\ pc' = [pc EXCEPT ![c] = "ensure"]
    BY <1>4 DEF Settle, Hand
  <2> QED
    BY <1>1, <1>2, <1>3, <2>1, RowsByOwner DEF Labels, Owning
<1>5. CASE Unheard(c, new, IF new = "sent" THEN "catch" ELSE "done")
  <2>1. ~Never({"db"})'
    BY <1>5, FaultIs DEF Unheard, Never, FaultKinds, TypeOK
  <2> DEFINE next == IF new = "sent" THEN "catch" ELSE "done"
  <2>2. next \in Labels /\ (next \in Owning => next = "catch" /\ new = "sent") /\ next # "markSent"
    BY DEF Labels, Owning
  <2>3. /\ status' = Row(c[1], status[c[1]]) \/ status' = Row(c[1], new)
        /\ pc' = [pc EXCEPT ![c] = next]
    BY <1>1, <1>5 DEF Unheard
  <2> HIDE DEF next
  <2>4. CASE status' = Row(c[1], new)
    BY <1>1, <1>2, <1>3, <2>1, <2>2, <2>3, <2>4, RowsByOwner
  <2>5. CASE status' = Row(c[1], status[c[1]])
    <3>1. next \in Owning => status[c[1]] = "processing"
      BY <1>2, <2>2
    <3>2. status[c[1]] = "sent" => c[1] \in delivered'
      BY <1>3
    <3> QED
      BY <1>1, <1>3, <2>1, <2>2, <2>3, <2>5, <3>1, <3>2, RowsByOwner
  <2> QED
    BY <2>3, <2>4, <2>5
<1> QED
  BY <1>4, <1>5

\* Every step keeps what is true of rows and their owners.
LEMMA RowsStep ==
  ASSUME TypeOK, Rows, [Next]_vars
  PROVE  Rows' /\ Fate
<1>a. Remembered
  BY FaultsGrow
<1> DEFINE Leave == /\ UNCHANGED <<status, delivered>>
                    /\ \A c \in Calls : pc'[c] \in Owning => pc'[c] = pc[c]
<1>b. Leave => Rows' /\ Fate
  BY <1>a, RowsLeave
<1>1. ASSUME NEW e \in Emails, SetEmailBullJobId(e) PROVE Leave
  <2>1. Row(e, status[e]) = status /\ <<e, 0>> \in Calls
    BY CallIs DEF Row, TypeOK
  <2> QED
    BY <1>1, <2>1 DEF SetEmailBullJobId, Settle, Unheard, Hand, Owning, worker, TypeOK
<1>2. ASSUME NEW e \in Emails, NEW t \in Turns, NEW p \in Hosts, ClaimScheduled(e, t, p)
      PROVE  Rows' /\ Fate
  <2> DEFINE c == <<e, t>>
  <2>1. c \in Calls /\ c[1] = e /\ c[2] # 0
    BY CallIs
  <2>2. status[e] = "scheduled" /\ UNCHANGED delivered
    BY <1>2 DEF ClaimScheduled
  <2>3. \A d \in Calls : d[1] = e => pc[d] \notin Owning
    BY <2>2 DEF Rows, Ownership
  <2>4. ASSUME status' = Row(e, "processing"), pc' = [pc EXCEPT ![c] = "claimed"]
        PROVE  Rows' /\ Fate
    <3>1. /\ status'[e] = "processing" /\ \A f \in Emails : f # e => status'[f] = status[f]
          /\ pc'[c] = "claimed" /\ \A d \in Calls : d # c => pc'[d] = pc[d]
      BY <2>1, <2>4 DEF Row, TypeOK
    <3>2. \A d \in Calls : d # c /\ pc'[d] \in Owning => d[1] # e /\ d[1] \in Emails
      BY <2>3, <3>1, CallIs
    <3>3. Ownership'
      BY <2>1, <3>1, <3>2 DEF Rows, Ownership
    <3>4. Accepted'
      BY <2>1, <2>2, <3>1 DEF Rows, Accepted
    <3>5. LossRemembered'
      BY <1>a, <2>1, <3>1, <3>2, LossStays DEF Rows, LossRemembered, Owning
    <3>6. Fate
      BY <2>2, <3>1 DEF Fate
    <3> QED
      BY <3>3, <3>4, <3>5, <3>6 DEF Rows
  <2>5. ASSUME Unheard(c, "processing", "done") PROVE Rows' /\ Fate
    <3>1. /\ \A f \in Emails : f # e => status'[f] = status[f]
          /\ status'[e] \in {"scheduled", "processing"}
          /\ pc'[c] = "done" /\ \A d \in Calls : d # c => pc'[d] = pc[d]
      BY <2>1, <2>2, <2>5 DEF Unheard, Row, TypeOK
    <3>2. \A d \in Calls : pc'[d] \in Owning => d # c /\ d[1] # e /\ d[1] \in Emails
      BY <2>3, <3>1, CallIs DEF Owning
    <3>3. Ownership'
      BY <3>1, <3>2 DEF Rows, Ownership
    <3>4. Accepted'
      BY <2>1, <2>2, <3>1, <3>2 DEF Rows, Accepted, Owning
    <3>5. LossRemembered'
      BY <1>a, <3>1, <3>2, LossStays DEF Rows, LossRemembered, Owning
    <3>6. Fate
      BY <2>2, <3>1 DEF Fate
    <3> QED
      BY <3>3, <3>4, <3>5, <3>6 DEF Rows
  <2> QED
    BY <1>2, <2>4, <2>5 DEF ClaimScheduled
<1>3. ASSUME NEW c \in Calls, DeferJob(c) PROVE Rows' /\ Fate
  BY <1>a, <1>3, RowsBySettling DEF DeferJob, Owning, worker
<1>4. ASSUME NEW c \in Calls, MarkSent(c) PROVE Rows' /\ Fate
  BY <1>a, <1>4, RowsBySettling DEF MarkSent, Owning, worker
<1>5. ASSUME NEW c \in Calls, Catch(c) PROVE Rows' /\ Fate
  BY <1>a, <1>5, RowsBySettling DEF Catch, Owning, worker
<1>6. ASSUME NEW c \in Calls, Send(c) PROVE Rows' /\ Fate
  <2>1. c[1] \in Emails /\ status[c[1]] = "processing" /\ status = Row(c[1], "processing")
    BY <1>6, CallIs DEF Send, Rows, Ownership, Owning, Row, TypeOK
  <2>2. \E next \in {"markSent", "catch"} :
          /\ pc' = [pc EXCEPT ![c] = next]
          /\ next = "markSent" => c[1] \in delivered'
    BY <1>6 DEF Send
  <2>3. delivered \subseteq delivered' /\ status' = status /\ pc[c] \in Owning
    BY <1>6 DEF Send, Owning
  <2> QED
    BY <1>a, <2>1, <2>2, <2>3, RowsByOwner DEF Status, Labels, Owning
<1>7. ASSUME NEW c \in Calls, EnsureIndex(c) PROVE Leave
  BY <1>7 DEF EnsureIndex, IndexReady, IndexError, AfterIndexError, Resume, worker, TypeOK, Owning
<1>8. ASSUME NEW c \in Calls, IndexEmail(c) PROVE Leave
  BY <1>8 DEF IndexEmail, IndexError, AfterIndexError, Resume, worker, TypeOK, Owning
<1>9. ASSUME SearchEmails \/ Finished \/ UNCHANGED vars PROVE Leave
  BY <1>9 DEF SearchEmails, Finished, vars, worker
<1>10. ASSUME NEW p \in Processes, IndicesExists(p) \/ IndicesCreate(p) PROVE Leave
  <2>1. UNCHANGED <<status, pc, worker>>
    BY <1>10, Zenon DEF IndicesExists, IndicesCreate
  <2> QED
    BY <2>1 DEF worker
<1>11. ASSUME NEW p \in Processes, Crash(p) PROVE Leave
  <2>1. UNCHANGED <<status, worker>> /\ \A c \in Calls : pc'[c] \in {pc[c], "done"}
    BY <1>11 DEF Crash
  <2> QED
    BY <2>1 DEF worker, Owning
<1> HIDE DEF Leave
<1> QED
  BY <1>b, <1>1, <1>2, <1>3, <1>4, <1>5, <1>6, <1>7, <1>8, <1>9, <1>10, <1>11 DEF Next

-----------------------------------------------------------------------------
(* Documents *)

\* A writer that has a row to index had it before, or has it from its write.
HandedRight(c) ==
  pc'[c] \in Handed =>
    \/ pc[c] \in Handed /\ snapshot'[c] = snapshot[c]
    \/ pc[c] \notin Handed /\ snapshot'[c] = status'[c[1]]

\* A document is what it was, or what a writer brought.
Written(e) ==
  \/ doc'[e] = doc[e]
  \/ \E c \in Calls : c[1] = e /\ pc[c] = "index" /\ doc'[e] = snapshot[c]

\* Every step hands over what was written, and writes what was handed over.
LEMMA DocStep ==
  ASSUME TypeOK, [Next]_vars
  PROVE  /\ \A c \in Calls : HandedRight(c)
         /\ \A e \in Emails : Written(e)
<1> DEFINE Right == \A c \in Calls : HandedRight(c)
<1>a. ASSUME \A d \in Calls : \/ pc'[d] \notin Handed
                              \/ pc[d] \in Handed /\ snapshot'[d] = snapshot[d]
      PROVE  Right
  BY <1>a DEF HandedRight
<1>b. ASSUME NEW c \in Calls, pc[c] \notin Handed, NEW new, NEW next, next \notin Handed,
             Settle(c, new) \/ Unheard(c, new, next)
      PROVE  Right
  <2>1. c[1] \in Emails
    BY CallIs
  <2>2. CASE Settle(c, new)
    BY <1>b, <2>1, <2>2 DEF Settle, Hand, Row, TypeOK, HandedRight
  <2>3. CASE Unheard(c, new, next)
    BY <1>b, <2>3 DEF Unheard, TypeOK, HandedRight
  <2> QED
    BY <1>b, <2>2, <2>3
<1>c. doc' = doc => \A e \in Emails : Written(e)
  BY DEF Written
<1> HIDE DEF Right
<1>1. ASSUME NEW e \in Emails, SetEmailBullJobId(e) PROVE Right /\ doc' = doc
  BY <1>b, <1>1, CallIs DEF SetEmailBullJobId, Handed, index
<1>2. ASSUME NEW e \in Emails, NEW t \in Turns, NEW p \in Hosts, ClaimScheduled(e, t, p)
      PROVE  Right /\ doc' = doc
  <2>1. /\ snapshot' = snapshot /\ doc' = doc
        /\ \E next \in {"claimed", "done"} : pc' = [pc EXCEPT ![<<e, t>>] = next]
    BY <1>2, Zenon DEF ClaimScheduled, Unheard, index
  <2> QED
    BY <1>a, <2>1 DEF TypeOK, Handed
<1>3. ASSUME NEW c \in Calls, DeferJob(c) \/ MarkSent(c) \/ Catch(c) PROVE Right /\ doc' = doc
  BY <1>b, <1>3 DEF DeferJob, MarkSent, Catch, Handed, index
<1>4. ASSUME NEW c \in Calls, Send(c) PROVE Right /\ doc' = doc
  BY <1>a, <1>4 DEF Send, TypeOK, Handed, index
<1>5. ASSUME NEW c \in Calls, EnsureIndex(c) PROVE Right /\ doc' = doc
  BY <1>a, <1>5 DEF EnsureIndex, IndexError, Resume, TypeOK, Handed, index
<1>6. ASSUME NEW c \in Calls, IndexEmail(c) PROVE Right /\ \A e \in Emails : Written(e)
  <2>1. c[1] \in Emails /\ pc[c] = "index"
        /\ doc' \in {doc, [doc EXCEPT ![c[1]] = snapshot[c]]}
    BY <1>6, CallIs DEF IndexEmail
  <2>2. pc' = [pc EXCEPT ![c] = "done"] /\ snapshot' = [snapshot EXCEPT ![c] = "scheduled"]
    BY <1>6 DEF IndexEmail, IndexError, Resume
  <2> QED
    BY <1>a, <2>1, <2>2 DEF TypeOK, Handed, Written
<1>7. ASSUME SearchEmails \/ Finished \/ UNCHANGED vars PROVE Right /\ doc' = doc
  BY <1>a, <1>7 DEF SearchEmails, Finished, vars, index
<1>8. ASSUME NEW p \in Processes, IndicesExists(p) \/ IndicesCreate(p) PROVE Right /\ doc' = doc
  <2>1. UNCHANGED <<doc, pc, snapshot>>
    BY <1>8, Zenon DEF IndicesExists, IndicesCreate, index
  <2> QED
    BY <1>a, <2>1
<1>9. ASSUME NEW p \in Processes, Crash(p) PROVE Right /\ doc' = doc
  BY <1>a, <1>9 DEF Crash, Handed, index
<1> QED
  BY <1>c, <1>1, <1>2, <1>3, <1>4, <1>5, <1>6, <1>7, <1>8, <1>9 DEF Next, Right

\* Every step keeps the invariant, and what it does to a row is its fate.
LEMMA StepIInv ==
  ASSUME IInv, [Next]_vars
  PROVE  IInv' /\ Fate
<1>1. TypeOK' /\ PromisesAreTrue' /\ Remembered
  BY TypeStep, FaultsGrow DEF IInv
<1>2. Rows' /\ Fate
  BY RowsStep DEF IInv
<1>3. SnapshotsAreTrue'
  <2> SUFFICES ASSUME NEW c \in Calls, pc'[c] \in Handed PROVE Happened(c[1], snapshot[c])'
    BY DEF SnapshotsAreTrue
  <2>1. HandedRight(c) /\ c[1] \in Emails
    BY DocStep, CallIs DEF IInv
  <2>2. CASE pc[c] \in Handed /\ snapshot'[c] = snapshot[c]
    <3>1. Happened(c[1], snapshot[c])
      BY <2>2 DEF IInv, SnapshotsAreTrue
    <3>2. /\ snapshot[c] = "failed" => status'[c[1]] = "failed"
          /\ snapshot[c] = "sent" => c[1] \in delivered'
          /\ snapshot[c] = "sent" /\ Never({"db"})' => status'[c[1]] = "sent"
      BY <1>1, <1>2, <2>1, <3>1, LossStays DEF IInv, Happened, Fate
    <3> QED
      BY <2>2, <3>2 DEF Happened
  <2>3. CASE snapshot'[c] = status'[c[1]]
    BY <1>2, <2>1, <2>3 DEF Happened, Rows, Accepted
  <2> QED
    BY <2>1, <2>2, <2>3 DEF HandedRight
<1>4. OutcomesAreTrue'
  <2> SUFFICES ASSUME NEW e \in Emails PROVE Happened(e, doc[e])'
    BY DEF OutcomesAreTrue, Happened
  <2>1. Written(e)
    BY DocStep DEF IInv
  <2>2. PICK s : doc'[e] = s /\ Happened(e, s)
    <3>1. CASE doc'[e] = doc[e]
      BY <3>1 DEF IInv, OutcomesAreTrue, Happened
    <3>2. ASSUME NEW c \in Calls, c[1] = e, pc[c] = "index", doc'[e] = snapshot[c]
          PROVE  \E s : doc'[e] = s /\ Happened(e, s)
      BY <3>2 DEF IInv, SnapshotsAreTrue, Handed
    <3> QED
      BY <2>1, <3>1, <3>2 DEF Written
  <2>3. /\ s = "failed" => status'[e] = "failed"
        /\ s = "sent" => e \in delivered'
        /\ s = "sent" /\ Never({"db"})' => status'[e] = "sent"
    BY <1>1, <1>2, <2>2, LossStays DEF IInv, Happened, Fate
  <2> QED
    BY <2>2, <2>3 DEF Happened
<1> QED
  BY <1>1, <1>2, <1>3, <1>4 DEF IInv

\* At first nothing is indexed.
LEMMA InitIInv == Init => IInv
<1> SUFFICES ASSUME Init PROVE IInv
  OBVIOUS
<1>1. TypeOK
  BY DEF Init, TypeOK, Processes, Status, Promises, Labels, FaultKinds
<1>2. PromisesAreTrue /\ Rows
  BY CallIs DEF Init, PromisesAreTrue, Rows, Ownership, Accepted, LossRemembered, Owning
<1>3. SnapshotsAreTrue /\ OutcomesAreTrue
  BY DEF Init, SnapshotsAreTrue, Handed, OutcomesAreTrue
<1> QED
  BY <1>1, <1>2, <1>3 DEF IInv

\* The invariant holds in every reachable state.
THEOREM Invariance == Spec => []IInv
<1>1. IInv /\ [Next]_vars => IInv'
  BY StepIInv
<1> QED
  BY InitIInv, <1>1, PTL DEF Spec

\* Every variable keeps its type, and documents exist only in an index.
THEOREM TypeCorrect == Spec => []TypeOK
<1>1. IInv => TypeOK
  BY DEF IInv
<1> QED
  BY <1>1, Invariance, PTL

\* The index announces no outcome that did not happen, whatever overlaps, fails
\* or crashes; and but for a lost database answer it says what the row says.
THEOREM OutcomesAreTrueAlways == Spec => []OutcomesAreTrue
<1>1. IInv => OutcomesAreTrue
  BY DEF IInv
<1> QED
  BY <1>1, Invariance, PTL

\* No trouble with Elasticsearch, and no crash, reopens a settled email.
THEOREM OutcomesStayAlways == Spec => OutcomesStay
<1>1. IInv /\ [Next]_vars
        => [\A e \in Emails :
              status[e] \in {"sent", "failed"} /\ status'[e] # status[e]
                => \E t \in Turns : pc[<<e, t>>] = "catch"]_vars
  BY StepIInv DEF Fate
<1> QED
  BY <1>1, Invariance, PTL DEF Spec, OutcomesStay

-----------------------------------------------------------------------------
(***************************************************************************)
(* The index agrees with a row as long as nothing failed, no process lost  *)
(* the race to create the index, and the row was not claimed while another *)
(* of its writers was at work: then the row's writers take turns, the API  *)
(* process first, whatever happens to the other rows.                      *)
(***************************************************************************)
Healthy == Never(FaultKinds) /\ \A p \in Processes : promise[p] # "rejected"

\* createCampaign is on its way to the row, or a writer is at work on it.
Busy(c) == pc[c] # "done" /\ (c[2] = 0 \/ pc[c] # "new")

\* The row's writers take turns.
OneAtATime(e) ==
  \A c, d \in Calls : c[1] = e /\ d[1] = e /\ Busy(c) /\ Busy(d) => c = d

\* A row on its way to the index is the row as it is.
SnapshotsAreFresh(e) ==
  \A c \in Calls : c[1] = e /\ pc[c] \in Handed => snapshot[c] = status[e]

Agrees(e) == Quiet(e) => doc[e] = status[e]

RowAgrees(e) == OneAtATime(e) /\ SnapshotsAreFresh(e) /\ Agrees(e)

HealthyRows == Healthy => \A e \in Emails \ overlapped : RowAgrees(e)

\* A quiet email has no writer at work.
LEMMA QuietIs ==
  ASSUME TypeOK, NEW e \in Emails
  PROVE  Quiet(e) <=> \A c \in Calls : c[1] = e => ~Busy(c)
BY CallIs DEF Quiet, Free, Busy, TypeOK, Labels, Owning

\* A step after which nothing has failed came after nothing had, a rejected
\* promise outlives everything but a crash, and an overlapped row stays one.
LEMMA HealthyBefore ==
  ASSUME TypeOK, [Next]_vars, Never(FaultKinds)'
  PROVE  /\ Never(FaultKinds)
         /\ \A kind \in FaultKinds : ~Fault(kind)
         /\ \A p \in Processes : promise[p] = "rejected" => promise'[p] = "rejected"
         /\ overlapped \subseteq overlapped'
<1>0. Never(FaultKinds)
  BY FaultsGrow DEF Never, Remembered, TypeOK
<1>1. \A kind \in FaultKinds : ~Fault(kind)
  BY <1>0, FaultIs DEF Never, TypeOK
<1>2. "es" \in FaultKinds /\ "crash" \in FaultKinds
  BY DEF FaultKinds
<1> DEFINE Kept == /\ \A p \in Processes : promise[p] = "rejected" => promise'[p] = "rejected"
                   /\ overlapped \subseteq overlapped'
<1>3. UNCHANGED <<promise, overlapped>> => Kept
  OBVIOUS
<1>4. ASSUME NEW p \in Processes, NEW new,
             promise[p] # "rejected", promise' = [promise EXCEPT ![p] = new],
             overlapped' = overlapped
      PROVE  Kept
  BY <1>4 DEF TypeOK
<1> HIDE DEF Kept
<1>5. ASSUME NEW e \in Emails, NEW t \in Turns, NEW p \in Hosts, ClaimScheduled(e, t, p)
      PROVE  Kept
  BY <1>5 DEF ClaimScheduled, Kept
<1>6. ASSUME NEW c \in Calls, EnsureIndex(c) PROVE Kept
  <2>1. host[c] \in Processes
    BY DEF TypeOK
  <2> QED
    BY <1>3, <1>4, <1>6, <2>1 DEF EnsureIndex, worker
<1>7. ASSUME NEW e \in Emails, SetEmailBullJobId(e) PROVE Kept
  BY <1>3, <1>7 DEF SetEmailBullJobId, worker
<1>8. ASSUME NEW c \in Calls, DeferJob(c) \/ Send(c) \/ MarkSent(c) \/ Catch(c) \/ IndexEmail(c)
      PROVE  Kept
  BY <1>3, <1>8, Zenon DEF DeferJob, Send, MarkSent, Catch, IndexEmail, worker
<1>9. ASSUME SearchEmails PROVE Kept
  BY <1>4, <1>9 DEF SearchEmails, worker, Processes
<1>10. ASSUME NEW p \in Processes, IndicesExists(p) \/ IndicesCreate(p) PROVE Kept
  <2>1. /\ overlapped' = overlapped
        /\ promise[p] # "rejected"
        /\ \E new : promise' = [promise EXCEPT ![p] = new]
    BY <1>1, <1>2, <1>10, Zenon DEF IndicesExists, IndicesCreate, worker
  <2> QED
    BY <1>4, <2>1
<1>11. \A p \in Processes : ~Crash(p)
  BY <1>1, <1>2 DEF Crash
<1>12. Finished \/ UNCHANGED vars => Kept
  BY <1>3 DEF Finished, vars, worker
<1>13. Kept
  BY <1>5, <1>6, <1>7, <1>8, <1>9, <1>10, <1>11, <1>12 DEF Next
<1> QED
  BY <1>0, <1>1, <1>13 DEF Kept

\* Every step keeps one row and its document together.
LEMMA RowStep ==
  ASSUME IInv, [Next]_vars, Healthy, Healthy', NEW e \in Emails, e \notin overlapped', RowAgrees(e)
  PROVE  RowAgrees(e)'
<1>a. \A kind \in FaultKinds : ~Fault(kind)
  BY HealthyBefore DEF Healthy, IInv
<1>b. ~Fault("es") /\ ~Fault("db") /\ ~Fault("crash")
  BY <1>a DEF FaultKinds
<1>c. TypeOK /\ TypeOK'
  BY StepIInv DEF IInv
<1>d. /\ Quiet(e) <=> \A c \in Calls : c[1] = e => ~Busy(c)
      /\ Quiet(e)' <=> \A c \in Calls : c[1] = e => ~Busy(c)'
  <2>1. Quiet(e) <=> \A c \in Calls : c[1] = e => ~Busy(c)
    BY <1>c, QuietIs
  <2>2. Quiet(e)' <=> \A c \in Calls : c[1] = e => ~Busy(c)'
    <3>1. ASSUME Quiet(e)', NEW c \in Calls, c[1] = e PROVE ~Busy(c)'
      BY <3>1, CallIs DEF Quiet, Free, Busy
    <3>2. ASSUME \A c \in Calls : c[1] = e => ~Busy(c)' PROVE Quiet(e)'
      <4>1. <<e, 0>> \in Calls /\ <<e, 0>>[1] = e /\ <<e, 0>>[2] = 0
        BY CallIs
      <4>2. \A t \in Turns : <<e, t>> \in Calls /\ <<e, t>>[1] = e /\ <<e, t>>[2] # 0
        BY CallIs
      <4>3. pc'[<<e, 0>>] = "done" /\ \A t \in Turns : pc'[<<e, t>>] \in {"new", "done"}
        BY <3>2, <4>1, <4>2 DEF Busy
      <4> QED
        BY <4>3 DEF Quiet, Free
    <3> QED
      BY <3>1, <3>2
  <2> QED
    BY <2>1, <2>2
\* A step of another email's writer, or of none.
<1>1. ASSUME status'[e] = status[e], doc'[e] = doc[e],
             \A c \in Calls : c[1] = e => pc'[c] = pc[c] /\ snapshot'[c] = snapshot[c]
      PROVE  RowAgrees(e)'
  <2>1. \A c \in Calls : c[1] = e => (Busy(c)' <=> Busy(c))
    BY <1>1 DEF Busy
  <2>2. OneAtATime(e)' /\ SnapshotsAreFresh(e)'
    BY <1>1, <2>1 DEF RowAgrees, OneAtATime, SnapshotsAreFresh
  <2>3. Agrees(e)'
    BY <1>1, <1>d, <2>1 DEF RowAgrees, Agrees
  <2> QED
    BY <2>2, <2>3 DEF RowAgrees
\* A step of the email's one busy writer.
<1>2. ASSUME NEW c \in Calls, c[1] = e, Busy(c), NEW next,
             pc' = [pc EXCEPT ![c] = next], next # "new",
             next \in Handed => snapshot'[c] = status'[e],
             next = "done" => doc'[e] = status'[e]
      PROVE  RowAgrees(e)'
  <2>1. \A d \in Calls : d # c /\ d[1] = e => ~Busy(d)
    BY <1>2 DEF RowAgrees, OneAtATime
  <2>2. \A d \in Calls : d # c /\ d[1] = e => ~Busy(d)' /\ pc'[d] \notin Handed
    BY <1>2, <2>1 DEF Busy, Handed
  <2>3. OneAtATime(e)'
    BY <2>2 DEF OneAtATime
  <2>4. pc'[c] = next /\ (c[2] # 0 => pc[c] # "new")
    BY <1>2, <1>c DEF TypeOK, Busy
  <2>5. SnapshotsAreFresh(e)'
    BY <1>2, <2>2, <2>4 DEF SnapshotsAreFresh
  <2>6. Agrees(e)'
    BY <1>2, <1>d, <2>4 DEF Agrees, Busy
  <2> QED
    BY <2>3, <2>5, <2>6 DEF RowAgrees
\* A write by the email's busy writer.
<1>3. ASSUME NEW c \in Calls, Busy(c), NEW new \in Status, Settle(c, new), UNCHANGED index
      PROVE  RowAgrees(e)'
  <2>1. /\ status' = [status EXCEPT ![c[1]] = new] /\ doc' = doc
        /\ pc' = [pc EXCEPT ![c] = "ensure"] /\ snapshot' = [snapshot EXCEPT ![c] = new]
    BY <1>3 DEF Settle, Hand, Row, index
  <2>2. CASE c[1] = e
    BY <1>2, <1>3, <1>c, <2>1, <2>2 DEF TypeOK, Handed
  <2>3. CASE c[1] # e
    <3>1. status'[e] = status[e] /\ doc'[e] = doc[e]
      BY <1>c, <2>1, <2>3 DEF TypeOK
    <3>2. \A d \in Calls : d[1] = e => pc'[d] = pc[d] /\ snapshot'[d] = snapshot[d]
      BY <1>c, <2>1, <2>3 DEF TypeOK
    <3> QED
      BY <1>1, <3>1, <3>2
  <2> QED
    BY <2>2, <2>3
<1>4. ASSUME NEW d \in Emails, SetEmailBullJobId(d) PROVE RowAgrees(e)'
  <2>1. <<d, 0>> \in Calls /\ Busy(<<d, 0>>) /\ status[d] \in Status
    BY <1>4, <1>c, CallIs DEF SetEmailBullJobId, Busy, TypeOK
  <2>2. Settle(<<d, 0>>, status[d]) /\ UNCHANGED index
    BY <1>4, <1>b DEF SetEmailBullJobId, Unheard
  <2> QED
    BY <1>3, <2>1, <2>2
<1>5. ASSUME NEW c \in Calls, DeferJob(c) \/ MarkSent(c) \/ Catch(c) PROVE RowAgrees(e)'
  <2>1. Busy(c) /\ UNCHANGED index
    BY <1>5 DEF DeferJob, MarkSent, Catch, Busy
  <2>2. \E new \in Status : Settle(c, new)
    BY <1>5, <1>b, Zenon DEF DeferJob, MarkSent, Catch, Unheard, Status
  <2> QED
    BY <1>3, <2>1, <2>2
<1>6. ASSUME NEW c \in Calls, Send(c) PROVE RowAgrees(e)'
  <2>1. /\ UNCHANGED <<status, doc, snapshot>> /\ Busy(c)
        /\ \E next \in {"markSent", "catch"} : pc' = [pc EXCEPT ![c] = next]
    BY <1>6, Zenon DEF Send, Busy, index
  <2>2. CASE c[1] = e
    BY <1>2, <2>1, <2>2 DEF Handed
  <2>3. CASE c[1] # e
    BY <1>1, <1>c, <2>1, <2>3 DEF TypeOK
  <2> QED
    BY <2>2, <2>3
<1>7. ASSUME NEW d \in Emails, NEW t \in Turns, NEW p \in Hosts, ClaimScheduled(d, t, p)
      PROVE  RowAgrees(e)'
  <2> DEFINE c == <<d, t>>
  <2>1. /\ c \in Calls /\ c[1] = d
        /\ pc' = [pc EXCEPT ![c] = "claimed"]
        /\ status' = [status EXCEPT ![d] = "processing"]
        /\ UNCHANGED <<doc, snapshot>>
    BY <1>7, <1>b, CallIs DEF ClaimScheduled, Unheard, Row, index
  <2>2. CASE d # e
    <3>1. status'[e] = status[e] /\ doc'[e] = doc[e]
      BY <1>c, <2>1, <2>2 DEF TypeOK
    <3>2. \A b \in Calls : b[1] = e => pc'[b] = pc[b] /\ snapshot'[b] = snapshot[b]
      BY <1>c, <2>1, <2>2 DEF TypeOK
    <3> QED
      BY <1>1, <3>1, <3>2
  <2>3. CASE d = e
    <3>1. Quiet(e)
      BY <1>7, <2>3 DEF ClaimScheduled, Quiet
    <3>2. \A b \in Calls : b[1] = e => ~Busy(b)
      BY <1>d, <3>1
    <3>3. \A b \in Calls : b # c /\ b[1] = e => ~Busy(b)' /\ pc'[b] \notin Handed
      BY <1>c, <2>1, <3>2 DEF Busy, TypeOK, Handed
    <3>4. Busy(c)' /\ pc'[c] \notin Handed
      BY <1>c, <2>1, CallIs DEF Busy, TypeOK, Handed
    <3> QED
      BY <1>d, <2>1, <2>3, <3>3, <3>4 DEF RowAgrees, OneAtATime, SnapshotsAreFresh, Agrees
  <2> QED
    BY <2>2, <2>3
<1>8. ASSUME NEW c \in Calls, EnsureIndex(c) PROVE RowAgrees(e)'
  <2>1. /\ pc[c] = "ensure" /\ UNCHANGED <<doc, snapshot, status>>
        /\ pc' = pc \/ pc' = [pc EXCEPT ![c] = "index"]
    <3>1. host[c] \in Processes
      BY <1>c DEF TypeOK
    <3> QED
      BY <1>8, <3>1 DEF EnsureIndex, Healthy, index
  <2>2. CASE pc' = pc
    BY <1>1, <2>1, <2>2
  <2>3. CASE pc' = [pc EXCEPT ![c] = "index"] /\ c[1] = e
    <3>1. Busy(c) /\ snapshot'[c] = status'[e]
      BY <2>1, <2>3 DEF Busy, RowAgrees, SnapshotsAreFresh, Handed
    <3> QED
      BY <1>2, <2>3, <3>1
  <2>4. CASE pc' = [pc EXCEPT ![c] = "index"] /\ c[1] # e
    BY <1>1, <1>c, <2>1, <2>4 DEF TypeOK
  <2> QED
    BY <2>1, <2>2, <2>3, <2>4
<1>9. ASSUME NEW c \in Calls, IndexEmail(c) PROVE RowAgrees(e)'
  <2>1. /\ pc[c] = "index" /\ status' = status
        /\ doc' = [doc EXCEPT ![c[1]] = snapshot[c]]
        /\ pc' = [pc EXCEPT ![c] = "done"] /\ snapshot' = [snapshot EXCEPT ![c] = "scheduled"]
    BY <1>9, <1>b DEF IndexEmail, Resume
  <2>2. CASE c[1] = e
    <3>1. Busy(c) /\ doc'[e] = status'[e]
      BY <1>c, <2>1, <2>2 DEF Busy, RowAgrees, SnapshotsAreFresh, Handed, TypeOK
    <3> QED
      BY <1>2, <2>1, <2>2, <3>1 DEF Handed
  <2>3. CASE c[1] # e
    BY <1>1, <1>c, <2>1, <2>3 DEF TypeOK
  <2> QED
    BY <2>2, <2>3
<1>10. ASSUME SearchEmails \/ Finished \/ UNCHANGED vars PROVE RowAgrees(e)'
  BY <1>1, <1>10 DEF SearchEmails, Finished, vars, index
<1>11. ASSUME NEW p \in Processes, IndicesExists(p) \/ IndicesCreate(p) PROVE RowAgrees(e)'
  <2>1. UNCHANGED <<status, doc, snapshot, pc>>
    BY <1>11, Zenon DEF IndicesExists, IndicesCreate, index
  <2> QED
    BY <1>1, <2>1
<1>12. \A p \in Processes : ~Crash(p)
  BY <1>b DEF Crash
<1> QED
  BY <1>4, <1>5, <1>6, <1>7, <1>8, <1>9, <1>10, <1>11, <1>12 DEF Next

\* Every step keeps what a healthy index says of the rows.
LEMMA HealthyRowsStep == IInv /\ HealthyRows /\ [Next]_vars => HealthyRows'
<1> SUFFICES ASSUME IInv, HealthyRows, [Next]_vars, Healthy',
                    NEW e \in Emails, e \notin overlapped'
             PROVE  RowAgrees(e)'
  BY DEF HealthyRows
<1>1. Healthy /\ e \notin overlapped
  BY HealthyBefore DEF Healthy, IInv
<1> QED
  BY <1>1, RowStep DEF HealthyRows

-----------------------------------------------------------------------------
(***************************************************************************)
(* Where no row is overlapped, the API process hands over every row before *)
(* a worker does; so it is the API process that creates the index, before  *)
(* any other process asks for it, and no promise is rejected.              *)
(***************************************************************************)
Calm == Never(FaultKinds) /\ overlapped = {}

\* Until the API process has the index nobody else has asked for it.
ApiCreates ==
  /\ promise[Api] # "resolved" =>
       /\ ~indexExists
       /\ \A p \in Processes \ {Api} : promise[p] = "none"
       /\ \A e \in Emails : pc[<<e, 0>>] \in {"new", "ensure"}
  /\ \A p \in Processes : promise[p] # "rejected"
  /\ \A p \in Processes \ {Api} : promise[p] # "create"

\* createCampaign's writer is in its own process.
ApiHosts == \A e \in Emails : host[<<e, 0>>] = Api

CalmInv == ApiHosts /\ HealthyRows /\ (Calm => ApiCreates)

\* createCampaign stays with the API process.
LEMMA ApiHostsStep == ASSUME TypeOK, ApiHosts, [Next]_vars PROVE ApiHosts'
<1>1. ASSUME NEW e \in Emails, NEW t \in Turns, NEW p \in Hosts, ClaimScheduled(e, t, p)
      PROVE  ApiHosts'
  <2>1. host' = [host EXCEPT ![<<e, t>>] = p] /\ t # 0
    BY <1>1, CallIs DEF ClaimScheduled
  <2>2. \A f \in Emails : <<f, 0>> # <<e, t>> /\ <<f, 0>> \in Calls
    BY <2>1, CallIs
  <2> QED
    BY <2>1, <2>2 DEF ApiHosts, TypeOK
<1>2. UNCHANGED host => ApiHosts'
  BY DEF ApiHosts
<1>3. ASSUME NEW c \in Calls, DeferJob(c) \/ Send(c) \/ MarkSent(c) \/ Catch(c)
                               \/ EnsureIndex(c) \/ IndexEmail(c)
      PROVE  UNCHANGED host
  BY <1>3, Zenon DEF DeferJob, Send, MarkSent, Catch, EnsureIndex, IndexEmail, worker
<1>4. ASSUME NEW p \in Processes, IndicesExists(p) \/ IndicesCreate(p) \/ Crash(p)
      PROVE  UNCHANGED host
  BY <1>4, Zenon DEF IndicesExists, IndicesCreate, Crash, worker
<1>5. ASSUME \/ \E e \in Emails : SetEmailBullJobId(e)
             \/ SearchEmails \/ Finished \/ UNCHANGED vars
      PROVE  UNCHANGED host
  BY <1>5 DEF SetEmailBullJobId, SearchEmails, Finished, vars, worker
<1> QED
  BY <1>1, <1>2, <1>3, <1>4, <1>5 DEF Next

\* Without an early claim the API process is first at the index.
LEMMA ApiCreatesStep ==
  ASSUME IInv, [Next]_vars, Calm, Calm', ApiHosts, ApiCreates, \A e \in Emails : OneAtATime(e)
  PROVE  ApiCreates'
<1>a. ~Fault("es") /\ ~Fault("db") /\ ~Fault("crash")
  BY HealthyBefore DEF Calm, IInv, FaultKinds
<1>b. Api \in Processes /\ TypeOK
  BY DEF Processes, IInv
\* A turn at work comes after createCampaign.
<1>c. ASSUME NEW c \in Calls, c[2] # 0, Busy(c) PROVE promise[Api] = "resolved"
  <2>1. c[1] \in Emails /\ <<c[1], 0>> \in Calls /\ <<c[1], 0>> # c
    BY <1>c, CallIs
  <2>2. pc[<<c[1], 0>>] = "done"
    BY <1>c, <2>1 DEF OneAtATime, Busy
  <2> QED
    BY <2>1, <2>2 DEF ApiCreates
<1> DEFINE Same == /\ UNCHANGED <<indexExists, promise>>
                   /\ promise[Api] # "resolved"
                        => \A e \in Emails : pc'[<<e, 0>>] \in {"new", "ensure"}
<1>d. Same => ApiCreates'
  BY DEF ApiCreates
<1>1. UNCHANGED <<indexExists, promise, pc>> => Same
  BY DEF ApiCreates
<1>2. ASSUME NEW e \in Emails, SetEmailBullJobId(e) PROVE Same
  <2>1. UNCHANGED <<indexExists, promise>> /\ pc' = [pc EXCEPT ![<<e, 0>>] = "ensure"]
    BY <1>2, <1>a DEF SetEmailBullJobId, Settle, Unheard, Hand, index
  <2> QED
    BY <1>b, <2>1, CallIs DEF ApiCreates, TypeOK
<1>3. ASSUME NEW e \in Emails, NEW t \in Turns, NEW p \in Hosts, ClaimScheduled(e, t, p)
      PROVE  Same
  <2>1. /\ UNCHANGED <<indexExists, promise>>
        /\ pc' = [pc EXCEPT ![<<e, t>>] = "claimed"] /\ t # 0
    BY <1>3, <1>a, CallIs DEF ClaimScheduled, Unheard, index
  <2>2. \A f \in Emails : <<f, 0>> # <<e, t>> /\ <<f, 0>> \in Calls
    BY <2>1, CallIs
  <2> QED
    BY <1>b, <2>1, <2>2 DEF ApiCreates, TypeOK
<1>4. ASSUME NEW c \in Calls, DeferJob(c) \/ Send(c) \/ MarkSent(c) \/ Catch(c) PROVE Same
  <2>1. UNCHANGED <<indexExists, promise>> /\ pc[c] \in Owning
    BY <1>4, Zenon DEF DeferJob, Send, MarkSent, Catch, index, Owning
  <2>2. c[2] # 0 /\ Busy(c)
    BY <2>1 DEF IInv, Rows, Ownership, Busy, Owning
  <2>3. promise[Api] = "resolved"
    BY <1>c, <2>2
  <2> QED
    BY <2>1, <2>3
<1>5. ASSUME NEW c \in Calls, EnsureIndex(c) PROVE ApiCreates'
  <2>1. /\ UNCHANGED index /\ pc[c] = "ensure" /\ Busy(c) /\ host[c] \in Processes
        /\ c[1] \in Emails /\ c = <<c[1], c[2]>>
    BY <1>5, <1>b, CallIs DEF EnsureIndex, Busy, TypeOK
  <2>2. host[c] # Api => promise[Api] = "resolved"
    BY <1>c, <2>1 DEF ApiHosts
  <2>3. \/ /\ promise[host[c]] = "none"
           /\ promise' = [promise EXCEPT ![host[c]] = "exists"]
           /\ pc' = pc
        \/ /\ promise[host[c]] = "resolved"
           /\ promise' = promise
           /\ pc' = [pc EXCEPT ![c] = "index"]
    BY <1>5, <2>1 DEF EnsureIndex, IndexReady, ApiCreates
  <2>4. CASE /\ promise[host[c]] = "none"
             /\ promise' = [promise EXCEPT ![host[c]] = "exists"]
             /\ pc' = pc
    BY <1>b, <2>1, <2>2, <2>4 DEF ApiCreates, TypeOK, index
  <2>5. CASE promise[host[c]] = "resolved" /\ promise' = promise
    <3>1. promise[Api] = "resolved"
      BY <2>2, <2>5
    <3> QED
      BY <2>1, <2>5, <3>1 DEF ApiCreates, index
  <2> QED
    BY <2>3, <2>4, <2>5
<1>6. ASSUME NEW c \in Calls, IndexEmail(c) PROVE Same
  <2>1. UNCHANGED <<indexExists, promise>> /\ pc[c] = "index" /\ indexExists
    BY <1>6 DEF IndexEmail, IInv, PromisesAreTrue
  <2> QED
    BY <2>1 DEF ApiCreates
<1>7. CASE SearchEmails
  BY <1>b, <1>7 DEF SearchEmails, index, ApiCreates, TypeOK
<1>8. ASSUME NEW p \in Processes, IndicesExists(p) PROVE ApiCreates'
  <2>1. /\ promise[p] = "exists"
        /\ promise' = [promise EXCEPT ![p] = IF indexExists THEN "resolved" ELSE "create"]
        /\ UNCHANGED <<indexExists, pc>>
    BY <1>a, <1>8 DEF IndicesExists, index
  <2>2. p # Api => indexExists
    BY <1>8, <2>1 DEF IInv, PromisesAreTrue, ApiCreates, Processes
  <2> QED
    BY <1>b, <2>1, <2>2 DEF ApiCreates, TypeOK
<1>9. ASSUME NEW p \in Processes, IndicesCreate(p) PROVE ApiCreates'
  <2>1. p = Api /\ ~indexExists
    BY <1>9 DEF IndicesCreate, ApiCreates
  <2>2. promise' = [promise EXCEPT ![Api] = "resolved"]
    BY <1>a, <1>9, <2>1 DEF IndicesCreate
  <2> QED
    BY <1>b, <2>2 DEF ApiCreates, TypeOK
<1>10. ASSUME Finished \/ UNCHANGED vars PROVE Same
  BY <1>1, <1>10 DEF Finished, vars
<1>11. \A p \in Processes : ~Crash(p)
  BY <1>a DEF Crash
<1> HIDE DEF Same
<1> QED
  BY <1>d, <1>2, <1>3, <1>4, <1>5, <1>6, <1>7, <1>8, <1>9, <1>10, <1>11 DEF Next

\* Every step keeps the three together.
LEMMA CalmStep == IInv /\ CalmInv /\ [Next]_vars => CalmInv'
<1> SUFFICES ASSUME IInv, CalmInv, [Next]_vars PROVE CalmInv'
  OBVIOUS
<1>1. ApiHosts' /\ HealthyRows'
  BY ApiHostsStep, HealthyRowsStep DEF CalmInv, IInv
<1>2. ASSUME Calm' PROVE ApiCreates'
  <2>1. Calm
    BY <1>2, HealthyBefore DEF Calm, IInv
  <2>2. Healthy
    BY <2>1 DEF CalmInv, Calm, ApiCreates, Healthy
  <2>3. \A e \in Emails : OneAtATime(e)
    BY <2>1, <2>2 DEF CalmInv, HealthyRows, Calm, RowAgrees
  <2> QED
    BY <1>2, <2>1, <2>3, ApiCreatesStep DEF CalmInv
<1> QED
  BY <1>1, <1>2 DEF CalmInv

\* As long as nothing failed and no process lost the race to create the index,
\* a row that was not claimed while another of its writers was at work is in the
\* index as it is whenever none of its writes is on its way; and the race is
\* lost only where some row was claimed as early as that.
THEOREM IndexAgreesAlways == Spec => []IndexAgrees
<1>1. Init => CalmInv
  <2> SUFFICES ASSUME Init PROVE CalmInv
    OBVIOUS
  <2>1. \A c \in Calls : pc[c] = "new" /\ host[c] = Api
    BY DEF Init
  <2>2. \A e \in Emails : pc[<<e, 0>>] = "new" /\ host[<<e, 0>>] = Api
    BY <2>1, CallIs
  <2>3. ASSUME NEW e \in Emails PROVE RowAgrees(e)
    <3>1. \A c \in Calls : Busy(c) => c = <<c[1], 0>>
      BY <2>1, CallIs DEF Busy
    <3>2. OneAtATime(e)
      BY <3>1 DEF OneAtATime
    <3> QED
      BY <2>1, <2>2, <3>2 DEF RowAgrees, SnapshotsAreFresh, Agrees, Quiet, Handed
  <2>4. ApiCreates
    BY <2>2 DEF Init, ApiCreates, Processes
  <2> QED
    BY <2>2, <2>3, <2>4 DEF CalmInv, HealthyRows, ApiHosts
<1>2. CalmInv => IndexAgrees
  BY DEF CalmInv, HealthyRows, Healthy, Calm, ApiCreates, RowAgrees, Agrees, IndexAgrees
<1> QED
  BY <1>1, <1>2, CalmStep, Invariance, PTL DEF Spec
=============================================================================
