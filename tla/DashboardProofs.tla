--------------------------- MODULE DashboardProofs ---------------------------
(***************************************************************************)
(* Proofs about Dashboard, for any number of files, campaigns, requests,   *)
(* changes of the tab and page loads.                                      *)
(***************************************************************************)
EXTENDS Dashboard, SequenceTheorems, FiniteSetTheorems, TLAPS

-----------------------------------------------------------------------------
(* Sequences of requests *)

LEMMA AppendType ==
  ASSUME NEW S, NEW s \in Seq(S), NEW x \in S
  PROVE  /\ Append(s, x) \in Seq(S)
         /\ Len(Append(s, x)) = Len(s) + 1
         /\ DOMAIN s \subseteq DOMAIN Append(s, x)
         /\ \A i \in DOMAIN s : Append(s, x)[i] = s[i]
         /\ Append(s, x)[Len(s) + 1] = x
OBVIOUS

LEMMA ExceptType ==
  ASSUME NEW S, NEW s \in Seq(S), NEW i \in DOMAIN s, NEW x \in S
  PROVE  /\ [s EXCEPT ![i] = x] \in Seq(S)
         /\ Len([s EXCEPT ![i] = x]) = Len(s)
         /\ DOMAIN [s EXCEPT ![i] = x] = DOMAIN s
BY ExceptSeq

LEMMA WiderType ==
  ASSUME NEW S, NEW T, S \subseteq T, NEW s \in Seq(S)
  PROVE  s \in Seq(T)
OBVIOUS

LEMMA MappedType ==
  ASSUME NEW S, NEW T, NEW s \in Seq(S), NEW t, t = [i \in DOMAIN s |-> t[i]],
         \A i \in DOMAIN s : t[i] \in T
  PROVE  t \in Seq(T) /\ Len(t) = Len(s)
<1>1. Len(s) \in Nat /\ DOMAIN s = 1..Len(s)
  OBVIOUS
<1>2. t \in [1..Len(s) -> T]
  BY <1>1
<1> QED
  BY <1>1, <1>2

-----------------------------------------------------------------------------
(* Types, in three parts *)

FetchAt(v)  == [stage : {"sent", "done", "refused", "over"}, version : 0..v]
SubmitAt(v) == [stage : {"sent", "done", "refused", "over", "abandoned"}, version : 0..v]

ListOK ==
  /\ fetches \in Seq(FetchAt(version))
  /\ answered \in {0} \cup DOMAIN fetches
  /\ emails \in 0..version
  /\ loading \in BOOLEAN
  /\ error \in BOOLEAN

SubmitsOK ==
  /\ submits \in Seq(SubmitAt(version))
  /\ closers \in Nat
  /\ version \in Nat
  /\ reported \in 0..version

LeadOK ==
  /\ files \in Seq(FileKinds)
  /\ parsing \subseteq DOMAIN files
  /\ leadResult \in {0} \cup DOMAIN files
  /\ leadResult # 0 => files[leadResult] # "refused"

PageOK ==
  /\ user \in {"loading", "in", "out", "away"}
  /\ cookie \in BOOLEAN
  /\ leaving \in {"no", "signed", "unsigned"}
  /\ composeOpen \in BOOLEAN
  /\ submitting \in BOOLEAN
  /\ switches \in 0..MaxSwitches
  /\ loads \in 0..MaxLoads

LEMMA TypeParts == TypeOK <=> ListOK /\ SubmitsOK /\ LeadOK /\ PageOK
BY DEF TypeOK, ListOK, SubmitsOK, LeadOK, PageOK, FetchAt, SubmitAt

LEMMA ListStays == ListOK /\ UNCHANGED <<list, version>> => ListOK'
BY DEF ListOK, list

LEMMA SubmitsStay == SubmitsOK /\ UNCHANGED <<submits, closers, version, reported>> => SubmitsOK'
BY DEF SubmitsOK

LEMMA LeadStays == LeadOK /\ UNCHANGED lead => LeadOK'
BY DEF LeadOK, lead

LEMMA NewFetch ==
  ASSUME version \in Nat
  PROVE  [stage |-> Signed, version |-> 0] \in FetchAt(version)
BY DEF FetchAt, Signed

LEMMA RefetchType ==
  ASSUME ListOK, version \in Nat, Refetch, UNCHANGED version
  PROVE  ListOK'
<1>1. fetches' \in Seq(FetchAt(version)) /\ DOMAIN fetches \subseteq DOMAIN fetches'
  BY NewFetch, AppendType DEF Refetch, ListOK
<1> QED
  BY <1>1 DEF Refetch, ListOK

LEMMA MountType ==
  ASSUME version \in Nat, Mount, UNCHANGED version
  PROVE  ListOK'
<1>1. fetches' \in Seq(FetchAt(version))
  BY NewFetch DEF Mount
<1>2. answered' = 0 /\ emails' = 0 /\ loading' = TRUE /\ error' = FALSE
  BY DEF Mount
<1>3. emails' \in 0..version'
  BY <1>2
<1> QED
  BY <1>1, <1>2, <1>3 DEF ListOK

LEMMA TypeStep == TypeOK /\ [Next]_vars => TypeOK'
<1> SUFFICES ASSUME ListOK, SubmitsOK, LeadOK, PageOK, [Next]_vars
             PROVE  ListOK' /\ SubmitsOK' /\ LeadOK' /\ PageOK'
  BY TypeParts DEF TypeOK, ListOK, SubmitsOK, LeadOK, PageOK, FetchAt, SubmitAt
<1>0. version \in Nat
  BY DEF SubmitsOK
<1> USE DashboardAssumption
<1> DEFINE Typed == ListOK' /\ SubmitsOK' /\ LeadOK' /\ PageOK'
<1>1. ASSUME NEW f \in DOMAIN fetches, ListByStatuses(f) PROVE Typed
  <2>1. [stage |-> "done", version |-> version] \in FetchAt(version)
    BY <1>0 DEF FetchAt
  <2>2. fetches' \in Seq(FetchAt(version)) /\ DOMAIN fetches' = DOMAIN fetches
    BY <1>1, <2>1, ExceptType DEF ListByStatuses, ListOK
  <2>3. ListOK'
    BY <1>1, <2>2 DEF ListByStatuses, ListOK
  <2> QED
    BY <1>1, <2>3, SubmitsStay, LeadStays DEF ListByStatuses, PageOK, session, lead, compose
<1>2. ASSUME NEW f \in DOMAIN fetches, Answer(f) PROVE Typed
  <2>1. [stage |-> "over", version |-> 0] \in FetchAt(version)
    BY <1>0 DEF FetchAt
  <2>2. fetches' \in Seq(FetchAt(version)) /\ DOMAIN fetches' = DOMAIN fetches
    BY <1>2, <2>1, ExceptType DEF Answer, ListOK
  <2>3. fetches[f] \in FetchAt(version)
    BY DEF ListOK
  <2>4. emails' \in 0..version /\ answered' = f /\ loading' \in BOOLEAN /\ error' \in BOOLEAN
    BY <1>2, <2>3 DEF Answer, LoadingAfter, ListOK, FetchAt
  <2>5. ListOK'
    BY <1>2, <2>2, <2>4 DEF Answer, ListOK
  <2> QED
    BY <1>2, <2>5, SubmitsStay, LeadStays DEF Answer, PageOK, session, lead, compose
<1>3. CASE Retry
  BY <1>0, <1>3, RefetchType, SubmitsStay, LeadStays DEF Retry, PageOK, session, lead, compose
<1>4. CASE SetActiveTab
  BY <1>0, <1>4, MountType, SubmitsStay, LeadStays DEF SetActiveTab, PageOK, session, lead, compose
<1>5. CASE Refresh
  BY <1>0, <1>5, MountType, ListStays, SubmitsStay, LeadStays DEF Refresh, PageOK, session, lead, compose
<1>6. CASE LogoutClicked \/ Logout \/ SessionExpires \/ GoogleStart
  BY <1>6, ListStays, SubmitsStay, LeadStays
  DEF LogoutClicked, Logout, SessionExpires, GoogleStart, PageOK, session, lead, compose
<1>7. CASE OnCompose \/ CloseClicked
  BY <1>7, ListStays, SubmitsStay, LeadStays
  DEF OnCompose, CloseClicked, OnClose, PageOK, session, lead, compose
<1>8. CASE CloseTimer
  <2>1. /\ closers' = closers - 1 /\ closers > 0 /\ composeOpen' = FALSE
        /\ UNCHANGED <<session, lead, list, submits, submitting, version, switches, loads, reported>>
    BY <1>8 DEF CloseTimer, OnClose
  <2>2. SubmitsOK'
    BY <2>1 DEF SubmitsOK
  <2>3. PageOK'
    BY <2>1 DEF PageOK, session
  <2> QED
    BY <2>1, <2>2, <2>3, ListStays, LeadStays
<1>9. CASE HandleFile
  <2>1. PICK kind \in FileKinds : files' = Append(files, kind)
    BY <1>9 DEF HandleFile
  <2>2. /\ files' \in Seq(FileKinds)
        /\ DOMAIN files \subseteq DOMAIN files'
        /\ \A i \in DOMAIN files : files'[i] = files[i]
        /\ Len(files') \in DOMAIN files'
    BY <2>1, AppendType DEF LeadOK
  <2>3. LeadOK'
    BY <1>9, <2>2 DEF HandleFile, LeadOK
  <2> QED
    BY <1>9, <2>3, ListStays, SubmitsStay DEF HandleFile, PageOK, session, compose
<1>10. ASSUME NEW p \in parsing, Parsed(p) PROVE Typed
  <2>1. LeadOK'
    BY <1>10 DEF Parsed, LeadAfter, LeadOK
  <2> QED
    BY <1>10, <2>1, ListStays, SubmitsStay DEF Parsed, PageOK, session, compose
<1>11. CASE Submit
  <2>1. [stage |-> Signed, version |-> 0] \in SubmitAt(version)
    BY <1>0 DEF SubmitAt, Signed
  <2>2. submits' \in Seq(SubmitAt(version)) /\ Len(submits') = Len(submits) + 1
    BY <1>11, <2>1, AppendType DEF Submit, SubmitsOK
  <2>3. Len(submits) \in Nat
    BY DEF SubmitsOK
  <2>4. SubmitsOK'
    BY <1>11, <2>2, <2>3 DEF Submit, SubmitsOK
  <2> QED
    BY <1>11, <2>4, ListStays, LeadStays DEF Submit, PageOK, session, compose
<1>12. ASSUME NEW s \in DOMAIN submits, CreateCampaign(s) PROVE Typed
  <2>1. version' = version + 1
    BY <1>12 DEF CreateCampaign
  <2>2. FetchAt(version) \subseteq FetchAt(version') /\ SubmitAt(version) \subseteq SubmitAt(version')
    BY <1>0, <2>1 DEF FetchAt, SubmitAt
  <2>3. fetches \in Seq(FetchAt(version')) /\ submits \in Seq(SubmitAt(version'))
    BY <2>2, WiderType DEF ListOK, SubmitsOK
  <2>4. ListOK'
    BY <1>0, <1>12, <2>1, <2>3 DEF CreateCampaign, ListOK, list
  <2> DEFINE answer  == [stage |-> "done", version |-> version']
             nothing == [stage |-> "over", version |-> 0]
  <2>5. /\ answer \in SubmitAt(version') /\ nothing \in SubmitAt(version')
        /\ submits' = [submits EXCEPT ![s] = IF submits[s].stage = "sent" THEN answer ELSE nothing]
    BY <1>0, <1>12, <2>1 DEF CreateCampaign, SubmitAt
  <2> HIDE DEF answer, nothing
  <2>6. submits' \in Seq(SubmitAt(version')) /\ Len(submits') = Len(submits)
    BY <2>3, <2>5, ExceptType
  <2>7. SubmitsOK'
    BY <1>0, <1>12, <2>1, <2>6 DEF CreateCampaign, SubmitsOK
  <2> QED
    BY <1>12, <2>4, <2>7, LeadStays DEF CreateCampaign, PageOK, session
<1>13. ASSUME NEW s \in DOMAIN submits, Submitted(s) PROVE Typed
  <2>1. [stage |-> "over", version |-> 0] \in SubmitAt(version)
    BY <1>0 DEF SubmitAt
  <2>2. submits' \in Seq(SubmitAt(version)) /\ Len(submits') = Len(submits)
    BY <1>13, <2>1, ExceptType DEF Submitted, SubmitsOK
  <2>3. ListOK'
    BY <1>0, <1>13, RefetchType, ListStays DEF Submitted, OnScheduled
  <2>4. submits[s] \in SubmitAt(version)
    BY DEF SubmitsOK
  <2>5. submits[s].version \in 0..version
    BY <2>4 DEF SubmitAt
  <2>6. /\ closers' \in {closers, closers + 1}
        /\ reported' \in {reported, submits[s].version}
        /\ submitting' = FALSE
        /\ UNCHANGED <<session, lead, composeOpen, version, switches, loads>>
    BY <1>13 DEF Submitted, SubmittingAfter
  <2>7. SubmitsOK'
    BY <2>2, <2>5, <2>6 DEF SubmitsOK
  <2>8. PageOK'
    BY <2>6 DEF PageOK, session
  <2> QED
    BY <2>3, <2>6, <2>7, <2>8, LeadStays
<1>14. ASSUME PageLoad, cookie' \in BOOLEAN PROVE Typed
  <2>1. ListOK'
    <3>1. /\ fetches' = <<>> /\ answered' = 0 /\ emails' = 0
          /\ loading' = TRUE /\ error' = FALSE /\ version' = version
      BY <1>14 DEF PageLoad, FreshPage
    <3>2. emails' \in 0..version'
      BY <1>0, <3>1
    <3>3. fetches' \in Seq(FetchAt(version'))
      BY <3>1
    <3> QED
      BY <3>1, <3>2, <3>3 DEF ListOK
  <2>2. \A i \in DOMAIN submits : Abandoned(submits[i]) \in SubmitAt(version)
    <3>1. ASSUME NEW r \in SubmitAt(version) PROVE Abandoned(r) \in SubmitAt(version)
      BY <1>0, <3>1 DEF Abandoned, SubmitAt
    <3>2. \A i \in DOMAIN submits : submits[i] \in SubmitAt(version)
      BY DEF SubmitsOK
    <3> QED
      BY <3>1, <3>2
  <2>3. submits' \in Seq(SubmitAt(version)) /\ Len(submits') = Len(submits)
    BY <1>14, <2>2, MappedType DEF PageLoad, SubmitsOK
  <2>4. SubmitsOK'
    BY <1>14, <2>3 DEF PageLoad, FreshPage, SubmitsOK
  <2>5. LeadOK'
    BY <1>14 DEF PageLoad, FreshPage, LeadOK
  <2>6. PageOK'
    <3>1. /\ loads < MaxLoads /\ loads' = loads + 1 /\ switches' = switches
          /\ user' = "loading" /\ leaving' = "no"
          /\ composeOpen' = FALSE /\ submitting' = FALSE
      BY <1>14 DEF PageLoad, FreshPage
    <3>2. loads' \in 0..MaxLoads /\ switches' \in 0..MaxSwitches
      BY <3>1 DEF PageOK
    <3>3. composeOpen' \in BOOLEAN /\ submitting' \in BOOLEAN
      BY <3>1
    <3> QED
      BY <1>14, <3>1, <3>2, <3>3 DEF PageOK
  <2> QED
    BY <2>1, <2>4, <2>5, <2>6
<1>15. CASE UNCHANGED vars
  BY <1>15, ListStays, SubmitsStay, LeadStays DEF vars, PageOK, session, compose
<1> QED
  BY <1>1, <1>2, <1>3, <1>4, <1>5, <1>6, <1>7, <1>8, <1>9, <1>10, <1>11, <1>12, <1>13, <1>14, <1>15
  DEF Next, UseEmails, UseAuth, ComposeEmail, Pages, OpenDashboard, GoogleCallback, PageOK

\* Type correctness; no file that was refused is ever shown.
THEOREM TypeCorrect == Spec => []TypeOK
<1>1. Init => TypeOK
  <2> SUFFICES ASSUME Init PROVE ListOK /\ SubmitsOK /\ LeadOK /\ PageOK
    BY TypeParts
  <2>1. ListOK
    <3>1. fetches = <<>> /\ answered = 0 /\ emails = 0 /\ version = 0 /\ loading = TRUE /\ error = FALSE
      BY DEF Init
    <3>2. fetches \in Seq(FetchAt(version)) /\ emails \in 0..version
      BY <3>1
    <3> QED
      BY <3>1, <3>2 DEF ListOK
  <2>2. SubmitsOK
    <3>1. submits = <<>> /\ closers = 0 /\ version = 0 /\ reported = 0
      BY DEF Init
    <3>2. submits \in Seq(SubmitAt(version)) /\ reported \in 0..version
      BY <3>1
    <3> QED
      BY <3>1, <3>2 DEF SubmitsOK
  <2>3. LeadOK
    BY DEF Init, LeadOK
  <2>4. PageOK
    <3>1. switches = 0 /\ loads = 0
      BY DEF Init
    <3>2. switches \in 0..MaxSwitches /\ loads \in 0..MaxLoads
      BY <3>1, DashboardAssumption
    <3>3. composeOpen = FALSE /\ submitting = FALSE /\ cookie \in BOOLEAN
      BY DEF Init
    <3> QED
      BY <3>2, <3>3 DEF Init, PageOK
  <2> QED
    BY <2>1, <2>2, <2>3, <2>4
<1> QED
  BY <1>1, TypeStep, PTL DEF Spec

-----------------------------------------------------------------------------
(* Spinners and the one submission *)

\* A page submits one campaign at a time, and its button spins for as long; a
\* page that has not learnt yet who is logged in has submitted nothing.
OneUnderWay ==
  /\ \A s, t \in DOMAIN submits : Pending(submits[s]) /\ Pending(submits[t]) => s = t
  /\ submitting <=> \E s \in DOMAIN submits : Pending(submits[s])

ListSpins == user = "in" /\ loading => \E f \in DOMAIN fetches : Pending(fetches[f])

LEMMA ListSpinsStep == TypeOK /\ ListSpins /\ [Next]_vars => ListSpins'
<1> SUFFICES ASSUME TypeOK, ListSpins, [Next]_vars PROVE ListSpins'
  OBVIOUS
<1> DEFINE request == [stage |-> Signed, version |-> 0]
<1>0. Pending(request)
  BY DEF Pending, Signed
<1>1. ASSUME Refetch PROVE ListSpins'
  <2>1. fetches' = Append(fetches, request) /\ fetches \in Seq(FetchAt(version))
    BY <1>1 DEF Refetch, TypeOK, FetchAt
  <2>2. Len(fetches') \in DOMAIN fetches' /\ fetches'[Len(fetches')] = request
    BY <2>1
  <2> QED
    BY <1>0, <2>2 DEF ListSpins, Pending
<1>2. ASSUME Mount PROVE ListSpins'
  <2>1. fetches' = <<request>>
    BY <1>2 DEF Mount
  <2>2. 1 \in DOMAIN fetches' /\ fetches'[1] = request
    BY <2>1
  <2> QED
    BY <1>0, <2>2 DEF ListSpins, Pending
<1>3. ASSUME UNCHANGED <<fetches, loading>>, user' = "in" => user = "in" PROVE ListSpins'
  BY <1>3 DEF ListSpins, Pending
<1>4. ASSUME user' # "in" \/ loading' = FALSE PROVE ListSpins'
  BY <1>4 DEF ListSpins
<1> HIDE DEF request
<1>5. ASSUME NEW f \in DOMAIN fetches, ListByStatuses(f) PROVE ListSpins'
  <2>1. /\ fetches' = [fetches EXCEPT ![f] = [stage |-> "done", version |-> version]]
        /\ UNCHANGED <<user, loading>>
    BY <1>5 DEF ListByStatuses, session
  <2>2. f \in DOMAIN fetches' /\ Pending(fetches'[f])
    BY <2>1 DEF Pending
  <2> QED
    BY <2>2 DEF ListSpins, Pending
<1>6. ASSUME NEW f \in DOMAIN fetches, Answer(f) PROVE loading' = FALSE
  BY <1>6 DEF Answer, LoadingAfter
<1>7. CASE Retry \/ SetActiveTab
  BY <1>1, <1>2, <1>7 DEF Retry, SetActiveTab
<1>8. CASE Refresh
  BY <1>2, <1>4, <1>8 DEF Refresh
<1>9. CASE LogoutClicked \/ Logout \/ SessionExpires \/ GoogleStart
  BY <1>3, <1>4, <1>9 DEF LogoutClicked, Logout, SessionExpires, GoogleStart, list
<1>10. CASE OnCompose \/ CloseClicked \/ CloseTimer \/ HandleFile \/ Submit
  BY <1>3, <1>10 DEF OnCompose, CloseClicked, CloseTimer, HandleFile, Submit, session, list
<1>11. ASSUME NEW p \in parsing, Parsed(p) PROVE ListSpins'
  BY <1>3, <1>11 DEF Parsed, session, list
<1>12. ASSUME NEW s \in DOMAIN submits, CreateCampaign(s) PROVE ListSpins'
  BY <1>3, <1>12 DEF CreateCampaign, session, list
<1>13. ASSUME NEW s \in DOMAIN submits, Submitted(s) PROVE ListSpins'
  BY <1>1, <1>3, <1>13 DEF Submitted, OnScheduled, session, list
<1>14. ASSUME PageLoad PROVE user' # "in"
  BY <1>14 DEF PageLoad, FreshPage
<1>15. CASE UNCHANGED vars
  BY <1>3, <1>15 DEF vars, session, list
<1> QED
  BY <1>4, <1>5, <1>6, <1>7, <1>8, <1>9, <1>10, <1>11, <1>12, <1>13, <1>14, <1>15
  DEF Next, UseEmails, UseAuth, ComposeEmail, Pages, OpenDashboard, GoogleCallback

LEMMA OneUnderWayStep == TypeOK /\ OneUnderWay /\ [Next]_vars => OneUnderWay'
<1> SUFFICES ASSUME TypeOK, OneUnderWay, [Next]_vars PROVE OneUnderWay'
  OBVIOUS
<1>0. submits \in Seq(SubmitAt(version))
  BY DEF TypeOK, SubmitAt
<1>1. ASSUME UNCHANGED <<submits, submitting>> PROVE OneUnderWay'
  BY <1>1 DEF OneUnderWay, Pending
<1>2. CASE Submit
  <2> DEFINE request == [stage |-> Signed, version |-> 0]
             n == Len(submits) + 1
  <2>1. submits' = Append(submits, request) /\ submitting = FALSE /\ submitting' = TRUE
    BY <1>2 DEF Submit, CanSubmit, TypeOK
  <2>2. \A s \in DOMAIN submits : ~Pending(submits[s])
    BY <2>1 DEF OneUnderWay
  <2>3. /\ DOMAIN submits' = DOMAIN submits \cup {n}
        /\ \A s \in DOMAIN submits : submits'[s] = submits[s]
        /\ submits'[n] = request
    BY <1>0, <2>1
  <2>4. Pending(request)
    BY DEF Pending, Signed
  <2> HIDE DEF request, n
  <2> QED
    BY <2>1, <2>2, <2>3, <2>4 DEF OneUnderWay, Pending
<1>3. ASSUME NEW s \in DOMAIN submits, CreateCampaign(s) PROVE OneUnderWay'
  <2>1. /\ DOMAIN submits' = DOMAIN submits
        /\ \A t \in DOMAIN submits : t # s => submits'[t] = submits[t]
        /\ Pending(submits'[s]) <=> Pending(submits[s])
        /\ submitting' = submitting
    BY <1>0, <1>3 DEF CreateCampaign, Pending
  <2> QED
    BY <2>1 DEF OneUnderWay, Pending
<1>4. ASSUME NEW s \in DOMAIN submits, Submitted(s) PROVE OneUnderWay'
  <2>1. /\ DOMAIN submits' = DOMAIN submits
        /\ \A t \in DOMAIN submits : t # s => submits'[t] = submits[t]
        /\ ~Pending(submits'[s])
        /\ Pending(submits[s])
        /\ submitting' = FALSE
    BY <1>0, <1>4 DEF Submitted, SubmittingAfter, Pending
  <2> QED
    BY <2>1 DEF OneUnderWay, Pending
<1>5. ASSUME PageLoad PROVE OneUnderWay'
  <2>1. /\ DOMAIN submits' = DOMAIN submits
        /\ \A s \in DOMAIN submits : submits'[s].stage \in {"abandoned", "over"}
        /\ submitting' = FALSE
    BY <1>5 DEF PageLoad, FreshPage, Abandoned
  <2> QED
    BY <2>1 DEF OneUnderWay, Pending
<1>6. ASSUME NEW f \in DOMAIN fetches, ListByStatuses(f) \/ Answer(f) PROVE OneUnderWay'
  BY <1>1, <1>6 DEF ListByStatuses, Answer, compose
<1>7. CASE Retry \/ SetActiveTab \/ Refresh \/ LogoutClicked \/ Logout \/ SessionExpires \/ GoogleStart
  BY <1>1, <1>7
  DEF Retry, SetActiveTab, Refresh, LogoutClicked, Logout, SessionExpires, GoogleStart, compose
<1>8. CASE OnCompose \/ CloseClicked \/ CloseTimer \/ HandleFile
  BY <1>1, <1>8 DEF OnCompose, CloseClicked, CloseTimer, OnClose, HandleFile, compose
<1>9. ASSUME NEW p \in parsing, Parsed(p) PROVE OneUnderWay'
  BY <1>1, <1>9 DEF Parsed, compose
<1>10. CASE UNCHANGED vars
  BY <1>1, <1>10 DEF vars, compose
<1> QED
  BY <1>2, <1>3, <1>4, <1>5, <1>6, <1>7, <1>8, <1>9, <1>10
  DEF Next, UseEmails, UseAuth, ComposeEmail, Pages, OpenDashboard, GoogleCallback

LEMMA SpinnersInvariance == Spec => [](TypeOK /\ ListSpins /\ OneUnderWay)
<1>1. Init => ListSpins /\ OneUnderWay
  BY DEF Init, ListSpins, OneUnderWay, Pending
<1> QED
  BY <1>1, TypeCorrect, ListSpinsStep, OneUnderWayStep, PTL DEF Spec

\* Nothing spins for ever.
THEOREM SpinnersWait == Spec => []SpinnersHaveRequests
<1>1. ListSpins /\ OneUnderWay => SpinnersHaveRequests
  BY DEF ListSpins, OneUnderWay, SpinnersHaveRequests, PendingFetches, PendingSubmits
<1> QED
  BY <1>1, SpinnersInvariance, PTL

\* No page has two submissions under way.
THEOREM OneSubmission == Spec => []OneSubmitAtATime
<1>1. OneUnderWay => OneSubmitAtATime
  <2> SUFFICES ASSUME OneUnderWay PROVE Cardinality(PendingSubmits) <= 1
    BY DEF OneSubmitAtATime
  <2>1. PendingSubmits = {} \/ \E s \in DOMAIN submits : PendingSubmits = {s}
    BY DEF OneUnderWay, PendingSubmits
  <2> QED
    BY <2>1, FS_EmptySet, FS_Singleton
<1> QED
  BY <1>1, SpinnersInvariance, PTL

-----------------------------------------------------------------------------
(* What was announced is listed *)

\* The last request of the list was sent when everything announced so far was
\* in PostgreSQL.
LastIsNew ==
  /\ fetches # <<>> /\ fetches[Len(fetches)].stage = "done"
       => fetches[Len(fetches)].version >= reported
  /\ ScheduledIsListed

LEMMA LastIsNewStep == TypeOK /\ LastIsNew /\ [Next]_vars => LastIsNew'
<1> SUFFICES ASSUME TypeOK, LastIsNew, [Next]_vars PROVE LastIsNew'
  OBVIOUS
<1>0. /\ fetches \in Seq(FetchAt(version)) /\ answered \in {0} \cup DOMAIN fetches
      /\ version \in Nat /\ reported \in 0..version /\ emails \in 0..version
  BY DEF TypeOK, FetchAt
<1>1. ASSUME Refetch PROVE LastIsNew'
  <2>1. /\ fetches' = Append(fetches, [stage |-> Signed, version |-> 0])
        /\ answered' = answered
    BY <1>1 DEF Refetch
  <2>2. Len(fetches') = Len(fetches) + 1 /\ fetches'[Len(fetches')].stage = Signed
    BY <1>0, <2>1
  <2>3. answered' # Len(fetches')
    BY <1>0, <2>1, <2>2
  <2> QED
    BY <2>2, <2>3 DEF LastIsNew, ScheduledIsListed, Signed
<1>2. ASSUME Mount PROVE LastIsNew'
  <2>1. fetches' = <<[stage |-> Signed, version |-> 0]>> /\ answered' = 0
    BY <1>2 DEF Mount
  <2>2. fetches'[Len(fetches')].stage = Signed
    BY <2>1
  <2> QED
    BY <2>1, <2>2 DEF LastIsNew, ScheduledIsListed, Signed
<1>3. ASSUME UNCHANGED <<list, reported>>, user' = "in" => user = "in" PROVE LastIsNew'
  BY <1>3 DEF LastIsNew, ScheduledIsListed, list
<1>4. ASSUME NEW f \in DOMAIN fetches, ListByStatuses(f) PROVE LastIsNew'
  <2>1. /\ fetches' = [fetches EXCEPT ![f] = [stage |-> "done", version |-> version]]
        /\ UNCHANGED <<user, answered, emails, error, reported>>
    BY <1>4 DEF ListByStatuses, session
  <2>2. Len(fetches') = Len(fetches) /\ fetches # <<>> /\ Len(fetches) \in DOMAIN fetches
    BY <1>0, <2>1, ExceptType
  <2>3. fetches'[Len(fetches)] = IF f = Len(fetches) THEN [stage |-> "done", version |-> version]
                                 ELSE fetches[Len(fetches)]
    BY <2>1, <2>2
  <2> QED
    BY <1>0, <2>1, <2>2, <2>3 DEF LastIsNew, ScheduledIsListed
<1>5. ASSUME NEW f \in DOMAIN fetches, Answer(f) PROVE LastIsNew'
  <2>1. /\ fetches' = [fetches EXCEPT ![f] = [stage |-> "over", version |-> 0]]
        /\ answered' = f
        /\ \/ emails' = fetches[f].version /\ fetches[f].stage = "done"
           \/ error' = TRUE
        /\ UNCHANGED reported
    BY <1>5 DEF Answer
  <2>2. Len(fetches') = Len(fetches) /\ fetches # <<>> /\ Len(fetches) \in DOMAIN fetches
    BY <1>0, <2>1
  <2>3. fetches'[Len(fetches)] = IF f = Len(fetches) THEN [stage |-> "over", version |-> 0]
                                 ELSE fetches[Len(fetches)]
    BY <2>1, <2>2
  <2> QED
    BY <2>1, <2>2, <2>3 DEF LastIsNew, ScheduledIsListed
<1>6. CASE Retry \/ SetActiveTab
  BY <1>1, <1>2, <1>6 DEF Retry, SetActiveTab
<1>7. CASE Refresh
  BY <1>2, <1>3, <1>7 DEF Refresh
<1>8. CASE LogoutClicked \/ Logout \/ SessionExpires \/ GoogleStart
  BY <1>3, <1>8 DEF LogoutClicked, Logout, SessionExpires, GoogleStart
<1>9. CASE OnCompose \/ CloseClicked \/ CloseTimer \/ HandleFile \/ Submit
  BY <1>3, <1>9 DEF OnCompose, CloseClicked, CloseTimer, HandleFile, Submit, session
<1>10. ASSUME NEW p \in parsing, Parsed(p) PROVE LastIsNew'
  BY <1>3, <1>10 DEF Parsed, session
<1>11. ASSUME NEW s \in DOMAIN submits, CreateCampaign(s) PROVE LastIsNew'
  BY <1>3, <1>11 DEF CreateCampaign, session
<1>12. ASSUME NEW s \in DOMAIN submits, Submitted(s) PROVE LastIsNew'
  BY <1>1, <1>3, <1>12 DEF Submitted, OnScheduled, session
<1>13. ASSUME PageLoad PROVE LastIsNew'
  <2>1. fetches' = <<>> /\ answered' = 0
    BY <1>13 DEF PageLoad, FreshPage
  <2> QED
    BY <2>1 DEF LastIsNew, ScheduledIsListed
<1>14. CASE UNCHANGED vars
  BY <1>3, <1>14 DEF vars, session
<1> QED
  BY <1>4, <1>5, <1>6, <1>7, <1>8, <1>9, <1>10, <1>11, <1>12, <1>13, <1>14
  DEF Next, UseEmails, UseAuth, ComposeEmail, Pages, OpenDashboard, GoogleCallback

\* When the answer to the last request came last, what was announced is listed.
THEOREM AnnouncedIsListed == Spec => []ScheduledIsListed
<1>1. Init => LastIsNew
  BY DEF Init, LastIsNew, ScheduledIsListed
<1>2. LastIsNew => ScheduledIsListed
  BY DEF LastIsNew
<1> QED
  BY <1>1, <1>2, LastIsNewStep, TypeCorrect, PTL DEF Spec
=============================================================================
