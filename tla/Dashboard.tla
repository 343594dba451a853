------------------------------- MODULE Dashboard -------------------------------
(***************************************************************************)
(* The dashboard in one browser tab, beside the API it talks to: who is    *)
(* logged in (useAuth, and the way through Google), the list of the open   *)
(* tab (useEmails), and the dialog that reads lead files and submits a     *)
(* campaign (ComposeEmail).                                                *)
(* Every handler sets state, awaits an answer and sets state again; until  *)
(* then the user may click anything that is not disabled, and answers come *)
(* in any order.                                                           *)
(*                                                                         *)
(* The user's rows are abstracted to a version, counting the campaigns     *)
(* committed; a list, of which the first page is shown, is the version it  *)
(* was read at.  Both tabs run the same hook: changing the tab only puts a *)
(* new list in the old one's place.  A page load puts everything back to   *)
(* the beginning, except what the API has already received.                *)
(***************************************************************************)
EXTENDS Naturals, Sequences, FiniteSets

CONSTANTS
  MaxFiles,     \* bound on the lead files the user picks
  MaxSubmits,   \* bound on the campaigns submitted
  MaxFetches,   \* bound on the requests of one list
  MaxSwitches,  \* bound on the changes of the tab
  MaxLoads      \* bound on the page loads after the first

ASSUME DashboardAssumption ==
  {MaxFiles, MaxSubmits, MaxFetches, MaxSwitches, MaxLoads} \subseteq Nat

VARIABLES
  user,         \* "loading", "in" (the dashboard is shown), "out" (the login
                \* page is), or "away" (another page is, Google's or an error)
  cookie,       \* the browser has the session cookie
  leaving,      \* the logout request: "no", "signed" or "unsigned"
  composeOpen,  \* the dialog is on screen
  files,        \* what parseLeadFile makes of the page's files so far
  parsing,      \* the files whose text is being read
  leadResult,   \* the file whose addresses the dialog shows, or 0
  submitting,   \* the Schedule button spins
  submits,      \* the campaigns submitted
  closers,      \* running timers that will close the dialog
  version,      \* the campaigns in PostgreSQL
  fetches,      \* the list's requests
  answered,     \* the request whose answer came last
  emails,       \* the version the list shows
  loading,      \* the list spins
  error,        \* the list shows an error in place of its rows
  switches,     \* changes of the tab
  loads,        \* page loads after the first
  reported      \* the version with the last campaign announced as scheduled

session == <<user, cookie, leaving>>
lead    == <<files, parsing, leadResult>>
compose == <<composeOpen, submitting, submits, closers>>
list    == <<fetches, answered, emails, loading, error>>
vars    == <<session, lead, compose, list, version, switches, loads, reported>>

FileKinds == {"addresses", "empty", "refused"}

Pending(request) == request.stage \in {"sent", "done", "refused"}

\* What requireAuth makes of a request: the cookie travels with it.
Signed == IF cookie THEN "sent" ELSE "refused"

-----------------------------------------------------------------------------
(* useEmails *)

\* refetch, up to its await.
Refetch ==
  /\ Len(fetches) < MaxFetches
  /\ fetches' = Append(fetches, [stage |-> Signed, version |-> 0])
  /\ loading' = TRUE
  /\ error' = FALSE
  /\ UNCHANGED <<answered, emails>>

\* A list that has just been mounted, and its first request.
Mount ==
  /\ fetches' = <<[stage |-> Signed, version |-> 0]>>
  /\ answered' = 0
  /\ emails' = 0
  /\ loading' = TRUE
  /\ error' = FALSE

\* listByStatuses reads the rows.
ListByStatuses(f) ==
  /\ fetches[f].stage = "sent"
  /\ fetches' = [fetches EXCEPT ![f] = [stage |-> "done", version |-> version]]
  /\ UNCHANGED <<session, lead, compose, answered, emails, loading, error,
                 version, switches, loads, reported>>

\* Mutant: the spinner is stopped with the rows instead of in the finally block.
BugLoadingAfter(ok) == ~ok

LoadingAfter(ok) == FALSE

\* refetch, from its await on; the answer may also be lost.
Answer(f) ==
  /\ user = "in"
  /\ Pending(fetches[f])
  /\ \E ok \in {TRUE, FALSE} :
       /\ ok => fetches[f].stage = "done"
       /\ emails' = IF ok THEN fetches[f].version ELSE emails
       /\ error' = (error \/ ~ok)
       /\ loading' = LoadingAfter(ok)
  /\ fetches' = [fetches EXCEPT ![f] = [stage |-> "over", version |-> 0]]
  /\ answered' = f
  /\ UNCHANGED <<session, lead, compose, version, switches, loads, reported>>

\* The Retry button, in place of the rows.
Retry ==
  /\ user = "in"
  /\ error /\ ~loading
  /\ Refetch
  /\ UNCHANGED <<session, lead, compose, version, switches, loads, reported>>

\* The other tab: its list takes the place of this one, whose requests are
\* answered to nobody.
SetActiveTab ==
  /\ user = "in"
  /\ switches < MaxSwitches
  /\ switches' = switches + 1
  /\ Mount
  /\ UNCHANGED <<session, lead, compose, version, loads, reported>>

-----------------------------------------------------------------------------
(* useAuth *)

\* The answer to /auth/me.
Refresh ==
  /\ user = "loading"
  /\ \/ /\ cookie
        /\ user' = "in"
        /\ Mount
     \/ /\ user' = "out"
        /\ UNCHANGED list
  /\ UNCHANGED <<cookie, leaving, lead, compose, version, switches, loads, reported>>

LogoutClicked ==
  /\ user = "in"
  /\ leaving = "no"
  /\ leaving' = IF cookie THEN "signed" ELSE "unsigned"
  /\ UNCHANGED <<user, cookie, lead, compose, list, version, switches, loads, reported>>

\* The answer clears the cookie (page and API are on one site, so the browser
\* takes it); a request without one is refused, and an answer may be lost: both
\* leave the dashboard as it is.
Logout ==
  /\ user = "in"
  /\ leaving # "no"
  /\ \E ok \in {TRUE, FALSE} :
       /\ ok => leaving = "signed"
       /\ cookie' = (cookie /\ ~ok)
       /\ user' = IF ok THEN "out" ELSE user
  /\ leaving' = "no"
  /\ UNCHANGED <<lead, compose, list, version, switches, loads, reported>>

\* Cookie and token have the same seven days.
SessionExpires ==
  /\ cookie
  /\ cookie' = FALSE
  /\ UNCHANGED <<user, leaving, lead, compose, list, version, switches, loads, reported>>

-----------------------------------------------------------------------------
(* The login page, Google, and the page that /dashboard loads *)

\* The state that React starts with.
FreshPage ==
  /\ user' = "loading"
  /\ leaving' = "no"
  /\ composeOpen' = FALSE
  /\ files' = <<>> /\ parsing' = {} /\ leadResult' = 0
  /\ submitting' = FALSE
  /\ closers' = 0
  /\ fetches' = <<>> /\ answered' = 0 /\ emails' = 0
  /\ loading' = TRUE /\ error' = FALSE

\* The old page's requests have nobody to answer to; the API still carries
\* out the campaigns among them.
Abandoned(request) ==
  [stage |-> IF request.stage = "sent" THEN "abandoned" ELSE "over", version |-> 0]

PageLoad ==
  /\ loads < MaxLoads
  /\ loads' = loads + 1
  /\ FreshPage
  /\ submits' = [s \in DOMAIN submits |-> Abandoned(submits[s])]
  /\ UNCHANGED <<version, switches, reported>>

\* Reload, or the way back to /dashboard from another page.
OpenDashboard == PageLoad /\ UNCHANGED cookie

\* Continue with Google: the page is left, for Google's or for the answer 503.
GoogleStart ==
  /\ user = "out"
  /\ user' = "away"
  /\ UNCHANGED <<cookie, leaving, lead, compose, list, version, switches, loads, reported>>

\* The callback with a verified profile: upsertGoogleUser, the cookie and the
\* redirect.  Any error shows its answer in place of the dashboard, and changes
\* nothing.  Outside production the cookie is SameSite=None without Secure,
\* which a browser may drop.
GoogleCallback ==
  /\ user = "away"
  /\ cookie' \in {cookie, TRUE}
  /\ PageLoad

-----------------------------------------------------------------------------
(* ComposeEmail *)

OnCompose ==
  /\ user = "in"
  /\ ~composeOpen
  /\ composeOpen' = TRUE
  /\ UNCHANGED <<session, lead, submitting, submits, closers, list, version, switches, loads, reported>>

\* Mutant: the dialog's state is lost when it closes.
BugOnClose ==
  /\ composeOpen' = FALSE
  /\ submitting' = FALSE

\* Only what Modal renders goes; the dialog's state stays.
OnClose ==
  /\ composeOpen' = FALSE
  /\ UNCHANGED submitting

\* The cross of the dialog is never disabled.
CloseClicked ==
  /\ user = "in"
  /\ composeOpen
  /\ OnClose
  /\ UNCHANGED <<session, lead, submits, closers, list, version, switches, loads, reported>>

\* The timer set after a success, whatever the dialog has been used for since.
CloseTimer ==
  /\ user = "in"
  /\ closers > 0
  /\ closers' = closers - 1
  /\ OnClose
  /\ UNCHANGED <<session, lead, submits, list, version, switches, loads, reported>>

\* A file is picked, and parseLeadFile waits for its text.
HandleFile ==
  /\ user = "in"
  /\ composeOpen
  /\ Len(files) < MaxFiles
  /\ \E kind \in FileKinds : files' = Append(files, kind)
  /\ parsing' = parsing \cup {Len(files')}
  /\ UNCHANGED <<session, leadResult, compose, list, version, switches, loads, reported>>

\* Mutant: a file that is refused is shown all the same.
BugLeadAfter(p) == p

\* setLeadResult: the catch block takes away what an earlier file had given.
LeadAfter(p) == IF files[p] = "refused" THEN 0 ELSE p

Parsed(p) ==
  /\ user = "in"
  /\ parsing' = parsing \ {p}
  /\ leadResult' = LeadAfter(p)
  /\ UNCHANGED <<session, files, compose, list, version, switches, loads, reported>>

CanSubmit ==
  /\ leadResult # 0
  /\ files[leadResult] = "addresses"
  /\ ~submitting

\* submit, up to its await.
Submit ==
  /\ user = "in"
  /\ composeOpen
  /\ CanSubmit
  /\ Len(submits) < MaxSubmits
  /\ submitting' = TRUE
  /\ submits' = Append(submits, [stage |-> Signed, version |-> 0])
  /\ UNCHANGED <<session, lead, composeOpen, closers, list, version, switches, loads, reported>>

\* POST /campaigns commits the rows; the request may still end with an error.
CreateCampaign(s) ==
  /\ submits[s].stage \in {"sent", "abandoned"}
  /\ version' = version + 1
  /\ submits' = [submits EXCEPT ![s] = IF submits[s].stage = "sent"
                    THEN [stage |-> "done", version |-> version']
                    ELSE [stage |-> "over", version |-> 0]]
  /\ UNCHANGED <<session, lead, composeOpen, submitting, closers, list,
                 switches, loads, reported>>

\* Mutant: the list is not told of the campaign.
BugOnScheduled == UNCHANGED list

\* setRefreshToken, and the effect it triggers in the mounted list.
OnScheduled == Refetch

\* Mutant: the button spins on after an error.
BugSubmittingAfter(ok) == ~ok

SubmittingAfter(ok) == FALSE

\* submit, from its await on.
Submitted(s) ==
  /\ user = "in"
  /\ Pending(submits[s])
  /\ \/ /\ submits[s].stage = "done"
        /\ OnScheduled
        /\ closers' = closers + 1
        /\ reported' = submits[s].version
        /\ submitting' = SubmittingAfter(TRUE)
     \/ /\ submitting' = SubmittingAfter(FALSE)
        /\ UNCHANGED <<closers, list, reported>>
  /\ submits' = [submits EXCEPT ![s] = [stage |-> "over", version |-> 0]]
  /\ UNCHANGED <<session, lead, composeOpen, version, switches, loads>>

-----------------------------------------------------------------------------

Init ==
  /\ user = "loading"
  /\ cookie \in {TRUE, FALSE}
  /\ leaving = "no"
  /\ composeOpen = FALSE
  /\ files = <<>>
  /\ parsing = {}
  /\ leadResult = 0
  /\ submitting = FALSE
  /\ submits = <<>>
  /\ closers = 0
  /\ version = 0
  /\ fetches = <<>>
  /\ answered = 0
  /\ emails = 0
  /\ loading = TRUE
  /\ error = FALSE
  /\ switches = 0
  /\ loads = 0
  /\ reported = 0

UseEmails ==
  \/ \E f \in DOMAIN fetches : ListByStatuses(f) \/ Answer(f)
  \/ Retry
  \/ SetActiveTab

UseAuth == Refresh \/ LogoutClicked \/ Logout \/ SessionExpires

ComposeEmail ==
  \/ OnCompose \/ CloseClicked \/ CloseTimer \/ HandleFile \/ Submit
  \/ \E p \in parsing : Parsed(p)
  \/ \E s \in DOMAIN submits : CreateCampaign(s) \/ Submitted(s)

Pages == OpenDashboard \/ GoogleStart \/ GoogleCallback

Next == UseEmails \/ UseAuth \/ ComposeEmail \/ Pages

Spec == Init /\ [][Next]_vars

-----------------------------------------------------------------------------
(* Properties *)

\* Every variable has its type; nothing is shown that was never written, and
\* the dialog never shows the addresses of a file it refused.
TypeOK ==
  /\ user \in {"loading", "in", "out", "away"}
  /\ cookie \in BOOLEAN
  /\ leaving \in {"no", "signed", "unsigned"}
  /\ composeOpen \in BOOLEAN
  /\ files \in Seq(FileKinds)
  /\ parsing \subseteq DOMAIN files
  /\ leadResult \in {0} \cup DOMAIN files
  /\ leadResult # 0 => files[leadResult] # "refused"
  /\ submitting \in BOOLEAN
  /\ submits \in Seq([stage : {"sent", "done", "refused", "over", "abandoned"},
                     version : 0..version])
  /\ closers \in Nat
  /\ version \in Nat
  /\ fetches \in Seq([stage : {"sent", "done", "refused", "over"}, version : 0..version])
  /\ answered \in {0} \cup DOMAIN fetches
  /\ emails \in 0..version
  /\ loading \in BOOLEAN
  /\ error \in BOOLEAN
  /\ switches \in 0..MaxSwitches
  /\ loads \in 0..MaxLoads
  /\ reported \in 0..version

PendingFetches == {f \in DOMAIN fetches : Pending(fetches[f])}
PendingSubmits == {s \in DOMAIN submits : Pending(submits[s])}

\* Nothing spins for ever: what spins waits for an answer that is under way,
\* also after errors, lost answers, changes of the tab and new page loads.
SpinnersHaveRequests ==
  user = "in" =>
    /\ loading => PendingFetches # {}
    /\ submitting => PendingSubmits # {}

\* One click, one campaign: no second request leaves the page while one of its
\* own is under way, although the dialog can be closed and opened again.  (A
\* new page knows nothing of what the old one has submitted.)
OneSubmitAtATime == Cardinality(PendingSubmits) <= 1

\* When the answer that came last is the one that was asked last, the list has
\* the campaigns that the dialog has announced, whatever tab it was asked from.
\* (An older answer that comes later puts an older list in its place.)
ScheduledIsListed ==
  user = "in" /\ answered # 0 /\ answered = Len(fetches) /\ ~error =>
    emails >= reported
===============================================================================
