--------------------------- MODULE SlackConnections ---------------------------
(***************************************************************************)
(* One user's SlackConnection rows in PostgreSQL: OAuth callbacks make     *)
(* them, the dashboard's disconnect closes them, and the workers' rate     *)
(* limit notifications look one up and post with its token.  A callback is *)
(* two writes with no transaction around them (close the active rows, then *)
(* create one), and a notification is a read and a post: everything else   *)
(* may happen in between, in this process or another.                      *)
(*                                                                         *)
(* The user sees the connection in the dashboard's panel                   *)
(* (SlackConnection.tsx), which asks for it when it is mounted, on         *)
(* Refresh, and after a disconnect; answers come in any order.  A page     *)
(* that is loaded again has a new panel: the module follows one.           *)
(***************************************************************************)
EXTENDS Naturals, Sequences, FiniteSets

CONSTANTS
  Callbacks,      \* OAuth callbacks of the user, each creating one row
  Notifications,  \* calls of sendRateLimitNotification for the user
  MaxDisconnects, \* bound on the user's disconnects
  MaxLoads,       \* bound on the panel's status requests
  MaxFaults,      \* bound on failed database writes
  None

ASSUME SlackAssumption ==
  /\ IsFiniteSet(Callbacks)
  /\ None \notin Callbacks
  /\ {MaxDisconnects, MaxLoads, MaxFaults} \subseteq Nat

VARIABLES
  row,          \* a callback's row: "none", "active", or "closed"
  connectedAt,  \* creation time of a callback's row
  pc,           \* where a callback stands
  post,         \* where a notification stands
  token,        \* the row whose token a notification will post with
  loads,        \* the panel's status requests
  answered,     \* the one whose answer came last
  shown,        \* the connection the panel shows, or None
  loading,      \* the panel says "Checking connection"
  disconnects,  \* the panel's disconnect requests
  before,       \* history: the rows there were at the last disconnect
  gone,         \* history: those of disconnects the panel heard of
  crossed,      \* history: a callback began while another was under way
  faults        \* failed writes so far

callback     == <<pc, crossed, faults>>
notification == <<post, token>>
view         == <<loads, answered, shown, loading>>
panel        == <<view, disconnects, before, gone>>
vars         == <<row, connectedAt, callback, notification, panel>>

UnderWay == {"exchange", "close", "create"}

ActiveRows == {c \in Callbacks : row[c] = "active"}

\* The rows left when those in some set have got their disconnectedAt.
Closed(some) == [c \in Callbacks |-> IF c \in some /\ row[c] = "active" THEN "closed" ELSE row[c]]

Goto(c, label) == pc' = [pc EXCEPT ![c] = label]

\* A write that commits, or whose error ends the request, committed or not.
Write(c, newRow, next) ==
  \/ /\ row' = newRow
     /\ Goto(c, next)
     /\ UNCHANGED faults
  \/ /\ faults < MaxFaults
     /\ faults' = faults + 1
     /\ row' \in {row, newRow}
     /\ Goto(c, "error")

-----------------------------------------------------------------------------
(* handleCallback *)

\* verifyState: the state is signed and not older than ten minutes, or the
\* request ends with an error.
Receive(c) ==
  /\ pc[c] = "new"
  /\ \/ /\ Goto(c, "exchange")
        /\ crossed' = (crossed \/ \E d \in Callbacks : pc[d] \in UnderWay)
     \/ /\ Goto(c, "error")
        /\ UNCHANGED crossed
  /\ UNCHANGED <<row, connectedAt, notification, panel, faults>>

\* Slack answers with a token, or the request ends with an error.
Exchange(c) ==
  /\ pc[c] = "exchange"
  /\ \/ Goto(c, "close")
     \/ Goto(c, "error")
  /\ UNCHANGED <<row, connectedAt, notification, panel, crossed, faults>>

\* Mutant: the rows of a reconnect are left as they are.
BugCloseOthers(c) ==
  /\ pc[c] = "close"
  /\ Goto(c, "create")
  /\ UNCHANGED <<row, connectedAt, notification, panel, crossed, faults>>

\* updateMany: every active row of the user is closed.
CloseOthers(c) ==
  /\ pc[c] = "close"
  /\ Write(c, Closed(ActiveRows), "create")
  /\ UNCHANGED <<connectedAt, notification, panel, crossed>>

\* create: connectedAt is the database's clock.
Create(c) ==
  /\ pc[c] = "create"
  /\ Write(c, [row EXCEPT ![c] = "active"], "done")
  /\ connectedAt' = [connectedAt EXCEPT
       ![c] = Cardinality({d \in Callbacks : row[d] # "none"}) + 1]
  /\ UNCHANGED <<notification, panel, crossed>>

-----------------------------------------------------------------------------
(* findActiveConnection, disconnect and getStatus *)

\* The active row with the latest connectedAt.
FindActiveConnection ==
  IF ActiveRows = {} THEN None
  ELSE CHOOSE c \in ActiveRows : \A d \in ActiveRows : connectedAt[d] <= connectedAt[c]

\* Mutant: only the row that getStatus reports is closed.
BugDisconnected == Closed({FindActiveConnection})

\* updateMany: every active row of the user is closed.
Disconnected == Closed(ActiveRows)

\* The request commits, or fails, committed or not.
Disconnect(d) ==
  /\ disconnects[d].stage = "sent"
  /\ LET found == {c \in Callbacks : row[c] # "none"}
     IN \/ /\ row' = Disconnected
           /\ before' = found
           /\ disconnects' = [disconnects EXCEPT ![d] = [stage |-> "done", found |-> found]]
           /\ UNCHANGED faults
        \/ /\ faults < MaxFaults
           /\ faults' = faults + 1
           /\ row' \in {row, Disconnected}
           /\ disconnects' = [disconnects EXCEPT ![d].stage = "failed"]
           /\ UNCHANGED before
  /\ UNCHANGED <<connectedAt, pc, crossed, notification, view, gone>>

GetStatus(l) ==
  /\ loads[l].stage = "sent"
  /\ loads' = [loads EXCEPT ![l] = [stage |-> "done", found |-> FindActiveConnection]]
  /\ UNCHANGED <<row, connectedAt, callback, notification, answered, shown,
                 loading, disconnects, before, gone>>

-----------------------------------------------------------------------------
(* The dashboard's panel *)

Request(stage, found) == [stage |-> stage, found |-> found]

\* load, up to its await.
Load ==
  /\ Len(loads) < MaxLoads
  /\ loads' = Append(loads, Request("sent", None))
  /\ loading' = TRUE
  /\ UNCHANGED <<answered, shown>>

\* The dashboard is opened, by the user or by the redirect of a callback.
Mount ==
  /\ loads = <<>>
  /\ Load
  /\ UNCHANGED <<row, connectedAt, callback, notification, disconnects, before, gone>>

\* load, from its await on: an error leaves what was shown.
Loaded(l) ==
  /\ loads[l].stage \in {"sent", "done"}
  /\ \/ /\ loads[l].stage = "done"
        /\ shown' = loads[l].found
        /\ answered' = l
     \/ UNCHANGED <<shown, answered>>
  /\ loads' = [loads EXCEPT ![l] = Request("over", None)]
  /\ loading' = FALSE
  /\ UNCHANGED <<row, connectedAt, callback, notification, disconnects, before, gone>>

\* The Refresh button, disabled while the panel loads.
RefreshClicked ==
  /\ loads # <<>>
  /\ ~loading
  /\ Load
  /\ UNCHANGED <<row, connectedAt, callback, notification, disconnects, before, gone>>

\* The Disconnect button, there while a connection is shown, also twice.
DisconnectClicked ==
  /\ shown # None
  /\ Len(disconnects) < MaxDisconnects
  /\ disconnects' = Append(disconnects, Request("sent", {}))
  /\ UNCHANGED <<row, connectedAt, callback, notification, view, before, gone>>

\* Mutant: the panel is not loaded again.
BugAfterDisconnect == UNCHANGED view

AfterDisconnect == Load

\* disconnect, from its await on: the panel is loaded again, unless the request
\* ended with an error, which nobody catches.
DisconnectAnswered(d) ==
  /\ disconnects[d].stage \in {"done", "failed"}
  /\ \/ /\ disconnects[d].stage = "done"
        /\ gone' = gone \cup disconnects[d].found
        /\ AfterDisconnect
     \/ UNCHANGED <<gone, view>>
  /\ disconnects' = [disconnects EXCEPT ![d] = Request("over", {})]
  /\ UNCHANGED <<row, connectedAt, callback, notification, before>>

-----------------------------------------------------------------------------
(* sendRateLimitNotification *)

\* Mutant: the missing connection is not noticed.
BugAfterLookup == "posting"

AfterLookup == IF FindActiveConnection = None THEN "skipped" ELSE "posting"

Lookup(n) ==
  /\ post[n] = "new"
  /\ token' = [token EXCEPT ![n] = FindActiveConnection]
  /\ post' = [post EXCEPT ![n] = AfterLookup]
  /\ UNCHANGED <<row, connectedAt, callback, panel>>

\* chat.postMessage: whatever it answers, or throws, is logged.
Post(n) ==
  /\ post[n] = "posting"
  /\ post' = [post EXCEPT ![n] = "over"]
  /\ UNCHANGED <<row, connectedAt, callback, panel, token>>

Init ==
  /\ row = [c \in Callbacks |-> "none"]
  /\ connectedAt = [c \in Callbacks |-> 0]
  /\ pc = [c \in Callbacks |-> "new"]
  /\ post = [n \in Notifications |-> "new"]
  /\ token = [n \in Notifications |-> None]
  /\ loads = <<>>
  /\ answered = 0
  /\ shown = None
  /\ loading = TRUE
  /\ disconnects = <<>>
  /\ before = {}
  /\ gone = {}
  /\ crossed = FALSE
  /\ faults = 0

Finished ==
  /\ \A c \in Callbacks : pc[c] \in {"done", "error"}
  /\ \A n \in Notifications : post[n] \in {"skipped", "over"}
  /\ UNCHANGED vars

Next ==
  \/ \E c \in Callbacks : Receive(c) \/ Exchange(c) \/ CloseOthers(c) \/ Create(c)
  \/ \E d \in DOMAIN disconnects : Disconnect(d) \/ DisconnectAnswered(d)
  \/ \E l \in DOMAIN loads : GetStatus(l) \/ Loaded(l)
  \/ Mount \/ RefreshClicked \/ DisconnectClicked
  \/ \E n \in Notifications : Lookup(n) \/ Post(n)
  \/ Finished

Spec == Init /\ [][Next]_vars
-----------------------------------------------------------------------------
(* Properties *)

\* Every variable has its type, and a notification about to post has a row.
TypeOK ==
  /\ row \in [Callbacks -> {"none", "active", "closed"}]
  /\ connectedAt \in [Callbacks -> 0..Cardinality(Callbacks)]
  /\ pc \in [Callbacks -> {"new", "done", "error"} \cup UnderWay]
  /\ post \in [Notifications -> {"new", "posting", "skipped", "over"}]
  /\ token \in [Notifications -> Callbacks \cup {None}]
  /\ loads \in Seq([stage : {"sent", "done", "over"}, found : Callbacks \cup {None}])
  /\ answered \in 0..Len(loads)
  /\ shown \in Callbacks \cup {None}
  /\ loading \in BOOLEAN
  /\ disconnects \in Seq([stage : {"sent", "done", "failed", "over"}, found : SUBSET Callbacks])
  /\ before \subseteq Callbacks
  /\ gone \subseteq Callbacks
  /\ crossed \in BOOLEAN
  /\ faults \in 0..MaxFaults
  /\ \A n \in Notifications : post[n] = "posting" => token[n] # None

\* A disconnect holds: no row it found is active after it, also when two
\* callbacks had crossed and left the user two active rows, of which getStatus
\* and the notifications see one.
DisconnectHolds == before \cap ActiveRows = {}

\* When the answer that came last is the one asked last, the panel shows no
\* connection that it was told is disconnected.  (An older answer that comes
\* later brings the connection back to the screen.)
DisconnectIsShown ==
  answered = Len(loads) /\ shown # None => shown \notin gone

\* As long as no callback began while another was under way, the user has at
\* most one active row, although closing and creating are two writes and either
\* may fail or commit unheard.
OneActive == ~crossed => Cardinality(ActiveRows) <= 1
===============================================================================
