------------------------ MODULE SlackConnectionsProofs ------------------------
(***************************************************************************)
(* Proofs about SlackConnections, for every finite set of callbacks, any   *)
(* notifications, and every number of disconnects, status requests and     *)
(* failed writes.                                                          *)
(***************************************************************************)
EXTENDS SlackConnections, SequenceTheorems, FiniteSetTheorems, TLAPS

-----------------------------------------------------------------------------
(* The active connection *)

\* A set of numbers with an upper bound has a largest one.
LEMMA LargestOf ==
  ASSUME NEW N \in Nat, NEW T \in SUBSET (0..N), T # {}
  PROVE  \E t \in T : \A u \in T : u <= t
<1> DEFINE Below == {N - t : t \in T}
           Less  == OpToRel(<, Nat)
<1>1. \A t \in T : t \in Int /\ N - t \in Nat
  OBVIOUS
<1>2. Below \subseteq Nat /\ Below # {}
  BY <1>1
<1>3. IsWellFoundedOn(Less, Nat)
  BY NatLessThanWellFounded
<1>4. \E x \in Below : \A y \in Below : ~(<<y, x>> \in Less)
  <2> HIDE DEF Below, Less
  <2> QED
    BY <1>2, <1>3, WFMin
<1>5. PICK t \in T : \A u \in T : ~(<<N - u, N - t>> \in Less)
  BY <1>4
<1>6. ASSUME NEW u \in T PROVE u <= t
  <2>1. ~(N - u < N - t)
    BY <1>1, <1>5 DEF OpToRel
  <2> QED
    BY <1>1, <2>1
<1> QED
  BY <1>6

\* findActiveConnection finds one of the active rows, when there is one.
LEMMA FoundIsActive ==
  ASSUME row \in [Callbacks -> {"none", "active", "closed"}],
         connectedAt \in [Callbacks -> 0..Cardinality(Callbacks)]
  PROVE  /\ FindActiveConnection \in ActiveRows \cup {None}
         /\ FindActiveConnection = None <=> ActiveRows = {}
<1>0. Cardinality(Callbacks) \in Nat
  BY SlackAssumption, FS_CardinalityType
<1>1. CASE ActiveRows = {}
  BY <1>1 DEF FindActiveConnection
<1>2. CASE ActiveRows # {}
  <2> DEFINE times == {connectedAt[c] : c \in ActiveRows}
  <2>1. times \in SUBSET (0..Cardinality(Callbacks)) /\ times # {}
    BY <1>2 DEF ActiveRows
  <2>2. PICK t \in times : \A u \in times : u <= t
    <3> HIDE DEF times
    <3> QED
      BY <1>0, <2>1, LargestOf
  <2>3. \E c \in ActiveRows : \A d \in ActiveRows : connectedAt[d] <= connectedAt[c]
    BY <2>2
  <2>4. FindActiveConnection \in ActiveRows
    BY <1>2, <2>3 DEF FindActiveConnection
  <2> QED
    BY <1>2, <2>4, SlackAssumption DEF ActiveRows
<1> QED
  BY <1>1, <1>2

-----------------------------------------------------------------------------
(* Types, in three parts, and what a callback's label says of its row *)

LoadRequests == [stage : {"sent", "done", "over"}, found : Callbacks \cup {None}]

DisconnectRequests ==
  [stage : {"sent", "done", "failed", "over"}, found : SUBSET Callbacks]

\* A callback that is under way has no row yet.
CallbacksOK ==
  /\ row \in [Callbacks -> {"none", "active", "closed"}]
  /\ connectedAt \in [Callbacks -> 0..Cardinality(Callbacks)]
  /\ pc \in [Callbacks -> {"new", "done", "error"} \cup UnderWay]
  /\ crossed \in BOOLEAN
  /\ faults \in 0..MaxFaults
  /\ \A c \in Callbacks : row[c] # "none" => pc[c] \in {"done", "error"}

NotificationsOK ==
  /\ post \in [Notifications -> {"new", "posting", "skipped", "over"}]
  /\ token \in [Notifications -> Callbacks \cup {None}]
  /\ \A n \in Notifications : post[n] = "posting" => token[n] # None

ViewOK ==
  /\ loads \in Seq(LoadRequests)
  /\ answered \in 0..Len(loads)
  /\ shown \in Callbacks \cup {None}
  /\ loading \in BOOLEAN

DisconnectsOK ==
  /\ disconnects \in Seq(DisconnectRequests)
  /\ before \subseteq Callbacks
  /\ gone \subseteq Callbacks

Typed == CallbacksOK /\ NotificationsOK /\ ViewOK /\ DisconnectsOK

LEMMA TypedIsTypeOK == Typed => TypeOK
BY DEF Typed, CallbacksOK, NotificationsOK, ViewOK, DisconnectsOK, TypeOK,
       LoadRequests, DisconnectRequests

LEMMA NotificationsStay == NotificationsOK /\ UNCHANGED notification => NotificationsOK'
BY DEF NotificationsOK, notification

LEMMA ViewStays == ViewOK /\ UNCHANGED view => ViewOK'
BY DEF ViewOK, view

LEMMA DisconnectsStay == DisconnectsOK /\ UNCHANGED <<disconnects, before, gone>> => DisconnectsOK'
BY DEF DisconnectsOK

LEMMA CallbacksStay == CallbacksOK /\ UNCHANGED <<row, connectedAt, callback>> => CallbacksOK'
BY DEF CallbacksOK, callback

LEMMA ExceptType ==
  ASSUME NEW S, NEW s \in Seq(S), NEW i \in DOMAIN s, NEW x \in S
  PROVE  /\ [s EXCEPT ![i] = x] \in Seq(S)
         /\ Len([s EXCEPT ![i] = x]) = Len(s)
         /\ DOMAIN [s EXCEPT ![i] = x] = DOMAIN s
BY ExceptSeq

\* A new status request is the last one, and is under way.
LEMMA LoadType ==
  ASSUME ViewOK, Load
  PROVE  /\ ViewOK'
         /\ Len(loads') = Len(loads) + 1
         /\ loads'[Len(loads')].stage = "sent"
         /\ answered' = answered /\ shown' = shown
<1> DEFINE new == Request("sent", None)
<1>1. new \in LoadRequests /\ new.stage = "sent"
  BY DEF Request, LoadRequests
<1>2. loads' = Append(loads, new) /\ loads \in Seq(LoadRequests)
  BY DEF Load, ViewOK
<1> HIDE DEF new
<1>3. /\ loads' \in Seq(LoadRequests)
      /\ Len(loads') = Len(loads) + 1
      /\ loads'[Len(loads')] = new
  BY <1>1, <1>2
<1> QED
  BY <1>1, <1>3 DEF Load, ViewOK

\* Closing rows makes none active.
LEMMA ClosedType ==
  ASSUME row \in [Callbacks -> {"none", "active", "closed"}], NEW some
  PROVE  /\ Closed(some) \in [Callbacks -> {"none", "active", "closed"}]
         /\ \A c \in Callbacks : /\ Closed(some)[c] = "none" <=> row[c] = "none"
                                 /\ Closed(some)[c] = "active" => row[c] = "active" /\ c \notin some
                                 /\ row[c] = "closed" => Closed(some)[c] = "closed"
BY DEF Closed

LEMMA TypeStep == Typed /\ [Next]_vars => Typed'
<1> SUFFICES ASSUME CallbacksOK, NotificationsOK, ViewOK, DisconnectsOK, [Next]_vars
             PROVE  Typed'
  BY DEF Typed
<1> USE SlackAssumption
<1>1. ASSUME NEW c \in Callbacks, Receive(c) PROVE Typed'
  <2>1. CallbacksOK'
    BY <1>1 DEF Receive, Goto, CallbacksOK, UnderWay
  <2> QED
    BY <1>1, <2>1, NotificationsStay, ViewStays, DisconnectsStay DEF Receive, Typed, panel
<1>2. ASSUME NEW c \in Callbacks, Exchange(c) PROVE Typed'
  <2>1. CallbacksOK'
    BY <1>2 DEF Exchange, Goto, CallbacksOK, UnderWay
  <2> QED
    BY <1>2, <2>1, NotificationsStay, ViewStays, DisconnectsStay DEF Exchange, Typed, panel
<1>3. ASSUME NEW c \in Callbacks, CloseOthers(c) PROVE Typed'
  <2>1. /\ row' \in {row, Closed(ActiveRows)}
        /\ pc' \in {[pc EXCEPT ![c] = "create"], [pc EXCEPT ![c] = "error"]}
        /\ pc[c] = "close"
        /\ faults' \in 0..MaxFaults
        /\ UNCHANGED <<connectedAt, notification, panel, crossed>>
    BY <1>3 DEF CloseOthers, Write, Goto, CallbacksOK
  <2>2. /\ row' \in [Callbacks -> {"none", "active", "closed"}]
        /\ \A d \in Callbacks : row'[d] = "none" <=> row[d] = "none"
    BY <2>1, ClosedType DEF CallbacksOK
  <2>3. CallbacksOK'
    BY <2>1, <2>2 DEF CallbacksOK, UnderWay
  <2> QED
    BY <2>1, <2>3, NotificationsStay, ViewStays, DisconnectsStay DEF Typed, panel
<1>4. ASSUME NEW c \in Callbacks, Create(c) PROVE Typed'
  <2> DEFINE made == {d \in Callbacks : row[d] # "none"}
  <2>1. /\ row' \in {row, [row EXCEPT ![c] = "active"]}
        /\ pc' \in {[pc EXCEPT ![c] = "done"], [pc EXCEPT ![c] = "error"]}
        /\ pc[c] = "create"
        /\ faults' \in 0..MaxFaults
        /\ connectedAt' = [connectedAt EXCEPT ![c] = Cardinality(made) + 1]
        /\ UNCHANGED <<notification, panel, crossed>>
    BY <1>4 DEF Create, Write, Goto, CallbacksOK
  <2>2. Cardinality(made) + 1 \in 0..Cardinality(Callbacks)
    <3>1. made \in SUBSET (Callbacks \ {c})
      BY <2>1 DEF CallbacksOK
    <3>2. /\ IsFiniteSet(Callbacks \ {c})
          /\ Cardinality(Callbacks \ {c}) = Cardinality(Callbacks) - 1
      BY FS_RemoveElement
    <3> HIDE DEF made
    <3>3. IsFiniteSet(made) /\ Cardinality(made) <= Cardinality(Callbacks) - 1
      BY <3>1, <3>2, FS_Subset
    <3>4. Cardinality(made) \in Nat /\ Cardinality(Callbacks) \in Nat
      BY <3>3, FS_CardinalityType
    <3> QED
      BY <3>3, <3>4
  <2> HIDE DEF made
  <2>3. CallbacksOK'
    BY <2>1, <2>2 DEF CallbacksOK, UnderWay
  <2> QED
    BY <2>1, <2>3, NotificationsStay, ViewStays, DisconnectsStay DEF Typed, panel
<1>5. ASSUME NEW d \in DOMAIN disconnects, Disconnect(d) PROVE Typed'
  <2> DEFINE found == {c \in Callbacks : row[c] # "none"}
  <2>1. /\ row' \in {row, Disconnected}
        /\ before' \in {before, found}
        /\ \/ disconnects' = [disconnects EXCEPT ![d] = [stage |-> "done", found |-> found]]
           \/ disconnects' = [disconnects EXCEPT ![d].stage = "failed"]
        /\ faults' \in 0..MaxFaults
        /\ UNCHANGED <<connectedAt, pc, crossed, notification, view, gone>>
    BY <1>5 DEF Disconnect, CallbacksOK
  <2>2. CallbacksOK'
    BY <2>1, ClosedType DEF CallbacksOK, Disconnected
  <2>3. disconnects[d] \in DisconnectRequests
    BY DEF DisconnectsOK
  <2>4. PICK x \in DisconnectRequests : disconnects' = [disconnects EXCEPT ![d] = x]
    <3>1. [stage |-> "done", found |-> found] \in DisconnectRequests
      BY DEF DisconnectRequests
    <3>2. [disconnects[d] EXCEPT !.stage = "failed"] \in DisconnectRequests
      BY <2>3 DEF DisconnectRequests
    <3> QED
      BY <2>1, <3>1, <3>2
  <2>5. DisconnectsOK'
    BY <2>1, <2>4, ExceptType DEF DisconnectsOK
  <2> QED
    BY <2>1, <2>2, <2>5, NotificationsStay, ViewStays DEF Typed
<1>6. ASSUME NEW d \in DOMAIN disconnects, DisconnectAnswered(d) PROVE Typed'
  <2>0. Request("over", {}) \in DisconnectRequests
    BY DEF Request, DisconnectRequests
  <2>1. disconnects[d] \in DisconnectRequests
    BY DEF DisconnectsOK
  <2>2. disconnects' \in Seq(DisconnectRequests)
    BY <1>6, <2>0, ExceptType DEF DisconnectAnswered, DisconnectsOK
  <2>3. gone' \subseteq Callbacks
    BY <1>6, <2>1 DEF DisconnectAnswered, DisconnectsOK, DisconnectRequests
  <2>4. ViewOK'
    BY <1>6, LoadType, ViewStays DEF DisconnectAnswered, AfterDisconnect
  <2> QED
    BY <1>6, <2>2, <2>3, <2>4, CallbacksStay, NotificationsStay
    DEF DisconnectAnswered, DisconnectsOK, Typed
<1>7. ASSUME NEW l \in DOMAIN loads, GetStatus(l) PROVE Typed'
  <2>1. FindActiveConnection \in Callbacks \cup {None}
    BY FoundIsActive DEF CallbacksOK, ActiveRows
  <2>2. [stage |-> "done", found |-> FindActiveConnection] \in LoadRequests
    BY <2>1 DEF LoadRequests
  <2>3. loads' \in Seq(LoadRequests) /\ Len(loads') = Len(loads)
    BY <1>7, <2>2, ExceptType DEF GetStatus, ViewOK
  <2>4. ViewOK'
    BY <1>7, <2>3 DEF GetStatus, ViewOK
  <2> QED
    BY <1>7, <2>4, CallbacksStay, NotificationsStay, DisconnectsStay DEF GetStatus, Typed
<1>8. ASSUME NEW l \in DOMAIN loads, Loaded(l) PROVE Typed'
  <2>0. Request("over", None) \in LoadRequests
    BY DEF Request, LoadRequests
  <2>1. loads[l] \in LoadRequests /\ l \in 0..Len(loads)
    BY DEF ViewOK
  <2>2. loads' \in Seq(LoadRequests) /\ Len(loads') = Len(loads)
    BY <1>8, <2>0, ExceptType DEF Loaded, ViewOK
  <2>3. shown' \in Callbacks \cup {None} /\ answered' \in 0..Len(loads) /\ loading' \in BOOLEAN
    BY <1>8, <2>1 DEF Loaded, ViewOK, LoadRequests
  <2>4. ViewOK'
    BY <2>2, <2>3 DEF ViewOK
  <2> QED
    BY <1>8, <2>4, CallbacksStay, NotificationsStay, DisconnectsStay DEF Loaded, Typed
<1>9. CASE Mount \/ RefreshClicked
  BY <1>9, LoadType, CallbacksStay, NotificationsStay, DisconnectsStay
  DEF Mount, RefreshClicked, Typed
<1>10. CASE DisconnectClicked
  <2>1. Request("sent", {}) \in DisconnectRequests
    BY DEF Request, DisconnectRequests
  <2>2. DisconnectsOK'
    BY <1>10, <2>1 DEF DisconnectClicked, DisconnectsOK
  <2> QED
    BY <1>10, <2>2, CallbacksStay, NotificationsStay, ViewStays DEF DisconnectClicked, Typed
<1>11. ASSUME NEW n \in Notifications, Lookup(n) PROVE Typed'
  <2>1. FindActiveConnection \in Callbacks \cup {None}
    BY FoundIsActive DEF CallbacksOK, ActiveRows
  <2>2. NotificationsOK'
    BY <1>11, <2>1 DEF Lookup, AfterLookup, NotificationsOK
  <2> QED
    BY <1>11, <2>2, CallbacksStay, ViewStays, DisconnectsStay DEF Lookup, Typed, panel
<1>12. ASSUME NEW n \in Notifications, Post(n) PROVE Typed'
  <2>1. NotificationsOK'
    BY <1>12 DEF Post, NotificationsOK
  <2> QED
    BY <1>12, <2>1, CallbacksStay, ViewStays, DisconnectsStay DEF Post, Typed, panel
<1>13. CASE UNCHANGED vars
  BY <1>13, CallbacksStay, NotificationsStay, ViewStays, DisconnectsStay DEF Typed, vars, panel
<1> QED
  BY <1>1, <1>2, <1>3, <1>4, <1>5, <1>6, <1>7, <1>8, <1>9, <1>10, <1>11, <1>12, <1>13
  DEF Next, Finished

LEMMA InitTyped == Init => Typed
<1> SUFFICES ASSUME Init PROVE Typed
  OBVIOUS
<1>1. Cardinality(Callbacks) \in Nat
  BY SlackAssumption, FS_CardinalityType
<1>2. CallbacksOK
  <2>1. MaxFaults \in Nat
    BY SlackAssumption
  <2>2. 0 \in 0..Cardinality(Callbacks) /\ 0 \in 0..MaxFaults
    BY <1>1, <2>1
  <2> QED
    BY <2>2 DEF Init, CallbacksOK
<1>3. NotificationsOK
  BY DEF Init, NotificationsOK
<1>4. ViewOK
  BY DEF Init, ViewOK
<1>5. DisconnectsOK
  BY DEF Init, DisconnectsOK
<1> QED
  BY <1>2, <1>3, <1>4, <1>5 DEF Typed

THEOREM TypedAlways == Spec => []Typed
BY InitTyped, TypeStep, PTL DEF Spec

\* Every variable keeps its type, and a notification that posts has a row.
THEOREM TypeCorrect == Spec => []TypeOK
BY TypedAlways, TypedIsTypeOK, PTL

-----------------------------------------------------------------------------
(***************************************************************************)
(* A disconnect holds, since a row that was closed stays closed: a         *)
(* callback makes a row active only when it creates it.                    *)
(***************************************************************************)
LEMMA ClosedStays ==
  ASSUME Typed, [Next]_vars, NEW c \in Callbacks, row[c] = "closed"
  PROVE  row'[c] = "closed"
<1> USE DEF Typed, CallbacksOK
<1>1. ASSUME NEW d \in Callbacks, CloseOthers(d) PROVE row'[c] = "closed"
  BY <1>1, ClosedType DEF CloseOthers, Write
<1>2. ASSUME NEW d \in Callbacks, Create(d) PROVE row'[c] = "closed"
  BY <1>2 DEF Create, Write, UnderWay
<1>3. ASSUME NEW d \in DOMAIN disconnects, Disconnect(d) PROVE row'[c] = "closed"
  BY <1>3, ClosedType DEF Disconnect, Disconnected
<1>4. CASE UNCHANGED row
  BY <1>4
<1> QED
  BY <1>1, <1>2, <1>3, <1>4
  DEF Next, Receive, Exchange, DisconnectAnswered, GetStatus, Loaded, Mount,
      RefreshClicked, DisconnectClicked, Lookup, Post, Finished, vars

\* The rows that a disconnect found are closed, also while its answer is on
\* the way.
Held ==
  /\ \A c \in before \cup gone : row[c] = "closed"
  /\ \A d \in DOMAIN disconnects :
       disconnects[d].stage = "done" => \A c \in disconnects[d].found : row[c] = "closed"

LEMMA HeldStep == Typed /\ Held /\ [Next]_vars => Held'
<1> SUFFICES ASSUME Typed, Held, [Next]_vars PROVE Held'
  OBVIOUS
<1>1. \A c \in Callbacks : row[c] = "closed" => row'[c] = "closed"
  BY ClosedStays
<1>2. /\ before \cup gone \subseteq Callbacks
      /\ \A d \in DOMAIN disconnects : disconnects[d].found \subseteq Callbacks
  <2>1. \A d \in DOMAIN disconnects : disconnects[d] \in DisconnectRequests
    BY DEF Typed, DisconnectsOK
  <2> QED
    BY <2>1 DEF Typed, DisconnectsOK, DisconnectRequests
<1>3. CASE UNCHANGED <<disconnects, before, gone>>
  BY <1>1, <1>2, <1>3 DEF Held
<1>4. ASSUME NEW d \in DOMAIN disconnects, Disconnect(d) PROVE Held'
  <2> DEFINE found == {c \in Callbacks : row[c] # "none"}
  <2>1. CASE /\ row' = Disconnected
             /\ before' = found
             /\ disconnects' = [disconnects EXCEPT ![d] = [stage |-> "done", found |-> found]]
             /\ gone' = gone
    <3>1. \A c \in found : row'[c] = "closed"
      BY <2>1 DEF Disconnected, Closed, ActiveRows, Typed, CallbacksOK
    <3>2. \A e \in DOMAIN disconnects' :
            disconnects'[e] = IF e = d THEN [stage |-> "done", found |-> found] ELSE disconnects[e]
      BY <2>1 DEF Typed, DisconnectsOK
    <3>3. DOMAIN disconnects' = DOMAIN disconnects
      BY <2>1 DEF Typed, DisconnectsOK
    <3> HIDE DEF found
    <3>4. ASSUME NEW e \in DOMAIN disconnects', disconnects'[e].stage = "done",
                 NEW c \in disconnects'[e].found
          PROVE  row'[c] = "closed"
      <4>1. CASE e = d
        BY <3>1, <3>2, <3>4, <4>1
      <4>2. CASE e # d
        BY <1>1, <1>2, <3>2, <3>3, <3>4, <4>2 DEF Held
      <4> QED
        BY <4>1, <4>2
    <3> QED
      BY <1>1, <1>2, <2>1, <3>1, <3>4 DEF Held
  <2>2. CASE /\ disconnects' = [disconnects EXCEPT ![d].stage = "failed"]
             /\ UNCHANGED <<before, gone>>
    <3>1. /\ DOMAIN disconnects' = DOMAIN disconnects
          /\ \A e \in DOMAIN disconnects : e # d => disconnects'[e] = disconnects[e]
      BY <2>2
    <3>2. disconnects'[d].stage = "failed"
      <4>1. disconnects[d] \in DisconnectRequests
        BY DEF Typed, DisconnectsOK
      <4> QED
        BY <2>2, <4>1 DEF DisconnectRequests
    <3> QED
      BY <1>1, <1>2, <2>2, <3>1, <3>2 DEF Held
  <2> QED
    BY <1>4, <2>1, <2>2 DEF Disconnect
<1>5. ASSUME NEW d \in DOMAIN disconnects, DisconnectAnswered(d) PROVE Held'
  <2>1. /\ row' = row /\ before' = before
        /\ disconnects' = [disconnects EXCEPT ![d] = Request("over", {})]
        /\ \/ disconnects[d].stage = "done" /\ gone' = gone \cup disconnects[d].found
           \/ gone' = gone
    BY <1>5 DEF DisconnectAnswered
  <2>2. /\ DOMAIN disconnects' = DOMAIN disconnects
        /\ \A e \in DOMAIN disconnects : e # d => disconnects'[e] = disconnects[e]
        /\ disconnects'[d].stage = "over"
    BY <2>1 DEF Request
  <2>3. \A c \in before' \cup gone' : row'[c] = "closed"
    BY <2>1 DEF Held
  <2> QED
    BY <2>1, <2>2, <2>3 DEF Held
<1>6. CASE DisconnectClicked
  <2>1. /\ row' = row /\ UNCHANGED <<before, gone>>
        /\ disconnects' = Append(disconnects, Request("sent", {}))
        /\ disconnects \in Seq(DisconnectRequests)
    BY <1>6 DEF DisconnectClicked, Typed, DisconnectsOK
  <2>2. \A e \in DOMAIN disconnects' :
          \/ e \in DOMAIN disconnects /\ disconnects'[e] = disconnects[e]
          \/ disconnects'[e] = Request("sent", {})
    BY <2>1
  <2> QED
    BY <2>1, <2>2 DEF Held, Request
<1> QED
  BY <1>3, <1>4, <1>5, <1>6
  DEF Next, Receive, Exchange, CloseOthers, Create, GetStatus, Loaded, Mount,
      RefreshClicked, Lookup, Post, Finished, vars, panel

THEOREM HeldAlways == Spec => []Held
<1>1. Init => Held
  BY DEF Init, Held
<1> QED
  BY <1>1, TypedAlways, HeldStep, PTL DEF Spec

\* No row that a disconnect found is active after it, however many callbacks
\* crossed before and whatever writes failed.
THEOREM DisconnectsHold == Spec => []DisconnectHolds
<1>1. Held => DisconnectHolds
  BY DEF Held, DisconnectHolds, ActiveRows
<1> QED
  BY <1>1, HeldAlways, PTL

-----------------------------------------------------------------------------
(***************************************************************************)
(* What the panel shows.  A disconnect's answer asks for the connection    *)
(* again, so the last request was read after every disconnect that the     *)
(* panel has heard of.                                                     *)
(***************************************************************************)
LastIsFresh ==
  /\ answered = Len(loads) /\ shown # None => shown \notin gone
  /\ \A l \in DOMAIN loads :
       l = Len(loads) /\ loads[l].stage = "done" /\ loads[l].found # None
         => loads[l].found \notin gone

LEMMA LoadIsFresh == ASSUME ViewOK, Load PROVE LastIsFresh'
<1>1. /\ ViewOK' /\ Len(loads') = Len(loads) + 1
      /\ loads'[Len(loads')].stage = "sent" /\ answered' = answered
  BY LoadType
<1>2. Len(loads) \in Nat /\ answered \in 0..Len(loads)
  BY DEF ViewOK
<1>3. answered' # Len(loads')
  BY <1>1, <1>2
<1> QED
  BY <1>1, <1>3 DEF LastIsFresh

LEMMA FreshStep == Typed /\ Held /\ LastIsFresh /\ [Next]_vars => LastIsFresh'
<1> SUFFICES ASSUME Typed, Held, LastIsFresh, [Next]_vars PROVE LastIsFresh'
  OBVIOUS
<1>0. ViewOK
  BY DEF Typed
<1>1. CASE UNCHANGED <<view, gone>>
  BY <1>1 DEF LastIsFresh, view
<1>2. CASE Load
  BY <1>0, <1>2, LoadIsFresh
<1>3. ASSUME NEW l \in DOMAIN loads, GetStatus(l) PROVE LastIsFresh'
  <2> DEFINE found == FindActiveConnection
  <2>1. /\ loads' = [loads EXCEPT ![l] = [stage |-> "done", found |-> found]]
        /\ UNCHANGED <<answered, shown, gone>>
    BY <1>3 DEF GetStatus
  <2>2. found # None => found \notin gone
    BY FoundIsActive DEF Held, ActiveRows, Typed, CallbacksOK
  <2> HIDE DEF found
  <2>3. /\ DOMAIN loads' = DOMAIN loads /\ Len(loads') = Len(loads)
        /\ \A k \in DOMAIN loads :
             loads'[k] = IF k = l THEN [stage |-> "done", found |-> found] ELSE loads[k]
    BY <1>0, <2>1 DEF ViewOK
  <2> QED
    BY <2>1, <2>2, <2>3 DEF LastIsFresh
<1>4. ASSUME NEW l \in DOMAIN loads, Loaded(l) PROVE LastIsFresh'
  <2>1. /\ loads' = [loads EXCEPT ![l] = Request("over", None)]
        /\ gone' = gone
        /\ \/ loads[l].stage = "done" /\ shown' = loads[l].found /\ answered' = l
           \/ UNCHANGED <<shown, answered>>
    BY <1>4 DEF Loaded
  <2>2. /\ DOMAIN loads' = DOMAIN loads /\ Len(loads') = Len(loads)
        /\ \A k \in DOMAIN loads : k # l => loads'[k] = loads[k]
        /\ loads'[l].stage = "over"
    BY <1>0, <2>1 DEF ViewOK, Request
  <2>3. \A k \in DOMAIN loads' :
          k = Len(loads') /\ loads'[k].stage = "done" /\ loads'[k].found # None
            => loads'[k].found \notin gone'
    BY <2>1, <2>2 DEF LastIsFresh
  <2>4. answered' = Len(loads') /\ shown' # None => shown' \notin gone'
    BY <2>1, <2>2 DEF LastIsFresh
  <2> QED
    BY <2>3, <2>4 DEF LastIsFresh
<1> QED
  BY <1>1, <1>2, <1>3, <1>4
  DEF Next, Receive, Exchange, CloseOthers, Create, Disconnect, DisconnectAnswered,
      AfterDisconnect, Mount, RefreshClicked, DisconnectClicked, Lookup, Post,
      Finished, vars, panel

\* When the answer that came last is the one asked last, the panel shows no
\* connection that it was told is disconnected.
THEOREM DisconnectsAreShown == Spec => []DisconnectIsShown
<1>1. Init => LastIsFresh
  BY DEF Init, LastIsFresh
<1>2. LastIsFresh => DisconnectIsShown
  BY DEF LastIsFresh, DisconnectIsShown
<1> QED
  BY <1>1, <1>2, TypedAlways, HeldAlways, FreshStep, PTL DEF Spec

-----------------------------------------------------------------------------
(***************************************************************************)
(* One active row.  Unless a callback began while another was under way,   *)
(* one at a time closes and creates, and what it is about to create is the *)
(* only active row.                                                        *)
(***************************************************************************)
OneAtATime == ~crossed =>
  /\ \A c, d \in Callbacks : pc[c] \in UnderWay /\ pc[d] \in UnderWay => c = d
  /\ \A c \in Callbacks : pc[c] = "create" => ActiveRows = {}
  /\ \A c, d \in ActiveRows : c = d

\* A step that makes no row active and no callback begin.
LEMMA OneLeaves ==
  ASSUME OneAtATime, ActiveRows' \subseteq ActiveRows, crossed' = crossed,
         \A c \in Callbacks : /\ pc'[c] \in UnderWay => pc[c] \in UnderWay
                              /\ pc'[c] = "create" => pc[c] = "create" \/ ActiveRows' = {}
  PROVE  OneAtATime'
BY DEF OneAtATime

LEMMA OneStep == Typed /\ OneAtATime /\ [Next]_vars => OneAtATime'
<1> SUFFICES ASSUME Typed, OneAtATime, [Next]_vars PROVE OneAtATime'
  OBVIOUS
<1> USE DEF Typed, CallbacksOK
<1>1. ASSUME NEW c \in Callbacks, Receive(c) PROVE OneAtATime'
  <2>1. row' = row
    BY <1>1 DEF Receive
  <2>2. CASE /\ pc' = [pc EXCEPT ![c] = "exchange"]
             /\ crossed' = (crossed \/ \E d \in Callbacks : pc[d] \in UnderWay)
    <3> SUFFICES ASSUME ~crossed, \A d \in Callbacks : pc[d] \notin UnderWay PROVE OneAtATime'
      BY <2>2 DEF OneAtATime
    <3>1. \A d \in Callbacks : pc'[d] \in UnderWay => d = c /\ pc'[d] # "create"
      BY <2>2
    <3> QED
      BY <2>1, <3>1 DEF OneAtATime, ActiveRows, UnderWay
  <2>3. CASE pc' = [pc EXCEPT ![c] = "error"] /\ crossed' = crossed
    BY <2>1, <2>3, OneLeaves DEF UnderWay, ActiveRows
  <2> QED
    BY <1>1, <2>2, <2>3 DEF Receive, Goto
<1>2. ASSUME NEW c \in Callbacks, Exchange(c) PROVE OneAtATime'
  BY <1>2, OneLeaves DEF Exchange, Goto, UnderWay, ActiveRows
<1>3. ASSUME NEW c \in Callbacks, CloseOthers(c) PROVE OneAtATime'
  <2>1. /\ crossed' = crossed /\ pc[c] = "close"
        /\ \/ row' = Closed(ActiveRows) /\ pc' = [pc EXCEPT ![c] = "create"]
           \/ row' \in {row, Closed(ActiveRows)} /\ pc' = [pc EXCEPT ![c] = "error"]
    BY <1>3 DEF CloseOthers, Write, Goto
  <2>2. \A d \in Callbacks : Closed(ActiveRows)[d] # "active"
    BY ClosedType DEF ActiveRows
  <2>3. ActiveRows' \subseteq ActiveRows /\ (row' = Closed(ActiveRows) => ActiveRows' = {})
    BY <2>1, <2>2 DEF ActiveRows
  <2> QED
    BY <2>1, <2>3, OneLeaves DEF UnderWay
<1>4. ASSUME NEW c \in Callbacks, Create(c) PROVE OneAtATime'
  <2>1. /\ crossed' = crossed /\ pc[c] = "create"
        /\ \E l \in {"done", "error"} : pc' = [pc EXCEPT ![c] = l]
        /\ row' \in {row, [row EXCEPT ![c] = "active"]}
    BY <1>4 DEF Create, Write, Goto
  <2> SUFFICES ASSUME ~crossed PROVE OneAtATime'
    BY <2>1 DEF OneAtATime
  <2>2. ActiveRows = {} /\ \A d \in Callbacks : pc[d] \in UnderWay => d = c
    BY <2>1 DEF OneAtATime, UnderWay
  <2>3. ActiveRows' \subseteq {c}
    BY <2>1, <2>2 DEF ActiveRows
  <2>4. \A d \in Callbacks : pc'[d] \notin UnderWay
    BY <2>1, <2>2 DEF UnderWay
  <2> QED
    BY <2>3, <2>4 DEF OneAtATime, UnderWay
<1>5. ASSUME NEW d \in DOMAIN disconnects, Disconnect(d) PROVE OneAtATime'
  <2>1. /\ UNCHANGED <<pc, crossed>> /\ row' \in {row, Closed(ActiveRows)}
    BY <1>5 DEF Disconnect, Disconnected
  <2>2. ActiveRows' \subseteq ActiveRows
    BY <2>1, ClosedType DEF ActiveRows
  <2> QED
    BY <2>1, <2>2, OneLeaves
<1>6. CASE UNCHANGED <<row, pc, crossed>>
  BY <1>6 DEF OneAtATime, ActiveRows
<1> QED
  BY <1>1, <1>2, <1>3, <1>4, <1>5, <1>6
  DEF Next, DisconnectAnswered, GetStatus, Loaded, Mount, RefreshClicked,
      DisconnectClicked, Lookup, Post, Finished, vars, callback

\* At most one row is active, for any number of callbacks and failed writes, as
\* long as no callback began while another was under way.
THEOREM OneIsActive == Spec => []OneActive
<1>1. Init => OneAtATime
  BY DEF Init, OneAtATime, ActiveRows, UnderWay
<1>2. OneAtATime => OneActive
  <2> SUFFICES ASSUME ~crossed, \A c, d \in ActiveRows : c = d
               PROVE  Cardinality(ActiveRows) <= 1
    BY DEF OneAtATime, OneActive
  <2>1. CASE ActiveRows = {}
    BY <2>1, FS_EmptySet
  <2>2. CASE ActiveRows # {}
    <3>1. PICK c \in ActiveRows : TRUE
      BY <2>2
    <3>2. ActiveRows = {c}
      BY <3>1
    <3> QED
      BY <3>2, FS_Singleton
  <2> QED
    BY <2>1, <2>2
<1> QED
  BY <1>1, <1>2, TypedAlways, OneStep, PTL DEF Spec
=============================================================================
