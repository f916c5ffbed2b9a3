---------------------------- MODULE DashboardProofs ----------------------------
(***************************************************************************)
(* Theorems about Dashboard, for any sites, any number of connections and  *)
(* any bound on what the user and the other clients do.                    *)
(***************************************************************************)
EXTENDS Dashboard, SequenceTheorems, TLAPS

LEMMA Assumptions == DashboardAssumption
  BY DashboardAssumption

LEMMA PanelKinds ==
  \A p \in Panels : p \notin {"targets", "status", "logs", "add", "delete", "ignored"}
  BY Assumptions DEF DashboardAssumption

-----------------------------------------------------------------------------
(* What the page sends.  The lemmas hold for any set S of requests that     *)
(* holds what is fetched: the proofs take for S the requests that are well  *)
(* formed, and later those that are also timely.                            *)

HasLists(S) == Fetch("targets", NoSite) \in S /\ Fetch("status", NoSite) \in S

HasDetail(S, s) == Fetch("logs", s) \in S /\ \A p \in Panels : Fetch(p, s) \in S

LEMMA MissingType ==
  ASSUME NEW S, NEW q, NEW r \in S
  PROVE  Missing(q, r) \in Seq(S)
<1>1. <<>> \in Seq(S) /\ <<r>> \in Seq(S)
  OBVIOUS
<1>2. QED
  BY <1>1, Zenon DEF Missing

LEMMA ListsType ==
  ASSUME NEW S, NEW q \in Seq(S), HasLists(S)
  PROVE  Lists(q) \in Seq(S)
<1>1. PICK a \in Seq(S) : a = Missing(q, Fetch("targets", NoSite))
  BY MissingType DEF HasLists
<1>2. PICK b \in Seq(S) : b = Missing(q, Fetch("status", NoSite))
  BY MissingType DEF HasLists
<1>3. (q \o a) \o b \in Seq(S)
  BY ConcatProperties
<1>4. QED
  BY <1>1, <1>2, <1>3, Zenon DEF Lists

LEMMA DetailType ==
  ASSUME NEW S, NEW q, NEW p, NEW s, HasDetail(S, s)
  PROVE  Detail(q, p, s) \in Seq(S)
<1>1. <<>> \in Seq(S)
  OBVIOUS
<1>2. p \in Panels => Missing(q, Fetch(p, s)) \in Seq(S)
  BY MissingType DEF HasDetail
<1>3. QED
  BY <1>1, <1>2, Zenon DEF Detail

LEMMA RefreshType ==
  ASSUME NEW S, NEW q \in Seq(S), NEW s, HasLists(S), s # NoSite => HasDetail(S, s)
  PROVE  Refresh(q, s) \in Seq(S)
<1>1. PICK a \in Seq(S) : a = Lists(q)
  BY ListsType
<1>2. CASE s = NoSite
  BY <1>1, <1>2 DEF Refresh
<1>3. CASE s # NoSite
  <2>1. PICK b \in Seq(S) : b = Missing(q, Fetch("logs", s))
    BY <1>3, MissingType DEF HasDetail
  <2>2. PICK d \in Seq(S) : d = Detail(q, "incidents", s)
    BY <1>3, DetailType
  <2>3. PICK e \in Seq(S) : e = Detail(q, "ssl", s)
    BY <1>3, DetailType
  <2>4. ((a \o b) \o d) \o e \in Seq(S)
    <3>1. (a \o b) \o d \in Seq(S)
      BY ConcatProperties
    <3>2. QED
      BY <3>1, ConcatProperties
  <2>5. QED
    BY <1>1, <1>3, <2>1, <2>2, <2>3, <2>4, Zenon DEF Refresh
<1>4. QED
  BY <1>2, <1>3

(* The requests of a SiteDetail that is gone; W and V are what the          *)
(* connections carry, before and after.                                     *)
LEMMA UnmountedType ==
  ASSUME NEW S, NEW T, \A r \in S : Abandoned(r) \in T,
         NEW W, NEW V, \A w \in W : [w EXCEPT !.request = Abandoned(@)] \in V,
         NEW q \in Seq(S), NEW carried \in [Connections -> W \cup {Free}]
  PROVE  /\ Unmounted(q, carried)[1] \in Seq(T)
         /\ Unmounted(q, carried)[2] \in [Connections -> V \cup {Free}]
<1>1. PICK n \in Nat : q \in [1 .. n -> S]
  BY SeqDef
<1>2. [k \in DOMAIN q |-> Abandoned(q[k])] \in [1 .. n -> T]
  BY <1>1
<1>3. [k \in DOMAIN q |-> Abandoned(q[k])] \in Seq(T)
  BY <1>2, SeqDef
<1>4. \A c \in Connections :
        (IF carried[c] = Free THEN Free ELSE [carried[c] EXCEPT !.request = Abandoned(@)]) \in V \cup {Free}
  OBVIOUS
<1>5. QED
  BY <1>3, <1>4 DEF Unmounted

-----------------------------------------------------------------------------
(* What the connections do.  W is what they may carry.                      *)

LEMMA SendKeeps ==
  ASSUME NEW S, NEW W, waiting \in Seq(S), wire \in [Connections -> W \cup {Free}],
         \A r \in S : [request |-> r, answer |-> NotYet] \in W,
         NEW c \in Connections, Send(c)
  PROVE  waiting' \in Seq(S) /\ wire' \in [Connections -> W \cup {Free}]
<1>1. Head(waiting) \in S /\ Tail(waiting) \in Seq(S)
  BY HeadTailProperties DEF Send
<1>2. PICK w \in W : w = [request |-> Head(waiting), answer |-> NotYet]
  BY <1>1
<1>3. wire' = [wire EXCEPT ![c] = w] /\ waiting' = Tail(waiting)
  BY <1>2 DEF Send
<1>4. QED
  BY <1>1, <1>3

LEMMA ReleaseKeeps ==
  ASSUME NEW W, wire \in [Connections -> W \cup {Free}], NEW c \in Connections
  PROVE  Released(c) \in [Connections -> W \cup {Free}]
  BY DEF Released

LEMMA ReplyKeeps ==
  ASSUME NEW W, wire \in [Connections -> W \cup {Free}], NEW c \in Connections,
         NEW ok, NEW sites, NEW rows, Reply(c, ok, sites, rows),
         NEW w \in W,
         w = [wire[c] EXCEPT !.answer =
                [done |-> TRUE, ok |-> ok, monitored |-> sites, newest |-> rows]]
  PROVE  wire' \in [Connections -> W \cup {Free}]
<1>1. wire' = [wire EXCEPT ![c] = w]
  BY DEF Reply
<1>2. QED
  BY <1>1

-----------------------------------------------------------------------------
(* Type correctness.  It needs that every request about a site names one,   *)
(* and that a SiteDetail without a site has left no request behind whose    *)
(* answer it could still show.                                              *)

Sound(s) ==
  {r \in Requests :
     /\ r.kind \in Panels \cup {"logs", "add", "delete"} => r.site \in Sites
     /\ r.kind \in Panels => s # NoSite}

Carried(s) == [request : Sound(s), answer : Answers]

TablesType == monitored \subseteq Sites /\ newest \in [Sites -> Row]

ViewType ==
  /\ targets \subseteq Sites /\ results \in [Sites -> Row]
  /\ selected \in Sites \cup {NoSite}
  /\ siteLogs \in [site : Sites \cup {NoSite}, row : Row]
  /\ panel \in [Panels -> Sites \cup {NoSite}]
  /\ selected = NoSite => panel = NoPanels

NetworkType ==
  /\ waiting \in Seq(Sound(selected))
  /\ wire \in [Connections -> Carried(selected) \cup {Free}]

TypeInv == TablesType /\ ViewType /\ NetworkType /\ events \in 0 .. MaxEvents

LEMMA TypeInvIsStronger == TypeInv => TypeOK
<1>1. ASSUME TypeInv PROVE waiting \in Seq(Requests)
  BY <1>1, SeqMonotonic DEF TypeInv, NetworkType, Sound
<1>2. ASSUME TypeInv PROVE wire \in [Connections -> [request : Requests, answer : Answers] \cup {Free}]
  <2>1. Carried(selected) \subseteq [request : Requests, answer : Answers]
    BY DEF Carried, Sound
  <2>2. QED
    BY <1>2, <2>1 DEF TypeInv, NetworkType
<1>3. QED
  BY <1>1, <1>2 DEF TypeInv, TablesType, ViewType, TypeOK

LEMMA RowsTypes ==
  /\ NoRows \in [Sites -> Row]
  /\ NoLogs \in [site : Sites \cup {NoSite}, row : Row]
  /\ NoPanels \in [Panels -> Sites \cup {NoSite}]
  /\ NotYet \in Answers
  /\ \A s \in Sites, row \in Row : Logs(s, row) \in [site : Sites \cup {NoSite}, row : Row]
<1>1. NoRows \in [Sites -> Row] /\ NoPanels \in [Panels -> Sites \cup {NoSite}]
  BY DEF NoRows, Row, NoPanels
<1>2. NotYet \in Answers
  BY <1>1 DEF NotYet, Answers
<1>3. QED
  BY <1>1, <1>2 DEF NoLogs, Logs, Row

LEMMA SoundFetches ==
  ASSUME NEW s \in Sites \cup {NoSite}
  PROVE  HasLists(Sound(s)) /\ (s # NoSite => HasDetail(Sound(s), s))
<1>1. HasLists(Sound(s))
  BY PanelKinds DEF HasLists, Fetch, Sound, Requests
<1>2. s # NoSite => HasDetail(Sound(s), s)
  BY PanelKinds DEF HasDetail, Fetch, Sound, Requests
<1>3. QED
  BY <1>1, <1>2

LEMMA AbandonedIsSound ==
  ASSUME NEW s \in Sites \cup {NoSite}
  PROVE  /\ \A r \in Sound(s) : Abandoned(r) \in Sound(NoSite)
         /\ \A w \in Carried(s) : [w EXCEPT !.request = Abandoned(@)] \in Carried(NoSite)
<1>1. ASSUME NEW r \in Sound(s) PROVE Abandoned(r) \in Sound(NoSite)
  <2>1. CASE r.kind \in Panels
    BY <2>1, PanelKinds DEF Abandoned, Fetch, Sound, Requests
  <2>2. CASE r.kind \notin Panels
    BY <2>2 DEF Abandoned, Sound
  <2>3. QED
    BY <2>1, <2>2
<1>2. QED
  BY <1>1 DEF Carried

LEMMA SoundGrows ==
  ASSUME NEW s \in Sites \cup {NoSite}, NEW t \in Sites
  PROVE  Sound(s) \subseteq Sound(t) /\ Carried(s) \subseteq Carried(t)
  BY Assumptions DEF DashboardAssumption, Sound, Carried

(* The effects run with the new selection.                                  *)
LEMMA ShowSiteType ==
  ASSUME TypeInv, NEW s \in Sites, ShowSite(s, waiting, wire)
  PROVE  NetworkType'
<1>1. s # NoSite
  BY Assumptions DEF DashboardAssumption
<1>2. waiting \in Seq(Sound(s)) /\ wire \in [Connections -> Carried(s) \cup {Free}]
  <2>1. Sound(selected) \subseteq Sound(s) /\ Carried(selected) \subseteq Carried(s)
    BY SoundGrows DEF TypeInv, ViewType
  <2>2. QED
    BY <2>1, SeqMonotonic DEF TypeInv, NetworkType
<1>3. Refresh(waiting, s) \in Seq(Sound(s))
  BY <1>1, <1>2, RefreshType, SoundFetches
<1>4. QED
  BY <1>2, <1>3 DEF ShowSite, NetworkType

LEMMA ShowDashboardType ==
  ASSUME TypeInv, NEW carried \in [Connections -> Carried(selected) \cup {Free}],
         ShowDashboard(waiting, carried), targets' = targets, results' = results
  PROVE  ViewType' /\ NetworkType'
<1>1. PICK left : left = Unmounted(waiting, carried)
  OBVIOUS
<1>2. left[1] \in Seq(Sound(NoSite)) /\ left[2] \in [Connections -> Carried(NoSite) \cup {Free}]
  <2>1. selected \in Sites \cup {NoSite} /\ waiting \in Seq(Sound(selected))
    BY DEF TypeInv, ViewType, NetworkType
  <2>2. QED
    BY <1>1, <2>1, AbandonedIsSound, UnmountedType
<1>3. Lists(left[1]) \in Seq(Sound(NoSite))
  BY <1>2, ListsType, SoundFetches
<1>4. /\ selected' = NoSite /\ siteLogs' = NoLogs /\ panel' = NoPanels
      /\ waiting' = Lists(left[1]) /\ wire' = left[2]
  BY <1>1 DEF ShowDashboard
<1>5. QED
  BY <1>2, <1>3, <1>4, RowsTypes DEF TypeInv, ViewType, NetworkType

LEMMA EventType ==
  ASSUME TypeInv, Event
  PROVE  events' \in 0 .. MaxEvents
<1>1. MaxEvents \in Nat
  BY Assumptions DEF DashboardAssumption
<1>2. QED
  BY <1>1 DEF Event, TypeInv

(* A request that is added for a site                                       *)
LEMMA SiteRequestType ==
  ASSUME TypeInv, NEW r \in Requests, r.kind \in {"add", "delete"}, r.site \in Sites
  PROVE  Append(waiting, r) \in Seq(Sound(selected))
<1>1. r \in Sound(selected)
  BY PanelKinds DEF Sound
<1>2. QED
  BY <1>1 DEF TypeInv, NetworkType

LEMMA UserType ==
  ASSUME TypeInv, User
  PROVE  TypeInv'
<1>1. ASSUME NEW s \in Sites, SelectSite(s) PROVE TypeInv'
  <2>1. TablesType' /\ events' \in 0 .. MaxEvents
    BY <1>1, EventType DEF SelectSite, tables, TypeInv, TablesType
  <2>2. CASE ShowSite(s, waiting, wire) /\ UNCHANGED siteLogs
    <3>1. ViewType'
      BY <1>1, <2>2, Assumptions
      DEF SelectSite, ShowSite, TypeInv, ViewType, DashboardAssumption
    <3>2. QED
      BY <2>1, <2>2, <3>1, ShowSiteType DEF TypeInv
  <2>3. CASE ShowDashboard(waiting, wire)
    <3>1. wire \in [Connections -> Carried(selected) \cup {Free}]
      BY DEF TypeInv, NetworkType
    <3>2. targets' = targets /\ results' = results
      BY <1>1 DEF SelectSite
    <3>3. QED
      BY <2>1, <2>3, <3>1, <3>2, ShowDashboardType DEF TypeInv
  <2>4. QED
    BY <1>1, <2>2, <2>3 DEF SelectSite
<1>2. CASE Back
  <2>1. TablesType' /\ events' \in 0 .. MaxEvents
    BY <1>2, EventType DEF Back, tables, TypeInv, TablesType
  <2>2. wire \in [Connections -> Carried(selected) \cup {Free}]
    BY DEF TypeInv, NetworkType
  <2>3. ShowDashboard(waiting, wire) /\ targets' = targets /\ results' = results
    BY <1>2 DEF Back
  <2>4. QED
    BY <2>1, <2>2, <2>3, ShowDashboardType DEF TypeInv
<1>3. ASSUME NEW s \in Sites, AddSite(s) \/ DeleteSite(s) PROVE TypeInv'
  <2>1. TablesType' /\ ViewType' /\ events' \in 0 .. MaxEvents
    BY <1>3, EventType DEF AddSite, DeleteSite, tables, view, TypeInv, TablesType, ViewType
  <2>2. PICK r \in Requests :
          r.kind \in {"add", "delete"} /\ r.site \in Sites /\ waiting' = Append(waiting, r)
    <3>1. selected \in Sites \cup {NoSite}
      BY DEF TypeInv, ViewType
    <3>2. /\ Fetch("add", s) \in Requests
          /\ [Fetch("delete", s) EXCEPT !.seen = selected] \in Requests
      BY <3>1 DEF Fetch, Requests
    <3>3. /\ Fetch("add", s).kind = "add" /\ Fetch("add", s).site = s
          /\ [Fetch("delete", s) EXCEPT !.seen = selected].kind = "delete"
          /\ [Fetch("delete", s) EXCEPT !.seen = selected].site = s
      BY DEF Fetch
    <3>4. CASE AddSite(s)
      BY <3>2, <3>3, <3>4 DEF AddSite
    <3>5. CASE DeleteSite(s)
      BY <3>2, <3>3, <3>5 DEF DeleteSite
    <3>6. QED
      BY <1>3, <3>4, <3>5
  <2>3. waiting' \in Seq(Sound(selected))
    BY <2>2, SiteRequestType
  <2>4. UNCHANGED <<selected, wire>>
    BY <1>3 DEF AddSite, DeleteSite, view
  <2>5. QED
    BY <2>1, <2>3, <2>4 DEF TypeInv, NetworkType
<1>4. QED
  BY <1>1, <1>2, <1>3 DEF User

LEMMA TickType ==
  ASSUME TypeInv, Tick
  PROVE  TypeInv'
<1>1. Refresh(waiting, selected) \in Seq(Sound(selected))
  BY RefreshType, SoundFetches DEF TypeInv, ViewType, NetworkType
<1>2. QED
  BY <1>1 DEF Tick, tables, view, TypeInv, TablesType, ViewType, NetworkType

(* What a connection carries                                                *)
LEMMA CarriedType ==
  ASSUME TypeInv, NEW c \in Connections, wire[c] # Free
  PROVE  wire[c] \in Carried(selected)
  BY DEF TypeInv, NetworkType

LEMMA ReplyType ==
  ASSUME TypeInv, NEW c \in Connections, Asked(c),
         NEW ok \in BOOLEAN, NEW sites \in SUBSET Sites, NEW rows \in [Sites -> Row],
         Reply(c, ok, sites, rows), UNCHANGED <<selected, waiting>>
  PROVE  NetworkType'
<1>1. PICK a \in Answers : a = [done |-> TRUE, ok |-> ok, monitored |-> sites, newest |-> rows]
  BY DEF Answers
<1>2. PICK v \in Carried(selected) : v = wire[c]
  BY CarriedType DEF Asked
<1>3. [v EXCEPT !.answer = a] \in Carried(selected)
  BY DEF Carried
<1>4. wire' \in [Connections -> Carried(selected) \cup {Free}]
  <2>1. PICK w \in Carried(selected) : w = [v EXCEPT !.answer = a]
    BY <1>3
  <2>2. wire \in [Connections -> Carried(selected) \cup {Free}]
    BY DEF TypeInv, NetworkType
  <2>3. QED
    BY <1>1, <1>2, <2>1, <2>2, ReplyKeeps
<1>5. QED
  BY <1>4 DEF TypeInv, NetworkType

LEMMA AnswerType ==
  ASSUME TypeInv, NEW c \in Connections, Answer(c)
  PROVE  TypeInv'
<1>1. UNCHANGED <<view, waiting, events>> /\ Asked(c)
  BY DEF Answer, AnswerTargets, AnswerStatus, AnswerLogs, AnswerPanel, AnswerAdd, AnswerDelete
<1>2. ViewType' /\ UNCHANGED <<selected, waiting>> /\ events' \in 0 .. MaxEvents
  BY <1>1 DEF view, TypeInv, ViewType
<1>3. NoRows \in [Sites -> Row] /\ {} \in SUBSET Sites /\ newest \in [Sites -> Row]
  BY RowsTypes DEF TypeInv, TablesType
<1>4. CASE AnswerTargets(c) \/ AnswerStatus(c) \/ AnswerLogs(c) \/ AnswerPanel(c)
  <2>1. TablesType'
    BY <1>4 DEF AnswerTargets, AnswerStatus, AnswerLogs, AnswerPanel, tables, TypeInv, TablesType
  <2>2. PICK sites \in SUBSET Sites, rows \in [Sites -> Row] : Reply(c, TRUE, sites, rows)
    <3>1. monitored \in SUBSET Sites
      BY DEF TypeInv, TablesType
    <3>2. \A s : [NoRows EXCEPT ![s] = newest[s]] \in [Sites -> Row]
      <4>1. TAKE s
      <4>2. s \in Sites => newest[s] \in Row
        BY <1>3
      <4>3. QED
        BY <1>3, <4>2
    <3>3. QED
      BY <1>3, <1>4, <3>1, <3>2 DEF AnswerTargets, AnswerStatus, AnswerLogs, AnswerPanel
  <2>3. NetworkType'
    BY <1>1, <1>2, <2>2, ReplyType
  <2>4. QED
    BY <1>2, <2>1, <2>3 DEF TypeInv
<1>5. CASE AnswerAdd(c) \/ AnswerDelete(c)
  <2>1. PICK s \in Sites : s = wire[c].request.site
    <3>1. wire[c].request.kind \in {"add", "delete"} /\ wire[c].request \in Sound(selected)
      BY <1>1, <1>5, CarriedType DEF AnswerAdd, AnswerDelete, Carrying, Asked, Carried
    <3>2. QED
      BY <3>1 DEF Sound
  <2>2. TablesType'
    BY <1>3, <1>5, <2>1 DEF AnswerAdd, AnswerDelete, TypeInv, TablesType, Row
  <2>3. PICK ok \in BOOLEAN : Reply(c, ok, {}, NoRows)
    <3>1. TRUE \in BOOLEAN /\ (s \notin monitored) \in BOOLEAN
      OBVIOUS
    <3>2. CASE AnswerAdd(c)
      BY <2>1, <3>1, <3>2, Zenon DEF AnswerAdd
    <3>3. CASE AnswerDelete(c)
      BY <3>1, <3>3, Zenon DEF AnswerDelete
    <3>4. QED
      BY <1>5, <3>2, <3>3
  <2>4. NetworkType'
    BY <1>1, <1>2, <1>3, <2>3, ReplyType
  <2>5. QED
    BY <1>2, <2>2, <2>4 DEF TypeInv
<1>6. QED
  BY <1>4, <1>5 DEF Answer

LEMMA ReceiveType ==
  ASSUME TypeInv, NEW c \in Connections, Receive(c)
  PROVE  TypeInv'
<1>1. PICK v \in Carried(selected) : v = wire[c]
  BY CarriedType
  DEF Receive, ReceiveTargets, ReceiveStatus, ReceiveLogs, ReceivePanel, ReceiveAdd, ReceiveDelete,
      Answered
<1>2. v.request \in Sound(selected) /\ v.answer.monitored \subseteq Sites /\ v.answer.newest \in [Sites -> Row]
  BY DEF Carried, Answers
<1>3. TablesType' /\ events' \in 0 .. MaxEvents
  BY DEF Receive, ReceiveTargets, ReceiveStatus, ReceiveLogs, ReceivePanel, ReceiveAdd, ReceiveDelete,
         tables, TypeInv, TablesType
<1>4. Released(c) \in [Connections -> Carried(selected) \cup {Free}]
  BY ReleaseKeeps DEF TypeInv, NetworkType
<1>5. Lists(waiting) \in Seq(Sound(selected))
  BY ListsType, SoundFetches DEF TypeInv, ViewType, NetworkType
<1>6. CASE wire' = Released(c) /\ selected' = selected /\ waiting' \in {waiting, Lists(waiting)}
  <2>1. NetworkType'
    BY <1>4, <1>5, <1>6 DEF TypeInv, NetworkType
  <2>2. ViewType'
    <3>1. CASE ReceiveTargets(c)
      <4>1. targets' \subseteq Sites
        BY <1>1, <1>2, <3>1 DEF ReceiveTargets
      <4>2. QED
        BY <3>1, <4>1 DEF ReceiveTargets, TypeInv, ViewType
    <3>2. CASE ReceiveStatus(c)
      <4>1. results' \in [Sites -> Row]
        BY <1>1, <1>2, <3>2 DEF ReceiveStatus
      <4>2. QED
        BY <3>2, <4>1 DEF ReceiveStatus, TypeInv, ViewType
    <3>3. CASE ReceiveLogs(c)
      <4>1. v.request.site \in Sites
        BY <1>1, <1>2, <3>3 DEF ReceiveLogs, Carrying, Sound
      <4>2. siteLogs' = Logs(v.request.site, v.answer.newest[v.request.site])
        BY <1>1, <3>3 DEF ReceiveLogs
      <4>3. siteLogs' \in [site : Sites \cup {NoSite}, row : Row]
        BY <1>2, <4>1, <4>2, RowsTypes
      <4>4. QED
        BY <3>3, <4>3 DEF ReceiveLogs, TypeInv, ViewType
    <3>4. CASE ReceivePanel(c)
      <4>1. CASE UNCHANGED panel
        BY <3>4, <4>1 DEF ReceivePanel, TypeInv, ViewType
      <4>2. ASSUME NEW p \in Panels, Carrying(c, p), panel' = [panel EXCEPT ![p] = v.request.site]
            PROVE  ViewType'
        <5>1. v.request.site \in Sites /\ selected # NoSite
          BY <1>1, <1>2, <4>2 DEF Carrying, Sound
        <5>2. panel' \in [Panels -> Sites \cup {NoSite}]
          BY <4>2, <5>1 DEF TypeInv, ViewType
        <5>3. QED
          BY <3>4, <5>1, <5>2 DEF ReceivePanel, TypeInv, ViewType
      <4>3. QED
        BY <1>1, <3>4, <4>1, <4>2 DEF ReceivePanel
    <3>5. CASE ReceiveAdd(c)
      BY <3>5 DEF ReceiveAdd, view, TypeInv, ViewType
    <3>6. CASE ReceiveDelete(c)
      <4>1. CASE UNCHANGED <<selected, siteLogs, panel>>
        BY <3>6, <4>1 DEF ReceiveDelete, TypeInv, ViewType
      <4>2. CASE ShowDashboard(waiting, Released(c))
        BY <1>4, <3>6, <4>2, ShowDashboardType DEF ReceiveDelete
      <4>3. QED
        BY <3>6, <4>1, <4>2 DEF ReceiveDelete
    <3>7. QED
      BY <3>1, <3>2, <3>3, <3>4, <3>5, <3>6 DEF Receive
  <2>3. QED
    BY <1>3, <2>1, <2>2 DEF TypeInv
<1>7. CASE ShowDashboard(waiting, Released(c)) /\ targets' = targets /\ results' = results
  <2>1. ViewType' /\ NetworkType'
    BY <1>4, <1>7, ShowDashboardType
  <2>2. QED
    BY <1>3, <2>1 DEF TypeInv
<1>8. QED
  BY <1>6, <1>7
  DEF Receive, ReceiveTargets, ReceiveStatus, ReceiveLogs, ReceivePanel, ReceiveAdd, ReceiveDelete, view

LEMMA RestType ==
  ASSUME TypeInv
  PROVE  /\ \A c \in Connections : Send(c) \/ Fail(c) => TypeInv'
         /\ \A s \in Sites : Elsewhere(s) => TypeInv'
<1>1. ASSUME NEW c \in Connections, Send(c) PROVE TypeInv'
  <2>1. \A r \in Sound(selected) : [request |-> r, answer |-> NotYet] \in Carried(selected)
    BY RowsTypes DEF Carried
  <2>2. /\ waiting' \in Seq(Sound(selected))
        /\ wire' \in [Connections -> Carried(selected) \cup {Free}]
    BY <1>1, <2>1, SendKeeps DEF TypeInv, NetworkType
  <2>3. UNCHANGED <<tables, view, events>>
    BY <1>1 DEF Send
  <2>4. QED
    BY <2>2, <2>3 DEF tables, view, TypeInv, TablesType, ViewType, NetworkType
<1>2. ASSUME NEW c \in Connections, Fail(c) PROVE TypeInv'
  <2>1. wire' \in [Connections -> Carried(selected) \cup {Free}]
    BY <1>2, ReleaseKeeps DEF Fail, Released, TypeInv, NetworkType
  <2>2. events' \in 0 .. MaxEvents /\ UNCHANGED <<tables, view, waiting>>
    BY <1>2, EventType DEF Fail
  <2>3. QED
    BY <2>1, <2>2 DEF tables, view, TypeInv, TablesType, ViewType, NetworkType
<1>3. ASSUME NEW s \in Sites, Elsewhere(s) PROVE TypeInv'
  <2>1. TablesType'
    BY <1>3 DEF Elsewhere, TypeInv, TablesType, Row
  <2>2. events' \in 0 .. MaxEvents /\ UNCHANGED <<view, network>>
    BY <1>3, EventType DEF Elsewhere
  <2>3. QED
    BY <2>1, <2>2 DEF view, network, TypeInv, ViewType, NetworkType
<1>4. QED
  BY <1>1, <1>2, <1>3

LEMMA TypeInvInit == Init => TypeInv
<1> SUFFICES ASSUME Init PROVE TypeInv
  OBVIOUS
<1>1. TablesType /\ ViewType
  BY RowsTypes DEF Init, TablesType, ViewType
<1>2. NetworkType
  <2>1. <<>> \in Seq(Sound(NoSite))
    OBVIOUS
  <2>2. Lists(<<>>) \in Seq(Sound(NoSite))
    BY <2>1, ListsType, SoundFetches
  <2>3. QED
    BY <2>2 DEF Init, NetworkType
<1>3. events \in 0 .. MaxEvents
  BY Assumptions DEF DashboardAssumption, Init
<1>4. QED
  BY <1>1, <1>2, <1>3 DEF TypeInv

LEMMA TypeInvNext == TypeInv /\ [Next]_vars => TypeInv'
<1>1. ASSUME TypeInv, Next PROVE TypeInv'
  BY <1>1, UserType, TickType, AnswerType, ReceiveType, RestType DEF Next
<1>2. ASSUME TypeInv, UNCHANGED vars PROVE TypeInv'
  BY <1>2 DEF vars, tables, view, network, TypeInv, TablesType, ViewType, NetworkType
<1>3. QED
  BY <1>1, <1>2

LEMMA TypeInvAlways == Spec => []TypeInv
  BY TypeInvInit, TypeInvNext, PTL DEF Spec

(* The state of the page, its requests and the answers always have their    *)
(* types, and while no site is selected nothing of one is shown: whatever   *)
(* was under way when SiteDetail was left (page.tsx:166-177).               *)
THEOREM DashboardTypes == Spec => []TypeOK
  BY TypeInvAlways, TypeInvIsStronger, PTL

-----------------------------------------------------------------------------
(* A page that shows the truth keeps it.  Settled, as the sets the requests *)
(* and what the connections carry are in.                                   *)

TimelyRequests == {r \in Requests : Timely(r)}

Fitting ==
  {w \in [request : Requests, answer : Answers] :
     IF w.answer.done THEN Truthful(w.request, w.answer) ELSE Timely(w.request)}

NetworkSettled ==
  /\ waiting \in Seq(TimelyRequests)
  /\ wire \in [Connections -> Fitting \cup {Free}]

LEMMA SettledNetwork == TypeOK /\ Settled => UpToDate /\ NetworkSettled
<1> SUFFICES ASSUME TypeOK, Settled PROVE UpToDate /\ NetworkSettled
  OBVIOUS
<1>1. waiting \in Seq(TimelyRequests)
  <2>1. PICK n \in Nat : waiting \in [1 .. n -> Requests]
    BY SeqDef DEF TypeOK
  <2>2. \A i \in 1 .. n : Timely(waiting[i])
    BY <2>1 DEF Settled, ToSet
  <2>3. waiting \in [1 .. n -> TimelyRequests]
    BY <2>1, <2>2 DEF TimelyRequests
  <2>4. QED
    BY <2>3, SeqDef
<1>2. wire \in [Connections -> Fitting \cup {Free}]
  <2>1. ASSUME NEW c \in Connections, wire[c] # Free PROVE wire[c] \in Fitting
    <3>1. wire[c] \in [request : Requests, answer : Answers]
      BY <2>1 DEF TypeOK
    <3>2. IF wire[c].answer.done THEN Truthful(wire[c].request, wire[c].answer)
          ELSE Timely(wire[c].request)
      BY <2>1 DEF Settled
    <3>3. QED
      BY <3>1, <3>2 DEF Fitting
  <2>2. QED
    BY <2>1 DEF TypeOK
<1>3. QED
  BY <1>1, <1>2 DEF Settled, NetworkSettled

LEMMA NetworkSettles == UpToDate /\ NetworkSettled => Settled
<1> SUFFICES ASSUME UpToDate, NetworkSettled PROVE Settled
  OBVIOUS
<1>1. \A r \in ToSet(waiting) : Timely(r)
  <2>1. PICK n \in Nat : waiting \in [1 .. n -> TimelyRequests]
    BY SeqDef DEF NetworkSettled
  <2>2. QED
    BY <2>1 DEF ToSet, TimelyRequests
<1>2. ASSUME NEW c \in Connections, wire[c] # Free
      PROVE  IF wire[c].answer.done THEN Truthful(wire[c].request, wire[c].answer)
             ELSE Timely(wire[c].request)
  <2>1. wire[c] \in Fitting
    BY <1>2 DEF NetworkSettled
  <2>2. QED
    BY <2>1 DEF Fitting
<1>3. QED
  BY <1>1, <1>2 DEF Settled

LEMMA NetworkSettlesNext == UpToDate' /\ NetworkSettled' => Settled'
  BY NetworkSettles, PTL

LEMMA TimelyFetches ==
  ASSUME NEW s \in Sites \cup {NoSite}, s = selected
  PROVE  HasLists(TimelyRequests) /\ (s # NoSite => HasDetail(TimelyRequests, s))
<1>1. HasLists(TimelyRequests)
  BY PanelKinds DEF HasLists, Fetch, TimelyRequests, Timely, Requests
<1>2. s # NoSite => HasDetail(TimelyRequests, s)
  BY PanelKinds DEF HasDetail, Fetch, TimelyRequests, Timely, Requests
<1>3. QED
  BY <1>1, <1>2

(* What is timely and what fits depends on the tables and the selection.    *)
LEMMA SameTruth ==
  ASSUME UNCHANGED <<tables, selected>>
  PROVE  TimelyRequests' = TimelyRequests /\ Fitting' = Fitting
  BY DEF tables, TimelyRequests, Fitting, Timely, Truthful

(* A request of SiteDetail that it left behind is ignored: leaving a site   *)
(* makes nothing wrong.                                                     *)
LEMMA LeaveSettled ==
  ASSUME TypeInv, UpToDate, NetworkSettled,
         NEW carried \in [Connections -> Fitting \cup {Free}],
         ShowDashboard(waiting, carried), UNCHANGED <<tables, targets, results>>
  PROVE  UpToDate' /\ NetworkSettled'
<1>1. PICK left : left = Unmounted(waiting, carried)
  OBVIOUS
<1>2. /\ selected' = NoSite /\ UNCHANGED <<monitored, newest>>
      /\ waiting' = Lists(left[1]) /\ wire' = left[2]
  BY <1>1 DEF ShowDashboard, tables
<1>3. PICK T, V : T = TimelyRequests' /\ V = Fitting'
  OBVIOUS
<1>4. ASSUME NEW r \in Requests
      PROVE  /\ Abandoned(r) \in Requests
             /\ Abandoned(r).kind = r.kind \/ Abandoned(r).kind = "ignored"
  BY DEF Abandoned, Fetch, Requests
<1>5. ASSUME NEW r \in TimelyRequests PROVE Abandoned(r) \in T
  <2>1. r \in Requests /\ r.kind \notin {"add", "delete"}
    BY DEF TimelyRequests, Timely
  <2>2. PICK a \in Requests : a = Abandoned(r) /\ a.kind \notin {"add", "delete"}
    BY <1>4, <2>1
  <2>3. Timely(a)'
    BY <1>2, <2>2 DEF Timely
  <2>4. QED
    BY <1>3, <2>2, <2>3 DEF TimelyRequests
<1>6. ASSUME NEW w \in Fitting PROVE [w EXCEPT !.request = Abandoned(@)] \in V
  <2>1. w \in [request : Requests, answer : Answers]
    BY DEF Fitting
  <2>2. PICK r \in Requests : r = Abandoned(w.request)
    BY <1>4, <2>1
  <2>3. PICK v : v = [w EXCEPT !.request = Abandoned(@)]
    OBVIOUS
  <2>4. /\ v \in [request : Requests, answer : Answers]
        /\ v.request = r /\ v.answer = w.answer
    BY <2>1, <2>2, <2>3
  <2>5. r.kind = w.request.kind \/ r.kind = "ignored"
    BY <1>4, <2>1, <2>2
  <2>6. CASE w.answer.done
    <3>1. Truthful(w.request, w.answer)
      BY <2>6 DEF Fitting
    <3>2. Truthful(v.request, v.answer)'
      BY <1>2, <2>4, <2>5, <3>1 DEF Truthful
    <3>3. QED
      BY <1>3, <2>3, <2>4, <2>6, <3>2 DEF Fitting
  <2>7. CASE ~w.answer.done
    <3>1. Timely(w.request)
      BY <2>7 DEF Fitting
    <3>2. Timely(v.request)'
      BY <1>2, <2>4, <2>5, <3>1 DEF Timely
    <3>3. QED
      BY <1>3, <2>3, <2>4, <2>7, <3>2 DEF Fitting
  <2>8. QED
    BY <2>6, <2>7
<1>7. left[1] \in Seq(T) /\ left[2] \in [Connections -> V \cup {Free}]
  BY <1>1, <1>5, <1>6, UnmountedType DEF NetworkSettled
<1>8. HasLists(T)
  BY <1>3, PanelKinds DEF HasLists, Fetch, TimelyRequests, Timely, Requests
<1>9. Lists(left[1]) \in Seq(T)
  BY <1>7, <1>8, ListsType
<1>10. UpToDate'
  BY <1>2 DEF UpToDate
<1>11. QED
  BY <1>2, <1>3, <1>7, <1>9, <1>10 DEF NetworkSettled

(* What SettledStep has to show of an action that leaves the tables and     *)
(* the selection alone                                                      *)
LEMMA StaySettled ==
  ASSUME NetworkSettled, UNCHANGED <<tables, selected>>,
         waiting' \in Seq(TimelyRequests), wire' \in [Connections -> Fitting \cup {Free}]
  PROVE  NetworkSettled'
  BY SameTruth DEF NetworkSettled

LEMMA ReleaseSettled ==
  ASSUME NetworkSettled, NEW c \in Connections, wire' = Released(c),
         UNCHANGED <<tables, selected, waiting>>
  PROVE  NetworkSettled'
<1>1. wire' \in [Connections -> Fitting \cup {Free}]
  BY ReleaseKeeps DEF NetworkSettled
<1>2. QED
  BY <1>1, StaySettled DEF NetworkSettled

LEMMA TickSettled ==
  ASSUME TypeInv, UpToDate, NetworkSettled, Tick
  PROVE  UpToDate' /\ NetworkSettled'
<1>1. Refresh(waiting, selected) \in Seq(TimelyRequests)
  BY TimelyFetches, RefreshType DEF TypeInv, ViewType, NetworkSettled
<1>2. NetworkSettled'
  BY <1>1, StaySettled DEF Tick, view, NetworkSettled
<1>3. QED
  BY <1>2 DEF Tick, tables, view, UpToDate

LEMMA SendSettled ==
  ASSUME UpToDate, NetworkSettled, NEW c \in Connections, Send(c)
  PROVE  UpToDate' /\ NetworkSettled'
<1>1. ASSUME NEW r \in TimelyRequests PROVE [request |-> r, answer |-> NotYet] \in Fitting
  <2>1. PICK a \in Answers : a = NotYet /\ ~a.done
    BY RowsTypes DEF NotYet
  <2>2. r \in Requests /\ Timely(r)
    BY DEF TimelyRequests
  <2>3. QED
    BY <2>1, <2>2 DEF Fitting
<1>2. waiting' \in Seq(TimelyRequests) /\ wire' \in [Connections -> Fitting \cup {Free}]
  BY <1>1, SendKeeps DEF NetworkSettled
<1>3. NetworkSettled'
  BY <1>2, StaySettled DEF Send, view
<1>4. QED
  BY <1>3 DEF Send, tables, view, UpToDate

(* The server answers with what its tables hold.                            *)
LEMMA AnswerSettled ==
  ASSUME TypeInv, UpToDate, NetworkSettled, NEW c \in Connections, Answer(c)
  PROVE  UpToDate' /\ NetworkSettled'
<1>1. UNCHANGED <<view, waiting>> /\ Asked(c)
  BY DEF Answer, AnswerTargets, AnswerStatus, AnswerLogs, AnswerPanel, AnswerAdd, AnswerDelete
<1>2. PICK v \in Fitting : v = wire[c]
  BY <1>1 DEF Asked, NetworkSettled
<1>3. /\ v \in [request : Requests, answer : Answers]
      /\ v.request \in Requests /\ Timely(v.request)
  BY <1>1, <1>2 DEF Fitting, Asked
<1>4. ~AnswerAdd(c) /\ ~AnswerDelete(c)
  BY <1>2, <1>3 DEF AnswerAdd, AnswerDelete, Carrying, Timely
<1>5. UNCHANGED tables
  BY <1>4 DEF Answer, AnswerTargets, AnswerStatus, AnswerLogs, AnswerPanel
<1>6. NoRows \in [Sites -> Row] /\ newest \in [Sites -> Row] /\ monitored \in SUBSET Sites
  BY RowsTypes DEF TypeInv, TablesType
<1>7. ASSUME NEW sites \in SUBSET Sites, NEW rows \in [Sites -> Row],
             Reply(c, TRUE, sites, rows),
             v.request.kind = "targets" => sites = monitored,
             v.request.kind = "status" => rows = newest,
             selected # NoSite /\ v.request.kind = "logs" => rows[selected] = newest[selected]
      PROVE  wire' \in [Connections -> Fitting \cup {Free}]
  <2>1. PICK a : a = [done |-> TRUE, ok |-> TRUE, monitored |-> sites, newest |-> rows]
    OBVIOUS
  <2>2. a \in Answers /\ a.done /\ a.monitored = sites /\ a.newest = rows
    BY <2>1 DEF Answers
  <2>3. Truthful(v.request, a)
    BY <1>3, <1>7, <2>2 DEF Truthful, Timely
  <2>4. PICK w : w = [v EXCEPT !.answer = a]
    OBVIOUS
  <2>5. /\ w \in [request : Requests, answer : Answers]
        /\ w.request = v.request /\ w.answer = a
    BY <1>3, <2>2, <2>4
  <2>6. w \in Fitting
    BY <2>2, <2>3, <2>5 DEF Fitting
  <2>7. QED
    BY <1>2, <1>7, <2>1, <2>4, <2>6, ReplyKeeps DEF NetworkSettled
<1>8. wire' \in [Connections -> Fitting \cup {Free}]
  <2>1. CASE AnswerTargets(c)
    BY <1>2, <1>6, <1>7, <2>1 DEF AnswerTargets, Carrying
  <2>2. CASE AnswerStatus(c)
    BY <1>2, <1>6, <1>7, <2>2 DEF AnswerStatus, Carrying
  <2>3. CASE AnswerLogs(c)
    <3>1. v.request.kind = "logs"
      BY <1>2, <2>3 DEF AnswerLogs, Carrying
    <3>2. PICK rows \in [Sites -> Row] :
            /\ rows = [NoRows EXCEPT ![v.request.site] = newest[v.request.site]]
            /\ v.request.site \in Sites => rows[v.request.site] = newest[v.request.site]
      <4>1. PICK s : s = v.request.site
        OBVIOUS
      <4>2. s \in Sites => newest[s] \in Row
        BY <1>6
      <4>3. [NoRows EXCEPT ![s] = newest[s]] \in [Sites -> Row]
        BY <1>6, <4>2
      <4>4. QED
        BY <1>6, <4>1, <4>3
    <3>3. Reply(c, TRUE, {}, rows)
      BY <1>2, <2>3, <3>2 DEF AnswerLogs
    <3>4. selected # NoSite => selected \in Sites /\ v.request.site = selected
      BY <1>3, <3>1 DEF Timely, TypeInv, ViewType
    <3>5. selected # NoSite => rows[selected] = newest[selected]
      BY <3>2, <3>4
    <3>6. QED
      BY <1>7, <3>1, <3>3, <3>5
  <2>4. CASE AnswerPanel(c)
    <3>1. v.request.kind \notin {"targets", "status", "logs"}
      BY <1>2, <2>4, PanelKinds DEF AnswerPanel, Carrying
    <3>2. QED
      BY <1>6, <1>7, <2>4, <3>1 DEF AnswerPanel
  <2>5. QED
    BY <1>4, <2>1, <2>2, <2>3, <2>4 DEF Answer
<1>9. NetworkSettled'
  BY <1>1, <1>5, <1>8, StaySettled DEF view, NetworkSettled
<1>10. QED
  BY <1>1, <1>5, <1>9 DEF tables, view, UpToDate

(* An answer that waited until now still tells what the page shows, and     *)
(* those that arrive after it do not bring back what was left.              *)
LEMMA ReceiveSettled ==
  ASSUME TypeInv, UpToDate, NetworkSettled, NEW c \in Connections, Receive(c)
  PROVE  UpToDate' /\ NetworkSettled'
<1>1. UNCHANGED tables /\ Answered(c)
  BY DEF Receive, ReceiveTargets, ReceiveStatus, ReceiveLogs, ReceivePanel, ReceiveAdd, ReceiveDelete
<1>2. PICK v \in Fitting : v = wire[c]
  BY <1>1 DEF Answered, NetworkSettled
<1>3. Truthful(v.request, v.answer)
  BY <1>1, <1>2 DEF Answered, Fitting
<1>4. CASE ReceiveTargets(c)
  <2>1. targets' = monitored /\ UNCHANGED <<results, selected, siteLogs, panel>>
    BY <1>2, <1>3, <1>4 DEF ReceiveTargets, Carrying, Truthful
  <2>2. NetworkSettled'
    BY <1>1, <1>4, ReleaseSettled DEF ReceiveTargets
  <2>3. QED
    BY <1>1, <2>1, <2>2 DEF tables, UpToDate
<1>5. CASE ReceiveStatus(c)
  <2>1. results' = newest /\ UNCHANGED <<targets, selected, siteLogs, panel>>
    BY <1>2, <1>3, <1>5 DEF ReceiveStatus, Carrying, Truthful
  <2>2. NetworkSettled'
    BY <1>1, <1>5, ReleaseSettled DEF ReceiveStatus
  <2>3. QED
    BY <1>1, <2>1, <2>2 DEF tables, UpToDate
<1>6. CASE ReceiveLogs(c)
  <2>1. selected # NoSite => siteLogs' = Logs(selected, newest[selected])
    BY <1>2, <1>3, <1>6 DEF ReceiveLogs, Carrying, Truthful
  <2>2. NetworkSettled'
    BY <1>1, <1>6, ReleaseSettled DEF ReceiveLogs
  <2>3. QED
    BY <1>1, <1>6, <2>1, <2>2 DEF ReceiveLogs, tables, UpToDate
<1>7. CASE ReceivePanel(c)
  <2>1. selected # NoSite => \A p \in Panels : panel'[p] = selected
    <3>1. ASSUME selected # NoSite, NEW q \in Panels, Carrying(c, q),
                 panel' = [panel EXCEPT ![q] = v.request.site]
          PROVE  \A p \in Panels : panel'[p] = selected
      <4>1. v.request.site = selected
        BY <1>2, <1>3, <3>1 DEF Carrying, Truthful
      <4>2. panel \in [Panels -> Sites \cup {NoSite}] /\ \A p \in Panels : panel[p] = selected
        BY <3>1 DEF TypeInv, ViewType, UpToDate
      <4>3. QED
        BY <3>1, <4>1, <4>2
    <3>2. QED
      BY <1>2, <1>7, <3>1 DEF ReceivePanel, UpToDate
  <2>2. NetworkSettled'
    BY <1>1, <1>7, ReleaseSettled DEF ReceivePanel
  <2>3. QED
    BY <1>1, <1>7, <2>1, <2>2 DEF ReceivePanel, tables, UpToDate
<1>8. CASE ReceiveAdd(c) \/ ReceiveDelete(c)
  <2>1. Released(c) \in [Connections -> Fitting \cup {Free}]
    BY ReleaseKeeps DEF NetworkSettled
  <2>2. Lists(waiting) \in Seq(TimelyRequests)
    BY ListsType, TimelyFetches DEF TypeInv, ViewType, NetworkSettled
  <2>3. CASE /\ wire' = Released(c) /\ waiting' \in {waiting, Lists(waiting)}
             /\ UNCHANGED view
    <3>1. NetworkSettled'
      BY <1>1, <2>1, <2>2, <2>3, StaySettled DEF view, NetworkSettled
    <3>2. QED
      BY <1>1, <2>3, <3>1 DEF tables, view, UpToDate
  <2>4. CASE ShowDashboard(waiting, Released(c)) /\ UNCHANGED <<targets, results>>
    BY <1>1, <2>1, <2>4, LeaveSettled
  <2>5. QED
    BY <1>8, <2>3, <2>4 DEF ReceiveAdd, ReceiveDelete, view
<1>9. QED
  BY <1>4, <1>5, <1>6, <1>7, <1>8 DEF Receive

LEMMA SettledStep ==
  ASSUME TypeInv, UpToDate, NetworkSettled, Next
  PROVE  \/ UpToDate' /\ NetworkSettled'
         \/ \E s \in Sites : SelectSite(s) \/ AddSite(s) \/ DeleteSite(s) \/ Elsewhere(s)
<1>1. CASE Back
  <2>1. ShowDashboard(waiting, wire) /\ UNCHANGED <<tables, targets, results>>
    BY <1>1 DEF Back
  <2>2. QED
    BY <2>1, LeaveSettled DEF NetworkSettled
<1>2. ASSUME NEW c \in Connections, Fail(c) PROVE UpToDate' /\ NetworkSettled'
  <2>1. wire' = Released(c) /\ UNCHANGED <<tables, view, waiting>>
    BY <1>2 DEF Fail, Released
  <2>2. NetworkSettled'
    BY <2>1, ReleaseSettled DEF view
  <2>3. QED
    BY <2>1, <2>2 DEF tables, view, UpToDate
<1>3. QED
  BY <1>1, <1>2, TickSettled, SendSettled, AnswerSettled, ReceiveSettled DEF Next, User

(* Once the page shows the truth and nothing under way could tell it        *)
(* otherwise, only the user's next selection, a request to add or delete    *)
(* and a change by others can make it wrong: no poll, no failed request, no *)
(* order of the answers and no answer to a request of a site that was left  *)
(* (page.tsx:52-106, 132-177, SiteDetail.tsx:80-126).                       *)
THEOREM TruthIsKept == Spec => TruthStays
<1>1. TypeInv /\ Settled /\ [Next]_vars =>
        \/ Settled' \/ UNCHANGED vars
        \/ \E s \in Sites : SelectSite(s) \/ AddSite(s) \/ DeleteSite(s) \/ Elsewhere(s)
  BY TypeInvIsStronger, SettledNetwork, SettledStep, NetworkSettlesNext
<1>2. TypeInv /\ [Next]_vars =>
        [Settled => Settled' \/ \E s \in Sites :
           SelectSite(s) \/ AddSite(s) \/ DeleteSite(s) \/ Elsewhere(s)]_vars
  BY <1>1
<1>3. QED
  BY <1>2, TypeInvAlways, PTL DEF Spec, TruthStays
=============================================================================
