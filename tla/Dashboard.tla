------------------------------- MODULE Dashboard -------------------------------
(***************************************************************************)
(* The single page application (frontend/app/page.tsx and its components)  *)
(* over the read side of the API: the lists it shows are answers to        *)
(* requests that overtake one another, sent every 5 seconds and on every   *)
(* click, while sites are checked and other clients add and delete them.   *)
(*                                                                         *)
(* Of the rows of a site only the state of the newest one is kept, which   *)
(* the LIMIT of no query reaches.  alive (page.tsx:15) is left out: a      *)
(* cleanup sets it to false, and the effect that runs with it to true, so  *)
(* no answer finds it false as long as the page is open.                   *)
(***************************************************************************)
EXTENDS Integers, Sequences, SequencesExt, FiniteSets

CONSTANTS
  Sites,        \* targets
  NoSite,       \* "null", a value that is no site
  Panels,       \* the lists SiteDetail fetches: "incidents", "ssl"
  Connections,  \* the browser's connections to the API
  Free,         \* a connection without a request, a value that is no request
  MaxEvents     \* bound on clicks, failed requests and changes by others

ASSUME DashboardAssumption ==
  /\ NoSite \notin Sites
  /\ Panels \subseteq {"incidents", "ssl"}
  /\ MaxEvents \in Nat

VARIABLES
  monitored,  \* active_monitors
  newest,     \* per site, the newest row of ping_results
  targets, results, selected, siteLogs,  \* the state of Home
  panel,      \* the state of SiteDetail: the site whose data each panel shows
  waiting,    \* requests that wait for a connection, first in first out
  wire,       \* per connection, the request it carries and its answer
  events      \* observer: what MaxEvents counts

tables == <<monitored, newest>>
view == <<targets, results, selected, siteLogs, panel>>
network == <<waiting, wire>>
vars == <<tables, view, network, events>>

-----------------------------------------------------------------------------
Row == {"none", "up", "down"}

NoRows == [s \in Sites |-> "none"]

(* The rows of one site; the empty list does not tell whose it is           *)
Logs(s, row) == IF row = "none" THEN [site |-> NoSite, row |-> row] ELSE [site |-> s, row |-> row]

NoLogs == Logs(NoSite, "none")

NoPanels == [p \in Panels |-> NoSite]

(* A request, with what its closure holds: the selection when it was sent   *)
Fetch(kind, s) == [kind |-> kind, site |-> s, seen |-> NoSite]

Requests ==
  [kind : {"targets", "status", "logs", "add", "delete", "ignored"} \cup Panels,
   site : Sites \cup {NoSite}, seen : Sites \cup {NoSite}]

(* What the server tells of its tables; ok is res.ok                        *)
Answers == [done : BOOLEAN, ok : BOOLEAN, monitored : SUBSET Sites, newest : [Sites -> Row]]

NotYet == [done |-> FALSE, ok |-> FALSE, monitored |-> {}, newest |-> NoRows]

Carrying(c, kind) == wire[c] # Free /\ wire[c].request.kind = kind

(* A request that joins the queue, unless it is there already               *)
Missing(queue, r) == IF Contains(queue, r) THEN <<>> ELSE <<r>>

(* fetchTargets and fetchStatus                                             *)
Lists(queue) ==
  queue \o Missing(queue, Fetch("targets", NoSite)) \o Missing(queue, Fetch("status", NoSite))

(* fetchIncidents and fetchSSL                                              *)
Detail(queue, p, s) == IF p \in Panels THEN Missing(queue, Fetch(p, s)) ELSE <<>>

(* What the effects and the intervals of Home and of SiteDetail fetch       *)
Refresh(queue, s) ==
  IF s = NoSite THEN Lists(queue)
  ELSE Lists(queue) \o Missing(queue, Fetch("logs", s))
         \o Detail(queue, "incidents", s) \o Detail(queue, "ssl", s)

(* A SiteDetail that is gone does not cancel its requests, but the answers  *)
(* to them change nothing any more.                                         *)
Abandoned(r) == IF r.kind \in Panels THEN Fetch("ignored", NoSite) ELSE r

MutantUnmounted(queue, carried) == <<queue, carried>>

Unmounted(queue, carried) ==
  << [k \in DOMAIN queue |-> Abandoned(queue[k])],
     [c \in Connections |->
        IF carried[c] = Free THEN Free ELSE [carried[c] EXCEPT !.request = Abandoned(@)]] >>

-----------------------------------------------------------------------------
(* setSelectedSite: the effects of Home fetch everything anew, SiteDetail   *)
(* is mounted for the first site, kept from one site to another with what   *)
(* it shows, and unmounted when there is no site.                           *)
ShowSite(s, queue, carried) ==
  /\ selected' = s
  /\ waiting' = Refresh(queue, s)
  /\ wire' = carried
  /\ UNCHANGED panel

ShowDashboard(queue, carried) ==
  LET left == Unmounted(queue, carried) IN
  /\ selected' = NoSite
  /\ siteLogs' = NoLogs
  /\ panel' = NoPanels
  /\ waiting' = Lists(left[1])
  /\ wire' = left[2]

(* A click, a failure or a change by others, of which there are finitely    *)
(* many in a row                                                            *)
Event == events < MaxEvents /\ events' = events + 1

(* handleSelectSite                                                         *)
SelectSite(s) ==
  /\ Event /\ s \in targets
  /\ \/ s # selected /\ ShowSite(s, waiting, wire) /\ UNCHANGED siteLogs
     \/ s = selected /\ ShowDashboard(waiting, wire)
  /\ UNCHANGED <<tables, targets, results>>

(* onBack                                                                   *)
Back ==
  /\ Event /\ selected # NoSite
  /\ ShowDashboard(waiting, wire)
  /\ UNCHANGED <<tables, targets, results>>

(* handleSubmit, unless isSubmitting: handleAddSite sends the POST          *)
AddSite(s) ==
  /\ Event
  /\ \A r \in ToSet(waiting) : r.kind # "add"
  /\ \A c \in Connections : ~Carrying(c, "add")
  /\ waiting' = Append(waiting, Fetch("add", s))
  /\ UNCHANGED <<tables, view, wire>>

(* handleDeleteSite sends the DELETE; its closure holds selectedSite        *)
DeleteSite(s) ==
  /\ Event /\ s \in targets
  /\ waiting' = Append(waiting, [Fetch("delete", s) EXCEPT !.seen = selected])
  /\ UNCHANGED <<tables, view, wire>>

(* The intervals of Home and SiteDetail                                     *)
MutantTick ==
  /\ waiting' = Lists(waiting) /\ waiting' # waiting
  /\ UNCHANGED <<tables, view, wire, events>>

Tick ==
  /\ waiting' = Refresh(waiting, selected) /\ waiting' # waiting
  /\ UNCHANGED <<tables, view, wire, events>>

-----------------------------------------------------------------------------
Send(c) ==
  /\ wire[c] = Free /\ waiting # <<>>
  /\ wire' = [wire EXCEPT ![c] = [request |-> Head(waiting), answer |-> NotYet]]
  /\ waiting' = Tail(waiting)
  /\ UNCHANGED <<tables, view, events>>

Asked(c) == wire[c] # Free /\ ~wire[c].answer.done

Reply(c, ok, sites, rows) ==
  wire' = [wire EXCEPT ![c].answer =
             [done |-> TRUE, ok |-> ok, monitored |-> sites, newest |-> rows]]

(* GetTargetsHandler                                                        *)
AnswerTargets(c) ==
  /\ Asked(c) /\ Carrying(c, "targets")
  /\ Reply(c, TRUE, monitored, NoRows)
  /\ UNCHANGED <<tables, view, waiting, events>>

(* GetStatusHandler: rows of any target, monitored or not                   *)
AnswerStatus(c) ==
  /\ Asked(c) /\ Carrying(c, "status")
  /\ Reply(c, TRUE, {}, newest)
  /\ UNCHANGED <<tables, view, waiting, events>>

(* GetLogsHandler                                                           *)
AnswerLogs(c) ==
  /\ Asked(c) /\ Carrying(c, "logs")
  /\ LET s == wire[c].request.site IN Reply(c, TRUE, {}, [NoRows EXCEPT ![s] = newest[s]])
  /\ UNCHANGED <<tables, view, waiting, events>>

(* GetIncidentsHandler, GetSSLHandler: of their data only the site is kept  *)
AnswerPanel(c) ==
  /\ Asked(c) /\ \E p \in Panels \cup {"ignored"} : Carrying(c, p)
  /\ Reply(c, TRUE, {}, NoRows)
  /\ UNCHANGED <<tables, view, waiting, events>>

(* AddMonitorHandler: 202, or 409 if the target is there                    *)
AnswerAdd(c) ==
  /\ Asked(c) /\ Carrying(c, "add")
  /\ LET s == wire[c].request.site IN
       /\ Reply(c, s \notin monitored, {}, NoRows)
       /\ monitored' = monitored \cup {s}
  /\ UNCHANGED <<newest, view, waiting, events>>

(* DeleteMonitorHandler                                                     *)
AnswerDelete(c) ==
  /\ Asked(c) /\ Carrying(c, "delete")
  /\ LET s == wire[c].request.site IN
       /\ Reply(c, TRUE, {}, NoRows)
       /\ monitored' = monitored \ {s}
       /\ newest' = [newest EXCEPT ![s] = "none"]
  /\ UNCHANGED <<view, waiting, events>>

(* The request does not reach the server, or an error comes back: the catch *)
(* branches and "if (!res.ok) return" leave everything as it is.            *)
Fail(c) ==
  /\ Event /\ Asked(c)
  /\ wire' = [wire EXCEPT ![c] = Free]
  /\ UNCHANGED <<tables, view, waiting>>

-----------------------------------------------------------------------------
Answered(c) == wire[c] # Free /\ wire[c].answer.done

Released(c) == [wire EXCEPT ![c] = Free]

(* fetchTargets, after the await                                            *)
ReceiveTargets(c) ==
  /\ Answered(c) /\ Carrying(c, "targets")
  /\ targets' = wire[c].answer.monitored
  /\ wire' = Released(c)
  /\ UNCHANGED <<tables, results, selected, siteLogs, panel, waiting, events>>

(* fetchStatus, after the await; siteStatuses is computed from results      *)
ReceiveStatus(c) ==
  /\ Answered(c) /\ Carrying(c, "status")
  /\ results' = wire[c].answer.newest
  /\ wire' = Released(c)
  /\ UNCHANGED <<tables, targets, selected, siteLogs, panel, waiting, events>>

(* fetchSiteLogs, after the await: whatever site is selected by now         *)
ReceiveLogs(c) ==
  /\ Answered(c) /\ Carrying(c, "logs")
  /\ LET s == wire[c].request.site IN siteLogs' = Logs(s, wire[c].answer.newest[s])
  /\ wire' = Released(c)
  /\ UNCHANGED <<tables, targets, results, selected, panel, waiting, events>>

(* fetchIncidents and fetchSSL, after the await                             *)
ReceivePanel(c) ==
  /\ Answered(c)
  /\ \/ \E p \in Panels : Carrying(c, p) /\ panel' = [panel EXCEPT ![p] = wire[c].request.site]
     \/ Carrying(c, "ignored") /\ UNCHANGED panel
  /\ wire' = Released(c)
  /\ UNCHANGED <<tables, targets, results, selected, siteLogs, waiting, events>>

(* handleAddSite, after the await                                           *)
MutantReceiveAdd(c) ==
  /\ Answered(c) /\ Carrying(c, "add")
  /\ targets' = IF wire[c].answer.ok THEN targets \cup {wire[c].request.site} ELSE targets
  /\ wire' = Released(c)
  /\ UNCHANGED <<tables, results, selected, siteLogs, panel, waiting, events>>

ReceiveAdd(c) ==
  /\ Answered(c) /\ Carrying(c, "add")
  /\ waiting' = IF wire[c].answer.ok THEN Lists(waiting) ELSE waiting
  /\ wire' = Released(c)
  /\ UNCHANGED <<tables, view, events>>

(* handleDeleteSite, after the await: the site is left if it was selected   *)
(* when its delete button was clicked.                                      *)
ReceiveDelete(c) ==
  /\ Answered(c) /\ Carrying(c, "delete")
  /\ LET request == wire[c].request IN
       \/ /\ request.seen = request.site
          /\ ShowDashboard(waiting, Released(c))
       \/ /\ request.seen # request.site
          /\ waiting' = Lists(waiting)
          /\ wire' = Released(c)
          /\ UNCHANGED <<selected, siteLogs, panel>>
  /\ UNCHANGED <<tables, targets, results, events>>

-----------------------------------------------------------------------------
(* The rest of the system: a check of a site is stored, possibly after the  *)
(* site was deleted (see MonitorLifecycle), and other clients add and       *)
(* delete sites.                                                            *)
Elsewhere(s) ==
  /\ Event
  /\ \/ /\ \E row \in Row \ {"none"} : newest' = [newest EXCEPT ![s] = row]
        /\ UNCHANGED monitored
     \/ monitored' = monitored \cup {s} /\ UNCHANGED newest
     \/ monitored' = monitored \ {s} /\ newest' = [newest EXCEPT ![s] = "none"]
  /\ UNCHANGED <<view, network>>

(* The page is opened: its effects fetch the lists.                         *)
Init ==
  /\ monitored \in SUBSET Sites /\ newest = NoRows
  /\ targets = {} /\ results = NoRows /\ selected = NoSite /\ siteLogs = NoLogs
  /\ panel = NoPanels
  /\ waiting = Lists(<<>>) /\ wire = [c \in Connections |-> Free]
  /\ events = 0

User == Back \/ \E s \in Sites : SelectSite(s) \/ AddSite(s) \/ DeleteSite(s)

Answer(c) ==
  \/ AnswerTargets(c) \/ AnswerStatus(c) \/ AnswerLogs(c) \/ AnswerPanel(c)
  \/ AnswerAdd(c) \/ AnswerDelete(c)

Receive(c) ==
  \/ ReceiveTargets(c) \/ ReceiveStatus(c) \/ ReceiveLogs(c) \/ ReceivePanel(c)
  \/ ReceiveAdd(c) \/ ReceiveDelete(c)

Next ==
  \/ User \/ Tick
  \/ \E c \in Connections : Send(c) \/ Answer(c) \/ Fail(c) \/ Receive(c)
  \/ \E s \in Sites : Elsewhere(s)

Spec == Init /\ [][Next]_vars

(* The intervals go on as long as the page is open, and requests end.       *)
Fairness ==
  /\ WF_vars(Tick)
  /\ \A c \in Connections : WF_vars(Send(c)) /\ WF_vars(Answer(c)) /\ WF_vars(Receive(c))

FairSpec == Spec /\ Fairness

-----------------------------------------------------------------------------
(* The types, and: without a site selected there is no SiteDetail that      *)
(* could show anything (page.tsx:166-177).                                  *)
TypeOK ==
  /\ monitored \subseteq Sites /\ targets \subseteq Sites
  /\ newest \in [Sites -> Row] /\ results \in [Sites -> Row]
  /\ selected \in Sites \cup {NoSite}
  /\ siteLogs \in [site : Sites \cup {NoSite}, row : Row]
  /\ panel \in [Panels -> Sites \cup {NoSite}]
  /\ waiting \in Seq(Requests)
  /\ wire \in [Connections -> [request : Requests, answer : Answers] \cup {Free}]
  /\ events \in 0..MaxEvents
  /\ selected = NoSite => panel = NoPanels

(* What the page shows is what the tables hold and what was selected.       *)
UpToDate ==
  /\ targets = monitored
  /\ results = newest
  /\ selected # NoSite =>
       /\ siteLogs = Logs(selected, newest[selected])
       /\ \A p \in Panels : panel[p] = selected

(* Once the user, the other clients and the checks come to rest, the page   *)
(* ends up with the truth and keeps it: an old answer that overtook a newer *)
(* one, or one of a site that was left, is replaced by a later poll         *)
(* (page.tsx:137-141, SiteDetail.tsx:121-124).                              *)
PageConverges == <>[]UpToDate

(* A request that may still be answered, in whatever order                  *)
Timely(r) ==
  /\ r.kind \notin {"add", "delete"}
  /\ selected # NoSite /\ r.kind \in Panels \cup {"logs"} => r.site = selected

Truthful(r, answer) ==
  /\ r.kind = "targets" => answer.monitored = monitored
  /\ r.kind = "status" => answer.newest = newest
  /\ selected # NoSite =>
       /\ r.kind \in Panels \cup {"logs"} => r.site = selected
       /\ r.kind = "logs" => answer.newest[selected] = newest[selected]

(* The page shows the truth, and nothing under way could tell it otherwise. *)
Settled ==
  /\ UpToDate
  /\ \A r \in ToSet(waiting) : Timely(r)
  /\ \A c \in Connections : wire[c] # Free =>
       IF wire[c].answer.done THEN Truthful(wire[c].request, wire[c].answer)
       ELSE Timely(wire[c].request)

(* Then neither polls, failed requests, answers in any order, nor leaving   *)
(* the site make it wrong again: only another selection, a request to add   *)
(* or delete and a change by others do (page.tsx:132-153).  So the closures *)
(* of the intervals and of what follows each await never bring back a site  *)
(* or a list that was left.                                                 *)
TruthStays ==
  [][Settled => Settled' \/ \E s \in Sites :
       SelectSite(s) \/ AddSite(s) \/ DeleteSite(s) \/ Elsewhere(s)]_vars
=============================================================================
