----------------------------- MODULE IncidentReport -----------------------------
(***************************************************************************)
(* What GET /api/incidents answers about a site, at whatever moment of     *)
(* AlertManager it is asked: api/incidents.go over GetIncidentHistory.     *)
(* The page takes the first "Active" incident of the answer for the outage *)
(* under way (SiteDetail.tsx:135).                                         *)
(***************************************************************************)
EXTENDS AlertManager, SequencesExt, FiniteSetsExt

CONSTANTS
  DefaultLimit,  \* 50
  MaxLimit,      \* 200
  Asked,         \* the limits asked for; 0 is none, or one that is no number
  TickSeconds,   \* the seconds of a tick of the clock
  Delays         \* when the answer is computed: seconds after the tick

ASSUME ReportAssumption ==
  /\ {DefaultLimit, MaxLimit, TickSeconds} \subseteq Nat \ {0}
  /\ Asked \subseteq Nat /\ Delays \subseteq 0 .. TickSeconds - 1

-----------------------------------------------------------------------------
ParseLimit(n, default, max) ==
  IF n < 1 THEN default ELSE IF n > max THEN max ELSE n

MutantNewestFirst(list) ==
  \A j, k \in DOMAIN list : j < k => incidents[list[j]].startedAt <= incidents[list[k]].startedAt

NewestFirst(list) ==
  \A j, k \in DOMAIN list : j < k => incidents[list[j]].startedAt >= incidents[list[k]].startedAt

(* Rows that are equal in started_at come in any order.                     *)
GetIncidentHistory(limit) ==
  {SubSeq(s, 1, Min({limit, Len(s)})) : s \in {t \in SetToSeqs(DOMAIN incidents) : NewestFirst(t)}}

(* The parts of the text; one that is 0 is left out, and seconds are only   *)
(* told of less than a minute.                                              *)
MutantText(seconds) ==
  LET minutes == seconds \div 60 IN
  [h |-> minutes \div 60, m |-> minutes, s |-> IF minutes > 0 THEN 0 ELSE seconds]

Text(seconds) ==
  LET minutes == seconds \div 60 IN
  [h |-> minutes \div 60, m |-> minutes % 60, s |-> IF minutes > 0 THEN 0 ELSE seconds]

FormatIncidentDuration(seconds) == Text(IF seconds < 0 THEN 0 ELSE seconds)

IncidentToResponse(i, delay) ==
  LET inc == incidents[i]
      ended == inc.status = "resolved" /\ inc.resolvedAt # NULL
      seconds == IF ended THEN (inc.resolvedAt - inc.startedAt) * TickSeconds
                 ELSE (now - inc.startedAt) * TickSeconds + delay
  IN [id |-> i, startedAt |-> inc.startedAt, resolvedAt |-> inc.resolvedAt,
      status |-> IF inc.status = "open" THEN "Active" ELSE "Resolved",
      durationSecs |-> seconds, duration |-> FormatIncidentDuration(seconds)]

(* Every answer the handler may give now to a request with limit n          *)
Answers(n) ==
  {[k \in DOMAIN list |-> IncidentToResponse(list[k], delay)] :
     list \in GetIncidentHistory(ParseLimit(n, DefaultLimit, MaxLimit)), delay \in Delays}

-----------------------------------------------------------------------------
(* The first that is Active, as the page looks for it; 0 if there is none.  *)
ShownOutage(answer) ==
  LET active == {k \in DOMAIN answer : answer[k].status = "Active"} IN
  IF active = {} THEN 0 ELSE answer[Min(active)].id

SameStart(i, j) == incidents[i].startedAt = incidents[j].startedAt

(* However small the limit, the outage that the page shows is the one that  *)
(* the alert manager would find (incidents.go:93-96, :117-121): no LIMIT    *)
(* hides an open incident behind those that are over, and none is shown     *)
(* when all are.  Two that begin at the same moment are not told apart.     *)
OpenOutageIsShown ==
  \A n \in Asked : \A answer \in Answers(n) :
    \/ OpenIds = {} /\ ShownOutage(answer) = 0
    \/ ShownOutage(answer) \in LatestOpen
    \/ \E i \in LatestOpen, j \in DOMAIN incidents \ OpenIds : SameStart(i, j)

(* The duration in words and in seconds agree up to the unit that the words *)
(* are cut to (api/incidents.go:26-46, :65), whatever order of checks has   *)
(* opened and resolved the incident: words are never negative, so the       *)
(* number must not be.                                                      *)
DurationsAgree ==
  \A i \in DOMAIN incidents, delay \in Delays :
    LET answer == IncidentToResponse(i, delay)
        told == answer.duration
        inSeconds == 3600 * told.h + 60 * told.m + told.s
        unit == IF inSeconds < 60 THEN 1 ELSE 60
    IN answer.durationSecs \in inSeconds .. inSeconds + unit - 1
=============================================================================
