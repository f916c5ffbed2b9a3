----------------------------- MODULE IncidentProofs -----------------------------
(***************************************************************************)
(* Theorems about AlertManager, SiteAlerts and IncidentReport as long as   *)
(* one check of the site is handled at a time: what happens to an incident *)
(* from the lookup before its insert to its recovery.                      *)
(***************************************************************************)
EXTENDS IncidentReport, SiteAlerts, AlertManagerProofs, FiniteSetTheorems

OneAtATime == \A p, q \in Procs : p = q

-----------------------------------------------------------------------------
(* The ways of a goroutine between its lookups, sends and writes            *)

Leads ==
  [process_check   |-> {"dispatch"},
   dispatch        |-> {"recovery_lookup", "should_alert", "idle"},
   should_alert    |-> {"judge"},
   judge           |-> {"alert_lookup", "escalate_lookup"},
   escalate        |-> {"weigh"},
   weigh           |-> {"send_escalation", "idle"},
   cool_down       |-> {"stamp_down"},
   cool_recovery   |-> {"stamp_recovery"},
   cool_escalation |-> {"stamp_escalation"},
   stamp_down      |-> {"escalate_lookup"},
   stamp_recovery  |-> {"resolve"},
   stamp_escalation |-> {"idle"}]

Follows(h, g) == h = g \/ (h \in DOMAIN Leads /\ g \in Leads[h])

LEMMA FromDispatch ==
  "dispatch" \in DOMAIN Leads /\ Leads["dispatch"] = {"recovery_lookup", "should_alert", "idle"}
  BY DEF Leads

(* Goroutine p goes on with locals c, about the same check, and nothing     *)
(* else changes that an incident depends on.                                *)
MovesOn(p, c) ==
  /\ Continue(p, c) /\ UNCHANGED <<now, incidents, log>>
  /\ call[p].pc # "idle" /\ c.at = call[p].at

(* It keeps the arguments of its check, and where a load or save returns to.*)
Kept(c, p) == c.up = call[p].up /\ c.ret = call[p].ret

LEMMA Walked ==
  ASSUME NEW p \in Procs, TypeOK,
         \/ BeginLoad(p) \/ GetFailures(p) \/ GetCooldown(p) \/ GetIsDown(p)
         \/ Save(p) \/ SaveMemory(p)
         \/ HandleRecovery(p) \/ HandleFailure(p) \/ Judge(p) \/ Weigh(p) \/ SetAlertCooldown(p)
  PROVE  \E c \in Call : /\ MovesOn(p, c) /\ c.inc = call[p].inc
                         /\ Follows(Heading(call[p]), Heading(c))
<1>1. /\ call[p] \in Call /\ call[p].ret \in Points /\ call[p].st \in AlertState
      /\ redis \in AlertState /\ mem \in AlertState
  BY DEF TypeOK, Call
<1>2. /\ UNCHANGED <<now, incidents, log>> /\ call[p].pc # "idle"
  BY DEF BeginLoad, GetFailures, GetCooldown, GetIsDown, Save, SaveMemory, HandleRecovery,
         HandleFailure, Judge, Weigh, SetAlertCooldown, env, observers, At, AfterLoad, AfterStamp
<1>3. ASSUME NEW c \in Call, Continue(p, c), c.inc = call[p].inc, c.at = call[p].at,
             Follows(Heading(call[p]), Heading(c))
      PROVE  \E d \in Call : /\ MovesOn(p, d) /\ d.inc = call[p].inc
                             /\ Follows(Heading(call[p]), Heading(d))
  BY <1>2, <1>3 DEF MovesOn
<1>4. CASE BeginLoad(p)
  <2> DEFINE next == AfterLoad[call[p].pc]
             c == IF redisUp
                  THEN [call[p] EXCEPT !.pc = "get_failures", !.ret = next, !.st = ZeroState]
                  ELSE [call[p] EXCEPT !.pc = next, !.ret = next, !.st = mem]
  <2>1. call[p].pc \in DOMAIN AfterLoad /\ next \in Points
    BY <1>4 DEF BeginLoad, AfterLoad, Points
  <2>2. c \in Call
    BY <1>1, <2>1 DEF Call, Points, ZeroState, AlertState, NULL
  <2>3. Heading(c) = next
    BY <1>1, <2>1 DEF Call, Heading, Transit, AfterLoad
  <2>4. Heading(call[p]) = call[p].pc /\ next \in Leads[call[p].pc] /\ call[p].pc \in DOMAIN Leads
    BY <2>1 DEF AfterLoad, Heading, Transit, Leads
  <2>5. c.inc = call[p].inc /\ c.at = call[p].at
    BY <1>1 DEF Call
  <2>6. Continue(p, c)
    BY <1>4 DEF BeginLoad
  <2>7. QED
    BY <1>3, <2>2, <2>3, <2>4, <2>5, <2>6 DEF Follows
<1>5. CASE GetFailures(p)
  <2> DEFINE c == [call[p] EXCEPT !.pc = "get_cooldown",
                     !.st.failures = IF Readable THEN redis.failures ELSE @]
  <2>1. c \in Call /\ c.inc = call[p].inc /\ c.at = call[p].at
    BY <1>1 DEF Call, Points, AlertState
  <2>2. Heading(c) = Heading(call[p])
    BY <1>1, <1>5 DEF GetFailures, At, Call, Heading, Transit
  <2>3. Continue(p, c)
    BY <1>5 DEF GetFailures
  <2>4. QED
    BY <1>3, <2>1, <2>2, <2>3 DEF Follows
<1>6. CASE GetCooldown(p)
  <2> DEFINE c == [call[p] EXCEPT !.pc = "get_isdown",
                     !.st.lastAlert = IF Readable THEN redis.lastAlert ELSE @]
  <2>1. c \in Call /\ c.inc = call[p].inc /\ c.at = call[p].at
    BY <1>1 DEF Call, Points, AlertState
  <2>2. Heading(c) = Heading(call[p])
    BY <1>1, <1>6 DEF GetCooldown, At, Call, Heading, Transit
  <2>3. Continue(p, c)
    BY <1>6 DEF GetCooldown
  <2>4. QED
    BY <1>3, <2>1, <2>2, <2>3 DEF Follows
<1>7. CASE GetIsDown(p)
  <2> DEFINE c == [call[p] EXCEPT !.pc = call[p].ret,
                     !.st.isDown = IF Readable THEN redis.isDown ELSE @]
  <2>1. c \in Call /\ c.inc = call[p].inc /\ c.at = call[p].at
    BY <1>1 DEF Call, Points, AlertState
  <2>2. Heading(c) = Heading(call[p])
    BY <1>1, <1>7 DEF GetIsDown, At, Call, Heading, Transit
  <2>3. Continue(p, c)
    BY <1>7 DEF GetIsDown
  <2>4. QED
    BY <1>3, <2>1, <2>2, <2>3 DEF Follows
<1>8. CASE Save(p) \/ SaveMemory(p)
  <2>1. PICK point \in {"save_memory", call[p].ret} : Goto(p, point)
    BY <1>8 DEF Save, SaveMemory
  <2> DEFINE c == [call[p] EXCEPT !.pc = point]
  <2>2. c \in Call /\ c.inc = call[p].inc /\ c.at = call[p].at
    BY <1>1, <2>1 DEF Call, Points
  <2>3. Heading(c) = Heading(call[p])
    BY <1>1, <1>8, <2>1 DEF Save, SaveMemory, At, Call, Heading, Transit
  <2>4. Continue(p, c)
    BY <2>1 DEF Goto
  <2>5. QED
    BY <1>3, <2>2, <2>3, <2>4 DEF Follows
<1>9. CASE HandleRecovery(p)
  <2> DEFINE c == [call[p] EXCEPT !.pc = "save", !.st = Cleared(call[p].st),
                     !.ret = IF call[p].st.isDown THEN "recovery_lookup" ELSE "idle"]
  <2>1. c \in Call /\ c.inc = call[p].inc /\ c.at = call[p].at
    BY <1>1, StatesType DEF Call, Points
  <2>2. Heading(c) \in {"recovery_lookup", "idle"} /\ Heading(call[p]) = "dispatch"
    BY <1>1, <1>9 DEF Call, Heading, Transit, HandleRecovery, At
  <2>3. Continue(p, c)
    BY <1>9 DEF HandleRecovery
  <2>4. QED
    BY <1>3, <2>1, <2>2, <2>3, FromDispatch DEF Follows
<1>10. CASE HandleFailure(p)
  <2> DEFINE s == Incremented(call[p].st)
             c == [call[p] EXCEPT !.pc = "save", !.st = s,
                     !.ret = IF BelowThreshold(s) THEN "idle" ELSE "should_alert"]
  <2>1. c \in Call /\ c.inc = call[p].inc /\ c.at = call[p].at
    BY <1>1, StatesType DEF Call, Points
  <2>2. Heading(c) \in {"should_alert", "idle"} /\ Heading(call[p]) = "dispatch"
    BY <1>1, <1>10 DEF Call, Heading, Transit, HandleFailure, At
  <2>3. Continue(p, c)
    BY <1>10 DEF HandleFailure
  <2>4. QED
    BY <1>3, <2>1, <2>2, <2>3, FromDispatch DEF Follows
<1>11. CASE Judge(p) \/ Weigh(p)
  <2>1. PICK point \in Points \ Transit :
           /\ Goto(p, point) /\ call[p].pc \in DOMAIN Leads
           /\ point \in Leads[call[p].pc] /\ Heading(call[p]) = call[p].pc
    <3>1. CASE Judge(p)
      BY <3>1 DEF Judge, Points, Transit, At, Leads, Heading
    <3>2. CASE Weigh(p)
      BY <3>2 DEF Weigh, Points, Transit, At, Leads, Heading
    <3>3. QED
      BY <1>11, <3>1, <3>2
  <2> DEFINE c == [call[p] EXCEPT !.pc = point]
  <2>2. c \in Call /\ c.inc = call[p].inc /\ c.at = call[p].at /\ Heading(c) = point
    BY <1>1, <2>1 DEF Call, Heading
  <2>3. Continue(p, c)
    BY <2>1 DEF Goto
  <2>4. QED
    BY <1>3, <2>1, <2>2, <2>3 DEF Follows
<1>12. CASE SetAlertCooldown(p)
  <2> DEFINE next == AfterStamp[call[p].pc]
             c == [call[p] EXCEPT !.pc = "save", !.st.lastAlert = call[p].at, !.ret = next]
  <2>1. /\ next \in Points /\ call[p].pc \in DOMAIN Leads /\ next \in Leads[call[p].pc]
        /\ Heading(call[p]) = call[p].pc
    BY <1>12 DEF SetAlertCooldown, AfterStamp, Points, Leads, Heading, Transit
  <2>2. c \in Call /\ c.inc = call[p].inc /\ c.at = call[p].at
    BY <1>1, <2>1 DEF Call, Points, AlertState
  <2>3. Heading(c) = next
    BY <1>1, <2>1 DEF Call, Heading, Transit
  <2>4. Continue(p, c)
    BY <1>12 DEF SetAlertCooldown
  <2>5. QED
    BY <1>3, <2>1, <2>2, <2>3, <2>4 DEF Follows
<1>13. QED
  BY <1>4, <1>5, <1>6, <1>7, <1>8, <1>9, <1>10, <1>11, <1>12

(* A lookup finds no open row, or one of those that started last.           *)
LEMMA LookedUp ==
  ASSUME NEW p \in Procs, TypeOK, call[p].pc # "idle",
         NEW onError \in Points \ Transit, NEW onNone \in Points \ Transit,
         NEW onFound \in [OpenIds -> Points \ Transit],
         GetOpenIncident(p, onError, onNone, onFound)
  PROVE  \E c \in Call :
           /\ MovesOn(p, c) /\ Heading(c) = c.pc /\ Kept(c, p)
           /\ \/ "db" \in Faults /\ c.pc = onError
              \/ OpenIds = {} /\ c.pc = onNone
              \/ c.inc \in OpenIds /\ c.pc = onFound[c.inc]
<1>1. call[p] \in Call /\ UNCHANGED <<now, incidents, log>>
  BY DEF TypeOK, GetOpenIncident, env, observers
<1>2. \A i \in OpenIds : i \in Nat
  BY DEF OpenIds, TypeOK
<1>3. CASE "db" \in Faults /\ Goto(p, onError)
  <2> DEFINE c == [call[p] EXCEPT !.pc = onError]
  <2>1. c \in Call /\ c.pc = onError /\ c.at = call[p].at
        /\ Kept(c, p)
    BY <1>1 DEF Kept, Call
  <2>2. Continue(p, c)
    BY <1>3 DEF Goto
  <2>3. QED
    BY <1>1, <1>3, <2>1, <2>2 DEF MovesOn, Heading
<1>4. CASE OpenIds = {} /\ Continue(p, [call[p] EXCEPT !.pc = onNone, !.inc = NULL])
  <2> DEFINE c == [call[p] EXCEPT !.pc = onNone, !.inc = NULL]
  <2>1. c \in Call /\ c.pc = onNone /\ c.at = call[p].at
        /\ Kept(c, p)
    BY <1>1 DEF Kept, Call, NULL
  <2>2. QED
    BY <1>1, <1>4, <2>1 DEF MovesOn, Heading
<1>5. ASSUME NEW i \in LatestOpen,
             Continue(p, [call[p] EXCEPT !.pc = onFound[i], !.inc = i])
      PROVE  \E c \in Call : /\ MovesOn(p, c) /\ Heading(c) = c.pc /\ Kept(c, p)
                             /\ c.inc \in OpenIds /\ c.pc = onFound[c.inc]
  <2> DEFINE c == [call[p] EXCEPT !.pc = onFound[i], !.inc = i]
  <2>1. i \in OpenIds /\ i \in Nat /\ onFound[i] \in Points \ Transit
    BY <1>2 DEF LatestOpen
  <2>2. c \in Call /\ c.pc = onFound[i] /\ c.inc = i /\ c.at = call[p].at
        /\ Kept(c, p)
    BY <1>1, <2>1 DEF Kept, Call
  <2>3. QED
    BY <1>1, <1>5, <2>1, <2>2 DEF MovesOn, Heading
<1>6. QED
  BY <1>3, <1>4, <1>5 DEF GetOpenIncident

LEMMA RowTimes ==
  ASSUME TypeOK, NEW i \in DOMAIN incidents
  PROVE  /\ incidents[i].startedAt \in Nat /\ incidents[i].resolvedAt \in Nat
         /\ incidents[i].status \in {"open", "resolved"}
<1>1. incidents[i] \in Incident
  BY DEF TypeOK
<1>2. QED
  BY <1>1 DEF Incident

LEMMA RowTimesNext ==
  ASSUME TypeOK', NEW i \in DOMAIN incidents'
  PROVE  incidents'[i].startedAt \in Nat /\ incidents'[i].resolvedAt \in Nat
<1>1. incidents'[i] \in Incident
  BY DEF TypeOK
<1>2. QED
  BY <1>1 DEF Incident

(* Writes: what they leave of the columns that tell when and how long       *)
LEMMA MarksKeepTimes ==
  ASSUME NEW p \in Procs, TypeOK,
         \/ UNCHANGED incidents
         \/ incidents' = [incidents EXCEPT ![call[p].inc].alertSentAt = call[p].at]
         \/ incidents' = [incidents EXCEPT ![call[p].inc].lastEscalationAt = call[p].at]
  PROVE  /\ DOMAIN incidents' = DOMAIN incidents
         /\ \A i \in DOMAIN incidents :
              /\ incidents'[i].startedAt = incidents[i].startedAt
              /\ incidents'[i].resolvedAt = incidents[i].resolvedAt
              /\ incidents'[i].status = incidents[i].status
<1>1. \A i \in DOMAIN incidents : incidents[i] \in Incident
  BY DEF TypeOK
<1>2. QED
  BY <1>1 DEF Incident

LEMMA ResolvedRows ==
  ASSUME TypeOK, NEW t, incidents' = Resolved(t)
  PROVE  /\ DOMAIN incidents' = DOMAIN incidents
         /\ \A i \in DOMAIN incidents :
              /\ incidents'[i].startedAt = incidents[i].startedAt
              /\ incidents'[i].alertSentAt = incidents[i].alertSentAt
              /\ incidents'[i].lastEscalationAt = incidents[i].lastEscalationAt
              /\ incidents'[i].status = "resolved"
              /\ incidents'[i].resolvedAt =
                   IF incidents[i].status = "open" THEN t ELSE incidents[i].resolvedAt
<1>1. \A i \in DOMAIN incidents : incidents[i] \in Incident
  BY DEF TypeOK
<1>0. DOMAIN incidents' = DOMAIN incidents
  BY DEF Resolved
<1>2. ASSUME NEW i \in DOMAIN incidents
      PROVE  /\ incidents'[i].startedAt = incidents[i].startedAt
             /\ incidents'[i].alertSentAt = incidents[i].alertSentAt
             /\ incidents'[i].lastEscalationAt = incidents[i].lastEscalationAt
             /\ incidents'[i].status = "resolved"
             /\ incidents'[i].resolvedAt =
                  IF incidents[i].status = "open" THEN t ELSE incidents[i].resolvedAt
  <2>1. PICK r \in Incident : r = incidents[i]
    BY <1>1
  <2>2. CASE r.status = "open"
    <3>1. incidents'[i] = [r EXCEPT !.status = "resolved", !.resolvedAt = t]
      BY <2>1, <2>2 DEF Resolved, OpenIds
    <3>2. QED
      BY <2>1, <2>2, <3>1 DEF Incident
  <2>3. CASE r.status # "open"
    <3>1. incidents'[i] = r /\ r.status = "resolved"
      BY <2>1, <2>3 DEF Resolved, OpenIds, Incident
    <3>2. QED
      BY <2>1, <2>3, <3>1
  <2>4. QED
    BY <2>2, <2>3
<1>3. QED
  BY <1>0, <1>2

LEMMA InsertedRow ==
  ASSUME TypeOK, NEW t, incidents' = Append(incidents, NewIncident(t))
  PROVE  /\ DOMAIN incidents' = DOMAIN incidents \cup {Len(incidents) + 1}
         /\ Len(incidents) + 1 \notin DOMAIN incidents
         /\ \A i \in DOMAIN incidents : i < Len(incidents) + 1 /\ incidents'[i] = incidents[i]
         /\ incidents'[Len(incidents) + 1] = NewIncident(t)
<1>1. /\ incidents \in Seq(Incident) /\ Len(incidents) \in Nat
      /\ DOMAIN incidents = 1 .. Len(incidents)
  BY DEF TypeOK
<1>2. PICK row : row = NewIncident(t)
  OBVIOUS
<1>3. /\ DOMAIN incidents' = 1 .. Len(incidents) + 1
      /\ \A i \in 1 .. Len(incidents) : incidents'[i] = incidents[i]
      /\ incidents'[Len(incidents) + 1] = row
  BY <1>1, <1>2
<1>4. QED
  BY <1>1, <1>2, <1>3

-----------------------------------------------------------------------------
(* Outages follow one another: the incidents are all over by the time of    *)
(* the check under way, and a row is only inserted when none is open.       *)

Past(t) == \A i \in DOMAIN incidents : incidents[i].startedAt <= t /\ incidents[i].resolvedAt <= t

Timely(c) ==
  /\ c.pc # "idle" => c.at <= now /\ Past(c.at)
  /\ Heading(c) = "create_insert" => OpenIds = {}

OutageInv == Past(now) /\ OutagesDoNotOverlap /\ \A q \in Procs : Timely(call[q])

(* Two open incidents would overlap.                                        *)
LEMMA OneIsOpen ==
  ASSUME TypeOK, OutagesDoNotOverlap, NEW i \in OpenIds, NEW j \in OpenIds
  PROVE  i = j
<1>1. /\ i \in Nat /\ j \in Nat /\ i \in DOMAIN incidents /\ j \in DOMAIN incidents
      /\ incidents[i].status = "open" /\ incidents[j].status = "open"
  BY DEF OpenIds, TypeOK
<1>2. ~(i < j) /\ ~(j < i)
  BY <1>1 DEF OutagesDoNotOverlap
<1>3. QED
  BY <1>1, <1>2

LEMMA IdleIsTimely == Timely(Idle)
  BY IdleHeading DEF Timely, Idle

(* A step that changes no row keeps the invariant if its locals fit.        *)
LEMMA OutageMove ==
  ASSUME TypeOK, OutageInv, OneAtATime, NEW p \in Procs, NEW c \in Call, Continue(p, c),
         UNCHANGED <<now, incidents>>, Timely(c)
  PROVE  OutageInv'
<1>1. \A q \in Procs : call'[q] \in {call[q], c, Idle}
  BY ContinueSplit DEF TypeOK
<1>2. ASSUME NEW q \in Procs
      PROVE  Timely(call[q])'
  <2>1. PICK d : d = call'[q]
    OBVIOUS
  <2>2. Timely(d)
    BY <1>1, <2>1, IdleIsTimely DEF OutageInv
  <2>3. QED
    BY <2>1, <2>2 DEF Timely, Heading, Past, OpenIds
<1>3. QED
  BY <1>2 DEF OutageInv, Past, OutagesDoNotOverlap

LEMMA OutageWalk ==
  ASSUME NEW p \in Procs, TypeOK, OutageInv, OneAtATime,
         \/ BeginLoad(p) \/ GetFailures(p) \/ GetCooldown(p) \/ GetIsDown(p)
         \/ Save(p) \/ SaveMemory(p)
         \/ HandleRecovery(p) \/ HandleFailure(p) \/ Judge(p) \/ Weigh(p) \/ SetAlertCooldown(p)
  PROVE  OutageInv'
<1>1. PICK c \in Call : MovesOn(p, c) /\ Follows(Heading(call[p]), Heading(c))
  BY Walked
<1>2. Heading(c) = "create_insert" => Heading(call[p]) = "create_insert"
  BY <1>1 DEF Follows, Leads
<1>3. Timely(c)
  BY <1>1, <1>2 DEF MovesOn, OutageInv, Timely
<1>4. QED
  BY <1>1, <1>3, OutageMove DEF MovesOn

LEMMA OutageLookup ==
  ASSUME NEW p \in Procs, TypeOK, OutageInv, OneAtATime,
         RecoveryLookup(p) \/ AlertLookup(p) \/ CreateLookup(p) \/ EscalateLookup(p)
  PROVE  OutageInv'
<1>1. {"idle", "escalate_lookup", "create_lookup", "create_insert", "send_recovery",
       "send_down", "escalate"} \subseteq Points \ Transit
  BY DEF Points, Transit
<1>2. PICK c \in Call : MovesOn(p, c) /\ (Heading(c) = "create_insert" => OpenIds = {})
  <2>1. call[p].pc # "idle"
    BY DEF RecoveryLookup, AlertLookup, CreateLookup, EscalateLookup, At
  <2>2. ASSUME NEW onError \in {"idle", "escalate_lookup"},
               NEW onNone \in {"idle", "create_lookup", "create_insert"},
               NEW onFound \in [OpenIds -> {"idle", "escalate_lookup", "create_lookup",
                                            "send_recovery", "send_down", "escalate"}],
               GetOpenIncident(p, onError, onNone, onFound)
        PROVE  \E c \in Call : MovesOn(p, c) /\ (Heading(c) = "create_insert" => OpenIds = {})
    <3>1. /\ onError \in Points \ Transit /\ onNone \in Points \ Transit
          /\ onFound \in [OpenIds -> Points \ Transit]
      BY <1>1
    <3>2. PICK c \in Call :
            /\ MovesOn(p, c) /\ Heading(c) = c.pc
            /\ \/ "db" \in Faults /\ c.pc = onError
               \/ OpenIds = {} /\ c.pc = onNone
               \/ c.inc \in OpenIds /\ c.pc = onFound[c.inc]
      BY <2>1, <2>2, <3>1, LookedUp
    <3>3. c.inc \in OpenIds => onFound[c.inc] # "create_insert"
      OBVIOUS
    <3>4. QED
      BY <3>2, <3>3
  <2>3. CASE RecoveryLookup(p)
    BY <2>2, <2>3 DEF RecoveryLookup
  <2>4. CASE AlertLookup(p)
    BY <2>2, <2>4 DEF AlertLookup
  <2>5. CASE CreateLookup(p)
    BY <2>2, <2>5 DEF CreateLookup
  <2>6. CASE EscalateLookup(p)
    BY <2>2, <2>6 DEF EscalateLookup
  <2>7. QED
    BY <2>3, <2>4, <2>5, <2>6
<1>3. Timely(c)
  BY <1>2 DEF MovesOn, OutageInv, Timely
<1>4. QED
  BY <1>2, <1>3, OutageMove DEF MovesOn

LEMMA OutageStart ==
  ASSUME NEW p \in Procs, TypeOK, OutageInv, OneAtATime, StartCheck(p)
  PROVE  OutageInv'
<1>1. PICK up \in BOOLEAN :
        Continue(p, [Idle EXCEPT !.pc = "process_check", !.up = up, !.at = now])
  BY DEF StartCheck
<1> DEFINE c == [Idle EXCEPT !.pc = "process_check", !.up = up, !.at = now]
<1>2. now \in Nat
  BY DEF TypeOK
<1>3. c \in Call /\ c.at = now /\ Heading(c) = "process_check"
  BY <1>2, IdleIsACall DEF Call, Points, Idle, Heading, Transit
<1>4. Timely(c)
  BY <1>2, <1>3 DEF Timely, OutageInv
<1>5. QED
  BY <1>1, <1>3, <1>4, OutageMove DEF StartCheck, env

LEMMA OutageSend ==
  ASSUME NEW p \in Procs, TypeOK, OutageInv, OneAtATime,
         SendRecoveryAlert(p) \/ SendDownAlert(p) \/ SendEscalationAlert(p)
  PROVE  OutageInv'
<1>1. UNCHANGED <<now, incidents>> /\ call[p] \in Call /\ call[p].pc # "idle"
  BY DEF SendRecoveryAlert, SendDownAlert, SendEscalationAlert, Broadcast, env, At, TypeOK
<1>2. PICK point \in {"cool_recovery", "resolve", "mark_sent", "mark_escalation", "idle"} :
        Goto(p, point)
  BY DEF SendRecoveryAlert, SendDownAlert, SendEscalationAlert, Broadcast
<1> DEFINE c == [call[p] EXCEPT !.pc = point]
<1>3. c \in Call /\ c.at = call[p].at /\ Heading(c) = point /\ Continue(p, c)
  BY <1>1, <1>2 DEF Call, Points, Heading, Transit, Goto
<1>4. Timely(c)
  BY <1>1, <1>3 DEF Timely, OutageInv
<1>5. QED
  BY <1>1, <1>3, <1>4, OutageMove

(* A write, and where the goroutine heads after it                          *)
LEMMA WrittenBy ==
  ASSUME NEW p \in Procs, TypeOK,
         \/ ResolveIncident(p) \/ CreateInsert(p)
         \/ MarkIncidentAlertSent(p) \/ MarkIncidentEscalation(p)
  PROVE  \E c \in Call :
           /\ Continue(p, c) /\ UNCHANGED <<now, log>>
           /\ call[p].pc # "idle" /\ c.at = call[p].at /\ Kept(c, p) /\ Heading(c) = c.pc
           /\ \/ /\ "db" \in Faults /\ UNCHANGED incidents
                 /\ c.pc \in {"idle", "cool_down", "cool_escalation"}
              \/ /\ call[p].pc = "create_insert"
                 /\ incidents' = Append(incidents, NewIncident(call[p].at))
                 /\ c.pc = "send_down" /\ c.inc = Len(incidents) + 1
              \/ /\ call[p].pc = "resolve"
                 /\ incidents' = Resolved(call[p].at) /\ c.pc = "idle"
              \/ /\ call[p].pc = "mark_sent"
                 /\ incidents' = [incidents EXCEPT ![call[p].inc].alertSentAt = call[p].at]
                 /\ c.pc = "cool_down"
              \/ /\ call[p].pc = "mark_escalation"
                 /\ incidents' = [incidents EXCEPT ![call[p].inc].lastEscalationAt = call[p].at]
                 /\ c.pc = "cool_escalation"
<1>1. call[p] \in Call /\ UNCHANGED <<now, log>> /\ call[p].pc # "idle"
  BY DEF TypeOK, ResolveIncident, CreateInsert, MarkIncidentAlertSent, MarkIncidentEscalation,
         Update, At, env, observers
<1>2. CASE /\ CreateInsert(p) /\ incidents' = Append(incidents, NewIncident(call[p].at))
           /\ Continue(p, [call[p] EXCEPT !.pc = "send_down", !.inc = Len(incidents) + 1])
  <2>1. PICK n \in Nat : n = Len(incidents) + 1
    BY DEF TypeOK
  <2> DEFINE c == [call[p] EXCEPT !.pc = "send_down", !.inc = n]
  <2>2. "send_down" \in Points \ Transit
    BY DEF Points, Transit
  <2>5. c \in Call /\ c.at = call[p].at /\ Kept(c, p) /\ c.pc = "send_down" /\ c.inc = n
    BY <1>1, <2>2 DEF Call, Kept
  <2>6. Heading(c) = c.pc
    BY <2>2, <2>5 DEF Heading
  <2>3. Continue(p, c) /\ call[p].pc = "create_insert"
    BY <1>2, <2>1 DEF CreateInsert, At
  <2> HIDE DEF c
  <2>4. QED
    BY <1>1, <1>2, <2>1, <2>3, <2>5, <2>6
<1>3. ASSUME NEW point \in {"idle", "cool_down", "cool_escalation"}, Goto(p, point)
      PROVE  \E c \in Call : /\ Continue(p, c) /\ c.at = call[p].at /\ Kept(c, p) /\ Heading(c) = c.pc
                             /\ c.pc = point
  <2> DEFINE c == [call[p] EXCEPT !.pc = point]
  <2>1. c \in Call /\ c.at = call[p].at /\ Kept(c, p) /\ c.pc = point /\ Heading(c) = c.pc
    BY <1>1 DEF Call, Points, Heading, Transit, Kept
  <2>2. QED
    BY <1>3, <2>1 DEF Goto
<1>4. CASE CreateInsert(p) /\ "db" \in Faults /\ Goto(p, "idle") /\ UNCHANGED incidents
  BY <1>1, <1>3, <1>4
<1>5. CASE ResolveIncident(p)
  <2>1. PICK c \in Call : /\ Continue(p, c) /\ c.at = call[p].at /\ Kept(c, p) /\ Heading(c) = c.pc
                          /\ c.pc = "idle"
    BY <1>3, <1>5 DEF ResolveIncident, Update
  <2>2. /\ call[p].pc = "resolve"
        /\ \/ incidents' = Resolved(call[p].at)
           \/ "db" \in Faults /\ UNCHANGED incidents
    BY <1>5 DEF ResolveIncident, Update, At
  <2>3. QED
    BY <1>1, <2>1, <2>2
<1>6. CASE MarkIncidentAlertSent(p)
  <2>1. PICK c \in Call : /\ Continue(p, c) /\ c.at = call[p].at /\ Kept(c, p) /\ Heading(c) = c.pc
                          /\ c.pc = "cool_down"
    BY <1>3, <1>6 DEF MarkIncidentAlertSent, Update
  <2>2. /\ call[p].pc = "mark_sent"
        /\ \/ incidents' = [incidents EXCEPT ![call[p].inc].alertSentAt = call[p].at]
           \/ "db" \in Faults /\ UNCHANGED incidents
    BY <1>6 DEF MarkIncidentAlertSent, Update, At
  <2>3. QED
    BY <1>1, <2>1, <2>2
<1>7. CASE MarkIncidentEscalation(p)
  <2>1. PICK c \in Call : /\ Continue(p, c) /\ c.at = call[p].at /\ Kept(c, p) /\ Heading(c) = c.pc
                          /\ c.pc = "cool_escalation"
    BY <1>3, <1>7 DEF MarkIncidentEscalation, Update
  <2>2. /\ call[p].pc = "mark_escalation"
        /\ \/ incidents' = [incidents EXCEPT ![call[p].inc].lastEscalationAt = call[p].at]
           \/ "db" \in Faults /\ UNCHANGED incidents
    BY <1>7 DEF MarkIncidentEscalation, Update, At
  <2>3. QED
    BY <1>1, <2>1, <2>2
<1>8. QED
  BY <1>2, <1>4, <1>5, <1>6, <1>7 DEF CreateInsert

LEMMA OutageResolved ==
  ASSUME TypeOK, OutagesDoNotOverlap, NEW t \in Nat, Past(t), incidents' = Resolved(t)
  PROVE  Past(t)' /\ OutagesDoNotOverlap'
<1>1. /\ DOMAIN incidents' = DOMAIN incidents
      /\ \A i \in DOMAIN incidents :
           /\ incidents'[i].startedAt = incidents[i].startedAt
           /\ incidents'[i].status = "resolved"
           /\ incidents[i].status = "open" => incidents'[i].resolvedAt = t
           /\ incidents[i].status # "open" => incidents'[i].resolvedAt = incidents[i].resolvedAt
  BY ResolvedRows
<1>2. ASSUME NEW i \in DOMAIN incidents
      PROVE  incidents'[i].startedAt <= t /\ incidents'[i].resolvedAt <= t
  BY <1>1 DEF Past
<1>3. ASSUME NEW i \in DOMAIN incidents
      PROVE  incidents'[i].startedAt <= incidents'[i].resolvedAt
  BY <1>1, RowTimes DEF Past, OutagesDoNotOverlap
<1>4. ASSUME NEW i \in DOMAIN incidents, NEW j \in DOMAIN incidents, i < j
      PROVE  incidents'[i].resolvedAt <= incidents'[j].startedAt
  BY <1>1, <1>4 DEF OutagesDoNotOverlap
<1>5. QED
  BY <1>1, <1>2, <1>3, <1>4 DEF Past, OutagesDoNotOverlap

LEMMA OutageInserted ==
  ASSUME TypeOK, OutagesDoNotOverlap, NEW t \in Nat, Past(t), OpenIds = {},
         incidents' = Append(incidents, NewIncident(t))
  PROVE  Past(t)' /\ OutagesDoNotOverlap'
<1>1. PICK n \in Nat : n = Len(incidents) + 1
  BY DEF TypeOK
<1>2. /\ DOMAIN incidents' = DOMAIN incidents \cup {n} /\ n \notin DOMAIN incidents
      /\ \A i \in DOMAIN incidents : i < n /\ incidents'[i] = incidents[i] /\ i \in Nat
      /\ incidents'[n] = NewIncident(t)
  BY <1>1, InsertedRow DEF TypeOK
<1>3. \A i \in DOMAIN incidents : incidents[i].status = "resolved"
  BY RowTimes DEF OpenIds
<1>4. /\ NewIncident(t).startedAt = t /\ NewIncident(t).resolvedAt = 0
      /\ NewIncident(t).status = "open"
  BY DEF NewIncident, NULL
<1>5. Past(t)'
  BY <1>2, <1>4 DEF Past
<1>6. ASSUME NEW i \in DOMAIN incidents'
      PROVE  /\ incidents'[i].status = "resolved" => incidents'[i].startedAt <= incidents'[i].resolvedAt
             /\ \A j \in DOMAIN incidents' : i < j =>
                  /\ incidents'[i].status = "resolved"
                  /\ incidents'[i].resolvedAt <= incidents'[j].startedAt
  <2>1. CASE i = n
    BY <1>2, <1>4, <2>1
  <2>2. CASE i \in DOMAIN incidents
    BY <1>2, <1>3, <1>4, <2>2 DEF OutagesDoNotOverlap, Past
  <2>3. QED
    BY <1>2, <2>1, <2>2
<1>7. QED
  BY <1>5, <1>6 DEF OutagesDoNotOverlap

LEMMA OutageWrite ==
  ASSUME NEW p \in Procs, TypeOK, TypeOK', OutageInv, OneAtATime,
         \/ ResolveIncident(p) \/ CreateInsert(p)
         \/ MarkIncidentAlertSent(p) \/ MarkIncidentEscalation(p)
  PROVE  OutageInv'
<1>1. PICK c \in Call :
        /\ Continue(p, c) /\ UNCHANGED <<now, log>>
        /\ call[p].pc # "idle" /\ c.at = call[p].at /\ Heading(c) = c.pc
        /\ \/ /\ "db" \in Faults /\ UNCHANGED incidents
              /\ c.pc \in {"idle", "cool_down", "cool_escalation"}
           \/ /\ call[p].pc = "create_insert"
              /\ incidents' = Append(incidents, NewIncident(call[p].at))
              /\ c.pc = "send_down" /\ c.inc = Len(incidents) + 1
           \/ /\ call[p].pc = "resolve"
              /\ incidents' = Resolved(call[p].at) /\ c.pc = "idle"
           \/ /\ call[p].pc = "mark_sent"
              /\ incidents' = [incidents EXCEPT ![call[p].inc].alertSentAt = call[p].at]
              /\ c.pc = "cool_down"
           \/ /\ call[p].pc = "mark_escalation"
              /\ incidents' = [incidents EXCEPT ![call[p].inc].lastEscalationAt = call[p].at]
              /\ c.pc = "cool_escalation"
  BY WrittenBy
<1>2. /\ Past(call[p].at) /\ call[p].at <= now /\ call[p].at \in Nat /\ now \in Nat
      /\ Heading(call[p]) = "create_insert" => OpenIds = {}
  <2>1. call[p].at \in Nat /\ now \in Nat
    BY DEF TypeOK, Call
  <2>2. Timely(call[p]) /\ call[p].pc # "idle"
    BY <1>1 DEF OutageInv
  <2>3. QED
    BY <2>1, <2>2 DEF Timely
<1>8. OutagesDoNotOverlap
  BY DEF OutageInv
<1>3. Heading(c) # "create_insert"
  BY <1>1
<1>9. PICK t \in Nat : t = call[p].at
  BY <1>2
<1>4. Past(t)' /\ OutagesDoNotOverlap'
  <2>1. CASE \/ UNCHANGED incidents
             \/ incidents' = [incidents EXCEPT ![call[p].inc].alertSentAt = call[p].at]
             \/ incidents' = [incidents EXCEPT ![call[p].inc].lastEscalationAt = call[p].at]
    <3>1. /\ DOMAIN incidents' = DOMAIN incidents
          /\ \A i \in DOMAIN incidents : /\ incidents'[i].startedAt = incidents[i].startedAt
                                         /\ incidents'[i].resolvedAt = incidents[i].resolvedAt
                                         /\ incidents'[i].status = incidents[i].status
      BY <2>1, MarksKeepTimes
    <3>2. QED
      BY <1>2, <1>8, <1>9, <3>1 DEF OutagesDoNotOverlap, Past
  <2>2. CASE incidents' = Resolved(call[p].at)
    BY <1>2, <1>8, <1>9, <2>2, OutageResolved
  <2>3. CASE /\ call[p].pc = "create_insert"
             /\ incidents' = Append(incidents, NewIncident(call[p].at))
    <3>1. OpenIds = {}
      BY <1>2, <2>3 DEF Heading, Transit
    <3>2. QED
      BY <1>2, <1>8, <1>9, <2>3, <3>1, OutageInserted
  <2>4. QED
    BY <1>1, <2>1, <2>2, <2>3
<1>5. Past(now)'
  <2>1. \A i \in DOMAIN incidents' : incidents'[i].startedAt \in Nat /\ incidents'[i].resolvedAt \in Nat
    BY RowTimesNext
  <2>2. t <= now' /\ now' \in Nat
    BY <1>1, <1>2, <1>9
  <2>3. QED
    BY <1>4, <2>1, <2>2 DEF Past
<1>6. ASSUME NEW q \in Procs
      PROVE  Timely(call[q])'
  <2>1. q = p
    BY DEF OneAtATime
  <2>2. PICK d \in {c, Idle} : call'[q] = d
    BY <1>1, <2>1 DEF Continue, TypeOK
  <2>3. Heading(d) # "create_insert" /\ (d.pc # "idle" => d.at = t)
    <3>1. CASE d = c
      BY <1>1, <1>3, <1>9, <3>1
    <3>2. CASE d = Idle
      <4>1. d.pc = "idle" /\ Heading(d) = "idle"
        BY <3>2, IdleHeading DEF Idle
      <4>2. QED
        BY <4>1
    <3>3. QED
      BY <2>2, <3>1, <3>2
  <2>4. t <= now'
    BY <1>1, <1>2, <1>9
  <2>5. QED
    BY <1>4, <2>2, <2>3, <2>4 DEF Timely, Heading
<1>7. QED
  BY <1>4, <1>5, <1>6 DEF OutageInv

LEMMA OutageEnvironment ==
  ASSUME TypeOK, OutageInv, Tick \/ RedisDown \/ RedisUp \/ Crash \/ BoundReached \/ UNCHANGED vars
  PROVE  OutageInv'
<1>1. /\ UNCHANGED incidents /\ now' \in {now, now + 1} /\ now \in Nat
      /\ \A q \in Procs : call'[q] \in {call[q], Idle} /\ call[q] \in Call
  BY DEF Tick, RedisDown, RedisUp, Crash, BoundReached, vars, env, TypeOK
<1>2. Past(now)' /\ OutagesDoNotOverlap'
  BY <1>1, RowTimes DEF OutageInv, Past, OutagesDoNotOverlap
<1>3. ASSUME NEW q \in Procs
      PROVE  Timely(call[q])'
  <2>1. PICK d : d = call'[q]
    OBVIOUS
  <2>2. Timely(d)
    BY <1>1, <2>1, IdleIsTimely DEF OutageInv
  <2>3. d.at <= now => d.at <= now'
    <3>1. d.at \in Nat
      BY <1>1, <2>1 DEF Idle, Call
    <3>2. QED
      BY <1>1, <3>1
  <2>4. QED
    BY <1>1, <2>1, <2>2, <2>3 DEF Timely, Heading, Past, OpenIds
<1>4. QED
  BY <1>2, <1>3 DEF OutageInv

LEMMA NextOutage ==
  ASSUME TypeOK, TypeOK', OutageInv, OneAtATime, [Next]_vars
  PROVE  OutageInv'
<1>1. ASSUME NEW p \in Procs, StartCheck(p) \/ Step(p)
      PROVE  OutageInv'
  BY <1>1, OutageStart, OutageWalk, OutageLookup, OutageSend, OutageWrite DEF Step
<1>2. QED
  BY <1>1, OutageEnvironment DEF Next

LEMMA InitOutage == Init => OutageInv
<1> SUFFICES ASSUME Init PROVE OutageInv
  OBVIOUS
<1>1. DOMAIN incidents = {} /\ \A q \in Procs : call[q] = Idle
  BY DEF Init
<1>2. QED
  BY <1>1, IdleIsTimely DEF OutageInv, Past, OutagesDoNotOverlap

(* While the checks of a site are handled one at a time, the outages of its *)
(* history follow one another, each resolved before the next begins, and    *)
(* at most one is open: whatever fails between the statements, and however  *)
(* often the engine is restarted.                                           *)
THEOREM OutagesFollowOneAnother ==
  ASSUME OneAtATime
  PROVE  Spec => []OutagesDoNotOverlap
<1>1. TypeOK /\ TypeOK' /\ OutageInv /\ [Next]_vars => OutageInv'
  BY NextOutage
<1>2. OutageInv => OutagesDoNotOverlap
  BY DEF OutageInv
<1>3. QED
  BY <1>1, <1>2, InitOutage, TypeCorrect, PTL DEF Spec

(* The durations that the API answers are those of real outages: the number *)
(* of seconds is what the text says, cut to its unit.                       *)
LEMMA TextAgrees ==
  ASSUME NEW n \in Nat
  PROVE  LET told == Text(n)
             inSeconds == 3600 * told.h + 60 * told.m + told.s
             unit == IF inSeconds < 60 THEN 1 ELSE 60
         IN n \in inSeconds .. inSeconds + unit - 1
<1> DEFINE minutes == n \div 60
           h == minutes \div 60
           m == minutes % 60
<1>1. minutes \in Nat /\ 60 * minutes <= n /\ n < 60 * minutes + 60
  OBVIOUS
<1>2. h \in Nat /\ m \in Nat /\ minutes = 60 * h + m
  BY <1>1
<1>3. /\ Text(n).h = h /\ Text(n).m = m
      /\ Text(n).s = IF minutes > 0 THEN 0 ELSE n
  BY DEF Text
<1> HIDE DEF minutes, h, m
<1>4. CASE minutes > 0
  <2>1. 3600 * Text(n).h + 60 * Text(n).m + Text(n).s = 60 * minutes
    BY <1>1, <1>2, <1>3, <1>4
  <2>2. QED
    BY <1>1, <1>4, <2>1
<1>5. CASE minutes = 0
  <2>1. h = 0 /\ m = 0
    BY <1>2, <1>5
  <2>2. 3600 * Text(n).h + 60 * Text(n).m + Text(n).s = n
    BY <1>3, <1>5, <2>1
  <2>3. QED
    BY <1>1, <1>5, <2>2
<1>6. QED
  BY <1>1, <1>4, <1>5

LEMMA ReportIsConfigured == TickSeconds \in Nat /\ Delays \subseteq Nat
  BY ReportAssumption DEF ReportAssumption

LEMMA ProductIsNatural ==
  ASSUME NEW a \in Nat, NEW b \in Nat
  PROVE  a * b \in Nat
  OBVIOUS

LEMMA DurationsFollow ==
  ASSUME TypeOK, OutageInv
  PROVE  DurationsAgree
<1> SUFFICES ASSUME NEW i \in DOMAIN incidents, NEW delay \in Delays
             PROVE  LET answer == IncidentToResponse(i, delay)
                        told == answer.duration
                        inSeconds == 3600 * told.h + 60 * told.m + told.s
                        unit == IF inSeconds < 60 THEN 1 ELSE 60
                    IN answer.durationSecs \in inSeconds .. inSeconds + unit - 1
  BY DEF DurationsAgree
<1>1. /\ incidents[i].startedAt \in Nat /\ incidents[i].resolvedAt \in Nat /\ now \in Nat
      /\ delay \in Nat /\ TickSeconds \in Nat
  BY RowTimes, ReportIsConfigured DEF TypeOK
<1> DEFINE ended == incidents[i].status = "resolved" /\ incidents[i].resolvedAt # NULL
           ticks == (IF ended THEN incidents[i].resolvedAt ELSE now) - incidents[i].startedAt
           seconds == IF ended THEN (incidents[i].resolvedAt - incidents[i].startedAt) * TickSeconds
                      ELSE (now - incidents[i].startedAt) * TickSeconds + delay
<1>2. PICK t \in Nat : t = ticks
  <2>1. CASE ended
    BY <1>1, <2>1 DEF OutageInv, OutagesDoNotOverlap
  <2>2. CASE ~ended
    BY <1>1, <2>2 DEF OutageInv, Past
  <2>3. QED
    BY <2>1, <2>2
<1>3. PICK product \in Nat : product = t * TickSeconds
  BY <1>1, ProductIsNatural
<1>4. seconds = IF ended THEN product ELSE product + delay
  BY <1>2, <1>3
<1>5. PICK n \in Nat : n = seconds
  BY <1>1, <1>4
<1>6. FormatIncidentDuration(n) = Text(n)
  BY DEF FormatIncidentDuration
<1>7. IncidentToResponse(i, delay).durationSecs = n /\ IncidentToResponse(i, delay).duration = Text(n)
  BY <1>5, <1>6 DEF IncidentToResponse
<1>8. QED
  BY <1>7, TextAgrees

(* While checks are handled one at a time, every incident that the API tells*)
(* of has the same duration in words as in seconds, and none is negative,   *)
(* whatever has failed and whenever the answer is computed.                 *)
THEOREM DurationsAreRight ==
  ASSUME OneAtATime
  PROVE  Spec => []DurationsAgree
<1>1. TypeOK /\ TypeOK' /\ OutageInv /\ [Next]_vars => OutageInv'
  BY NextOutage
<1>2. TypeOK /\ OutageInv => DurationsAgree
  BY DurationsFollow
<1>3. QED
  BY <1>1, <1>2, InitOutage, TypeCorrect, PTL DEF Spec

(* What the history query lists                                             *)
LEMMA SmallerOfTwo ==
  ASSUME NEW a \in Nat, NEW b \in Nat
  PROVE  Min({a, b}) = IF a <= b THEN a ELSE b
<1>1. PICK c \in {a, b} : c = IF a <= b THEN a ELSE b
  OBVIOUS
<1>2. \A d \in {a, b} : c <= d
  BY <1>1
<1>3. ASSUME NEW e \in {a, b}, \A d \in {a, b} : e <= d
      PROVE  e = c
  BY <1>1, <1>2, <1>3
<1>4. Min({a, b}) \in {a, b} /\ \A d \in {a, b} : Min({a, b}) <= d
  BY <1>2 DEF Min
<1>5. QED
  BY <1>1, <1>3, <1>4

LEMMA OneIsSmallest ==
  ASSUME NEW S \in SUBSET (Nat \ {0}), 1 \in S
  PROVE  Min(S) = 1
<1>1. \A d \in S : 1 <= d
  OBVIOUS
<1>2. PICK c \in S : c = Min(S) /\ \A d \in S : c <= d
  BY <1>1 DEF Min
<1>3. c \in Nat \ {0} /\ c <= 1
  BY <1>2
<1>4. c = 1
  BY <1>3
<1>5. QED
  BY <1>2, <1>4

(* An order of the rows names every row.                                    *)
LEMMA OrderIsWhole ==
  ASSUME TypeOK, NEW order \in SetToSeqs(DOMAIN incidents)
  PROVE  /\ order \in Seq(DOMAIN incidents) /\ Len(order) = Len(incidents)
         /\ \A i \in DOMAIN incidents : \E k \in 1 .. Len(order) : order[k] = i
<1>1. PICK n \in Nat : n = Len(incidents) /\ DOMAIN incidents = 1 .. n
  BY DEF TypeOK
<1>2. IsFiniteSet(1 .. n) /\ Cardinality(1 .. n) = n
  <2>1. IsFiniteSet(1 .. n) /\ Cardinality(1 .. n) = IF 1 > n THEN 0 ELSE n - 1 + 1
    BY ONLY n \in Nat, FS_Interval
  <2>2. (IF 1 > n THEN 0 ELSE n - 1 + 1) = n
    OBVIOUS
  <2>3. QED
    BY <2>1, <2>2
<1>3. order \in [1 .. n -> 1 .. n] /\ \A j, k \in 1 .. n : j # k => order[j] # order[k]
  BY <1>1, <1>2 DEF SetToSeqs
<1>4. order \in Injection(1 .. n, 1 .. n)
  BY <1>3 DEF Injection, IsInjective
<1>5. order \in Surjection(1 .. n, 1 .. n)
  BY <1>2, <1>4, FS_Injection
<1>6. \A i \in 1 .. n : \E k \in 1 .. n : order[k] = i
  BY <1>5 DEF Surjection
<1>7. order \in Seq(1 .. n) /\ Len(order) = n
  BY <1>3
<1>8. QED
  BY <1>1, <1>6, <1>7

(* An answer is the beginning of such an order, the newest row first; it is *)
(* empty only when there are no rows, because no limit is.                  *)
Listed(order, m, answer) ==
  /\ order \in Seq(DOMAIN incidents) /\ NewestFirst(order)
  /\ \A i \in DOMAIN incidents : \E k \in 1 .. Len(order) : order[k] = i
  /\ m <= Len(order) /\ (Len(order) # 0 => m # 0)
  /\ DOMAIN answer = 1 .. m
  /\ \A k \in 1 .. m : /\ answer[k].id = order[k]
                       /\ answer[k].status = "Active" <=> order[k] \in OpenIds

LEMMA AnswersAreListed ==
  ASSUME TypeOK, NEW n \in Asked, NEW answer \in Answers(n)
  PROVE  \E order \in Seq(DOMAIN incidents), m \in Nat : Listed(order, m, answer)
<1>1. PICK limit : limit = ParseLimit(n, DefaultLimit, MaxLimit)
  OBVIOUS
<1>2. limit \in Nat \ {0}
  BY <1>1, ReportAssumption DEF ReportAssumption, ParseLimit
<1>3. PICK list \in GetIncidentHistory(limit), delay \in Delays :
        answer = [k \in DOMAIN list |-> IncidentToResponse(list[k], delay)]
  BY <1>1 DEF Answers
<1>4. PICK order \in SetToSeqs(DOMAIN incidents) :
        NewestFirst(order) /\ list = SubSeq(order, 1, Min({limit, Len(order)}))
  BY <1>3 DEF GetIncidentHistory
<1>5. /\ order \in Seq(DOMAIN incidents)
      /\ \A i \in DOMAIN incidents : \E k \in 1 .. Len(order) : order[k] = i
  BY OrderIsWhole
<1>6. PICK m \in Nat : m = Min({limit, Len(order)})
  BY <1>2, <1>5, SmallerOfTwo
<1>7. m <= Len(order) /\ (Len(order) # 0 => m # 0)
  BY <1>2, <1>5, <1>6, SmallerOfTwo
<1>8. DOMAIN list = 1 .. m /\ \A k \in 1 .. m : list[k] = order[k]
  <2>1. list = SubSeq(order, 1, m)
    BY <1>4, <1>6
  <2>2. DOMAIN SubSeq(order, 1, m) = 1 .. m /\ \A k \in 1 .. m : SubSeq(order, 1, m)[k] = order[k]
    BY <1>5, <1>7
  <2>3. QED
    BY <2>1, <2>2
<1>9. ASSUME NEW k \in 1 .. m
      PROVE  /\ answer[k].id = order[k]
             /\ answer[k].status = "Active" <=> order[k] \in OpenIds
  <2>1. PICK i \in DOMAIN incidents : i = order[k]
    BY <1>5, <1>7
  <2>2. answer[k] = IncidentToResponse(i, delay)
    BY <1>3, <1>8, <2>1
  <2>3. answer[k].id = i
    BY <2>2 DEF IncidentToResponse
  <2>4. answer[k].status = IF incidents[i].status = "open" THEN "Active" ELSE "Resolved"
    BY <2>2 DEF IncidentToResponse
  <2>5. QED
    BY <2>1, <2>3, <2>4 DEF OpenIds
<1>10. DOMAIN answer = 1 .. m
  BY <1>3, <1>8
<1>11. Listed(order, m, answer)
  BY <1>4, <1>5, <1>7, <1>9, <1>10 DEF Listed
<1>12. QED
  BY <1>5, <1>11

(* The open incident is the newest, and so the first of the list, unless    *)
(* one that is over began at the same moment.                               *)
LEMMA OpenIsNewest ==
  ASSUME TypeOK, OutagesDoNotOverlap, NEW i \in OpenIds, NEW j \in DOMAIN incidents, j # i
  PROVE  j \notin OpenIds /\ incidents[j].startedAt <= incidents[i].startedAt
<1>1. j \notin OpenIds
  BY OneIsOpen
<1>2. i \in Nat /\ j \in Nat /\ i \in DOMAIN incidents /\ incidents[i].status = "open"
  BY DEF OpenIds, TypeOK
<1>3. incidents[j].status = "resolved" /\ j < i
  BY <1>2 DEF OutagesDoNotOverlap
<1>4. /\ incidents[j].startedAt <= incidents[j].resolvedAt
      /\ incidents[j].resolvedAt <= incidents[i].startedAt
  BY <1>2, <1>3 DEF OutagesDoNotOverlap
<1>5. /\ incidents[j].startedAt \in Nat /\ incidents[j].resolvedAt \in Nat
      /\ incidents[i].startedAt \in Nat
  BY <1>2, RowTimes
<1>6. QED
  BY <1>1, <1>4, <1>5

LEMMA FirstIsOpen ==
  ASSUME TypeOK, OutagesDoNotOverlap, NEW i \in OpenIds, NEW order, NEW m \in Nat, NEW answer,
         Listed(order, m, answer),
         \A j \in DOMAIN incidents \ OpenIds : ~SameStart(i, j)
  PROVE  ShownOutage(answer) = i
<1>1. /\ i \in DOMAIN incidents /\ order \in Seq(DOMAIN incidents)
      /\ m <= Len(order) /\ (Len(order) # 0 => m # 0)
  BY DEF Listed, OpenIds
<1>2. PICK k \in 1 .. Len(order) : order[k] = i
  BY <1>1 DEF Listed
<1>3. 1 \in 1 .. m /\ 1 \in 1 .. Len(order) /\ k \in Nat
  BY <1>1, <1>2
<1>4. order[1] = i
  <2>1. SUFFICES ASSUME order[1] # i
                 PROVE  FALSE
    OBVIOUS
  <2>2. 1 < k
    BY <1>2, <1>3, <2>1
  <2>3. PICK j \in DOMAIN incidents : j = order[1]
    BY <1>1, <1>3
  <2>4. j \in DOMAIN incidents \ OpenIds /\ incidents[j].startedAt <= incidents[i].startedAt
    BY <2>1, <2>3, OpenIsNewest
  <2>5. incidents[j].startedAt >= incidents[i].startedAt
    <3>1. NewestFirst(order)
      BY DEF Listed
    <3>2. 1 \in DOMAIN order /\ k \in DOMAIN order
      BY <1>1, <1>2, <1>3
    <3>3. incidents[order[1]].startedAt >= incidents[order[k]].startedAt
      BY <2>2, <3>1, <3>2 DEF NewestFirst
    <3>4. QED
      BY <1>2, <2>3, <3>3
  <2>6. incidents[j].startedAt \in Nat /\ incidents[i].startedAt \in Nat
    BY <1>1, RowTimes
  <2>7. SameStart(i, j)
    BY <2>4, <2>5, <2>6 DEF SameStart
  <2>8. QED
    BY <2>4, <2>7
<1>5. PICK active : active = {l \in DOMAIN answer : answer[l].status = "Active"}
  OBVIOUS
<1>6. active \in SUBSET (Nat \ {0}) /\ 1 \in active /\ answer[1].id = i
  BY <1>3, <1>4, <1>5 DEF Listed
<1>7. Min(active) = 1 /\ active # {}
  BY <1>6, OneIsSmallest
<1>8. QED
  BY <1>5, <1>6, <1>7 DEF ShownOutage

LEMMA NoneIsActive ==
  ASSUME OpenIds = {}, NEW order, NEW m \in Nat, NEW answer, Listed(order, m, answer)
  PROVE  ShownOutage(answer) = 0
<1>1. {l \in DOMAIN answer : answer[l].status = "Active"} = {}
  BY DEF Listed
<1>2. QED
  BY <1>1 DEF ShownOutage

(* Whatever the limit, the outage that the page shows is the one that the   *)
(* alert manager would find (incidents.go:93-96, :117-121), while checks    *)
(* are handled one at a time: that an open incident is never behind one     *)
(* that is over is due to the order of outages, not to the query.           *)
THEOREM OpenOutagesAreShown ==
  ASSUME OneAtATime
  PROVE  Spec => []OpenOutageIsShown
<1>1. ASSUME TypeOK, OutagesDoNotOverlap
      PROVE  OpenOutageIsShown
  <2>1. ASSUME NEW n \in Asked, NEW answer \in Answers(n)
        PROVE  \/ OpenIds = {} /\ ShownOutage(answer) = 0
               \/ ShownOutage(answer) \in LatestOpen
               \/ \E i \in LatestOpen, j \in DOMAIN incidents \ OpenIds : SameStart(i, j)
    <3>1. PICK order \in Seq(DOMAIN incidents), m \in Nat : Listed(order, m, answer)
      BY <1>1, <2>1, AnswersAreListed
    <3>2. CASE OpenIds = {}
      BY <3>1, <3>2, NoneIsActive
    <3>3. ASSUME NEW i \in OpenIds
          PROVE  \/ ShownOutage(answer) \in LatestOpen
                 \/ \E k \in LatestOpen, j \in DOMAIN incidents \ OpenIds : SameStart(k, j)
      <4>1. i \in LatestOpen
        <5>1. incidents[i].startedAt \in Nat
          BY <1>1, <3>3, RowTimes DEF OpenIds
        <5>2. \A j \in OpenIds : j = i
          BY <1>1, <3>3, OneIsOpen
        <5>3. QED
          BY <3>3, <5>1, <5>2 DEF LatestOpen
      <4>2. CASE \A j \in DOMAIN incidents \ OpenIds : ~SameStart(i, j)
        BY <1>1, <3>1, <3>3, <4>1, <4>2, FirstIsOpen
      <4>3. QED
        BY <4>1, <4>2
    <3>4. QED
      BY <3>2, <3>3
  <2>2. QED
    BY <2>1 DEF OpenOutageIsShown
<1>2. QED
  BY <1>1, OutagesFollowOneAnother, TypeCorrect, PTL

-----------------------------------------------------------------------------
(* The life of a site around its alerts adds nothing to what the alerts do. *)

LEMMA SiteStep ==
  ASSUME [SiteNext]_allVars
  PROVE  [Next]_vars
<1>1. CASE AddSite \/ FeedSite \/ DeleteSite \/ UNCHANGED allVars
  BY <1>1 DEF AddSite, FeedSite, DeleteSite, allVars, vars
<1>2. ASSUME NEW p \in Procs, AlertOn(p) \/ Handle(p)
      PROVE  [Next]_vars
  BY <1>2 DEF AlertOn, Handle, Next
<1>3. CASE Surroundings \/ SiteBoundReached
  BY <1>3 DEF Surroundings, SiteBoundReached, Next
<1>4. QED
  BY <1>1, <1>2, <1>3 DEF SiteNext

(* Adding, feeding and deleting a site, with its checks on their way, is    *)
(* alerting as AlertManager has it: what is proved of the alerts holds for  *)
(* a site that comes and goes.                                              *)
THEOREM SitesAreAlerted == SiteSpec => Spec
<1>1. SiteInit => Init
  BY DEF SiteInit
<1>2. [SiteNext]_allVars => [Next]_vars
  BY SiteStep
<1>3. QED
  BY <1>1, <1>2, PTL DEF SiteSpec, Spec

-----------------------------------------------------------------------------
(* The story of an incident.  While only Redis fails, every open incident   *)
(* has been announced, except by the goroutine that is about to; and who    *)
(* has an incident in hand knows what was told of it.                       *)

Announcing == {"send_down", "mark_sent"}

Recovering == {"cool_recovery", "stamp_recovery", "resolve"}

InHand == Announcing \cup Escalating \cup Recovering \cup {"mark_escalation", "send_recovery"}

(* What the column of an open row lags behind, and who will write it        *)
Settled(h, i) ==
  /\ incidents[i].alertSentAt = NULL => h \in Announcing
  /\ Told("escalation", i) /\ incidents[i].lastEscalationAt = NULL => h = "mark_escalation"
  /\ Told("recovery", i) => h \in Recovering

(* Goroutine heading for h with incident i                                  *)
Sound(h, i) ==
  /\ h \in {"create_lookup", "create_insert"} => OpenIds = {}
  /\ h \in InHand => OpenIds = {i}
  /\ h = "send_down" => \A kind \in DOMAIN Rank : ~Told(kind, i)
  /\ h \in Escalating \cup {"mark_sent"} => Told("down", i) /\ ~Told("escalation", i)
  /\ h \in Recovering => Told("recovery", i)
  /\ \A j \in OpenIds : Settled(h, j)

Recorded ==
  /\ \A k \in DOMAIN log : log[k].inc \in DOMAIN incidents
  /\ \A i \in DOMAIN incidents : incidents[i].alertSentAt # NULL => Told("down", i)

StoryInv ==
  /\ IncidentStory
  /\ Recorded
  /\ \A q \in Procs : /\ Sound(Heading(call[q]), call[q].inc)
                      /\ call[q].pc # "idle" => call[q].at # NULL

LEMMA StoryParts ==
  ASSUME StoryInv, NEW p \in Procs
  PROVE  Sound(Heading(call[p]), call[p].inc) /\ (call[p].pc # "idle" => call[p].at # NULL)
  BY DEF StoryInv

LEMMA StartsInOrder ==
  /\ "down" \in DOMAIN Rank /\ "escalation" \in DOMAIN Rank /\ "recovery" \in DOMAIN Rank
  /\ Rank["down"] = 1 /\ Rank["escalation"] = 2 /\ Rank["recovery"] = 3
  /\ DOMAIN Rank = {"down", "escalation", "recovery"}
  BY DEF Rank

(* A goroutine that heads for the end has nothing in hand.                  *)
LEMMA IdleIsSound ==
  ASSUME NEW i, Sound("idle", i)
  PROVE  Sound("idle", Idle.inc)
  BY DEF Sound, InHand, Announcing, Escalating, Recovering

LEMMA IdleIsSoundNext ==
  ASSUME NEW i, Sound("idle", i)'
  PROVE  Sound("idle", Idle.inc)'
  BY DEF Sound, InHand, Announcing, Escalating, Recovering

(* What is left to show of a step of the only goroutine                     *)
LEMMA StoryStep ==
  ASSUME TypeOK, OneAtATime, NEW p \in Procs, NEW c \in Call, Continue(p, c),
         c.at # NULL, Sound(Heading(c), c.inc)', IncidentStory', Recorded'
  PROVE  StoryInv'
<1>1. ASSUME NEW q \in Procs
      PROVE  (Sound(Heading(call[q]), call[q].inc) /\ (call[q].pc # "idle" => call[q].at # NULL))'
  <2>1. q = p
    BY DEF OneAtATime
  <2>2. call'[q] = IF c.pc = "idle" THEN Idle ELSE c
    BY <2>1 DEF Continue, TypeOK
  <2>3. CASE c.pc # "idle"
    BY <2>2, <2>3
  <2>4. CASE c.pc = "idle"
    <3>1. Heading(c) = "idle"
      BY <2>4 DEF Heading, Transit
    <3>2. Sound("idle", Idle.inc)'
      BY <3>1, IdleIsSoundNext
    <3>3. Idle.pc = "idle"
      BY DEF Idle
    <3>4. QED
      BY <2>2, <2>4, <3>2, <3>3, IdleHeading
  <2>5. QED
    BY <2>3, <2>4
<1>2. QED
  BY <1>1 DEF StoryInv

LEMMA StoryMove ==
  ASSUME TypeOK, OneAtATime, StoryInv, NEW p \in Procs, NEW c \in Call, Continue(p, c),
         UNCHANGED <<incidents, log>>, c.at # NULL, Sound(Heading(c), c.inc)
  PROVE  StoryInv'
<1>1. Sound(Heading(c), c.inc)'
  <2>1. PICK h, i : h = Heading(c) /\ i = c.inc
    OBVIOUS
  <2>2. Sound(h, i)'
    BY <2>1 DEF Sound, Settled, Told, OpenIds
  <2>3. QED
    BY <2>1, <2>2
<1>2. IncidentStory' /\ Recorded'
  BY DEF StoryInv, IncidentStory, Recorded, Told
<1>3. QED
  BY <1>1, <1>2, StoryStep

(* Between lookups, sends and writes nothing new comes in hand.             *)
LEMMA SoundFollows ==
  ASSUME NEW h, NEW g, NEW i, Sound(h, i), Follows(h, g)
  PROVE  Sound(g, i)
<1>1. h # g => /\ g \in Recovering <=> h \in Recovering
               /\ g \in Escalating => h \in Escalating
               /\ g \notin {"create_lookup", "create_insert", "send_recovery", "mark_escalation"}
               /\ g \notin Announcing
               /\ h \notin Announcing \cup {"mark_escalation"}
  BY DEF Follows, Leads, Recovering, Escalating, Announcing
<1>2. CASE h # g
  BY <1>1, <1>2 DEF Sound, Settled, InHand, Announcing
<1>3. QED
  BY <1>2

LEMMA StoryWalk ==
  ASSUME NEW p \in Procs, TypeOK, OneAtATime, StoryInv,
         \/ BeginLoad(p) \/ GetFailures(p) \/ GetCooldown(p) \/ GetIsDown(p)
         \/ Save(p) \/ SaveMemory(p)
         \/ HandleRecovery(p) \/ HandleFailure(p) \/ Judge(p) \/ Weigh(p) \/ SetAlertCooldown(p)
  PROVE  StoryInv'
<1>1. PICK c \in Call : /\ MovesOn(p, c) /\ c.inc = call[p].inc
                        /\ Follows(Heading(call[p]), Heading(c))
  BY Walked
<1>2. Sound(Heading(call[p]), call[p].inc) /\ call[p].at # NULL
  BY <1>1, StoryParts DEF MovesOn
<1>4. Sound(Heading(c), call[p].inc)
  BY <1>1, <1>2, SoundFollows
<1>5. Sound(Heading(c), c.inc) /\ c.at # NULL
  BY <1>1, <1>2, <1>4 DEF MovesOn
<1>3. QED
  BY <1>1, <1>5, StoryMove DEF MovesOn

LEMMA StoryStart ==
  ASSUME NEW p \in Procs, TypeOK, OneAtATime, StoryInv, StartCheck(p)
  PROVE  StoryInv'
<1>1. PICK up \in BOOLEAN :
        Continue(p, [Idle EXCEPT !.pc = "process_check", !.up = up, !.at = now])
  BY DEF StartCheck
<1> DEFINE c == [Idle EXCEPT !.pc = "process_check", !.up = up, !.at = now]
<1>2. now \in Nat /\ now # NULL /\ UNCHANGED <<incidents, log>>
  BY DEF TypeOK, NULL, StartCheck
<1>3. c \in Call /\ c.at = now /\ Heading(c) = "process_check"
  BY <1>2, IdleIsACall DEF Call, Points, Idle, Heading, Transit
<1>4. Sound("idle", call[p].inc)
  <2>1. Heading(call[p]) = "idle"
    BY DEF StartCheck, At, Heading, Transit
  <2>2. QED
    BY <2>1, StoryParts
<1>5. Sound("process_check", c.inc)
  BY <1>4 DEF Sound, Settled, InHand, Announcing, Escalating, Recovering
<1>6. QED
  BY <1>1, <1>2, <1>3, <1>5, StoryMove

LEMMA StoryLookup ==
  ASSUME NEW p \in Procs, TypeOK, OneAtATime, OutagesDoNotOverlap, StoryInv, "db" \notin Faults,
         RecoveryLookup(p) \/ AlertLookup(p) \/ CreateLookup(p) \/ EscalateLookup(p)
  PROVE  StoryInv'
<1>1. {"idle", "escalate_lookup", "create_lookup", "create_insert", "send_recovery",
       "send_down", "escalate"} \subseteq Points \ Transit
  BY DEF Points, Transit
<1>2. PICK h : h = call[p].pc /\ h \in {"recovery_lookup", "alert_lookup", "create_lookup", "escalate_lookup"}
  BY DEF RecoveryLookup, AlertLookup, CreateLookup, EscalateLookup, At
<1>3. /\ h = Heading(call[p]) /\ Sound(h, call[p].inc) /\ call[p].pc # "idle" /\ call[p].at # NULL
  <2>1. h = Heading(call[p]) /\ call[p].pc # "idle"
    BY <1>2 DEF Heading, Transit
  <2>2. QED
    BY <2>1, StoryParts
<1>4. /\ \A j \in OpenIds : Settled(h, j) /\ j \in DOMAIN incidents
      /\ h = "create_lookup" => OpenIds = {}
  BY <1>3 DEF Sound, OpenIds
<1>5. /\ h \notin Announcing /\ h # "mark_escalation" /\ h \notin Recovering
  BY <1>2 DEF Announcing, Recovering
<1>6. \A j \in OpenIds : /\ AlreadyAlerted(j) /\ Told("down", j) /\ ~Told("recovery", j)
                         /\ Told("escalation", j) => incidents[j].lastEscalationAt # NULL
  BY <1>4, <1>5 DEF Settled, AlreadyAlerted, StoryInv, Recorded
<1>7. ASSUME NEW onError \in Points \ Transit, NEW onNone \in Points \ Transit,
             NEW onFound \in [OpenIds -> Points \ Transit],
             GetOpenIncident(p, onError, onNone, onFound)
      PROVE  \E c \in Call : /\ MovesOn(p, c) /\ Heading(c) = c.pc
                             /\ \/ OpenIds = {} /\ c.pc = onNone
                                \/ OpenIds = {c.inc} /\ c.pc = onFound[c.inc]
  <2>1. PICK c \in Call :
          /\ MovesOn(p, c) /\ Heading(c) = c.pc
          /\ \/ "db" \in Faults /\ c.pc = onError
             \/ OpenIds = {} /\ c.pc = onNone
             \/ c.inc \in OpenIds /\ c.pc = onFound[c.inc]
    BY <1>3, <1>7, LookedUp
  <2>2. c.inc \in OpenIds => OpenIds = {c.inc}
    BY OneIsOpen
  <2>3. QED
    BY <2>1, <2>2
<1>8. PICK c \in Call :
        /\ MovesOn(p, c) /\ Heading(c) = c.pc
        /\ \/ OpenIds = {} /\ c.pc \in {"idle", "create_lookup", "create_insert"}
           \/ OpenIds = {c.inc} /\ c.pc \in {"send_recovery", "escalate_lookup", "idle"}
           \/ OpenIds = {c.inc} /\ c.pc = "escalate" /\ incidents[c.inc].lastEscalationAt = NULL
  <2>1. CASE RecoveryLookup(p)
    <3>1. [i \in OpenIds |-> "send_recovery"] \in [OpenIds -> Points \ Transit]
      BY <1>1
    <3>2. PICK c \in Call : /\ MovesOn(p, c) /\ Heading(c) = c.pc
                            /\ \/ OpenIds = {} /\ c.pc = "idle"
                               \/ OpenIds = {c.inc} /\ c.pc = [i \in OpenIds |-> "send_recovery"][c.inc]
      BY <1>1, <1>7, <2>1, <3>1 DEF RecoveryLookup
    <3>3. QED
      BY <3>2
  <2>2. CASE AlertLookup(p)
    <3> DEFINE found == [i \in OpenIds |-> IF AlreadyAlerted(i) THEN "escalate_lookup" ELSE "create_lookup"]
    <3>1. found \in [OpenIds -> Points \ Transit]
      BY <1>1
    <3>2. PICK c \in Call : /\ MovesOn(p, c) /\ Heading(c) = c.pc
                            /\ \/ OpenIds = {} /\ c.pc = "create_lookup"
                               \/ OpenIds = {c.inc} /\ c.pc = found[c.inc]
      BY <1>1, <1>7, <2>2, <3>1 DEF AlertLookup
    <3>3. QED
      BY <1>6, <3>2
  <2>3. CASE CreateLookup(p)
    <3>1. [i \in OpenIds |-> "send_down"] \in [OpenIds -> Points \ Transit]
      BY <1>1
    <3>2. OpenIds = {}
      BY <1>2, <1>4, <2>3 DEF CreateLookup, At
    <3>3. PICK c \in Call : /\ MovesOn(p, c) /\ Heading(c) = c.pc
                            /\ \/ OpenIds = {} /\ c.pc = "create_insert"
                               \/ OpenIds = {c.inc} /\ c.pc = [i \in OpenIds |-> "send_down"][c.inc]
      BY <1>1, <1>7, <2>3, <3>1 DEF CreateLookup
    <3>4. QED
      BY <3>2, <3>3
  <2>4. CASE EscalateLookup(p)
    <3> DEFINE found == [i \in OpenIds |-> IF MayEscalate(i, call[p].at) THEN "escalate" ELSE "idle"]
    <3>1. found \in [OpenIds -> Points \ Transit]
      BY <1>1
    <3>2. PICK c \in Call : /\ MovesOn(p, c) /\ Heading(c) = c.pc
                            /\ \/ OpenIds = {} /\ c.pc = "idle"
                               \/ OpenIds = {c.inc} /\ c.pc = found[c.inc]
      BY <1>1, <1>7, <2>4, <3>1 DEF EscalateLookup
    <3>3. QED
      BY <3>2 DEF MayEscalate
  <2>5. QED
    BY <2>1, <2>2, <2>3, <2>4
<1>9. Sound(c.pc, c.inc)
  <2>1. \A j \in OpenIds : Settled(c.pc, j)
    BY <1>6 DEF Settled, AlreadyAlerted
  <2>2. CASE OpenIds = {} /\ c.pc \in {"idle", "create_lookup", "create_insert"}
    BY <2>1, <2>2 DEF Sound, InHand, Announcing, Escalating, Recovering
  <2>3. CASE OpenIds = {c.inc} /\ c.pc \in {"send_recovery", "escalate_lookup", "idle"}
    BY <2>1, <2>3 DEF Sound, InHand, Announcing, Escalating, Recovering
  <2>4. CASE OpenIds = {c.inc} /\ c.pc = "escalate" /\ incidents[c.inc].lastEscalationAt = NULL
    <3>1. Told("down", c.inc) /\ ~Told("escalation", c.inc)
      BY <1>6, <2>4
    <3>2. QED
      BY <2>1, <2>4, <3>1 DEF Sound, InHand, Announcing, Escalating, Recovering
  <2>5. QED
    BY <1>8, <2>2, <2>3, <2>4
<1>10. QED
  BY <1>3, <1>8, <1>9, StoryMove DEF MovesOn

(* Nothing of a kind as late as this one, or later, was told of i; and the  *)
(* first that is told of it is its going down.                              *)
Tellable(kind, i) ==
  /\ \A g \in DOMAIN Rank : Told(g, i) => Rank[g] < Rank[kind]
  /\ kind # "down" => Told("down", i)

(* Telling of an incident what comes next in its story                      *)
LEMMA StoryContinues ==
  ASSUME TypeOK, IncidentStory, Recorded, NEW n \in Notification, log' = Append(log, n),
         UNCHANGED incidents, Tellable(n.kind, n.inc), n.inc \in DOMAIN incidents
  PROVE  /\ IncidentStory' /\ Recorded'
         /\ \A g, i : Told(g, i)' <=> Told(g, i) \/ (g = n.kind /\ i = n.inc)
<1>1. /\ log \in Seq(Notification) /\ Len(log) \in Nat /\ n.kind \in DOMAIN Rank
      /\ \A k \in DOMAIN log : log[k].kind \in DOMAIN Rank
  <2>1. log \in Seq(Notification)
    BY DEF TypeOK
  <2>2. \A k \in DOMAIN log : log[k] \in Notification
    BY <2>1
  <2>3. \A e \in Notification : e.kind \in DOMAIN Rank
    BY StartsInOrder DEF Notification
  <2>4. QED
    BY <2>1, <2>2, <2>3
<1>2. PICK m \in Nat : m = Len(log) + 1
  BY <1>1
<1>3. /\ DOMAIN log' = DOMAIN log \cup {m} /\ m \notin DOMAIN log /\ log'[m] = n
      /\ DOMAIN log = 1 .. m - 1
      /\ \A k \in DOMAIN log : log'[k] = log[k]
  BY <1>1, <1>2
<1>4. \A g, i : Told(g, i)' <=> Told(g, i) \/ (g = n.kind /\ i = n.inc)
  BY <1>3 DEF Told
<1>5. Recorded'
  BY <1>3, <1>4 DEF Recorded
<1>6. ASSUME NEW k \in DOMAIN log'
      PROVE  /\ \E j \in 1 .. k : log'[j].inc = log'[k].inc /\ log'[j].kind = "down"
             /\ \A j \in 1 .. k - 1 :
                  log'[j].inc = log'[k].inc => Rank[log'[j].kind] < Rank[log'[k].kind]
  <2>1. CASE k \in DOMAIN log
    <3>1. \A j \in 1 .. k : j \in DOMAIN log
      BY <1>3, <2>1
    <3>2. \A j \in 1 .. k - 1 : j \in 1 .. k
      BY <1>3, <2>1
    <3>3. QED
      BY <1>3, <2>1, <3>1, <3>2 DEF IncidentStory
  <2>2. CASE k = m
    <3>1. \E j \in 1 .. m : log'[j].inc = n.inc /\ log'[j].kind = "down"
      <4>1. CASE n.kind = "down"
        <5>1. m \in 1 .. m
          BY <1>1, <1>2
        <5>2. QED
          BY <1>3, <4>1, <5>1
      <4>2. CASE n.kind # "down"
        <5>1. PICK j \in DOMAIN log : log[j].kind = "down" /\ log[j].inc = n.inc
          BY <4>2 DEF Tellable, Told
        <5>2. j \in 1 .. m
          BY <1>3
        <5>3. QED
          BY <1>3, <5>1, <5>2
      <4>3. QED
        BY <4>1, <4>2
    <3>2. \A j \in 1 .. m - 1 : log'[j].inc = n.inc => Rank[log'[j].kind] < Rank[n.kind]
      BY <1>1, <1>3 DEF Tellable, Told
    <3>3. QED
      BY <1>3, <2>2, <3>1, <3>2
  <2>3. QED
    BY <1>3, <2>1, <2>2
<1>7. IncidentStory'
  <2>1. \A i \in DOMAIN incidents' : incidents'[i].status = "resolved" => Told("recovery", i)'
    BY <1>4 DEF IncidentStory
  <2>2. QED
    BY <1>6, <2>1 DEF IncidentStory
<1>8. QED
  BY <1>4, <1>5, <1>7

(* Nobody fails to send, so the goroutine goes on with the incident.        *)
LEMMA AlwaysSent ==
  ASSUME NEW p \in Procs, TypeOK, "send" \notin Faults,
         NEW kind \in {"down", "recovery", "escalation"},
         NEW onSent \in Points \ Transit, NEW onError, Broadcast(p, kind, onSent, onError)
  PROVE  \E c \in Call, n \in Notification :
           /\ Continue(p, c) /\ c.inc = call[p].inc /\ c.at = call[p].at /\ Heading(c) = onSent
           /\ c.pc = onSent /\ Kept(c, p)
           /\ log' = Append(log, n) /\ n.kind = kind /\ n.inc = call[p].inc /\ n.checked = call[p].at
           /\ UNCHANGED incidents
<1>1. PICK d \in Deliveries :
        /\ log' = Append(log, [kind |-> kind, inc |-> call[p].inc, to |-> d.to, err |-> d.err,
                               checked |-> call[p].at])
        /\ Goto(p, IF d.err THEN onError ELSE onSent)
  BY DEF Broadcast
<1>2. d.err = FALSE /\ d.to \in SUBSET Channels
  BY DEF Deliveries, Speaking
<1> DEFINE n == [kind |-> kind, inc |-> call[p].inc, to |-> d.to, err |-> d.err,
                 checked |-> call[p].at]
           c == [call[p] EXCEPT !.pc = onSent]
<1>3. call[p] \in Call
  BY DEF TypeOK
<1>4. n \in Notification /\ n.kind = kind /\ n.inc = call[p].inc /\ n.checked = call[p].at
  BY <1>2, <1>3 DEF Notification, Call
<1>5. /\ c \in Call /\ c.inc = call[p].inc /\ c.at = call[p].at /\ Heading(c) = onSent
      /\ c.pc = onSent /\ Kept(c, p)
  BY <1>3 DEF Call, Heading, Kept
<1>6. Continue(p, c)
  BY <1>1, <1>2 DEF Goto
<1>7. UNCHANGED incidents
  BY DEF Broadcast
<1>8. QED
  BY <1>1, <1>4, <1>5, <1>6, <1>7

LEMMA StorySend ==
  ASSUME NEW p \in Procs, TypeOK, OneAtATime, StoryInv, "send" \notin Faults,
         SendRecoveryAlert(p) \/ SendDownAlert(p) \/ SendEscalationAlert(p)
  PROVE  StoryInv'
<1>1. {"cool_recovery", "mark_sent", "mark_escalation"} \subseteq Points \ Transit
  BY DEF Points, Transit
<1>2. PICK h, i : h = call[p].pc /\ i = call[p].inc
  OBVIOUS
<1>3. Sound(h, i) /\ call[p].at # NULL /\ h \in {"send_recovery", "send_down", "send_escalation"}
  <2>1. h \in {"send_recovery", "send_down", "send_escalation"}
    BY <1>2 DEF SendRecoveryAlert, SendDownAlert, SendEscalationAlert, At
  <2>2. Heading(call[p]) = h /\ h # "idle"
    BY <1>2, <2>1 DEF Heading, Transit
  <2>3. QED
    BY <1>2, <2>1, <2>2, StoryParts
<1>4. OpenIds = {i} /\ Settled(h, i) /\ i \in DOMAIN incidents
  <2>1. OpenIds = {i}
    BY <1>3 DEF Sound, InHand, Announcing, Escalating
  <2>2. QED
    BY <1>3, <2>1 DEF Sound, OpenIds
<1>5. IncidentStory /\ Recorded
  BY DEF StoryInv
<1>6. ASSUME NEW c \in Call, NEW n \in Notification, NEW g,
             Continue(p, c), c.inc = call[p].inc, c.at = call[p].at, Heading(c) = g,
             log' = Append(log, n), n.inc = call[p].inc, UNCHANGED incidents,
             Tellable(n.kind, i),
             \/ g = "mark_sent" /\ n.kind = "down" /\ h = "send_down"
             \/ g = "mark_escalation" /\ n.kind = "escalation" /\ h = "send_escalation"
             \/ g = "cool_recovery" /\ n.kind = "recovery" /\ h = "send_recovery"
      PROVE  StoryInv'
  <2>1. /\ IncidentStory' /\ Recorded'
        /\ \A k, j : Told(k, j)' <=> Told(k, j) \/ (k = n.kind /\ j = n.inc)
    BY <1>2, <1>4, <1>5, <1>6, StoryContinues
  <2>2. OpenIds' = {i}
    BY <1>4, <1>6 DEF OpenIds
  <2>3. Settled(g, i)'
    BY <1>2, <1>4, <1>6, <2>1 DEF Settled, Announcing, Recovering, Tellable, Rank
  <2>4. Sound(g, i)'
    BY <1>2, <1>3, <1>6, <2>1, <2>2, <2>3, StartsInOrder
       DEF Sound, InHand, Announcing, Escalating, Recovering, Tellable
  <2>5. QED
    BY <1>2, <1>3, <1>6, <2>1, <2>4, StoryStep
<1>7. CASE SendRecoveryAlert(p)
  <2>1. h = "send_recovery"
    BY <1>2, <1>7 DEF SendRecoveryAlert, At
  <2>2. Told("down", i) /\ ~Told("recovery", i)
    BY <1>4, <1>5, <2>1 DEF Settled, Announcing, Recovering, Recorded
  <2>3. Tellable("recovery", i)
    BY <2>2, StartsInOrder DEF Tellable
  <2>4. PICK c \in Call, n \in Notification :
          /\ Continue(p, c) /\ c.inc = call[p].inc /\ c.at = call[p].at
          /\ Heading(c) = "cool_recovery"
          /\ log' = Append(log, n) /\ n.kind = "recovery" /\ n.inc = call[p].inc
          /\ UNCHANGED incidents
    BY <1>1, <1>7, AlwaysSent DEF SendRecoveryAlert
  <2>5. QED
    BY <1>6, <2>1, <2>3, <2>4
<1>8. CASE SendDownAlert(p)
  <2>1. h = "send_down"
    BY <1>2, <1>8 DEF SendDownAlert, At
  <2>2. Tellable("down", i)
    BY <1>3, <2>1, StartsInOrder DEF Sound, Tellable
  <2>3. PICK c \in Call, n \in Notification :
          /\ Continue(p, c) /\ c.inc = call[p].inc /\ c.at = call[p].at
          /\ Heading(c) = "mark_sent"
          /\ log' = Append(log, n) /\ n.kind = "down" /\ n.inc = call[p].inc
          /\ UNCHANGED incidents
    BY <1>1, <1>8, AlwaysSent DEF SendDownAlert
  <2>4. QED
    BY <1>6, <2>1, <2>2, <2>3
<1>9. CASE SendEscalationAlert(p)
  <2>1. h = "send_escalation"
    BY <1>2, <1>9 DEF SendEscalationAlert, At
  <2>2. Told("down", i) /\ ~Told("escalation", i) /\ ~Told("recovery", i)
    BY <1>3, <1>4, <2>1 DEF Sound, Settled, Escalating, Recovering
  <2>3. Tellable("escalation", i)
    BY <2>2, StartsInOrder DEF Tellable
  <2>4. PICK c \in Call, n \in Notification :
          /\ Continue(p, c) /\ c.inc = call[p].inc /\ c.at = call[p].at
          /\ Heading(c) = "mark_escalation"
          /\ log' = Append(log, n) /\ n.kind = "escalation" /\ n.inc = call[p].inc
          /\ UNCHANGED incidents
    BY <1>1, <1>9, AlwaysSent DEF SendEscalationAlert
  <2>5. QED
    BY <1>6, <2>1, <2>3, <2>4
<1>10. QED
  BY <1>7, <1>8, <1>9

(* What a write leaves of what was told, and of which rows are open         *)
LEMMA MarksKeepOpen ==
  ASSUME NEW p \in Procs, TypeOK,
         \/ incidents' = [incidents EXCEPT ![call[p].inc].alertSentAt = call[p].at]
         \/ incidents' = [incidents EXCEPT ![call[p].inc].lastEscalationAt = call[p].at]
  PROVE  OpenIds' = OpenIds
  BY MarksKeepTimes DEF OpenIds

LEMMA LogStaysTold ==
  ASSUME UNCHANGED log
  PROVE  \A kind, i : Told(kind, i)' <=> Told(kind, i)
  BY DEF Told

LEMMA StoryInsert ==
  ASSUME NEW p \in Procs, TypeOK, OneAtATime, StoryInv, call[p].pc = "create_insert",
         UNCHANGED log, incidents' = Append(incidents, NewIncident(call[p].at)),
         NEW c \in Call, Continue(p, c), c.at = call[p].at, c.pc = "send_down",
         Heading(c) = c.pc, c.inc = Len(incidents) + 1
  PROVE  StoryInv'
<1>1. PICK n : n = Len(incidents) + 1
  OBVIOUS
<1>2. /\ DOMAIN incidents' = DOMAIN incidents \cup {n} /\ n \notin DOMAIN incidents
      /\ \A i \in DOMAIN incidents : incidents'[i] = incidents[i]
      /\ incidents'[n].status = "open" /\ incidents'[n].alertSentAt = NULL
  <2>1. NewIncident(call[p].at).status = "open" /\ NewIncident(call[p].at).alertSentAt = NULL
    BY DEF NewIncident
  <2>2. QED
    BY <1>1, <2>1, InsertedRow
<1>3. OpenIds = {} /\ call[p].at # NULL
  <2>1. Heading(call[p]) = "create_insert" /\ call[p].pc # "idle"
    BY DEF Heading, Transit
  <2>2. QED
    BY <2>1, StoryParts DEF Sound
<1>4. OpenIds' = {n}
  BY <1>2, <1>3 DEF OpenIds
<1>5. \A kind : ~Told(kind, n)'
  BY <1>2, LogStaysTold DEF StoryInv, Recorded, Told
<1>6. Sound("send_down", n)'
  BY <1>4, <1>5 DEF Sound, Settled, InHand, Announcing, Escalating, Recovering
<1>7. IncidentStory' /\ Recorded'
  BY <1>2, LogStaysTold DEF StoryInv, IncidentStory, Recorded
<1>8. QED
  BY <1>1, <1>3, <1>6, <1>7, StoryStep

LEMMA StoryResolve ==
  ASSUME NEW p \in Procs, TypeOK, OneAtATime, StoryInv, call[p].pc = "resolve",
         UNCHANGED log, incidents' = Resolved(call[p].at),
         NEW c \in Call, Continue(p, c), c.at = call[p].at, c.pc = "idle", Heading(c) = c.pc
  PROVE  StoryInv'
<1>1. /\ DOMAIN incidents' = DOMAIN incidents
      /\ \A i \in DOMAIN incidents : /\ incidents'[i].alertSentAt = incidents[i].alertSentAt
                                     /\ incidents'[i].status = "resolved"
  BY ResolvedRows
<1>2. /\ Sound("resolve", call[p].inc) /\ call[p].at # NULL
  <2>1. Heading(call[p]) = "resolve" /\ call[p].pc # "idle"
    BY DEF Heading, Transit
  <2>2. QED
    BY <2>1, StoryParts
<1>3. OpenIds = {call[p].inc} /\ Told("recovery", call[p].inc)
  BY <1>2 DEF Sound, InHand, Recovering
<1>4. OpenIds' = {}
  BY <1>1 DEF OpenIds
<1>5. \A i \in DOMAIN incidents : Told("recovery", i)
  BY <1>3, RowTimes DEF OpenIds, StoryInv, IncidentStory
<1>6. Sound("idle", c.inc)'
  BY <1>4 DEF Sound, InHand, Announcing, Escalating, Recovering
<1>7. IncidentStory' /\ Recorded'
  BY <1>1, <1>5, LogStaysTold DEF StoryInv, IncidentStory, Recorded
<1>8. QED
  BY <1>2, <1>6, <1>7, StoryStep

LEMMA StoryMark ==
  ASSUME NEW p \in Procs, TypeOK, OneAtATime, StoryInv, UNCHANGED log,
         NEW c \in Call, Continue(p, c), c.at = call[p].at, Heading(c) = c.pc,
         \/ /\ call[p].pc = "mark_sent" /\ c.pc = "cool_down"
            /\ incidents' = [incidents EXCEPT ![call[p].inc].alertSentAt = call[p].at]
         \/ /\ call[p].pc = "mark_escalation" /\ c.pc = "cool_escalation"
            /\ incidents' = [incidents EXCEPT ![call[p].inc].lastEscalationAt = call[p].at]
  PROVE  StoryInv'
<1>1. PICK i, h, t : i = call[p].inc /\ h = call[p].pc /\ t = call[p].at
  OBVIOUS
<1>2. Sound(h, i) /\ t # NULL
  <2>1. Heading(call[p]) = h /\ h # "idle"
    BY <1>1 DEF Heading, Transit
  <2>2. QED
    BY <1>1, <2>1, StoryParts
<1>3. OpenIds = {i} /\ i \in DOMAIN incidents
  <2>1. OpenIds = {i}
    BY <1>1, <1>2 DEF Sound, InHand, Announcing
  <2>2. QED
    BY <2>1 DEF OpenIds
<1>4. /\ DOMAIN incidents' = DOMAIN incidents
      /\ \A j \in DOMAIN incidents : incidents'[j].status = incidents[j].status
      /\ OpenIds' = {i}
  BY <1>3, MarksKeepTimes, MarksKeepOpen
<1>5. /\ \A j \in DOMAIN incidents : j # i => incidents'[j] = incidents[j]
      /\ h = "mark_sent" => incidents'[i].alertSentAt = t
      /\ h = "mark_escalation" => /\ incidents'[i].lastEscalationAt = t
                                 /\ incidents'[i].alertSentAt = incidents[i].alertSentAt
  <2>1. incidents[i] \in Incident
    BY <1>3 DEF TypeOK
  <2>2. QED
    BY <1>1, <1>3, <2>1 DEF Incident
<1>6. /\ h = "mark_sent" => Told("down", i) /\ ~Told("escalation", i)
      /\ h = "mark_escalation" => incidents[i].alertSentAt # NULL
      /\ ~Told("recovery", i)
  BY <1>1, <1>2, <1>3 DEF Sound, Settled, Announcing, Recovering
<1>7. Recorded' /\ IncidentStory'
  BY <1>1, <1>4, <1>5, <1>6, LogStaysTold DEF StoryInv, IncidentStory, Recorded
<1>8. Settled(c.pc, i)'
  BY <1>1, <1>2, <1>5, <1>6, LogStaysTold DEF Settled
<1>9. Sound(c.pc, c.inc)'
  BY <1>1, <1>4, <1>8 DEF Sound, InHand, Announcing, Escalating, Recovering
<1>10. QED
  BY <1>1, <1>2, <1>7, <1>9, StoryStep

LEMMA StoryWrite ==
  ASSUME NEW p \in Procs, TypeOK, OneAtATime, StoryInv, "db" \notin Faults,
         \/ ResolveIncident(p) \/ CreateInsert(p)
         \/ MarkIncidentAlertSent(p) \/ MarkIncidentEscalation(p)
  PROVE  StoryInv'
  BY WrittenBy, StoryInsert, StoryResolve, StoryMark

LEMMA StoryEnvironment ==
  ASSUME StoryInv, Tick \/ RedisDown \/ RedisUp \/ BoundReached \/ UNCHANGED vars
  PROVE  StoryInv'
<1>1. UNCHANGED <<incidents, log, call>>
  BY DEF Tick, RedisDown, RedisUp, BoundReached, vars, observers
<1>2. \A h, i : Sound(h, i) <=> Sound(h, i)'
  BY <1>1 DEF Sound, Settled, Told, OpenIds
<1>3. IncidentStory' /\ Recorded'
  BY <1>1 DEF StoryInv, IncidentStory, Recorded, Told
<1>4. ASSUME NEW q \in Procs
      PROVE  (Sound(Heading(call[q]), call[q].inc) /\ (call[q].pc # "idle" => call[q].at # NULL))'
  BY <1>1, <1>2, StoryParts DEF Heading
<1>5. QED
  BY <1>3, <1>4 DEF StoryInv

LEMMA NextStory ==
  ASSUME TypeOK, OutagesDoNotOverlap, StoryInv, OneAtATime, Faults \subseteq {"redis"}, [Next]_vars
  PROVE  StoryInv'
<1>1. "db" \notin Faults /\ "send" \notin Faults /\ "crash" \notin Faults
  OBVIOUS
<1>2. ASSUME NEW p \in Procs, StartCheck(p) \/ Step(p)
      PROVE  StoryInv'
  BY <1>1, <1>2, StoryStart, StoryWalk, StoryLookup, StorySend, StoryWrite DEF Step
<1>3. CASE Tick \/ RedisDown \/ RedisUp \/ BoundReached \/ UNCHANGED vars
  BY <1>3, StoryEnvironment
<1>4. ~Crash
  BY <1>1 DEF Crash
<1>5. QED
  BY <1>2, <1>3, <1>4 DEF Next

LEMMA InitStory == Init => StoryInv
<1> SUFFICES ASSUME Init PROVE StoryInv
  OBVIOUS
<1>1. DOMAIN incidents = {} /\ DOMAIN log = {} /\ \A q \in Procs : call[q] = Idle
  BY DEF Init
<1>2. OpenIds = {}
  BY <1>1 DEF OpenIds
<1>3. IncidentStory /\ Recorded
  BY <1>1 DEF IncidentStory, Recorded
<1>4. ASSUME NEW q \in Procs
      PROVE  Sound(Heading(call[q]), call[q].inc) /\ (call[q].pc # "idle" => call[q].at # NULL)
  <2>1. Heading(call[q]) = "idle" /\ call[q].pc = "idle"
    BY <1>1, IdleHeading DEF Idle
  <2>2. Sound("idle", call[q].inc)
    BY <1>2 DEF Sound, InHand, Announcing, Escalating, Recovering
  <2>3. QED
    BY <2>1, <2>2
<1>5. QED
  BY <1>3, <1>4 DEF StoryInv

(* While the checks of a site are handled one at a time and only Redis      *)
(* fails, however often and wherever, with keys that expire whenever they   *)
(* like: what is told of each incident is down, at most one escalation, the *)
(* recovery and nothing after it, and no incident ends without its recovery *)
(* being told.                                                              *)
THEOREM StoriesAreWhole ==
  ASSUME OneAtATime, Faults \subseteq {"redis"}
  PROVE  Spec => []IncidentStory
<1>1. TypeOK /\ TypeOK' /\ OutageInv /\ [Next]_vars => OutageInv'
  BY NextOutage
<1>2. TypeOK /\ OutageInv /\ StoryInv /\ [Next]_vars => StoryInv'
  BY NextStory DEF OutageInv
<1>3. StoryInv => IncidentStory
  BY DEF StoryInv
<1>4. QED
  BY <1>1, <1>2, <1>3, InitOutage, InitStory, TypeCorrect, PTL DEF Spec

(* The same of a site that is deleted and added again, with the checks of   *)
(* its earlier life still on their way.                                     *)
THEOREM SiteStoriesAreWhole ==
  ASSUME OneAtATime, Faults \subseteq {"redis"}
  PROVE  SiteSpec => [](IncidentStory /\ OutagesDoNotOverlap)
  BY SitesAreAlerted, StoriesAreWhole, OutagesFollowOneAnother, PTL
=============================================================================
