------------------------- MODULE AlertManagerProofs -------------------------
(***************************************************************************)
(* Theorems about AlertManager, for any number of goroutines, any channels, *)
(* thresholds, faults and bounds.                                          *)
(***************************************************************************)
EXTENDS AlertManager, TLAPS

-----------------------------------------------------------------------------
(* The goroutine table                                                      *)

LEMMA IdleIsACall == Idle \in Call
  BY DEF Idle, Call, ZeroState, AlertState, NULL, Points

LEMMA ContinueType ==
  ASSUME NEW p \in Procs, call \in [Procs -> Call], NEW c \in Call, Continue(p, c)
  PROVE  call' \in [Procs -> Call]
  BY IdleIsACall DEF Continue

LEMMA GotoType ==
  ASSUME NEW p \in Procs, call \in [Procs -> Call], NEW point \in Points, Goto(p, point)
  PROVE  call' \in [Procs -> Call]
<1>1. [call[p] EXCEPT !.pc = point] \in Call
  BY DEF Call
<1>2. QED
  BY <1>1, ContinueType DEF Goto

LEMMA UpdateType ==
  ASSUME NEW p \in Procs, TypeOK, NEW rows \in Seq(Incident), NEW next \in Points,
         Update(p, rows, next)
  PROVE  TypeOK'
<1>1. call' \in [Procs -> Call]
  BY GotoType DEF Update, TypeOK
<1>2. incidents' \in Seq(Incident)
  BY DEF Update, TypeOK
<1>3. QED
  BY <1>1, <1>2 DEF Update, TypeOK, env, stores, observers

LEMMA BroadcastType ==
  ASSUME NEW p \in Procs, TypeOK, NEW kind \in {"down", "recovery", "escalation"},
         NEW onSent \in Points, NEW onError \in Points,
         Broadcast(p, kind, onSent, onError)
  PROVE  TypeOK'
<1>1. PICK d \in Deliveries :
        /\ log' = Append(log, [kind |-> kind, inc |-> call[p].inc, to |-> d.to, err |-> d.err,
                               checked |-> call[p].at])
        /\ Goto(p, IF d.err THEN onError ELSE onSent)
  BY DEF Broadcast
<1>2. d.to \in SUBSET Channels /\ d.err \in BOOLEAN
  BY DEF Deliveries, Speaking
<1>3. call[p] \in Call /\ now \in Nat /\ streak \in Nat
  BY DEF TypeOK
<1>4. log' \in Seq(Notification)
  BY <1>1, <1>2, <1>3 DEF TypeOK, Notification, Call
<1>5. call' \in [Procs -> Call]
  BY <1>1, GotoType DEF TypeOK
<1>6. QED
  BY <1>4, <1>5 DEF Broadcast, TypeOK, env, stores

LEMMA GetOpenIncidentType ==
  ASSUME NEW p \in Procs, TypeOK, NEW onError \in Points, NEW onNone \in Points,
         NEW onFound \in [OpenIds -> Points],
         GetOpenIncident(p, onError, onNone, onFound)
  PROVE  TypeOK'
<1>1. call[p] \in Call
  BY DEF TypeOK
<1>2. \A i \in OpenIds : i \in Nat
  BY DEF OpenIds, TypeOK
<1>3. call' \in [Procs -> Call]
  <2>1. CASE Goto(p, onError)
    BY <2>1, GotoType DEF TypeOK
  <2>2. CASE Continue(p, [call[p] EXCEPT !.pc = onNone, !.inc = NULL])
    <3>1. [call[p] EXCEPT !.pc = onNone, !.inc = NULL] \in Call
      BY <1>1 DEF Call, NULL
    <3>2. QED
      BY <2>2, <3>1, ContinueType DEF TypeOK
  <2>3. ASSUME NEW i \in LatestOpen,
               Continue(p, [call[p] EXCEPT !.pc = onFound[i], !.inc = i])
        PROVE  call' \in [Procs -> Call]
    <3>1. i \in Nat /\ onFound[i] \in Points
      BY <1>2 DEF LatestOpen
    <3>2. [call[p] EXCEPT !.pc = onFound[i], !.inc = i] \in Call
      BY <1>1, <3>1 DEF Call
    <3>3. QED
      BY <2>3, <3>2, ContinueType DEF TypeOK
  <2>4. QED
    BY <2>1, <2>2, <2>3 DEF GetOpenIncident
<1>4. QED
  BY <1>3 DEF GetOpenIncident, TypeOK, env, stores, observers

-----------------------------------------------------------------------------
(* Type correctness, one lemma per group of actions                         *)

LEMMA StatesType ==
  ASSUME NEW s \in AlertState
  PROVE  Cleared(s) \in AlertState /\ Incremented(s) \in AlertState
  BY DEF Cleared, Incremented, AlertState

LEMMA LoadType ==
  ASSUME NEW p \in Procs, TypeOK,
         BeginLoad(p) \/ GetFailures(p) \/ GetCooldown(p) \/ GetIsDown(p)
  PROVE  TypeOK'
<1>1. call[p] \in Call /\ redis \in AlertState /\ mem \in AlertState
  BY DEF TypeOK
<1>2. call' \in [Procs -> Call]
  <2>1. CASE BeginLoad(p)
    <3> DEFINE next == AfterLoad[call[p].pc]
               c == IF redisUp
                    THEN [call[p] EXCEPT !.pc = "get_failures", !.ret = next, !.st = ZeroState]
                    ELSE [call[p] EXCEPT !.pc = next, !.ret = next, !.st = mem]
    <3>1. next \in Points
      BY <2>1 DEF BeginLoad, AfterLoad, Points
    <3>2. c \in Call
      BY <1>1, <3>1 DEF Call, Points, ZeroState, AlertState, NULL
    <3>3. QED
      BY <2>1, <3>2, ContinueType DEF BeginLoad, TypeOK
  <2>2. CASE GetFailures(p)
    <3>1. [call[p] EXCEPT !.pc = "get_cooldown",
             !.st.failures = IF Readable THEN redis.failures ELSE @] \in Call
      BY <1>1 DEF Call, Points, AlertState
    <3>2. QED
      BY <2>2, <3>1, ContinueType DEF GetFailures, TypeOK
  <2>3. CASE GetCooldown(p)
    <3>1. [call[p] EXCEPT !.pc = "get_isdown",
             !.st.lastAlert = IF Readable THEN redis.lastAlert ELSE @] \in Call
      BY <1>1 DEF Call, Points, AlertState
    <3>2. QED
      BY <2>3, <3>1, ContinueType DEF GetCooldown, TypeOK
  <2>4. CASE GetIsDown(p)
    <3>1. [call[p] EXCEPT !.pc = call[p].ret,
             !.st.isDown = IF Readable THEN redis.isDown ELSE @] \in Call
      BY <1>1 DEF Call, Points, AlertState
    <3>2. QED
      BY <2>4, <3>1, ContinueType DEF GetIsDown, TypeOK
  <2>5. QED
    BY <2>1, <2>2, <2>3, <2>4
<1>3. QED
  BY <1>2 DEF BeginLoad, GetFailures, GetCooldown, GetIsDown, TypeOK,
              env, stores, observers

LEMMA SaveType ==
  ASSUME NEW p \in Procs, TypeOK, ConfigAssumption, Save(p) \/ SaveMemory(p)
  PROVE  TypeOK'
<1>1. call[p].st \in AlertState /\ call[p].ret \in Points /\ now + KeyTTL \in Nat
  BY DEF TypeOK, Call, ConfigAssumption
<1>2. "save_memory" \in Points
  BY DEF Points
<1>3. call' \in [Procs -> Call]
  BY <1>1, <1>2, GotoType DEF Save, SaveMemory, TypeOK
<1>4. QED
  BY <1>1, <1>3 DEF Save, SaveMemory, TypeOK, env, observers

LEMMA HandleType ==
  ASSUME NEW p \in Procs, TypeOK,
         StartCheck(p) \/ HandleRecovery(p) \/ HandleFailure(p) \/ SetAlertCooldown(p)
  PROVE  TypeOK'
<1>1. call[p] \in Call /\ call[p].st \in AlertState /\ now \in Nat
  BY DEF TypeOK, Call
<1>2. CASE StartCheck(p)
  <2>1. PICK up \in BOOLEAN :
          Continue(p, [Idle EXCEPT !.pc = "process_check", !.up = up, !.at = now])
    BY <1>2 DEF StartCheck
  <2>2. [Idle EXCEPT !.pc = "process_check", !.up = up, !.at = now] \in Call
    BY <1>1, IdleIsACall DEF Call, Points
  <2>3. call' \in [Procs -> Call]
    BY <2>1, <2>2, ContinueType DEF TypeOK
  <2>4. /\ started' = started + 1
        /\ UNCHANGED <<env, stores, incidents, log, fails, streak>>
    BY <1>2 DEF StartCheck
  <2>5. QED
    BY <2>3, <2>4 DEF TypeOK, env, stores
<1>3. CASE HandleRecovery(p)
  <2>1. [call[p] EXCEPT !.pc = "save", !.st = Cleared(call[p].st),
           !.ret = IF call[p].st.isDown THEN "recovery_lookup" ELSE "idle"] \in Call
    BY <1>1, StatesType DEF Call, Points
  <2>2. call' \in [Procs -> Call]
    BY <1>3, <2>1, ContinueType DEF HandleRecovery, TypeOK
  <2>3. QED
    BY <1>3, <2>2 DEF HandleRecovery, TypeOK, env, stores
<1>4. CASE HandleFailure(p)
  <2> DEFINE s == Incremented(call[p].st)
  <2>1. [call[p] EXCEPT !.pc = "save", !.st = s,
           !.ret = IF BelowThreshold(s) THEN "idle" ELSE "should_alert"] \in Call
    BY <1>1, StatesType DEF Call, Points
  <2>2. call' \in [Procs -> Call]
    BY <1>4, <2>1, ContinueType DEF HandleFailure, TypeOK
  <2>3. QED
    BY <1>4, <2>2 DEF HandleFailure, TypeOK, env, stores
<1>5. CASE SetAlertCooldown(p)
  <2>1. AfterStamp[call[p].pc] \in Points
    BY <1>5 DEF SetAlertCooldown, AfterStamp, Points
  <2>2. [call[p] EXCEPT !.pc = "save", !.st.lastAlert = call[p].at,
                        !.ret = AfterStamp[call[p].pc]] \in Call
    BY <1>1, <2>1 DEF Call, Points, AlertState
  <2>3. call' \in [Procs -> Call]
    BY <1>5, <2>2, ContinueType DEF SetAlertCooldown, TypeOK
  <2>4. QED
    BY <1>5, <2>3 DEF SetAlertCooldown, TypeOK, env, stores, observers
<1>6. QED
  BY <1>2, <1>3, <1>4, <1>5

LEMMA LookupType ==
  ASSUME NEW p \in Procs, TypeOK,
         RecoveryLookup(p) \/ AlertLookup(p) \/ CreateLookup(p) \/ EscalateLookup(p)
  PROVE  TypeOK'
<1>1. CASE RecoveryLookup(p)
  <2>1. [i \in OpenIds |-> "send_recovery"] \in [OpenIds -> Points] /\ "idle" \in Points
    BY DEF Points
  <2>2. QED
    BY <1>1, <2>1, GetOpenIncidentType DEF RecoveryLookup
<1>2. CASE AlertLookup(p)
  <2> DEFINE found == [i \in OpenIds |-> IF AlreadyAlerted(i) THEN "escalate_lookup" ELSE "create_lookup"]
  <2>1. found \in [OpenIds -> Points] /\ {"escalate_lookup", "create_lookup"} \subseteq Points
    BY DEF Points
  <2>2. GetOpenIncident(p, "escalate_lookup", "create_lookup", found)
    BY <1>2 DEF AlertLookup
  <2> HIDE DEF found
  <2>3. QED
    BY <2>1, <2>2, GetOpenIncidentType
<1>3. CASE CreateLookup(p)
  <2>1. /\ [i \in OpenIds |-> "send_down"] \in [OpenIds -> Points]
        /\ {"idle", "create_insert"} \subseteq Points
    BY DEF Points
  <2>2. QED
    BY <1>3, <2>1, GetOpenIncidentType DEF CreateLookup
<1>4. CASE EscalateLookup(p)
  <2> DEFINE found == [i \in OpenIds |-> IF MayEscalate(i, call[p].at) THEN "escalate" ELSE "idle"]
  <2>1. found \in [OpenIds -> Points] /\ "idle" \in Points
    BY DEF Points
  <2>2. GetOpenIncident(p, "idle", "idle", found)
    BY <1>4 DEF EscalateLookup
  <2> HIDE DEF found
  <2>3. QED
    BY <2>1, <2>2, GetOpenIncidentType
<1>5. QED
  BY <1>1, <1>2, <1>3, <1>4

LEMMA DecideType ==
  ASSUME NEW p \in Procs, TypeOK, Judge(p) \/ Weigh(p)
  PROVE  TypeOK'
<1>1. {"escalate_lookup", "alert_lookup", "idle", "send_escalation"} \subseteq Points
  BY DEF Points
<1>2. call' \in [Procs -> Call]
  BY <1>1, GotoType DEF Judge, Weigh, TypeOK
<1>3. QED
  BY <1>2 DEF Judge, Weigh, TypeOK, env, stores, observers

LEMMA SendType ==
  ASSUME NEW p \in Procs, TypeOK,
         SendRecoveryAlert(p) \/ SendDownAlert(p) \/ SendEscalationAlert(p)
  PROVE  TypeOK'
<1>1. {"cool_recovery", "resolve", "mark_sent", "mark_escalation", "idle"} \subseteq Points
  BY DEF Points
<1>2. QED
  BY <1>1, BroadcastType DEF SendRecoveryAlert, SendDownAlert, SendEscalationAlert

LEMMA RowReplaced ==
  ASSUME NEW rows \in Seq(Incident), NEW i, NEW r, i \in DOMAIN rows => r \in Incident
  PROVE  [rows EXCEPT ![i] = r] \in Seq(Incident)
<1> DEFINE new == [rows EXCEPT ![i] = r]
<1>1. DOMAIN rows = 1 .. Len(rows) /\ Len(rows) \in Nat
  OBVIOUS
<1>2. \A k \in 1 .. Len(rows) : new[k] \in Incident
  OBVIOUS
<1>3. new = [k \in 1 .. Len(rows) |-> new[k]]
  BY <1>1
<1> HIDE DEF new
<1>4. new \in Seq(Incident)
  BY <1>1, <1>2, <1>3
<1>5. QED
  BY <1>4 DEF new

LEMMA RowsType ==
  ASSUME TypeOK, NEW t \in Nat, NEW i \in Nat
  PROVE  /\ Resolved(t) \in Seq(Incident)
         /\ [incidents EXCEPT ![i].alertSentAt = t] \in Seq(Incident)
         /\ [incidents EXCEPT ![i].lastEscalationAt = t] \in Seq(Incident)
<1>1. incidents \in Seq(Incident)
  BY DEF TypeOK
<1>2. ASSUME NEW r \in Incident
      PROVE  /\ [r EXCEPT !.status = "resolved", !.resolvedAt = t] \in Incident
             /\ [r EXCEPT !.alertSentAt = t] \in Incident
             /\ [r EXCEPT !.lastEscalationAt = t] \in Incident
  BY DEF Incident
<1>3. DOMAIN incidents = 1 .. Len(incidents) /\ Len(incidents) \in Nat
  BY <1>1
<1>4. Resolved(t) \in Seq(Incident)
  <2>1. \A j \in 1 .. Len(incidents) : Resolved(t)[j] \in Incident
    <3> TAKE j \in 1 .. Len(incidents)
    <3>1. incidents[j] \in Incident
      BY <1>1
    <3>2. Resolved(t)[j] \in {incidents[j],
                             [incidents[j] EXCEPT !.status = "resolved", !.resolvedAt = t]}
      BY <1>3 DEF Resolved
    <3>3. QED
      BY <1>2, <3>1, <3>2
  <2>2. Resolved(t) = [j \in 1 .. Len(incidents) |-> Resolved(t)[j]]
    BY <1>3 DEF Resolved
  <2>3. QED
    BY <1>3, <2>1, <2>2
<1>5. /\ [incidents EXCEPT ![i].alertSentAt = t] \in Seq(Incident)
      /\ [incidents EXCEPT ![i].lastEscalationAt = t] \in Seq(Incident)
  <2>1. i \in DOMAIN incidents => incidents[i] \in Incident
    BY <1>1
  <2>2. QED
    BY <1>1, <1>2, <2>1, RowReplaced
<1>6. QED
  BY <1>4, <1>5

LEMMA WriteType ==
  ASSUME NEW p \in Procs, TypeOK,
         \/ ResolveIncident(p) \/ CreateInsert(p)
         \/ MarkIncidentAlertSent(p) \/ MarkIncidentEscalation(p)
  PROVE  TypeOK'
<1>1. call[p] \in Call /\ call[p].at \in Nat /\ call[p].inc \in Nat
  BY DEF TypeOK, Call
<1>2. {"idle", "cool_down", "cool_escalation", "send_down"} \subseteq Points
  BY DEF Points
<1>3. CASE CreateInsert(p)
  <2>1. Append(incidents, NewIncident(call[p].at)) \in Seq(Incident)
    BY <1>1 DEF TypeOK, NewIncident, Incident, NULL
  <2>2. [call[p] EXCEPT !.pc = "send_down", !.inc = Len(incidents) + 1] \in Call
    <3>1. Len(incidents) + 1 \in Nat
      BY DEF TypeOK
    <3>2. QED
      BY <1>1, <1>2, <3>1 DEF Call
  <2>3. call' \in [Procs -> Call]
    BY <1>2, <1>3, <2>2, GotoType, ContinueType DEF CreateInsert, TypeOK
  <2>4. incidents' \in Seq(Incident)
    BY <1>3, <2>1 DEF CreateInsert, TypeOK
  <2>5. QED
    BY <1>3, <2>3, <2>4 DEF CreateInsert, TypeOK, env, stores, observers
<1>4. CASE ResolveIncident(p)
  <2>1. Resolved(call[p].at) \in Seq(Incident)
    BY <1>1, RowsType
  <2>2. QED
    BY <1>2, <1>4, <2>1, UpdateType DEF ResolveIncident
<1>5. CASE MarkIncidentAlertSent(p)
  <2>1. [incidents EXCEPT ![call[p].inc].alertSentAt = call[p].at] \in Seq(Incident)
    BY <1>1, RowsType
  <2>2. QED
    BY <1>2, <1>5, <2>1, UpdateType DEF MarkIncidentAlertSent
<1>6. CASE MarkIncidentEscalation(p)
  <2>1. [incidents EXCEPT ![call[p].inc].lastEscalationAt = call[p].at] \in Seq(Incident)
    BY <1>1, RowsType
  <2>2. QED
    BY <1>2, <1>6, <2>1, UpdateType DEF MarkIncidentEscalation
<1>7. QED
  BY <1>3, <1>4, <1>5, <1>6

LEMMA EnvironmentType ==
  ASSUME TypeOK, Tick \/ RedisDown \/ RedisUp \/ Crash \/ BoundReached \/ UNCHANGED vars
  PROVE  TypeOK'
<1>1. CASE Crash
  BY <1>1, IdleIsACall DEF Crash, TypeOK, env, observers, ZeroState, AlertState, NULL
<1>2. CASE Tick
  BY <1>2 DEF Tick, TypeOK, stores, observers
<1>3. CASE RedisDown \/ RedisUp
  BY <1>3 DEF RedisDown, RedisUp, TypeOK, stores, observers
<1>4. CASE BoundReached \/ UNCHANGED vars
  BY <1>4 DEF BoundReached, TypeOK, vars, env, stores, observers
<1>5. QED
  BY <1>1, <1>2, <1>3, <1>4

LEMMA InitType == Init => TypeOK
  BY IdleIsACall DEF Init, TypeOK, ZeroState, AlertState, NULL

LEMMA NextType ==
  ASSUME TypeOK, ConfigAssumption, [Next]_vars
  PROVE  TypeOK'
<1>1. ASSUME NEW p \in Procs, StartCheck(p) \/ Step(p)
      PROVE  TypeOK'
  BY <1>1, LoadType, SaveType, HandleType, LookupType, DecideType, SendType, WriteType
     DEF Step
<1>2. QED
  BY <1>1, EnvironmentType DEF Next

(* Every variable keeps its type, in every behaviour and for every value of *)
(* the constants: the alert state, the incident rows and the locals of each *)
(* goroutine are well formed through faults, restarts and interleavings.    *)
THEOREM TypeCorrect == Spec => []TypeOK
<1>1. TypeOK /\ [Next]_vars => TypeOK'
  BY NextType, ConfigAssumption
<1>2. QED
  BY <1>1, InitType, PTL DEF Spec

-----------------------------------------------------------------------------
(* The invariants behind NoEarlyAlarm and EscalationFollowsAlert.  Both are *)
(* about where a goroutine is heading: through a load or a save it keeps    *)
(* what it knew when it entered it.                                         *)

Transit == {"get_failures", "get_cooldown", "get_isdown", "save", "save_memory"}

Heading(c) == IF c.pc \in Transit THEN c.ret ELSE c.pc

(* Where a goroutine can only be once the threshold has been reached        *)
Alarming == {"alert_lookup", "create_lookup", "create_insert", "send_down", "send_recovery",
             "escalate", "weigh", "send_escalation"}

Reached == fails >= FailureThreshold

(* No copy of the counter is ahead of the failures handled                  *)
CountersInv ==
  /\ redis.failures <= fails
  /\ mem.failures <= fails
  /\ \A q \in Procs : call[q].st.failures <= fails

AlarmInv ==
  /\ CountersInv
  /\ \A q \in Procs : Heading(call[q]) \in Alarming => Reached
  /\ NoEarlyAlarm

(* A down alert for incident i went out without error                       *)
Known(i) == \E k \in DOMAIN log : Announced(k, i)

(* Incident i may be escalated by a check at time t                         *)
Escalable(i, t) ==
  /\ i \in DOMAIN incidents
  /\ Known(i)
  /\ t - incidents[i].startedAt >= EscalationThreshold

EscalationInv ==
  /\ \A i \in DOMAIN incidents : AlreadyAlerted(i) => Known(i)
  /\ \A q \in Procs : Heading(call[q]) = "mark_sent" => Known(call[q].inc)
  /\ \A q \in Procs : Heading(call[q]) \in {"escalate", "weigh", "send_escalation"}
       => Escalable(call[q].inc, call[q].at)
  /\ \A k \in DOMAIN log : log[k].kind = "escalation" => log[k].inc \in DOMAIN incidents
  /\ EscalationFollowsAlert

LEMMA IdleHeading == Heading(Idle) = "idle" /\ Idle.st.failures = 0
  BY DEF Heading, Idle, Transit, ZeroState

LEMMA ContinueSplit ==
  ASSUME NEW p \in Procs, call \in [Procs -> Call], NEW c \in Call, Continue(p, c)
  PROVE  \A q \in Procs : call'[q] \in {call[q], c, Idle} /\ (q # p => call'[q] = call[q])
  BY DEF Continue

(* A step that only moves a goroutine keeps AlarmInv if its new locals do   *)
LEMMA AlarmMove ==
  ASSUME TypeOK, AlarmInv, ConfigAssumption, NEW p \in Procs, NEW c \in Call, Continue(p, c),
         UNCHANGED <<redis, mem, incidents, log, fails>>,
         c.st.failures <= fails, Heading(c) \in Alarming => Reached
  PROVE  AlarmInv'
<1>1. \A q \in Procs : call'[q] \in {call[q], c, Idle}
  BY ContinueSplit DEF TypeOK
<1>2. fails \in Nat
  BY DEF TypeOK
<1>3. CountersInv'
  BY <1>1, <1>2, IdleHeading DEF AlarmInv, CountersInv
<1>4. "idle" \notin Alarming
  BY DEF Alarming
<1>5. ASSUME NEW q \in Procs, Heading(call'[q]) \in Alarming
      PROVE  Reached'
  BY <1>1, <1>4, <1>5, IdleHeading DEF AlarmInv, Reached
<1>6. NoEarlyAlarm'
  BY DEF AlarmInv, NoEarlyAlarm
<1>7. QED
  BY <1>3, <1>5, <1>6 DEF AlarmInv, Heading

LEMMA AlarmLoad ==
  ASSUME NEW p \in Procs, TypeOK, AlarmInv, ConfigAssumption,
         BeginLoad(p) \/ GetFailures(p) \/ GetCooldown(p) \/ GetIsDown(p)
  PROVE  AlarmInv'
<1>1. /\ call[p] \in Call /\ redis \in AlertState /\ mem \in AlertState
      /\ call[p].st.failures \in Nat /\ redis.failures \in Nat /\ mem.failures \in Nat
      /\ fails \in Nat
  BY DEF TypeOK, Call, AlertState
<1>2. /\ call[p].st.failures <= fails /\ redis.failures <= fails /\ mem.failures <= fails
      /\ Heading(call[p]) \in Alarming => Reached
  BY DEF AlarmInv, CountersInv
<1>3. CASE BeginLoad(p)
  <2> DEFINE next == AfterLoad[call[p].pc]
             c == IF redisUp
                  THEN [call[p] EXCEPT !.pc = "get_failures", !.ret = next, !.st = ZeroState]
                  ELSE [call[p] EXCEPT !.pc = next, !.ret = next, !.st = mem]
  <2>1. call[p].pc \in DOMAIN AfterLoad /\ next \in Points
    BY <1>3 DEF BeginLoad, AfterLoad, Points
  <2>2. c \in Call
    BY <1>1, <2>1 DEF Call, Points, ZeroState, AlertState, NULL
  <2>3. c.st.failures <= fails
    BY <1>1, <1>2 DEF ZeroState, Call
  <2>4. Heading(c) = next
    BY <1>1, <2>1 DEF Call, Heading, Transit, AfterLoad
  <2>5. next \in Alarming => Heading(call[p]) \in Alarming
    BY <2>1 DEF AfterLoad, Alarming, Heading, Transit
  <2>6. Continue(p, c) /\ UNCHANGED <<redis, mem, incidents, log, fails>>
    BY <1>3 DEF BeginLoad, stores, observers
  <2>7. QED
    BY <1>2, <2>2, <2>3, <2>4, <2>5, <2>6, AlarmMove
<1>4. CASE GetFailures(p)
  <2> DEFINE c == [call[p] EXCEPT !.pc = "get_cooldown",
                     !.st.failures = IF Readable THEN redis.failures ELSE @]
  <2>1. c \in Call
    BY <1>1 DEF Call, Points, AlertState
  <2>2. c.st.failures <= fails
    BY <1>1, <1>2 DEF Call, AlertState
  <2>3. Heading(c) = Heading(call[p])
    BY <1>1, <1>4 DEF GetFailures, At, Call, Heading, Transit
  <2>4. Continue(p, c) /\ UNCHANGED <<redis, mem, incidents, log, fails>>
    BY <1>4 DEF GetFailures, stores, observers
  <2>5. QED
    BY <1>2, <2>1, <2>2, <2>3, <2>4, AlarmMove
<1>5. CASE GetCooldown(p)
  <2> DEFINE c == [call[p] EXCEPT !.pc = "get_isdown",
                     !.st.lastAlert = IF Readable THEN redis.lastAlert ELSE @]
  <2>1. c \in Call
    BY <1>1 DEF Call, Points, AlertState
  <2>2. c.st.failures <= fails
    BY <1>1, <1>2 DEF Call, AlertState
  <2>3. Heading(c) = Heading(call[p])
    BY <1>1, <1>5 DEF GetCooldown, At, Call, Heading, Transit
  <2>4. Continue(p, c) /\ UNCHANGED <<redis, mem, incidents, log, fails>>
    BY <1>5 DEF GetCooldown, stores, observers
  <2>5. QED
    BY <1>2, <2>1, <2>2, <2>3, <2>4, AlarmMove
<1>6. CASE GetIsDown(p)
  <2> DEFINE c == [call[p] EXCEPT !.pc = call[p].ret,
                     !.st.isDown = IF Readable THEN redis.isDown ELSE @]
  <2>1. c \in Call
    BY <1>1 DEF Call, Points, AlertState
  <2>2. c.st.failures <= fails
    BY <1>1, <1>2 DEF Call, AlertState
  <2>3. Heading(c) = Heading(call[p])
    BY <1>1, <1>6 DEF GetIsDown, At, Call, Heading, Transit
  <2>4. Continue(p, c) /\ UNCHANGED <<redis, mem, incidents, log, fails>>
    BY <1>6 DEF GetIsDown, stores, observers
  <2>5. QED
    BY <1>2, <2>1, <2>2, <2>3, <2>4, AlarmMove
<1>7. QED
  BY <1>3, <1>4, <1>5, <1>6

LEMMA AlarmGoto ==
  ASSUME TypeOK, AlarmInv, ConfigAssumption, NEW p \in Procs, NEW point \in Points,
         Goto(p, point), UNCHANGED <<redis, mem, incidents, log, fails>>,
         Heading([call[p] EXCEPT !.pc = point]) \in Alarming => Reached
  PROVE  AlarmInv'
<1> DEFINE c == [call[p] EXCEPT !.pc = point]
<1>1. call[p] \in Call /\ call[p].st.failures <= fails
  BY DEF TypeOK, AlarmInv, CountersInv
<1>2. c \in Call /\ c.st.failures <= fails
  BY <1>1 DEF Call
<1>3. QED
  BY <1>2, AlarmMove DEF Goto

LEMMA AlarmHandle ==
  ASSUME NEW p \in Procs, TypeOK, AlarmInv, ConfigAssumption,
         StartCheck(p) \/ HandleRecovery(p) \/ HandleFailure(p) \/ SetAlertCooldown(p)
  PROVE  AlarmInv'
<1>1. /\ call[p] \in Call /\ call[p].st \in AlertState /\ now \in Nat
      /\ call[p].st.failures \in Nat /\ fails \in Nat
      /\ redis.failures \in Nat /\ mem.failures \in Nat
  BY DEF TypeOK, Call, AlertState
<1>2. call[p].st.failures <= fails
  BY DEF AlarmInv, CountersInv
<1>3. CASE StartCheck(p)
  <2>1. PICK up \in BOOLEAN :
          Continue(p, [Idle EXCEPT !.pc = "process_check", !.up = up, !.at = now])
    BY <1>3 DEF StartCheck
  <2> DEFINE c == [Idle EXCEPT !.pc = "process_check", !.up = up, !.at = now]
  <2>2. c \in Call
    BY <1>1, IdleIsACall DEF Call, Points
  <2>3. c.st.failures <= fails /\ Heading(c) \notin Alarming
    BY <1>1 DEF Idle, ZeroState, Heading, Transit, Alarming
  <2>4. UNCHANGED <<redis, mem, incidents, log, fails>>
    BY <1>3 DEF StartCheck, stores
  <2>5. QED
    BY <2>1, <2>2, <2>3, <2>4, AlarmMove
<1>4. CASE HandleRecovery(p)
  <2> DEFINE c == [call[p] EXCEPT !.pc = "save", !.st = Cleared(call[p].st),
                     !.ret = IF call[p].st.isDown THEN "recovery_lookup" ELSE "idle"]
  <2>1. c \in Call
    BY <1>1, StatesType DEF Call, Points
  <2>2. c.st.failures <= fails /\ Heading(c) \notin Alarming
    BY <1>1 DEF Call, Cleared, Heading, Transit, Alarming
  <2>3. Continue(p, c) /\ UNCHANGED <<redis, mem, incidents, log, fails>>
    BY <1>4 DEF HandleRecovery, stores
  <2>4. QED
    BY <2>1, <2>2, <2>3, AlarmMove
<1>5. CASE HandleFailure(p)
  <2> DEFINE s == Incremented(call[p].st)
             c == [call[p] EXCEPT !.pc = "save", !.st = s,
                     !.ret = IF BelowThreshold(s) THEN "idle" ELSE "should_alert"]
  <2>1. c \in Call
    BY <1>1, StatesType DEF Call, Points
  <2>2. c.st.failures <= fails + 1 /\ Heading(c) \notin Alarming
    BY <1>1, <1>2 DEF Call, Incremented, Heading, Transit, Alarming
  <2>3. /\ Continue(p, c) /\ fails' = fails + 1
        /\ UNCHANGED <<redis, mem, incidents, log>>
    BY <1>5 DEF HandleFailure, stores
  <2> HIDE DEF c
  <2>4. \A q \in Procs : call'[q] \in {call[q], c, Idle}
    BY <2>1, <2>3, ContinueSplit DEF TypeOK
  <2>5. \A q \in Procs : call[q].st.failures \in Nat
    BY DEF TypeOK, Call, AlertState
  <2>6. CountersInv'
    BY <1>1, <2>2, <2>3, <2>4, <2>5, IdleHeading DEF AlarmInv, CountersInv
  <2>7. Reached => Reached'
    BY <1>1, <2>3 DEF Reached, ConfigAssumption
  <2>8. ASSUME NEW q \in Procs, Heading(call'[q]) \in Alarming
        PROVE  Reached'
    BY <2>2, <2>4, <2>7, <2>8, IdleHeading DEF AlarmInv, Alarming
  <2>9. NoEarlyAlarm'
    BY <2>3, <2>7 DEF AlarmInv, NoEarlyAlarm, Reached
  <2>10. QED
    BY <2>6, <2>8, <2>9 DEF AlarmInv, Heading
<1>6. CASE SetAlertCooldown(p)
  <2> DEFINE c == [call[p] EXCEPT !.pc = "save", !.st.lastAlert = call[p].at,
                                  !.ret = AfterStamp[call[p].pc]]
  <2>1. call[p].pc \in DOMAIN AfterStamp
    BY <1>6 DEF SetAlertCooldown
  <2>2. AfterStamp[call[p].pc] \in Points \ Alarming
    BY <2>1 DEF AfterStamp, Points, Alarming
  <2>3. c \in Call
    BY <1>1, <2>2 DEF Call, Points, AlertState
  <2>4. c.st.failures <= fails /\ Heading(c) \notin Alarming
    BY <1>1, <1>2, <2>2 DEF Call, AlertState, Heading, Transit
  <2>5. Continue(p, c) /\ UNCHANGED <<redis, mem, incidents, log, fails>>
    BY <1>6 DEF SetAlertCooldown, stores, observers
  <2>6. QED
    BY <2>3, <2>4, <2>5, AlarmMove
<1>7. QED
  BY <1>3, <1>4, <1>5, <1>6

LEMMA AlarmSave ==
  ASSUME NEW p \in Procs, TypeOK, AlarmInv, ConfigAssumption, Save(p) \/ SaveMemory(p)
  PROVE  AlarmInv'
<1>1. /\ call[p] \in Call /\ call[p].ret \in Points /\ "save_memory" \in Points
      /\ call[p].st.failures \in Nat /\ fails \in Nat
  BY DEF TypeOK, Call, AlertState, Points
<1>2. PICK point \in {"save_memory", call[p].ret} : Goto(p, point)
  BY DEF Save, SaveMemory
<1> DEFINE c == [call[p] EXCEPT !.pc = point]
<1>3. c \in Call /\ Continue(p, c) /\ c.st = call[p].st
  BY <1>1, <1>2 DEF Call, Goto
<1>4. Heading(c) = Heading(call[p])
  BY <1>1, <1>2 DEF Save, SaveMemory, At, Call, Heading, Transit
<1> HIDE DEF c
<1>5. \A q \in Procs : call'[q] \in {call[q], c, Idle}
  BY <1>3, ContinueSplit DEF TypeOK
<1>6. /\ redis' \in {redis, call[p].st} /\ mem' \in {mem, call[p].st}
      /\ UNCHANGED <<incidents, log, fails>>
  BY DEF Save, SaveMemory, observers
<1>7. CountersInv'
  BY <1>1, <1>3, <1>5, <1>6, IdleHeading DEF AlarmInv, CountersInv
<1>8. ASSUME NEW q \in Procs, Heading(call'[q]) \in Alarming
      PROVE  Reached'
  <2>1. Heading(call'[q]) \in {Heading(call[q]), Heading(call[p]), "idle"}
    BY <1>4, <1>5, IdleHeading
  <2>2. QED
    BY <1>6, <1>8, <2>1 DEF AlarmInv, Reached, Alarming
<1>9. NoEarlyAlarm'
  BY <1>6 DEF AlarmInv, NoEarlyAlarm
<1>10. QED
  BY <1>7, <1>8, <1>9 DEF AlarmInv, Heading

(* Finding an open row shows by itself that the threshold was reached.      *)
LEMMA AlarmGetOpenIncident ==
  ASSUME NEW p \in Procs, TypeOK, AlarmInv, ConfigAssumption,
         NEW onError \in Points \ Transit, NEW onNone \in Points \ Transit,
         NEW onFound \in [OpenIds -> Points \ Transit],
         GetOpenIncident(p, onError, onNone, onFound),
         onError \notin Alarming, onNone \in Alarming => Reached
  PROVE  AlarmInv'
<1>1. call[p] \in Call /\ call[p].st.failures <= fails
  BY DEF TypeOK, AlarmInv, CountersInv
<1>2. \A i \in OpenIds : i \in Nat
  BY DEF OpenIds, TypeOK
<1>3. UNCHANGED <<redis, mem, incidents, log, fails>>
  BY DEF GetOpenIncident, stores, observers
<1>4. CASE Goto(p, onError)
  <2>1. Heading([call[p] EXCEPT !.pc = onError]) \notin Alarming
    BY <1>1 DEF Call, Heading
  <2>2. QED
    BY <1>3, <1>4, <2>1, AlarmGoto
<1>5. CASE Continue(p, [call[p] EXCEPT !.pc = onNone, !.inc = NULL])
  <2> DEFINE c == [call[p] EXCEPT !.pc = onNone, !.inc = NULL]
  <2>1. c \in Call /\ c.st.failures <= fails /\ Heading(c) = onNone
    BY <1>1 DEF Call, NULL, Heading
  <2>2. QED
    BY <1>3, <1>5, <2>1, AlarmMove
<1>6. ASSUME NEW i \in LatestOpen,
             Continue(p, [call[p] EXCEPT !.pc = onFound[i], !.inc = i])
      PROVE  AlarmInv'
  <2> DEFINE c == [call[p] EXCEPT !.pc = onFound[i], !.inc = i]
  <2>1. i \in Nat /\ onFound[i] \in Points \ Transit
    BY <1>2 DEF LatestOpen
  <2>2. c \in Call /\ c.st.failures <= fails
    BY <1>1, <2>1 DEF Call
  <2>3. Reached
    BY DEF LatestOpen, OpenIds, AlarmInv, NoEarlyAlarm, Reached
  <2>4. QED
    BY <1>3, <1>6, <2>2, <2>3, AlarmMove
<1>7. QED
  BY <1>4, <1>5, <1>6 DEF GetOpenIncident

LEMMA AlarmLookup ==
  ASSUME NEW p \in Procs, TypeOK, AlarmInv, ConfigAssumption,
         RecoveryLookup(p) \/ AlertLookup(p) \/ CreateLookup(p) \/ EscalateLookup(p)
  PROVE  AlarmInv'
<1>1. call[p].pc \in {"alert_lookup", "create_lookup"} => Reached
  BY DEF AlarmInv, Heading, Transit, Alarming
<1>2. /\ {"idle", "escalate_lookup", "create_lookup", "create_insert", "send_recovery",
          "send_down", "escalate"} \subseteq Points \ Transit
      /\ {"idle", "escalate_lookup"} \cap Alarming = {}
  BY DEF Points, Transit, Alarming
<1>3. CASE RecoveryLookup(p)
  <2>1. [i \in OpenIds |-> "send_recovery"] \in [OpenIds -> Points \ Transit]
    BY <1>2
  <2>2. QED
    BY <1>2, <1>3, <2>1, AlarmGetOpenIncident DEF RecoveryLookup
<1>4. CASE AlertLookup(p)
  <2> DEFINE found == [i \in OpenIds |-> IF AlreadyAlerted(i) THEN "escalate_lookup" ELSE "create_lookup"]
  <2>1. found \in [OpenIds -> Points \ Transit]
    BY <1>2
  <2>2. GetOpenIncident(p, "escalate_lookup", "create_lookup", found) /\ Reached
    BY <1>1, <1>4 DEF AlertLookup, At
  <2> HIDE DEF found
  <2>3. QED
    BY <1>2, <2>1, <2>2, AlarmGetOpenIncident
<1>5. CASE CreateLookup(p)
  <2>1. [i \in OpenIds |-> "send_down"] \in [OpenIds -> Points \ Transit]
    BY <1>2
  <2>2. QED
    BY <1>1, <1>2, <1>5, <2>1, AlarmGetOpenIncident DEF CreateLookup, At
<1>6. CASE EscalateLookup(p)
  <2> DEFINE found == [i \in OpenIds |-> IF MayEscalate(i, call[p].at) THEN "escalate" ELSE "idle"]
  <2>1. found \in [OpenIds -> Points \ Transit]
    BY <1>2
  <2>2. GetOpenIncident(p, "idle", "idle", found)
    BY <1>6 DEF EscalateLookup
  <2> HIDE DEF found
  <2>3. QED
    BY <1>2, <2>1, <2>2, AlarmGetOpenIncident
<1>7. QED
  BY <1>3, <1>4, <1>5, <1>6

LEMMA AlarmDecide ==
  ASSUME NEW p \in Procs, TypeOK, AlarmInv, ConfigAssumption, Judge(p) \/ Weigh(p)
  PROVE  AlarmInv'
<1>1. call[p] \in Call /\ call[p].st.failures \in Nat /\ fails \in Nat
  BY DEF TypeOK, Call, AlertState
<1>2. UNCHANGED <<redis, mem, incidents, log, fails>>
  BY DEF Judge, Weigh, stores, observers
<1>3. CASE Judge(p)
  <2> DEFINE point == IF BelowThreshold(call[p].st) \/ InCooldown(call[p].st)
                      THEN "escalate_lookup" ELSE "alert_lookup"
  <2>1. Goto(p, point) /\ point \in Points \ Transit
    BY <1>3 DEF Judge, Points, Transit
  <2>2. point \in Alarming => Reached
    BY <1>1 DEF Alarming, BelowThreshold, Reached, AlarmInv, CountersInv, ConfigAssumption
  <2> HIDE DEF point
  <2>3. Heading([call[p] EXCEPT !.pc = point]) = point
    BY <1>1, <2>1 DEF Call, Heading
  <2>4. QED
    BY <1>2, <2>1, <2>2, <2>3, AlarmGoto
<1>4. CASE Weigh(p)
  <2> DEFINE point == IF InCooldown(call[p].st) THEN "idle" ELSE "send_escalation"
  <2>1. Goto(p, point) /\ point \in Points \ Transit
    BY <1>4 DEF Weigh, Points, Transit
  <2>2. Reached
    BY <1>4 DEF Weigh, At, AlarmInv, Heading, Transit, Alarming
  <2> HIDE DEF point
  <2>3. QED
    BY <1>2, <2>1, <2>2, AlarmGoto
<1>5. QED
  BY <1>3, <1>4

(* Whoever sends knows that the threshold was reached.                      *)
LEMMA AlarmSend ==
  ASSUME NEW p \in Procs, TypeOK, AlarmInv, ConfigAssumption,
         SendRecoveryAlert(p) \/ SendDownAlert(p) \/ SendEscalationAlert(p)
  PROVE  AlarmInv'
<1>1. Reached
  BY DEF SendRecoveryAlert, SendDownAlert, SendEscalationAlert, At, AlarmInv, Heading,
         Transit, Alarming
<1>2. UNCHANGED <<redis, mem, fails>> /\ Reached'
  BY <1>1 DEF SendRecoveryAlert, SendDownAlert, SendEscalationAlert, Broadcast, stores, Reached
<1>3. PICK point \in Points : Goto(p, point)
  BY DEF SendRecoveryAlert, SendDownAlert, SendEscalationAlert, Broadcast, Points
<1> DEFINE c == [call[p] EXCEPT !.pc = point]
<1>4. c \in Call /\ Continue(p, c) /\ c.st = call[p].st
  BY <1>3 DEF Call, Goto, TypeOK
<1> HIDE DEF c
<1>5. \A q \in Procs : call'[q] \in {call[q], c, Idle}
  BY <1>4, ContinueSplit DEF TypeOK
<1>6. CountersInv'
  BY <1>2, <1>4, <1>5, IdleHeading DEF AlarmInv, CountersInv, TypeOK
<1>7. QED
  BY <1>2, <1>6 DEF AlarmInv, NoEarlyAlarm, Reached

LEMMA AlarmWrite ==
  ASSUME NEW p \in Procs, TypeOK, AlarmInv, ConfigAssumption,
         \/ ResolveIncident(p) \/ CreateInsert(p)
         \/ MarkIncidentAlertSent(p) \/ MarkIncidentEscalation(p)
  PROVE  AlarmInv'
<1>1. /\ call[p] \in Call /\ fails \in Nat /\ incidents \in Seq(Incident)
      /\ call[p].st.failures <= fails
  BY DEF TypeOK, AlarmInv, CountersInv
<1>2. UNCHANGED <<redis, mem, log, fails>>
  BY DEF ResolveIncident, CreateInsert, MarkIncidentAlertSent, MarkIncidentEscalation,
         Update, stores, observers
<1>3. CASE CreateInsert(p)
  <2>1. Reached /\ Reached'
    BY <1>2, <1>3 DEF CreateInsert, At, AlarmInv, Heading, Transit, Alarming, Reached
  <2>2. PICK c \in Call : Continue(p, c) /\ c.st = call[p].st
    <3>1. [call[p] EXCEPT !.pc = "send_down", !.inc = Len(incidents) + 1] \in Call
      <4>1. Len(incidents) + 1 \in Nat
        BY <1>1
      <4>2. QED
        BY <1>1, <4>1 DEF Call, Points
    <3>2. [call[p] EXCEPT !.pc = "idle"] \in Call
      BY <1>1 DEF Call, Points
    <3>3. QED
      BY <1>3, <3>1, <3>2 DEF CreateInsert, Goto, Call
  <2>3. \A q \in Procs : call'[q] \in {call[q], c, Idle}
    BY <2>2, ContinueSplit DEF TypeOK
  <2>4. CountersInv'
    BY <1>1, <1>2, <2>2, <2>3, IdleHeading DEF AlarmInv, CountersInv
  <2>5. QED
    BY <2>1, <2>4 DEF AlarmInv, NoEarlyAlarm, Reached
<1>4. CASE ~CreateInsert(p)
  <2>1. PICK point \in {"idle", "cool_down", "cool_escalation"} : Goto(p, point)
    BY <1>4 DEF ResolveIncident, MarkIncidentAlertSent, MarkIncidentEscalation, Update
  <2> DEFINE c == [call[p] EXCEPT !.pc = point]
  <2>2. c \in Call /\ Continue(p, c) /\ c.st = call[p].st /\ Heading(c) \notin Alarming
    BY <1>1, <2>1 DEF Call, Goto, Points, Heading, Transit, Alarming
  <2> HIDE DEF c
  <2>3. \A q \in Procs : call'[q] \in {call[q], c, Idle}
    BY <2>2, ContinueSplit DEF TypeOK
  <2>4. CountersInv'
    BY <1>1, <1>2, <2>2, <2>3, IdleHeading DEF AlarmInv, CountersInv
  <2>5. ASSUME NEW q \in Procs, Heading(call'[q]) \in Alarming
        PROVE  Reached'
    BY <1>2, <2>2, <2>3, <2>5, IdleHeading DEF AlarmInv, Reached, Alarming
  <2>6. incidents = <<>> => incidents' = <<>>
    BY <1>4 DEF ResolveIncident, MarkIncidentAlertSent, MarkIncidentEscalation, Update, Resolved
  <2>7. NoEarlyAlarm'
    BY <1>2, <2>6 DEF AlarmInv, NoEarlyAlarm
  <2>8. QED
    BY <2>4, <2>5, <2>7 DEF AlarmInv, Heading
<1>5. QED
  BY <1>3, <1>4

LEMMA AlarmEnvironment ==
  ASSUME TypeOK, AlarmInv,
         Tick \/ RedisDown \/ RedisUp \/ Crash \/ BoundReached \/ UNCHANGED vars
  PROVE  AlarmInv'
<1>1. CASE Crash
  <2>1. \A q \in Procs : call'[q] = Idle
    BY <1>1 DEF Crash
  <2>2. mem'.failures = 0 /\ UNCHANGED <<redis, incidents, log, fails>> /\ fails \in Nat
    BY <1>1 DEF Crash, ZeroState, observers, TypeOK
  <2>3. CountersInv'
    BY <2>1, <2>2, IdleHeading DEF AlarmInv, CountersInv
  <2>4. NoEarlyAlarm'
    BY <2>2 DEF AlarmInv, NoEarlyAlarm
  <2>5. QED
    BY <2>1, <2>3, <2>4, IdleHeading DEF AlarmInv, Alarming
<1>2. CASE UNCHANGED <<stores, incidents, call, observers>>
  BY <1>2 DEF AlarmInv, CountersInv, NoEarlyAlarm, Reached, stores, observers
<1>3. QED
  BY <1>1, <1>2 DEF Tick, RedisDown, RedisUp, BoundReached, vars

LEMMA InitAlarm == Init /\ ConfigAssumption => AlarmInv
  BY IdleHeading DEF Init, AlarmInv, CountersInv, NoEarlyAlarm, ZeroState, Alarming

LEMMA NextAlarm ==
  ASSUME TypeOK, AlarmInv, ConfigAssumption, [Next]_vars
  PROVE  AlarmInv'
<1>1. ASSUME NEW p \in Procs, StartCheck(p) \/ Step(p)
      PROVE  AlarmInv'
  BY <1>1, AlarmLoad, AlarmSave, AlarmHandle, AlarmLookup, AlarmDecide, AlarmSend, AlarmWrite
     DEF Step
<1>2. QED
  BY <1>1, AlarmEnvironment DEF Next

(* For any threshold, any number of overlapping goroutines and any faults,  *)
(* nothing is announced and no incident is opened before as many checks     *)
(* have failed as the threshold demands.                                    *)
THEOREM NoAlarmIsEarly == Spec => []NoEarlyAlarm
<1>1. TypeOK /\ AlarmInv /\ [Next]_vars => AlarmInv'
  BY NextAlarm, ConfigAssumption
<1>2. AlarmInv => NoEarlyAlarm
  BY DEF AlarmInv
<1>3. Init => AlarmInv
  BY InitAlarm, ConfigAssumption
<1>4. QED
  BY <1>1, <1>2, <1>3, TypeCorrect, PTL DEF Spec

-----------------------------------------------------------------------------
(* Rows of the incidents table                                              *)

RowsStay ==
  \A i \in DOMAIN incidents :
    /\ i \in DOMAIN incidents'
    /\ incidents'[i].startedAt = incidents[i].startedAt
    /\ incidents[i].status = "resolved" =>
         /\ incidents'[i].status = "resolved"
         /\ incidents'[i].resolvedAt = incidents[i].resolvedAt

LEMMA UnchangedRowsStay == UNCHANGED incidents => RowsStay
  BY DEF RowsStay

LEMMA WrittenRowsStay ==
  ASSUME NEW p \in Procs, TypeOK,
         \/ ResolveIncident(p) \/ CreateInsert(p)
         \/ MarkIncidentAlertSent(p) \/ MarkIncidentEscalation(p)
  PROVE  RowsStay
<1>1. /\ incidents \in Seq(Incident)
      /\ \A i \in DOMAIN incidents : incidents[i] \in Incident
  BY DEF TypeOK
<1>2. CASE incidents' = Append(incidents, NewIncident(call[p].at))
  BY <1>1, <1>2 DEF RowsStay
<1>3. CASE incidents' = Resolved(call[p].at)
  <2>1. ASSUME NEW i \in DOMAIN incidents
        PROVE  /\ incidents'[i].startedAt = incidents[i].startedAt
               /\ incidents[i].status = "resolved" => incidents'[i] = incidents[i]
    <3>1. CASE incidents[i].status = "open"
      <4>1. incidents'[i] = [incidents[i] EXCEPT !.status = "resolved", !.resolvedAt = call[p].at]
        BY <1>3, <3>1 DEF Resolved, OpenIds
      <4>2. QED
        BY <1>1, <3>1, <4>1 DEF Incident
    <3>2. CASE incidents[i].status # "open"
      BY <1>3, <3>2 DEF Resolved, OpenIds
    <3>3. QED
      BY <3>1, <3>2
  <2>2. DOMAIN incidents' = DOMAIN incidents
    BY <1>3 DEF Resolved
  <2>3. QED
    BY <2>1, <2>2 DEF RowsStay
<1>4. CASE incidents' = [incidents EXCEPT ![call[p].inc].alertSentAt = call[p].at]
  BY <1>1, <1>4 DEF RowsStay, Incident
<1>5. CASE incidents' = [incidents EXCEPT ![call[p].inc].lastEscalationAt = call[p].at]
  BY <1>1, <1>5 DEF RowsStay, Incident
<1>6. QED
  BY <1>2, <1>3, <1>4, <1>5, UnchangedRowsStay
     DEF ResolveIncident, CreateInsert, MarkIncidentAlertSent, MarkIncidentEscalation, Update

LEMMA NextRowsStay ==
  ASSUME TypeOK, [Next]_vars
  PROVE  RowsStay
<1>1. ASSUME NEW p \in Procs, StartCheck(p) \/ Step(p)
      PROVE  RowsStay
  BY <1>1, WrittenRowsStay, UnchangedRowsStay
     DEF Step, StartCheck, BeginLoad, GetFailures, GetCooldown, GetIsDown, Save, SaveMemory,
         HandleRecovery, HandleFailure, RecoveryLookup, AlertLookup, CreateLookup,
         EscalateLookup, GetOpenIncident, Judge, Weigh, SendRecoveryAlert, SendDownAlert,
         SendEscalationAlert, Broadcast, SetAlertCooldown
<1>2. CASE Tick \/ RedisDown \/ RedisUp \/ Crash \/ BoundReached \/ UNCHANGED vars
  BY <1>2, UnchangedRowsStay DEF Tick, RedisDown, RedisUp, Crash, BoundReached, vars
<1>3. QED
  BY <1>1, <1>2 DEF Next

(* No step of any number of goroutines drops an incident, moves its start   *)
(* or touches the resolution of a resolved one.                             *)
THEOREM ResolvedStaysFinal == Spec => ResolvedIsFinal
<1>1. TypeOK /\ [Next]_vars => [\A i \in DOMAIN incidents :
        /\ i \in DOMAIN incidents'
        /\ incidents'[i].startedAt = incidents[i].startedAt
        /\ incidents[i].status = "resolved" =>
             /\ incidents'[i].status = "resolved"
             /\ incidents'[i].resolvedAt = incidents[i].resolvedAt]_vars
  BY NextRowsStay DEF RowsStay
<1>2. QED
  BY <1>1, TypeCorrect, PTL DEF Spec, ResolvedIsFinal

-----------------------------------------------------------------------------
(* Escalations                                                              *)

Escalating == {"escalate", "weigh", "send_escalation"}

(* What the locals of a goroutine have to know where they are heading       *)
Warranted(c) ==
  /\ Heading(c) = "mark_sent" => Known(c.inc)
  /\ Heading(c) \in Escalating => Escalable(c.inc, c.at)

LEMMA EscalationInvParts ==
  ASSUME EscalationInv
  PROVE  /\ \A i \in DOMAIN incidents : incidents[i].alertSentAt # NULL => Known(i)
         /\ \A q \in Procs : Warranted(call[q])
  BY DEF EscalationInv, AlreadyAlerted, Warranted, Escalating

LEMMA IdleIsWarranted == Warranted(Idle)
  BY IdleHeading DEF Warranted, Escalating

(* What is known of an incident stays known while the log only grows.       *)
LEMMA KnownStays ==
  ASSUME TypeOK, RowsStay, NEW n, log' \in {log, Append(log, n)}
  PROVE  /\ \A i : Known(i) => Known(i)'
         /\ \A i, t : Escalable(i, t) => Escalable(i, t)'
         /\ \A c : Warranted(c) => Warranted(c)'
<1>1. log \in Seq(Notification)
  BY DEF TypeOK
<1>2. \A k \in DOMAIN log : k \in DOMAIN log' /\ log'[k] = log[k]
  BY <1>1
<1>3. \A i : Known(i) => Known(i)'
  BY <1>2 DEF Known, Announced
<1>4. \A i, t : Escalable(i, t) => Escalable(i, t)'
  BY <1>3 DEF Escalable, RowsStay
<1>5. QED
  BY <1>3, <1>4 DEF Warranted, Heading

(* A step that leaves the log alone                                         *)
LEMMA EscalationMove ==
  ASSUME TypeOK, EscalationInv, RowsStay, NEW p \in Procs, NEW c \in Call, Continue(p, c),
         UNCHANGED log, Warranted(c),
         \A i \in DOMAIN incidents' : incidents'[i].alertSentAt # NULL => Known(i)
  PROVE  EscalationInv'
<1>1. /\ \A i : Known(i) => Known(i)'
      /\ \A d : Warranted(d) => Warranted(d)'
  BY KnownStays
<1>2. \A q \in Procs : call'[q] \in {call[q], c, Idle}
  BY ContinueSplit DEF TypeOK
<1>3. ASSUME NEW q \in Procs
      PROVE  Warranted(call[q])'
  <2>1. PICK d \in {call[q], c, Idle} : d = call'[q]
    BY <1>2
  <2>2. Warranted(d)'
    BY <1>1, <2>1, EscalationInvParts, IdleIsWarranted
  <2>3. QED
    BY <2>1, <2>2 DEF Warranted, Heading
<1>4. \A i \in DOMAIN incidents' : AlreadyAlerted(i)' => Known(i)'
  BY <1>1 DEF AlreadyAlerted
<1>5. \A k \in DOMAIN log' : log'[k].kind = "escalation" => log'[k].inc \in DOMAIN incidents'
  BY DEF EscalationInv, RowsStay
<1>6. EscalationFollowsAlert'
  BY DEF EscalationInv, EscalationFollowsAlert, Announced, RowsStay
<1>7. QED
  BY <1>3, <1>4, <1>5, <1>6 DEF EscalationInv, Warranted, Escalating, Heading

(* The same for the steps that change no row                                *)
LEMMA EscalationMoveOnly ==
  ASSUME TypeOK, EscalationInv, NEW p \in Procs, NEW c \in Call, Continue(p, c),
         UNCHANGED <<incidents, log>>, Warranted(c)
  PROVE  EscalationInv'
  BY EscalationMove, UnchangedRowsStay, EscalationInvParts

(* Heading, incident and check time kept: nothing new has to be known.      *)
LEMMA EscalationLoad ==
  ASSUME NEW p \in Procs, TypeOK, EscalationInv,
         \/ BeginLoad(p) \/ GetFailures(p) \/ GetCooldown(p) \/ GetIsDown(p)
         \/ Save(p) \/ SaveMemory(p)
  PROVE  EscalationInv'
<1>1. /\ call[p] \in Call /\ redis \in AlertState /\ mem \in AlertState
      /\ call[p].ret \in Points
  BY DEF TypeOK, Call
<1>2. Warranted(call[p])
  BY EscalationInvParts
<1>3. CASE BeginLoad(p)
  <2> DEFINE next == AfterLoad[call[p].pc]
             c == IF redisUp
                  THEN [call[p] EXCEPT !.pc = "get_failures", !.ret = next, !.st = ZeroState]
                  ELSE [call[p] EXCEPT !.pc = next, !.ret = next, !.st = mem]
  <2>1. call[p].pc \in DOMAIN AfterLoad /\ next \in Points
    BY <1>3 DEF BeginLoad, AfterLoad, Points
  <2>2. c \in Call
    BY <1>1, <2>1 DEF Call, Points, ZeroState, AlertState, NULL
  <2>3. Heading(c) = next
    BY <1>1, <2>1 DEF Call, Heading, Transit, AfterLoad
  <2>4. next # "mark_sent" /\ (next \in Escalating => Heading(call[p]) \in Escalating)
    BY <2>1 DEF AfterLoad, Escalating, Heading, Transit
  <2>5. c.inc = call[p].inc /\ c.at = call[p].at
    BY <1>1 DEF Call
  <2>6. Warranted(c)
    BY <1>2, <2>3, <2>4, <2>5 DEF Warranted
  <2>7. Continue(p, c) /\ UNCHANGED <<incidents, log>>
    BY <1>3 DEF BeginLoad, observers
  <2>8. QED
    BY <2>2, <2>6, <2>7, EscalationMoveOnly
<1>4. ASSUME NEW c \in Call, Continue(p, c), UNCHANGED <<incidents, log>>,
             Heading(c) = Heading(call[p]), c.inc = call[p].inc, c.at = call[p].at
      PROVE  EscalationInv'
  BY <1>2, <1>4, EscalationMoveOnly DEF Warranted
<1>5. CASE GetFailures(p)
  <2> DEFINE c == [call[p] EXCEPT !.pc = "get_cooldown",
                     !.st.failures = IF Readable THEN redis.failures ELSE @]
  <2>1. c \in Call /\ c.inc = call[p].inc /\ c.at = call[p].at
    BY <1>1 DEF Call, Points, AlertState
  <2>2. Heading(c) = Heading(call[p])
    BY <1>1, <1>5 DEF GetFailures, At, Call, Heading, Transit
  <2>3. Continue(p, c) /\ UNCHANGED <<incidents, log>>
    BY <1>5 DEF GetFailures, observers
  <2>4. QED
    BY <1>4, <2>1, <2>2, <2>3
<1>6. CASE GetCooldown(p)
  <2> DEFINE c == [call[p] EXCEPT !.pc = "get_isdown",
                     !.st.lastAlert = IF Readable THEN redis.lastAlert ELSE @]
  <2>1. c \in Call /\ c.inc = call[p].inc /\ c.at = call[p].at
    BY <1>1 DEF Call, Points, AlertState
  <2>2. Heading(c) = Heading(call[p])
    BY <1>1, <1>6 DEF GetCooldown, At, Call, Heading, Transit
  <2>3. Continue(p, c) /\ UNCHANGED <<incidents, log>>
    BY <1>6 DEF GetCooldown, observers
  <2>4. QED
    BY <1>4, <2>1, <2>2, <2>3
<1>7. CASE GetIsDown(p)
  <2> DEFINE c == [call[p] EXCEPT !.pc = call[p].ret,
                     !.st.isDown = IF Readable THEN redis.isDown ELSE @]
  <2>1. c \in Call /\ c.inc = call[p].inc /\ c.at = call[p].at
    BY <1>1 DEF Call, Points, AlertState
  <2>2. Heading(c) = Heading(call[p])
    BY <1>1, <1>7 DEF GetIsDown, At, Call, Heading, Transit
  <2>3. Continue(p, c) /\ UNCHANGED <<incidents, log>>
    BY <1>7 DEF GetIsDown, observers
  <2>4. QED
    BY <1>4, <2>1, <2>2, <2>3
<1>8. CASE Save(p) \/ SaveMemory(p)
  <2>1. PICK point \in {"save_memory", call[p].ret} : Goto(p, point)
    BY <1>8 DEF Save, SaveMemory
  <2> DEFINE c == [call[p] EXCEPT !.pc = point]
  <2>2. c \in Call /\ c.inc = call[p].inc /\ c.at = call[p].at
    BY <1>1, <2>1 DEF Call, Points
  <2>3. Heading(c) = Heading(call[p])
    BY <1>1, <1>8, <2>1 DEF Save, SaveMemory, At, Call, Heading, Transit
  <2>4. Continue(p, c) /\ UNCHANGED <<incidents, log>>
    BY <1>8, <2>1 DEF Save, SaveMemory, Goto, observers
  <2>5. QED
    BY <1>4, <2>2, <2>3, <2>4
<1>9. QED
  BY <1>3, <1>5, <1>6, <1>7, <1>8

(* Steps that head nowhere near a mark or an escalation                     *)
LEMMA EscalationElsewhere ==
  ASSUME TypeOK, EscalationInv, NEW p \in Procs, NEW c \in Call, Continue(p, c),
         UNCHANGED <<incidents, log>>, Heading(c) \notin Escalating \cup {"mark_sent"}
  PROVE  EscalationInv'
  BY EscalationMoveOnly DEF Warranted

LEMMA EscalationHandle ==
  ASSUME NEW p \in Procs, TypeOK, EscalationInv,
         StartCheck(p) \/ HandleRecovery(p) \/ HandleFailure(p) \/ SetAlertCooldown(p)
  PROVE  EscalationInv'
<1>1. call[p] \in Call /\ call[p].st \in AlertState /\ now \in Nat
  BY DEF TypeOK, Call
<1>2. CASE StartCheck(p)
  <2>1. PICK up \in BOOLEAN :
          Continue(p, [Idle EXCEPT !.pc = "process_check", !.up = up, !.at = now])
    BY <1>2 DEF StartCheck
  <2> DEFINE c == [Idle EXCEPT !.pc = "process_check", !.up = up, !.at = now]
  <2>2. c \in Call
    BY <1>1, IdleIsACall DEF Call, Points
  <2>3. Heading(c) = "process_check"
    BY DEF Idle, Heading, Transit
  <2>4. UNCHANGED <<incidents, log>>
    BY <1>2 DEF StartCheck
  <2>5. QED
    BY <2>1, <2>2, <2>3, <2>4, EscalationElsewhere DEF Escalating
<1>3. CASE HandleRecovery(p)
  <2> DEFINE c == [call[p] EXCEPT !.pc = "save", !.st = Cleared(call[p].st),
                     !.ret = IF call[p].st.isDown THEN "recovery_lookup" ELSE "idle"]
  <2>1. c \in Call
    BY <1>1, StatesType DEF Call, Points
  <2>2. Heading(c) \in {"recovery_lookup", "idle"}
    BY <1>1 DEF Call, Heading, Transit
  <2>3. Continue(p, c) /\ UNCHANGED <<incidents, log>>
    BY <1>3 DEF HandleRecovery
  <2>4. QED
    BY <2>1, <2>2, <2>3, EscalationElsewhere DEF Escalating
<1>4. CASE HandleFailure(p)
  <2> DEFINE s == Incremented(call[p].st)
             c == [call[p] EXCEPT !.pc = "save", !.st = s,
                     !.ret = IF BelowThreshold(s) THEN "idle" ELSE "should_alert"]
  <2>1. c \in Call
    BY <1>1, StatesType DEF Call, Points
  <2>2. Heading(c) \in {"should_alert", "idle"}
    BY <1>1 DEF Call, Heading, Transit
  <2>3. Continue(p, c) /\ UNCHANGED <<incidents, log>>
    BY <1>4 DEF HandleFailure
  <2>4. QED
    BY <2>1, <2>2, <2>3, EscalationElsewhere DEF Escalating
<1>5. CASE SetAlertCooldown(p)
  <2> DEFINE c == [call[p] EXCEPT !.pc = "save", !.st.lastAlert = call[p].at,
                                  !.ret = AfterStamp[call[p].pc]]
  <2>1. AfterStamp[call[p].pc] \in {"escalate_lookup", "resolve", "idle"}
    BY <1>5 DEF SetAlertCooldown, AfterStamp
  <2>2. c \in Call
    BY <1>1, <2>1 DEF Call, Points, AlertState
  <2>3. Heading(c) \in {"escalate_lookup", "resolve", "idle"}
    BY <1>1, <2>1 DEF Call, Heading, Transit
  <2>4. Continue(p, c) /\ UNCHANGED <<incidents, log>>
    BY <1>5 DEF SetAlertCooldown, observers
  <2>5. QED
    BY <2>2, <2>3, <2>4, EscalationElsewhere DEF Escalating
<1>6. QED
  BY <1>2, <1>3, <1>4, <1>5

(* A lookup sends a goroutine to escalate only with an incident that may be *)
LEMMA EscalationGetOpenIncident ==
  ASSUME NEW p \in Procs, TypeOK, EscalationInv,
         NEW onError \in Points \ Transit, NEW onNone \in Points \ Transit,
         NEW onFound \in [OpenIds -> Points \ Transit],
         GetOpenIncident(p, onError, onNone, onFound),
         {onError, onNone} \cap (Escalating \cup {"mark_sent"}) = {},
         \A i \in OpenIds : /\ onFound[i] # "mark_sent"
                            /\ onFound[i] \in Escalating => Escalable(i, call[p].at)
  PROVE  EscalationInv'
<1>1. call[p] \in Call
  BY DEF TypeOK
<1>2. \A i \in OpenIds : i \in Nat
  BY DEF OpenIds, TypeOK
<1>3. UNCHANGED <<incidents, log>>
  BY DEF GetOpenIncident, observers
<1>4. CASE Goto(p, onError)
  <2> DEFINE c == [call[p] EXCEPT !.pc = onError]
  <2>1. c \in Call /\ Heading(c) = onError /\ Continue(p, c)
    BY <1>1, <1>4 DEF Call, Heading, Goto
  <2>2. QED
    BY <1>3, <2>1, EscalationElsewhere
<1>5. CASE Continue(p, [call[p] EXCEPT !.pc = onNone, !.inc = NULL])
  <2> DEFINE c == [call[p] EXCEPT !.pc = onNone, !.inc = NULL]
  <2>1. c \in Call /\ Heading(c) = onNone
    BY <1>1 DEF Call, NULL, Heading
  <2>2. QED
    BY <1>3, <1>5, <2>1, EscalationElsewhere
<1>6. ASSUME NEW i \in LatestOpen,
             Continue(p, [call[p] EXCEPT !.pc = onFound[i], !.inc = i])
      PROVE  EscalationInv'
  <2> DEFINE c == [call[p] EXCEPT !.pc = onFound[i], !.inc = i]
  <2>1. i \in OpenIds /\ i \in Nat /\ onFound[i] \in Points \ Transit
    BY <1>2 DEF LatestOpen
  <2>2. c \in Call /\ Heading(c) = onFound[i] /\ c.inc = i /\ c.at = call[p].at
    BY <1>1, <2>1 DEF Call, Heading
  <2>3. Warranted(c)
    BY <2>1, <2>2 DEF Warranted
  <2>4. QED
    BY <1>3, <1>6, <2>2, <2>3, EscalationMoveOnly
<1>7. QED
  BY <1>4, <1>5, <1>6 DEF GetOpenIncident

LEMMA EscalationLookup ==
  ASSUME NEW p \in Procs, TypeOK, EscalationInv,
         RecoveryLookup(p) \/ AlertLookup(p) \/ CreateLookup(p) \/ EscalateLookup(p)
  PROVE  EscalationInv'
<1>1. /\ {"idle", "escalate_lookup", "create_lookup", "create_insert", "send_recovery",
          "send_down", "escalate"} \subseteq Points \ Transit
      /\ {"idle", "escalate_lookup", "create_lookup", "create_insert", "send_recovery",
          "send_down"} \cap (Escalating \cup {"mark_sent"}) = {}
  BY DEF Points, Transit, Escalating
<1>2. CASE RecoveryLookup(p)
  <2>1. [i \in OpenIds |-> "send_recovery"] \in [OpenIds -> Points \ Transit]
    BY <1>1
  <2>2. QED
    BY <1>1, <1>2, <2>1, EscalationGetOpenIncident DEF RecoveryLookup
<1>3. CASE AlertLookup(p)
  <2> DEFINE found == [i \in OpenIds |-> IF AlreadyAlerted(i) THEN "escalate_lookup" ELSE "create_lookup"]
  <2>1. /\ found \in [OpenIds -> Points \ Transit]
        /\ \A i \in OpenIds : found[i] \in {"escalate_lookup", "create_lookup"}
    BY <1>1
  <2>2. GetOpenIncident(p, "escalate_lookup", "create_lookup", found)
    BY <1>3 DEF AlertLookup
  <2> HIDE DEF found
  <2>3. QED
    BY <1>1, <2>1, <2>2, EscalationGetOpenIncident DEF Escalating
<1>4. CASE CreateLookup(p)
  <2>1. [i \in OpenIds |-> "send_down"] \in [OpenIds -> Points \ Transit]
    BY <1>1
  <2>2. QED
    BY <1>1, <1>4, <2>1, EscalationGetOpenIncident DEF CreateLookup
<1>5. CASE EscalateLookup(p)
  <2> DEFINE found == [i \in OpenIds |-> IF MayEscalate(i, call[p].at) THEN "escalate" ELSE "idle"]
  <2>1. found \in [OpenIds -> Points \ Transit]
    BY <1>1
  <2>2. GetOpenIncident(p, "idle", "idle", found)
    BY <1>5 DEF EscalateLookup
  <2>3. ASSUME NEW i \in OpenIds
        PROVE  /\ found[i] # "mark_sent"
               /\ found[i] \in Escalating => Escalable(i, call[p].at)
    <3>1. i \in DOMAIN incidents
      BY DEF OpenIds
    <3>2. MayEscalate(i, call[p].at) => Escalable(i, call[p].at)
      BY <3>1, EscalationInvParts DEF MayEscalate, AlreadyAlerted, Escalable
    <3>3. QED
      BY <3>2 DEF Escalating
  <2> HIDE DEF found
  <2>4. QED
    BY <1>1, <2>1, <2>2, <2>3, EscalationGetOpenIncident
<1>6. QED
  BY <1>2, <1>3, <1>4, <1>5

LEMMA EscalationDecide ==
  ASSUME NEW p \in Procs, TypeOK, EscalationInv, Judge(p) \/ Weigh(p)
  PROVE  EscalationInv'
<1>1. call[p] \in Call /\ Warranted(call[p])
  BY EscalationInvParts DEF TypeOK
<1>2. UNCHANGED <<incidents, log>>
  BY DEF Judge, Weigh, observers
<1>3. CASE Judge(p)
  <2>1. PICK point \in {"escalate_lookup", "alert_lookup"} : Goto(p, point)
    BY <1>3 DEF Judge
  <2> DEFINE c == [call[p] EXCEPT !.pc = point]
  <2>2. c \in Call /\ Continue(p, c) /\ Heading(c) = point
    BY <1>1, <2>1 DEF Call, Goto, Points, Heading, Transit
  <2>3. QED
    BY <1>2, <2>1, <2>2, EscalationElsewhere DEF Escalating
<1>4. CASE Weigh(p)
  <2>1. PICK point \in {"idle", "send_escalation"} : Goto(p, point)
    BY <1>4 DEF Weigh
  <2> DEFINE c == [call[p] EXCEPT !.pc = point]
  <2>2. /\ c \in Call /\ Continue(p, c) /\ Heading(c) = point
        /\ c.inc = call[p].inc /\ c.at = call[p].at
    BY <1>1, <2>1 DEF Call, Goto, Points, Heading, Transit
  <2>3. Heading(call[p]) \in Escalating
    BY <1>4 DEF Weigh, At, Heading, Transit, Escalating
  <2>4. Warranted(c)
    BY <1>1, <2>1, <2>2, <2>3 DEF Warranted
  <2>5. QED
    BY <1>2, <2>2, <2>4, EscalationMoveOnly
<1>5. QED
  BY <1>3, <1>4

(* An attempt is logged: an escalation only by whoever is warranted to send *)
(* it, and mark_sent is reached only when a down alert reported no error.   *)
LEMMA EscalationBroadcast ==
  ASSUME NEW p \in Procs, TypeOK, EscalationInv,
         NEW kind \in {"down", "recovery", "escalation"},
         NEW onSent \in Points \ Transit, NEW onError \in Points \ Transit,
         Broadcast(p, kind, onSent, onError),
         onSent = "mark_sent" => kind = "down",
         onError # "mark_sent", {onSent, onError} \cap Escalating = {},
         kind = "escalation" => Escalable(call[p].inc, call[p].at)
  PROVE  EscalationInv'
<1>1. PICK d \in Deliveries :
        /\ log' = Append(log, [kind |-> kind, inc |-> call[p].inc, to |-> d.to, err |-> d.err,
                               checked |-> call[p].at])
        /\ Goto(p, IF d.err THEN onError ELSE onSent)
  BY DEF Broadcast
<1> DEFINE n == [kind |-> kind, inc |-> call[p].inc, to |-> d.to, err |-> d.err,
                 checked |-> call[p].at]
           point == IF d.err THEN onError ELSE onSent
<1>2. /\ log' = Append(log, n) /\ log \in Seq(Notification) /\ incidents' = incidents
      /\ d.err \in BOOLEAN
  BY <1>1 DEF Broadcast, TypeOK, Deliveries
<1>3. PICK c \in Call : /\ Continue(p, c) /\ Heading(c) = point
                       /\ c.inc = call[p].inc /\ c.at = call[p].at
  <2> DEFINE e == [call[p] EXCEPT !.pc = point]
  <2>1. /\ e \in Call /\ Continue(p, e) /\ Heading(e) = point
        /\ e.inc = call[p].inc /\ e.at = call[p].at
    BY <1>1 DEF Call, Goto, Heading, TypeOK
  <2>2. QED
    BY <2>1
<1>4. /\ \A i : Known(i) => Known(i)'
      /\ \A e : Warranted(e) => Warranted(e)'
  BY <1>2, KnownStays, UnchangedRowsStay
<1>5. /\ DOMAIN log' = 1 .. Len(log) + 1 /\ DOMAIN log = 1 .. Len(log) /\ Len(log) \in Nat
      /\ log'[Len(log) + 1] = n
      /\ \A k \in DOMAIN log : log'[k] = log[k]
  BY <1>2
<1>6. Warranted(c)'
  <2>1. CASE point = "mark_sent"
    <3>1. ~d.err /\ kind = "down"
      BY <1>2, <2>1
    <3>2. n.kind = "down" /\ ~n.err /\ n.inc = c.inc
      BY <1>3, <3>1
    <3>3. Known(c.inc)'
      BY <1>5, <3>2 DEF Known, Announced
    <3>4. QED
      BY <1>3, <2>1, <3>3 DEF Warranted, Heading, Escalating
  <2>2. CASE point # "mark_sent"
    BY <1>3, <2>2 DEF Warranted, Heading
  <2>3. QED
    BY <2>1, <2>2
<1>7. \A q \in Procs : call'[q] \in {call[q], c, Idle}
  BY <1>3, ContinueSplit DEF TypeOK
<1>8. ASSUME NEW q \in Procs
      PROVE  Warranted(call[q])'
  <2>1. PICK e \in {call[q], c, Idle} : e = call'[q]
    BY <1>7
  <2>2. Warranted(e)'
    BY <1>4, <1>6, <2>1, EscalationInvParts, IdleIsWarranted
  <2>3. QED
    BY <2>1, <2>2 DEF Warranted, Heading
<1>9. \A i \in DOMAIN incidents' : AlreadyAlerted(i)' => Known(i)'
  BY <1>2, <1>4, EscalationInvParts DEF AlreadyAlerted
<1>10. ASSUME NEW k \in DOMAIN log', log'[k].kind = "escalation"
       PROVE  /\ log'[k].inc \in DOMAIN incidents'
              /\ \E j \in 1 .. k - 1 : Announced(j, log[k].inc)'
              /\ log'[k].checked - incidents'[log'[k].inc].startedAt >= EscalationThreshold
  <2>1. CASE k \in DOMAIN log
    <3>1. PICK j \in 1 .. k - 1 : Announced(j, log[k].inc)
      BY <1>5, <1>10, <2>1 DEF EscalationInv, EscalationFollowsAlert
    <3>2. j \in DOMAIN log
      BY <1>5, <2>1
    <3>3. QED
      BY <1>2, <1>5, <1>10, <2>1, <3>1, <3>2
         DEF EscalationInv, EscalationFollowsAlert, Announced
  <2>2. CASE k = Len(log) + 1
    <3>1. kind = "escalation" /\ log'[k].inc = call[p].inc /\ log'[k].checked = call[p].at
      BY <1>5, <1>10, <2>2
    <3>2. Escalable(call[p].inc, call[p].at)
      BY <3>1
    <3>3. PICK j \in DOMAIN log : Announced(j, call[p].inc)
      BY <3>2 DEF Escalable, Known
    <3>4. j \in 1 .. k - 1
      BY <1>5, <2>2
    <3>5. QED
      BY <1>2, <1>5, <3>1, <3>2, <3>3, <3>4 DEF Escalable, Announced
  <2>3. QED
    BY <1>5, <2>1, <2>2
<1>11. EscalationFollowsAlert'
  BY <1>10 DEF EscalationFollowsAlert
<1>12. QED
  BY <1>8, <1>9, <1>10, <1>11 DEF EscalationInv, Warranted, Escalating, Heading

LEMMA EscalationSend ==
  ASSUME NEW p \in Procs, TypeOK, EscalationInv,
         SendRecoveryAlert(p) \/ SendDownAlert(p) \/ SendEscalationAlert(p)
  PROVE  EscalationInv'
<1>1. /\ {"cool_recovery", "resolve", "mark_sent", "mark_escalation", "idle"} \subseteq Points \ Transit
      /\ {"cool_recovery", "resolve", "mark_sent", "mark_escalation", "idle"} \cap Escalating = {}
  BY DEF Points, Transit, Escalating
<1>2. CASE SendRecoveryAlert(p)
  BY <1>1, <1>2, EscalationBroadcast DEF SendRecoveryAlert
<1>3. CASE SendDownAlert(p)
  BY <1>1, <1>3, EscalationBroadcast DEF SendDownAlert
<1>4. CASE SendEscalationAlert(p)
  <2>1. Escalable(call[p].inc, call[p].at)
    BY <1>4, EscalationInvParts
       DEF SendEscalationAlert, At, Warranted, Heading, Transit, Escalating
  <2>2. QED
    BY <1>1, <1>4, <2>1, EscalationBroadcast DEF SendEscalationAlert
<1>5. QED
  BY <1>2, <1>3, <1>4

LEMMA EscalationWrite ==
  ASSUME NEW p \in Procs, TypeOK, EscalationInv,
         \/ ResolveIncident(p) \/ CreateInsert(p)
         \/ MarkIncidentAlertSent(p) \/ MarkIncidentEscalation(p)
  PROVE  EscalationInv'
<1>1. /\ call[p] \in Call /\ incidents \in Seq(Incident)
      /\ \A i \in DOMAIN incidents : incidents[i] \in Incident
      /\ call[p].inc \in Nat
  BY DEF TypeOK, Call
<1>2. UNCHANGED log /\ RowsStay
  BY WrittenRowsStay
     DEF ResolveIncident, CreateInsert, MarkIncidentAlertSent, MarkIncidentEscalation,
         Update, observers
<1>3. PICK c \in Call :
        Continue(p, c) /\ Heading(c) \in {"idle", "send_down", "cool_down", "cool_escalation"}
  <2>1. Len(incidents) + 1 \in Nat
    BY <1>1
  <2>2. /\ [call[p] EXCEPT !.pc = "send_down", !.inc = Len(incidents) + 1] \in Call
        /\ Heading([call[p] EXCEPT !.pc = "send_down", !.inc = Len(incidents) + 1]) = "send_down"
    <3>1. PICK n \in Nat : n = Len(incidents) + 1
      BY <2>1
    <3>2. "send_down" \in Points \ Transit
      BY DEF Points, Transit
    <3>3. [call[p] EXCEPT !.pc = "send_down", !.inc = n] \in Call
      BY <1>1, <3>2 DEF Call
    <3>4. [call[p] EXCEPT !.pc = "send_down", !.inc = n].pc = "send_down"
      BY <1>1 DEF Call
    <3>5. QED
      BY <3>1, <3>2, <3>3, <3>4 DEF Heading
  <2>3. ASSUME NEW point \in {"idle", "cool_down", "cool_escalation"}
        PROVE  [call[p] EXCEPT !.pc = point] \in Call /\ Heading([call[p] EXCEPT !.pc = point]) = point
    BY <1>1 DEF Call, Points, Heading, Transit
  <2>4. CASE CreateInsert(p)
    <3>1. CASE Continue(p, [call[p] EXCEPT !.pc = "send_down", !.inc = Len(incidents) + 1])
      BY <2>2, <3>1
    <3>2. CASE Goto(p, "idle")
      BY <2>3, <3>2 DEF Goto
    <3>3. QED
      BY <2>4, <3>1, <3>2 DEF CreateInsert
  <2>5. CASE ~CreateInsert(p)
    <3>1. PICK point \in {"idle", "cool_down", "cool_escalation"} : Goto(p, point)
      BY <2>5 DEF ResolveIncident, MarkIncidentAlertSent, MarkIncidentEscalation, Update
    <3>2. QED
      BY <2>3, <3>1 DEF Goto
  <2>6. QED
    BY <2>4, <2>5
<1>4. Warranted(c)
  BY <1>3 DEF Warranted, Escalating
<1>5. ASSUME NEW i \in DOMAIN incidents', incidents'[i].alertSentAt # NULL
      PROVE  Known(i)
  <2>1. CASE CreateInsert(p)
    BY <1>1, <1>5, <2>1, EscalationInvParts DEF CreateInsert, NewIncident
  <2>2. CASE ResolveIncident(p)
    <3>1. \A j \in DOMAIN incidents : Resolved(call[p].at)[j].alertSentAt = incidents[j].alertSentAt
      BY <1>1 DEF Resolved, Incident
    <3>2. QED
      BY <1>5, <2>2, <3>1, EscalationInvParts DEF ResolveIncident, Update, Resolved
  <2>3. CASE MarkIncidentAlertSent(p)
    <3>1. Known(call[p].inc)
      BY <2>3, EscalationInvParts DEF MarkIncidentAlertSent, At, Warranted, Heading, Transit
    <3>2. CASE i = call[p].inc
      BY <3>1, <3>2
    <3>3. CASE i # call[p].inc
      <4>1. i \in DOMAIN incidents /\ incidents'[i] = incidents[i]
        BY <1>1, <1>5, <2>3, <3>3 DEF MarkIncidentAlertSent, Update
      <4>2. QED
        BY <1>5, <4>1, EscalationInvParts
    <3>4. QED
      BY <3>2, <3>3
  <2>4. CASE MarkIncidentEscalation(p)
    <3>1. i \in DOMAIN incidents /\ incidents'[i].alertSentAt = incidents[i].alertSentAt
      <4>1. CASE UNCHANGED incidents
        BY <1>5, <4>1
      <4>2. CASE incidents' = [incidents EXCEPT ![call[p].inc].lastEscalationAt = call[p].at]
        <5>1. i \in DOMAIN incidents
          BY <1>5, <4>2
        <5>2. i # call[p].inc => incidents'[i] = incidents[i]
          BY <4>2, <5>1
        <5>3. i = call[p].inc =>
                incidents'[i] = [incidents[i] EXCEPT !.lastEscalationAt = call[p].at]
          BY <4>2, <5>1
        <5>4. QED
          BY <1>1, <5>1, <5>2, <5>3 DEF Incident
      <4>3. QED
        BY <2>4, <4>1, <4>2 DEF MarkIncidentEscalation, Update
    <3>2. QED
      BY <1>5, <3>1, EscalationInvParts
  <2>5. QED
    BY <2>1, <2>2, <2>3, <2>4
<1>6. QED
  BY <1>2, <1>3, <1>4, <1>5, EscalationMove

LEMMA EscalationEnvironment ==
  ASSUME TypeOK, EscalationInv,
         Tick \/ RedisDown \/ RedisUp \/ Crash \/ BoundReached \/ UNCHANGED vars
  PROVE  EscalationInv'
<1>1. UNCHANGED <<incidents, log>>
  BY DEF Tick, RedisDown, RedisUp, Crash, BoundReached, vars, observers
<1>2. \A q \in Procs : call'[q] \in {call[q], Idle}
  BY DEF Tick, RedisDown, RedisUp, Crash, BoundReached, vars
<1>3. \A i : Known(i) <=> Known(i)'
  BY <1>1 DEF Known, Announced
<1>4. \A i, t : Escalable(i, t) <=> Escalable(i, t)'
  BY <1>1, <1>3 DEF Escalable
<1>5. ASSUME NEW q \in Procs
      PROVE  Warranted(call[q])'
  <2>1. PICK e \in {call[q], Idle} : e = call'[q]
    BY <1>2
  <2>2. Warranted(e)
    BY <2>1, EscalationInvParts, IdleIsWarranted
  <2>3. QED
    BY <1>3, <1>4, <2>1, <2>2 DEF Warranted, Heading
<1>6. EscalationFollowsAlert'
  BY <1>1 DEF EscalationInv, EscalationFollowsAlert, Announced
<1>7. QED
  BY <1>1, <1>3, <1>5, <1>6
     DEF EscalationInv, AlreadyAlerted, Warranted, Escalating, Heading

LEMMA NextEscalation ==
  ASSUME TypeOK, EscalationInv, [Next]_vars
  PROVE  EscalationInv'
<1>1. ASSUME NEW p \in Procs, StartCheck(p) \/ Step(p)
      PROVE  EscalationInv'
  BY <1>1, EscalationLoad, EscalationHandle, EscalationLookup, EscalationDecide,
     EscalationSend, EscalationWrite
     DEF Step
<1>2. QED
  BY <1>1, EscalationEnvironment DEF Next

(* For any number of goroutines and any faults, an escalation is sent only  *)
(* for an incident that was announced without error before, and that had    *)
(* been open for the escalation threshold when the check was made.          *)
THEOREM EscalationsAreWarranted == Spec => []EscalationFollowsAlert
<1>1. TypeOK /\ EscalationInv /\ [Next]_vars => EscalationInv'
  BY NextEscalation
<1>2. EscalationInv => EscalationFollowsAlert
  BY DEF EscalationInv
<1>3. Init => EscalationInv
  <2> SUFFICES ASSUME Init PROVE EscalationInv
    OBVIOUS
  <2>1. DOMAIN log = {} /\ DOMAIN incidents = {} /\ \A q \in Procs : call[q] = Idle
    BY DEF Init
  <2>2. \A q \in Procs : Heading(call[q]) = "idle"
    BY <2>1, IdleHeading
  <2>3. QED
    BY <2>1, <2>2 DEF EscalationInv, EscalationFollowsAlert
<1>4. QED
  BY <1>1, <1>2, <1>3, TypeCorrect, PTL DEF Spec
=============================================================================
