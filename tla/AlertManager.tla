---------------------------- MODULE AlertManager ----------------------------
(***************************************************************************)
(* The alerting state machine of one monitored site:                       *)
(* notifications/alertmanager.go over database/alert_redis.go (the streak  *)
(* and cooldown in Redis, with an in-memory copy) and                      *)
(* database/incidents.go (one row per outage in PostgreSQL).               *)
(*                                                                         *)
(* worker.go starts one goroutine per finished health check and never      *)
(* waits for it, so several ProcessCheck calls for the same site can be in *)
(* flight.  A member of Procs is such a goroutine; an action is what it    *)
(* does between two round trips to Redis, PostgreSQL or the notifiers.     *)
(* All keys and rows are indexed by the site, so one site stands for all.  *)
(***************************************************************************)
EXTENDS Integers, Sequences, FiniteSets

CONSTANTS
  Procs,                \* goroutines that may run ProcessCheck at one time
  Channels,             \* the notifiers of MultiNotifier
  Mute,                 \* channels that skip silently (no credentials, no recipient)
  FailureThreshold,     \* CONSECUTIVE_FAILURES_THRESHOLD
  Cooldown,             \* ALERT_COOLDOWN_MINUTES
  EscalationThreshold,  \* ESCALATION_THRESHOLD_MINUTES
  KeyTTL,               \* alertKeyTTL
  Faults,               \* which of "redis", "db", "send", "crash" can happen
  MaxChecks,            \* bound on the number of health checks
  MaxTime               \* bound on the clock

ASSUME ConfigAssumption ==
  /\ FailureThreshold \in Nat \ {0}      \* envInt rejects n < 1
  /\ Cooldown \in Nat \ {0}
  /\ EscalationThreshold \in Nat \ {0}
  /\ KeyTTL \in Nat \ {0}
  /\ Faults \subseteq {"redis", "db", "send", "crash"}
  /\ MaxChecks \in Nat
  /\ MaxTime \in Nat

VARIABLES
  now,        \* the wall clock
  redisUp,    \* Redis answers
  redis,      \* the three alert:* keys
  expires,    \* when these keys expire (every save sets all three)
  mem,        \* alertMemFallback
  incidents,  \* the incidents table; the index is the id
  call,       \* the ProcessCheck each goroutine is running, with its locals
  log,        \* observer: every notification attempt, in order
  started,    \* observer: checks begun
  fails,      \* observer: failed checks handled
  streak      \* observer: failed checks handled since the last successful one

stores == <<redis, expires, mem>>
observers == <<log, started, fails, streak>>
env == <<now, redisUp>>
vars == <<env, stores, incidents, call, observers>>

-----------------------------------------------------------------------------
(* Data.  Times start at 1, ids at 1: 0 is the zero time, SQL NULL or nil.  *)

NULL == 0

AlertState == [failures : Nat, lastAlert : Nat, isDown : BOOLEAN]

ZeroState == [failures |-> 0, lastAlert |-> NULL, isDown |-> FALSE]

Incident == [startedAt : Nat, resolvedAt : Nat, alertSentAt : Nat,
             lastEscalationAt : Nat, status : {"open", "resolved"}]

NewIncident(t) ==
  [startedAt |-> t, resolvedAt |-> NULL, alertSentAt |-> NULL,
   lastEscalationAt |-> NULL, status |-> "open"]

Notification == [kind : {"down", "recovery", "escalation"}, inc : Nat,
                 to : SUBSET Channels, err : BOOLEAN, checked : Nat]

(* Control points that begin with LoadAlertState, and what follows the load *)
AfterLoad ==
  [process_check   |-> "dispatch",
   should_alert    |-> "judge",
   escalate        |-> "weigh",
   cool_down       |-> "stamp_down",
   cool_recovery   |-> "stamp_recovery",
   cool_escalation |-> "stamp_escalation"]

MutantAfterStampUnresolved ==
  [stamp_down |-> "escalate_lookup", stamp_recovery |-> "idle", stamp_escalation |-> "idle"]

(* What the caller of SetAlertCooldown does when it returns                 *)
AfterStamp ==
  [stamp_down       |-> "escalate_lookup",
   stamp_recovery   |-> "resolve",
   stamp_escalation |-> "idle"]

Points ==
  {"idle", "process_check", "get_failures", "get_cooldown", "get_isdown", "dispatch",
   "save", "save_memory", "recovery_lookup", "send_recovery", "cool_recovery",
   "stamp_recovery", "resolve", "should_alert", "judge", "alert_lookup",
   "create_lookup", "create_insert", "send_down", "mark_sent", "cool_down",
   "stamp_down", "escalate_lookup", "escalate", "weigh", "send_escalation",
   "mark_escalation", "cool_escalation", "stamp_escalation"}

(* up and at are the arguments of ProcessCheck, st and inc its locals, ret  *)
(* where LoadAlertState or SaveAlertState returns to.                       *)
Call == [pc : Points, ret : Points, up : BOOLEAN, at : Nat, st : AlertState, inc : Nat]

Idle == [pc |-> "idle", ret |-> "idle", up |-> FALSE, at |-> 0, st |-> ZeroState, inc |-> NULL]

At(p, point) == call[p].pc = point

(* The goroutine goes on with locals c; when it ends they are gone.         *)
Continue(p, c) == call' = [call EXCEPT ![p] = IF c.pc = "idle" THEN Idle ELSE c]

Goto(p, point) == Continue(p, [call[p] EXCEPT !.pc = point])

-----------------------------------------------------------------------------
(* LoadAlertState: one Ping, then one GET per key; a key that is missing or *)
(* whose GET fails leaves the zero value.  No answer to the Ping: memory.   *)

Readable == redisUp /\ now < expires

BeginLoad(p) ==
  /\ call[p].pc \in DOMAIN AfterLoad
  /\ LET next == AfterLoad[call[p].pc] IN
     Continue(p, IF redisUp
                 THEN [call[p] EXCEPT !.pc = "get_failures", !.ret = next, !.st = ZeroState]
                 ELSE [call[p] EXCEPT !.pc = next, !.ret = next, !.st = mem])
  /\ UNCHANGED <<env, stores, incidents, observers>>

GetFailures(p) ==
  /\ At(p, "get_failures")
  /\ Continue(p, [call[p] EXCEPT !.pc = "get_cooldown",
                                 !.st.failures = IF Readable THEN redis.failures ELSE @])
  /\ UNCHANGED <<env, stores, incidents, observers>>

GetCooldown(p) ==
  /\ At(p, "get_cooldown")
  /\ Continue(p, [call[p] EXCEPT !.pc = "get_isdown",
                                 !.st.lastAlert = IF Readable THEN redis.lastAlert ELSE @])
  /\ UNCHANGED <<env, stores, incidents, observers>>

GetIsDown(p) ==
  /\ At(p, "get_isdown")
  /\ Continue(p, [call[p] EXCEPT !.pc = call[p].ret,
                                 !.st.isDown = IF Readable THEN redis.isDown ELSE @])
  /\ UNCHANGED <<env, stores, incidents, observers>>

(* SaveAlertState: a pipeline of three SETs, then the copy in memory; only  *)
(* the copy when Redis does not answer.  Its error is logged by the caller. *)
Save(p) ==
  /\ At(p, "save")
  /\ \/ /\ redisUp
        /\ redis' = call[p].st
        /\ expires' = now + KeyTTL
        /\ Goto(p, "save_memory")
        /\ UNCHANGED mem
     \/ /\ ~redisUp
        /\ mem' = call[p].st
        /\ Goto(p, call[p].ret)
        /\ UNCHANGED <<redis, expires>>
  /\ UNCHANGED <<env, incidents, observers>>

SaveMemory(p) ==
  /\ At(p, "save_memory")
  /\ mem' = call[p].st
  /\ Goto(p, call[p].ret)
  /\ UNCHANGED <<env, redis, expires, incidents, observers>>

-----------------------------------------------------------------------------
(* GetOpenIncident: the open row that started last (any of them on a tie).  *)
(* onFound says for each open row where its caller goes with it.            *)

OpenIds == {i \in DOMAIN incidents : incidents[i].status = "open"}

LatestOpen ==
  {i \in OpenIds : \A j \in OpenIds : incidents[j].startedAt <= incidents[i].startedAt}

GetOpenIncident(p, onError, onNone, onFound) ==
  /\ \/ "db" \in Faults /\ Goto(p, onError)
     \/ OpenIds = {} /\ Continue(p, [call[p] EXCEPT !.pc = onNone, !.inc = NULL])
     \/ \E i \in LatestOpen : Continue(p, [call[p] EXCEPT !.pc = onFound[i], !.inc = i])
  /\ UNCHANGED <<env, stores, incidents, observers>>

(* An UPDATE of the incidents table, whose error the callers only log.      *)
Update(p, rows, next) ==
  /\ \/ incidents' = rows
     \/ "db" \in Faults /\ UNCHANGED incidents
  /\ Goto(p, next)
  /\ UNCHANGED <<env, stores, observers>>

(* MultiNotifier.broadcast: every channel is tried; one failure makes the   *)
(* whole call fail, whatever the others delivered.  A muted channel returns *)
(* no error and delivers nothing.                                           *)
Speaking == Channels \ Mute

(* What one attempt can deliver, and whether it reports an error            *)
Deliveries ==
  {d \in [to : SUBSET Speaking, err : BOOLEAN] :
     IF d.err THEN "send" \in Faults /\ Speaking # {} ELSE d.to = Speaking}

Broadcast(p, kind, onSent, onError) ==
  /\ \E d \in Deliveries :
       /\ log' = Append(log, [kind |-> kind, inc |-> call[p].inc, to |-> d.to, err |-> d.err,
                              checked |-> call[p].at])
       /\ Goto(p, IF d.err THEN onError ELSE onSent)
  /\ UNCHANGED <<env, stores, incidents, started, fails, streak>>
-----------------------------------------------------------------------------
(* ProcessCheck: a worker starts it in a goroutine of its own as soon as    *)
(* the check has its result, whatever the previous goroutines are doing.    *)

StartCheck(p) ==
  /\ At(p, "idle")
  /\ started < MaxChecks
  /\ started' = started + 1
  /\ \E up \in BOOLEAN : Continue(p, [Idle EXCEPT !.pc = "process_check", !.up = up, !.at = now])
  /\ UNCHANGED <<env, stores, incidents, log, fails, streak>>

(* Definitions named Mutant... are plausible bugs: each stands in for the   *)
(* definition below it in the run that shows a property can be broken.      *)
MutantClearedFlagOnly(s) == [s EXCEPT !.isDown = FALSE]

MutantClearedDecaying(s) == [s EXCEPT !.failures = @ - 1, !.isDown = FALSE]

Cleared(s) == [failures |-> 0, lastAlert |-> s.lastAlert, isDown |-> FALSE]

Incremented(s) ==
  [failures |-> s.failures + 1, lastAlert |-> s.lastAlert, isDown |-> TRUE]

MutantBelowOrAtThreshold(s) == s.failures <= FailureThreshold

MutantBelowThresholdByOne(s) == s.failures + 1 < FailureThreshold

BelowThreshold(s) == s.failures < FailureThreshold

InCooldown(s) == s.lastAlert # NULL /\ now - s.lastAlert < Cooldown

(* handleRecovery up to its save; wasDown decides what follows.             *)
HandleRecovery(p) ==
  /\ At(p, "dispatch") /\ call[p].up
  /\ Continue(p, [call[p] EXCEPT !.pc = "save", !.st = Cleared(call[p].st),
                    !.ret = IF call[p].st.isDown THEN "recovery_lookup" ELSE "idle"])
  /\ streak' = 0
  /\ UNCHANGED <<env, stores, incidents, log, started, fails>>

(* handleFailure up to its save and the threshold test that follows it      *)
HandleFailure(p) ==
  /\ At(p, "dispatch") /\ ~call[p].up
  /\ LET s == Incremented(call[p].st) IN
     Continue(p, [call[p] EXCEPT !.pc = "save", !.st = s,
                    !.ret = IF BelowThreshold(s) THEN "idle" ELSE "should_alert"])
  /\ fails' = fails + 1
  /\ streak' = streak + 1
  /\ UNCHANGED <<env, stores, incidents, log, started>>

RecoveryLookup(p) ==
  /\ At(p, "recovery_lookup")
  /\ GetOpenIncident(p, "idle", "idle", [i \in OpenIds |-> "send_recovery"])

SendRecoveryAlert(p) ==
  /\ At(p, "send_recovery")
  /\ Broadcast(p, "recovery", "cool_recovery", "resolve")

MutantResolvedUntimed(t) ==
  [i \in DOMAIN incidents |->
     IF i \in OpenIds THEN [incidents[i] EXCEPT !.status = "resolved"] ELSE incidents[i]]

(* ResolveIncident updates every open row of the site, not only call[p].inc *)
Resolved(t) ==
  [i \in DOMAIN incidents |->
     IF i \in OpenIds THEN [incidents[i] EXCEPT !.status = "resolved", !.resolvedAt = t]
                      ELSE incidents[i]]

ResolveIncident(p) ==
  /\ At(p, "resolve")
  /\ Update(p, Resolved(call[p].at), "idle")

(* ShouldAlert after its load                                               *)
Judge(p) ==
  /\ At(p, "judge")
  /\ Goto(p, IF BelowThreshold(call[p].st) \/ InCooldown(call[p].st)
             THEN "escalate_lookup" ELSE "alert_lookup")
  /\ UNCHANGED <<env, stores, incidents, observers>>

AlreadyAlerted(i) == incidents[i].alertSentAt # NULL

AlertLookup(p) ==
  /\ At(p, "alert_lookup")
  /\ GetOpenIncident(p, "escalate_lookup", "create_lookup",
       [i \in OpenIds |-> IF AlreadyAlerted(i) THEN "escalate_lookup" ELSE "create_lookup"])

(* CreateIncident: look for an open row, and insert one in a second         *)
(* statement; no transaction or unique index holds the two together.        *)
CreateLookup(p) ==
  /\ At(p, "create_lookup")
  /\ GetOpenIncident(p, "idle", "create_insert", [i \in OpenIds |-> "send_down"])

CreateInsert(p) ==
  /\ At(p, "create_insert")
  /\ \/ /\ incidents' = Append(incidents, NewIncident(call[p].at))
        /\ Continue(p, [call[p] EXCEPT !.pc = "send_down", !.inc = Len(incidents) + 1])
     \/ /\ "db" \in Faults
        /\ Goto(p, "idle")
        /\ UNCHANGED incidents
  /\ UNCHANGED <<env, stores, observers>>

SendDownAlert(p) ==
  /\ At(p, "send_down")
  /\ Broadcast(p, "down", "mark_sent", "idle")

MutantMarkWholeRow(p) ==
  /\ At(p, "mark_sent")
  /\ Update(p, [incidents EXCEPT ![call[p].inc] =
                  [@ EXCEPT !.alertSentAt = call[p].at, !.status = "open"]], "cool_down")

MarkIncidentAlertSent(p) ==
  /\ At(p, "mark_sent")
  /\ Update(p, [incidents EXCEPT ![call[p].inc].alertSentAt = call[p].at], "cool_down")

MutantMayEscalateLate(i, t) ==
  /\ AlreadyAlerted(i)
  /\ t - incidents[i].startedAt > EscalationThreshold
  /\ incidents[i].lastEscalationAt = NULL

MutantMayEscalateAgain(i, t) ==
  AlreadyAlerted(i) /\ t - incidents[i].startedAt >= EscalationThreshold

MutantMayEscalateUnannounced(i, t) ==
  /\ t - incidents[i].startedAt >= EscalationThreshold
  /\ incidents[i].lastEscalationAt = NULL

(* maybeEscalate.  Its test of LastEscalationAt comes after the load of the *)
(* alert state, but on the row read here: it gives the same answer here.    *)
MayEscalate(i, t) ==
  /\ AlreadyAlerted(i)
  /\ t - incidents[i].startedAt >= EscalationThreshold
  /\ incidents[i].lastEscalationAt = NULL

EscalateLookup(p) ==
  /\ At(p, "escalate_lookup")
  /\ GetOpenIncident(p, "idle", "idle",
       [i \in OpenIds |-> IF MayEscalate(i, call[p].at) THEN "escalate" ELSE "idle"])

Weigh(p) ==
  /\ At(p, "weigh")
  /\ Goto(p, IF InCooldown(call[p].st) THEN "idle" ELSE "send_escalation")
  /\ UNCHANGED <<env, stores, incidents, observers>>

SendEscalationAlert(p) ==
  /\ At(p, "send_escalation")
  /\ Broadcast(p, "escalation", "mark_escalation", "idle")

MarkIncidentEscalation(p) ==
  /\ At(p, "mark_escalation")
  /\ Update(p, [incidents EXCEPT ![call[p].inc].lastEscalationAt = call[p].at], "cool_escalation")

(* SetAlertCooldown between its load and its save                           *)
SetAlertCooldown(p) ==
  /\ call[p].pc \in DOMAIN AfterStamp
  /\ Continue(p, [call[p] EXCEPT !.pc = "save", !.st.lastAlert = call[p].at,
                                 !.ret = AfterStamp[call[p].pc]])
  /\ UNCHANGED <<env, stores, incidents, observers>>

-----------------------------------------------------------------------------
(* The environment.  The engine restarts only when Redis answers (main.go   *)
(* gives up otherwise) and has then no goroutine and an empty memory copy.  *)

Tick ==
  /\ now < MaxTime
  /\ now' = now + 1
  /\ UNCHANGED <<redisUp, stores, incidents, call, observers>>

RedisDown ==
  /\ "redis" \in Faults /\ redisUp
  /\ redisUp' = FALSE
  /\ UNCHANGED <<now, stores, incidents, call, observers>>

RedisUp ==
  /\ ~redisUp
  /\ redisUp' = TRUE
  /\ UNCHANGED <<now, stores, incidents, call, observers>>

Crash ==
  /\ "crash" \in Faults /\ redisUp
  /\ call' = [p \in Procs |-> Idle]
  /\ mem' = ZeroState
  /\ UNCHANGED <<env, redis, expires, incidents, observers>>

Quiet == \A p \in Procs : At(p, "idle")

(* The bounds are reached: the model stops, the engine would go on.         *)
BoundReached ==
  /\ Quiet /\ started = MaxChecks /\ now = MaxTime
  /\ UNCHANGED vars

Init ==
  /\ now = 1
  /\ redisUp = TRUE
  /\ redis = ZeroState
  /\ expires = 0
  /\ mem = ZeroState
  /\ incidents = <<>>
  /\ call = [p \in Procs |-> Idle]
  /\ log = <<>>
  /\ started = 0
  /\ fails = 0
  /\ streak = 0

(* What a goroutine does once it has been started                           *)
Step(p) ==
  \/ BeginLoad(p) \/ GetFailures(p) \/ GetCooldown(p) \/ GetIsDown(p)
  \/ Save(p) \/ SaveMemory(p)
  \/ HandleRecovery(p) \/ RecoveryLookup(p) \/ SendRecoveryAlert(p) \/ ResolveIncident(p)
  \/ HandleFailure(p) \/ Judge(p) \/ AlertLookup(p) \/ CreateLookup(p) \/ CreateInsert(p)
  \/ SendDownAlert(p) \/ MarkIncidentAlertSent(p)
  \/ EscalateLookup(p) \/ Weigh(p) \/ SendEscalationAlert(p) \/ MarkIncidentEscalation(p)
  \/ SetAlertCooldown(p)

Next ==
  \/ \E p \in Procs : StartCheck(p) \/ Step(p)
  \/ Tick \/ RedisDown \/ RedisUp \/ Crash \/ BoundReached

Spec == Init /\ [][Next]_vars

(* The Go scheduler runs every goroutine; no check has to begin, and time   *)
(* or faults need not happen.  A goroutine that sends a down alert or an    *)
(* escalation may hang for ever (smtp.SendMail has no deadline).            *)
MayHang(p) == At(p, "send_down") \/ At(p, "send_escalation")

Fairness == \A p \in Procs : WF_vars(Step(p) /\ ~MayHang(p))

FairSpec == Spec /\ Fairness
-----------------------------------------------------------------------------
TypeOK ==
  /\ now \in Nat \ {0}
  /\ redisUp \in BOOLEAN
  /\ redis \in AlertState /\ mem \in AlertState
  /\ expires \in Nat
  /\ incidents \in Seq(Incident)
  /\ call \in [Procs -> Call]
  /\ log \in Seq(Notification)
  /\ started \in Nat /\ fails \in Nat /\ streak \in Nat

-----------------------------------------------------------------------------
(* Properties that hold whatever is concurrent and whatever fails.          *)

(* Nothing is ever announced, and no incident opened, before as many checks *)
(* have failed as the threshold demands (alertmanager.go:133, :59), however *)
(* old or torn the alert state that the goroutines read.                    *)
NoEarlyAlarm == (log # <<>> \/ incidents # <<>>) => fails >= FailureThreshold

Announced(k, i) == log[k].kind = "down" /\ ~log[k].err /\ log[k].inc = i

(* An escalation tells of an outage that was announced before: a down alert *)
(* for the same incident went out without error (alertmanager.go:160), and  *)
(* its incident had been open for the escalation threshold (:165).          *)
EscalationFollowsAlert ==
  \A k \in DOMAIN log : log[k].kind = "escalation" =>
    /\ \E j \in 1 .. k - 1 : Announced(j, log[k].inc)
    /\ log[k].checked - incidents[log[k].inc].startedAt >= EscalationThreshold

(* An incident is never dropped or moved in time, and a resolved one stays  *)
(* resolved when it was, although two recoveries may both resolve           *)
(* (incidents.go:85 updates only the rows that are still open).             *)
ResolvedIsFinal ==
  [][\A i \in DOMAIN incidents :
       /\ i \in DOMAIN incidents'
       /\ incidents'[i].startedAt = incidents[i].startedAt
       /\ incidents[i].status = "resolved" =>
            /\ incidents'[i].status = "resolved"
            /\ incidents'[i].resolvedAt = incidents[i].resolvedAt]_vars

-----------------------------------------------------------------------------
(* Properties of one check at a time.                                       *)

(* No channel hears twice of the same incident going down                   *)
(* (alertmanager.go:40).                                                    *)
NoDuplicateDown ==
  \A j, k \in DOMAIN log :
    j # k /\ log[j].kind = "down" /\ log[k].kind = "down" /\ log[j].inc = log[k].inc
      => log[j].to \cap log[k].to = {}

Rank == [down |-> 1, escalation |-> 2, recovery |-> 3]

Told(kind, i) == \E k \in DOMAIN log : log[k].kind = kind /\ log[k].inc = i

(* What is told of each incident is a whole story in order: down, then at   *)
(* most one escalation, then the recovery and nothing after it, and none is *)
(* resolved without its recovery being told (alertmanager.go:36-40).        *)
IncidentStory ==
  /\ \A k \in DOMAIN log :
       /\ \E j \in 1 .. k : log[j].inc = log[k].inc /\ log[j].kind = "down"
       /\ \A j \in 1 .. k - 1 : log[j].inc = log[k].inc => Rank[log[j].kind] < Rank[log[k].kind]
  /\ \A i \in DOMAIN incidents : incidents[i].status = "resolved" => Told("recovery", i)

(* The outages of a site follow one another: each was resolved, at or after *)
(* its start, before the next one began.  So no duration is negative        *)
(* (api/incidents.go:59), and no two incidents are open together although   *)
(* nothing but a lookup before the insert prevents it (incidents.go:46).    *)
OutagesDoNotOverlap ==
  \A i \in DOMAIN incidents :
    /\ incidents[i].status = "resolved" => incidents[i].startedAt <= incidents[i].resolvedAt
    /\ \A j \in DOMAIN incidents : i < j =>
         /\ incidents[i].status = "resolved"
         /\ incidents[i].resolvedAt <= incidents[j].startedAt

CoolingAt(t) == \E k \in DOMAIN log : t - log[k].checked < Cooldown

Ends(p) == ~At(p, "idle") /\ At(p, "idle")'

(* A check that ends a run of FailureThreshold failures or more leaves an   *)
(* open incident that was announced, unless the cooldown of an earlier      *)
(* alert forbids it: no outage goes unnoticed (alertmanager.go:137-152).    *)
OutageIsAnnounced ==
  [][\A p \in Procs : Ends(p) /\ ~call[p].up /\ streak >= FailureThreshold =>
       \/ \E i \in OpenIds : AlreadyAlerted(i)
       \/ CoolingAt(call[p].at)]_vars

(* The same for escalation: a failed check that ends with an incident as    *)
(* old as the threshold leaves it escalated, or cooling                     *)
(* (alertmanager.go:154, :165-177).                                         *)
LongOutageEscalated ==
  [][\A p \in Procs : Ends(p) /\ ~call[p].up => \A i \in OpenIds :
       \/ call[p].at - incidents[i].startedAt < EscalationThreshold
       \/ incidents[i].lastEscalationAt # NULL
       \/ CoolingAt(call[p].at)]_vars

(* A recovery, once a check has begun to handle it, closes the incident,    *)
(* whatever other checks do meanwhile, also when one of them hangs in the   *)
(* mail server with its alert (alertmanager.go:38, :119,                    *)
(* email_notifier.go:88): no goroutine waits for another.                   *)
RecoveryCompletes ==
  \A p \in Procs : (At(p, "dispatch") /\ call[p].up /\ call[p].st.isDown) ~> OpenIds = {}
=============================================================================
