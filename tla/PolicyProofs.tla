------------------------------ MODULE PolicyProofs ------------------------------
(***************************************************************************)
(* AlertManager implements AlertPolicy: the rules of alertmanager.go:35-40 *)
(* for a site whose checks are handled one at a time while nothing fails   *)
(* and its keys in Redis do not expire.                                    *)
(***************************************************************************)
EXTENDS AlertRefinement, IncidentProofs

(* The keys in Redis have not expired when they are read.                   *)
KeysLast == expires # 0 => now < expires

-----------------------------------------------------------------------------
(* What the goroutine knows of the stores at each point.  A load reads them *)
(* key by key; a save writes the streak, the down flag and the time of the  *)
(* latest alert as they are.                                                *)

Loaded == {"dispatch", "judge", "weigh", "stamp_down", "stamp_recovery", "stamp_escalation"}

Reading(c) ==
  /\ c.pc = "get_failures" => c.st = ZeroState
  /\ c.pc = "get_cooldown" =>
       c.st.failures = redis.failures /\ c.st.lastAlert = NULL /\ ~c.st.isDown
  /\ c.pc = "get_isdown" =>
       c.st.failures = redis.failures /\ c.st.lastAlert = redis.lastAlert /\ ~c.st.isDown
  /\ c.pc \in Loaded => /\ c.st.failures = redis.failures /\ c.st.lastAlert = redis.lastAlert
                        /\ c.st.isDown <=> redis.isDown
  /\ c.pc \in {"get_failures", "get_cooldown", "get_isdown"} => c.ret \in Loaded

(* Between an alert and the save of its time, Redis has an older one.       *)
Stamping == {"mark_sent", "cool_down", "stamp_down", "cool_recovery", "stamp_recovery",
             "mark_escalation", "cool_escalation", "stamp_escalation"}

Right(s) == s.failures = streak /\ (s.isDown <=> streak > 0)

Writing(c) ==
  /\ c.pc \in {"save", "save_memory"} =>
       /\ Right(c.st) /\ c.st.lastAlert = LastAlertedAt
       /\ c.ret \in {"idle", "recovery_lookup", "should_alert", "escalate_lookup", "resolve"}
  /\ c.pc # "save" => Right(redis)
  /\ c.pc # "save" /\ Heading(c) \notin Stamping => redis.lastAlert = LastAlertedAt
  /\ Heading(c) \in Stamping => LastAlertedAt = c.at

(* What the policy knows of the check at each point                         *)
Handled(c) == c.pc \notin {"idle", "process_check"} /\ c.ret # "dispatch"

Unheard == {"idle", "process_check", "dispatch"}

Fresh == {"alert_lookup", "create_lookup", "create_insert", "send_down", "send_escalation"}

OnFailure ==
  Fresh \cup Escalating \cup
  {"should_alert", "judge", "mark_sent", "cool_down", "stamp_down", "escalate_lookup",
   "mark_escalation", "cool_escalation", "stamp_escalation", "idle"}

OnSuccess == Recovering \cup {"recovery_lookup", "send_recovery", "idle"}

OpenMeansDown == OpenIds # {} => Policy!Down

FailureHandled(h, c) ==
  /\ h \in OnFailure /\ OpenMeansDown
  /\ IF h = "idle" THEN ~Policy!Down \/ Policy!Cooling(c.at) ELSE Policy!Down
  /\ h \in Fresh => ~Policy!Cooling(now)
  /\ h = "escalate_lookup" => Policy!Cooling(c.at) \/ OpenIds # {}
  /\ h = "mark_escalation" => Told("escalation", c.inc)
  /\ h \in Escalating => c.at - incidents[c.inc].startedAt >= EscalationThreshold

Dutiful(h, c) ==
  /\ ~Handled(c) => h \in Unheard /\ OpenMeansDown
  /\ Handled(c) /\ c.up => h \in OnSuccess /\ (h = "idle" => OpenIds = {})
  /\ Handled(c) /\ ~c.up => FailureHandled(h, c)

Good(c) == Reading(c) /\ Writing(c) /\ Dutiful(Heading(c), c)

Begun ==
  \A i \in DOMAIN incidents :
    /\ incidents[i].startedAt # NULL
    /\ incidents[i].lastEscalationAt # NULL => Told("escalation", i)

Answering == redisUp /\ (expires = 0 => redis = ZeroState)

PolicyInv == Answering /\ Begun /\ \A q \in Procs : Good(call[q])

PolicyStep == Policy!Next \/ UNCHANGED Policy!vars

-----------------------------------------------------------------------------
(* The mapping                                                              *)

CheckOf(c) == IF Handled(c) THEN [up |-> c.up, at |-> c.at] ELSE Policy!NoCheck

LEMMA OnlyOne ==
  ASSUME OneAtATime, NEW p \in Procs
  PROVE  Sole = p /\ \A q \in Procs : q = p
  BY DEF OneAtATime, Sole

LEMMA CheckIs ==
  ASSUME OneAtATime, NEW p \in Procs
  PROVE  HandledCheck = CheckOf(call[p]) /\ HandledCheck' = CheckOf(call'[p])
<1>1. PICK c, d : c = call[p] /\ d = call'[p]
  OBVIOUS
<1>2. call[Sole] = c /\ call'[Sole] = d
  BY <1>1, OnlyOne
<1>3. HandledCheck = CheckOf(c)
  BY <1>2 DEF HandledCheck, CheckOf, Handled, Policy!NoCheck
<1>4. HandledCheck' = CheckOf(d)
  BY <1>2 DEF HandledCheck, CheckOf, Handled, Policy!NoCheck
<1>5. QED
  BY <1>1, <1>3, <1>4

LEMMA NextCall ==
  ASSUME TypeOK, NEW p \in Procs, NEW c \in Call, Continue(p, c)
  PROVE  call'[p] = IF c.pc = "idle" THEN Idle ELSE c
  BY DEF Continue, TypeOK

LEMMA IdleIsUnheard == CheckOf(Idle) = Policy!NoCheck /\ ~Handled(Idle)
  BY DEF CheckOf, Handled, Idle

LEMMA CheckNext ==
  ASSUME TypeOK, OneAtATime, NEW p \in Procs, NEW c \in Call, Continue(p, c)
  PROVE  HandledCheck' = CheckOf(c)
<1>1. CASE c.pc = "idle"
  <2>1. CheckOf(c) = Policy!NoCheck
    BY <1>1 DEF CheckOf, Handled
  <2>2. QED
    BY <1>1, <2>1, NextCall, CheckIs, IdleIsUnheard
<1>2. CASE c.pc # "idle"
  BY <1>2, NextCall, CheckIs
<1>3. QED
  BY <1>1, <1>2

LEMMA KindsAreTold ==
  /\ \A i : \A g \in {"down", "escalation", "recovery"} : g \in KindsTold(i) <=> Told(g, i)
  /\ \A i, g : g \in KindsTold(i) <=> Told(g, i)
  BY DEF KindsTold, Told

(* The outage that is shown, when none is open and when one is              *)
LEMMA NoneShown ==
  ASSUME OpenIds = {}
  PROVE  PresentOutage = Policy!NoOutage
  BY DEF PresentOutage, Policy!NoOutage

LEMMA NoneShownNext ==
  ASSUME OpenIds' = {}
  PROVE  PresentOutage' = Policy!NoOutage
  BY DEF PresentOutage, Policy!NoOutage

LEMMA OneShown ==
  ASSUME TypeOK, NEW i, OpenIds = {i}
  PROVE  PresentOutage = [since |-> incidents[i].startedAt, told |-> KindsTold(i)]
<1>1. i \in DOMAIN incidents
  BY DEF OpenIds
<1>2. LatestOpen = {i}
  BY <1>1, RowTimes DEF LatestOpen
<1>3. (CHOOSE j \in LatestOpen : TRUE) = i
  BY <1>2
<1>4. QED
  BY <1>3 DEF PresentOutage

LEMMA OneShownNext ==
  ASSUME TypeOK', NEW i, OpenIds' = {i}
  PROVE  PresentOutage' = [since |-> incidents'[i].startedAt, told |-> KindsTold(i)']
<1>1. i \in DOMAIN incidents'
  BY DEF OpenIds
<1>2. LatestOpen' = {i}
  BY <1>1, RowTimesNext DEF LatestOpen
<1>3. (CHOOSE j \in LatestOpen' : TRUE) = i
  BY <1>2
<1>4. QED
  BY <1>3 DEF PresentOutage

LEMMA ShownStays ==
  ASSUME UNCHANGED <<incidents, log>>
  PROVE  UNCHANGED <<PresentOutage, LastAlertedAt>>
<1>1. OpenIds' = OpenIds /\ \A i : KindsTold(i)' = KindsTold(i)
  BY DEF OpenIds, KindsTold
<1>2. LatestOpen' = LatestOpen
  BY <1>1 DEF LatestOpen
<1>3. QED
  BY <1>1, <1>2 DEF PresentOutage, LastAlertedAt

-----------------------------------------------------------------------------
(* The invariant from step to step                                          *)

LEMMA PolicyParts ==
  ASSUME PolicyInv, NEW p \in Procs
  PROVE  Answering /\ Begun /\ Good(call[p])
  BY DEF PolicyInv

LEMMA PolicyNext ==
  ASSUME OneAtATime, NEW p \in Procs, NEW d, call'[p] = d, Answering', Begun', Good(d)'
  PROVE  PolicyInv'
<1>1. ASSUME NEW q \in Procs
      PROVE  Good(call[q])'
  BY OnlyOne
<1>2. QED
  BY <1>1 DEF PolicyInv

LEMMA ShownStaysOpen ==
  ASSUME UNCHANGED <<incidents, log>>
  PROVE  /\ OpenIds' = OpenIds /\ LastAlertedAt' = LastAlertedAt
         /\ \A g, i : Told(g, i)' <=> Told(g, i)
         /\ Begun => Begun'
<1>1. OpenIds' = OpenIds /\ LastAlertedAt' = LastAlertedAt
  BY DEF OpenIds, LastAlertedAt
<1>2. \A g, i : Told(g, i)' <=> Told(g, i)
  BY DEF Told
<1>3. QED
  BY <1>1, <1>2 DEF Begun

LEMMA GoodStays ==
  ASSUME UNCHANGED <<now, redis, incidents, log, streak>>, NEW c, Good(c)
  PROVE  Good(c)'
<1>1. Reading(c)' /\ Writing(c)'
  BY ShownStaysOpen DEF Good, Reading, Writing, Right, Heading
<1>2. \A t : Policy!Cooling(t)' <=> Policy!Cooling(t)
  BY ShownStaysOpen DEF Policy!Cooling
<1>3. (Policy!Down' <=> Policy!Down) /\ (Policy!Cooling(now)' <=> Policy!Cooling(now))
  BY ShownStaysOpen DEF Policy!Down, Policy!Cooling
<1>4. Dutiful(Heading(c), c)'
  <2>1. PICK h, t : h = Heading(c) /\ t = c.at
    OBVIOUS
  <2>2. Policy!Cooling(c.at)' <=> Policy!Cooling(c.at)
    BY ShownStaysOpen DEF Policy!Cooling
  <2>3. Dutiful(h, c)'
    BY <1>3, <2>1, <2>2, ShownStaysOpen DEF Good, Dutiful, FailureHandled, OpenMeansDown
  <2>4. QED
    BY <2>1, <2>3
<1>5. QED
  BY <1>1, <1>4 DEF Good

(* A step that changes nothing that the policy speaks of                    *)
LEMMA Moves ==
  ASSUME TypeOK, OneAtATime, NEW p \in Procs, NEW c \in Call, Continue(p, c), c.pc # "idle",
         UNCHANGED <<now, incidents, log, streak>>, CheckOf(c) = CheckOf(call[p]),
         Begun, Answering', Good(c)'
  PROVE  PolicyInv' /\ PolicyStep
<1>1. PolicyInv'
  BY NextCall, PolicyNext, ShownStaysOpen
<1>2. UNCHANGED Policy!vars
  BY CheckIs, CheckNext, ShownStays DEF Policy!vars
<1>3. QED
  BY <1>1, <1>2 DEF PolicyStep

LEMMA QuietMoves ==
  ASSUME TypeOK, OneAtATime, PolicyInv, NEW p \in Procs, NEW c \in Call, Continue(p, c),
         c.pc # "idle", UNCHANGED <<env, redis, expires, incidents, log, streak>>,
         CheckOf(c) = CheckOf(call[p]), Good(c)
  PROVE  PolicyInv' /\ PolicyStep
<1>1. UNCHANGED <<now, redis, incidents, log, streak>>
  BY DEF env
<1>2. Begun /\ Answering'
  BY PolicyParts DEF Answering, env
<1>3. Good(c)'
  BY <1>1, GoodStays
<1>4. QED
  BY <1>1, <1>2, <1>3, Moves

(* A check that ends owes nothing.                                          *)
Released(c) ==
  IF c.up THEN OpenIds = {}
  ELSE \/ OpenIds = {} /\ ~Policy!Down
       \/ Policy!Cooling(c.at)
       \/ \E i : /\ OpenIds = {i} /\ Told("down", i)
                 /\ \/ Told("escalation", i)
                    \/ c.at - incidents[i].startedAt < EscalationThreshold

LEMMA NothingOwed ==
  ASSUME TypeOK, NEW c \in Call, Handled(c), HandledCheck = CheckOf(c), Released(c)
  PROVE  ~Policy!Owed
<1>1. HandledCheck.up = c.up /\ HandledCheck.at = c.at
  BY DEF CheckOf
<1>2. CASE c.up
  <2>1. PresentOutage = Policy!NoOutage
    BY <1>2, NoneShown DEF Released
  <2>2. QED
    BY <1>1, <1>2, <2>1 DEF Policy!Owed, Policy!Failing
<1>3. CASE ~c.up /\ OpenIds = {} /\ ~Policy!Down
  <2>1. PresentOutage = Policy!NoOutage
    BY <1>3, NoneShown
  <2>2. PresentOutage.told = {}
    BY <2>1 DEF Policy!NoOutage
  <2>3. ~Policy!StillDown
    BY <2>2 DEF Policy!StillDown
  <2>4. QED
    BY <1>1, <1>3, <2>3 DEF Policy!Owed, Policy!Succeeding
<1>4. CASE ~c.up /\ Policy!Cooling(c.at)
  BY <1>1, <1>4 DEF Policy!Owed, Policy!Succeeding
<1>5. ASSUME ~c.up, NEW i, OpenIds = {i}, Told("down", i),
             \/ Told("escalation", i)
             \/ c.at - incidents[i].startedAt < EscalationThreshold
      PROVE  ~Policy!Owed
  <2>1. PresentOutage = [since |-> incidents[i].startedAt, told |-> KindsTold(i)]
    BY <1>5, OneShown
  <2>2. PresentOutage.told # {} /\ (Told("escalation", i) => PresentOutage.told # {"down"})
    BY <1>5, <2>1, KindsAreTold
  <2>3. ~Policy!StillDown
    <3>1. CASE Told("escalation", i)
      BY <2>2, <3>1 DEF Policy!StillDown
    <3>2. CASE c.at - incidents[i].startedAt < EscalationThreshold
      <4>1. PICK t \in Nat, u \in Nat : t = c.at /\ u = incidents[i].startedAt
        BY <1>5, RowTimes DEF OpenIds, Call
      <4>2. EscalationThreshold \in Nat /\ t - u < EscalationThreshold
        BY <3>2, <4>1, ConfigAssumption DEF ConfigAssumption
      <4>3. HandledCheck.at - PresentOutage.since = t - u
        BY <1>1, <2>1, <4>1
      <4>4. QED
        BY <4>2, <4>3, <4>1 DEF Policy!StillDown
    <3>3. QED
      BY <1>5, <3>1, <3>2
  <2>4. QED
    BY <1>1, <1>5, <2>2, <2>3 DEF Policy!Owed, Policy!Succeeding
<1>6. QED
  BY <1>2, <1>3, <1>4, <1>5 DEF Released

LEMMA CheckEnds ==
  ASSUME TypeOK, OneAtATime, PolicyInv, NEW p \in Procs, NEW c \in Call, Continue(p, c),
         c.pc = "idle", UNCHANGED <<env, redis, expires, incidents, log, streak>>,
         Handled(call[p]), call[p].at # NULL, Released(call[p]), OpenMeansDown,
         call[p].pc # "save", Heading(call[p]) \notin Stamping
  PROVE  PolicyInv' /\ PolicyStep
<1>1. call'[p] = Idle /\ HandledCheck' = Policy!NoCheck
  BY NextCall, CheckIs, IdleIsUnheard
<1>2. PICK b \in Call : b = call[p]
  BY DEF TypeOK
<1>3. HandledCheck = CheckOf(b) /\ Good(b)
  BY <1>2, CheckIs, PolicyParts
<1>4. Right(redis) /\ redis.lastAlert = LastAlertedAt
  BY <1>2, <1>3 DEF Good, Writing
<1>5. Good(Idle)
  <2>1. Idle.pc = "idle" /\ Heading(Idle) = "idle"
    BY IdleHeading DEF Idle
  <2>2. Reading(Idle)
    BY <2>1 DEF Reading, Loaded
  <2>3. Writing(Idle)
    BY <1>4, <2>1 DEF Writing, Stamping
  <2>4. Dutiful("idle", Idle)
    BY IdleIsUnheard DEF Dutiful, Unheard
  <2>5. QED
    BY <2>1, <2>2, <2>3, <2>4 DEF Good
<1>6. Good(Idle)'
  BY <1>5, GoodStays DEF env
<1>7. Answering' /\ Begun'
  BY PolicyParts, ShownStaysOpen DEF Answering, env
<1>8. PolicyInv'
  BY <1>1, <1>6, <1>7, PolicyNext
<1>9. HandledCheck # Policy!NoCheck
  BY <1>2, <1>3 DEF CheckOf, Policy!NoCheck, NULL
<1>10. ~Policy!Owed
  BY <1>2, <1>3, NothingOwed
<1>11. Policy!Done
  BY <1>1, <1>9, <1>10, ShownStays DEF Policy!Done, env
<1>12. QED
  BY <1>8, <1>11 DEF PolicyStep, Policy!Next

-----------------------------------------------------------------------------
(* Starting, loading, saving                                                *)

(* Who has loaded is nearer to the same goal.                               *)
LEMMA DutyGoes ==
  ASSUME NEW b, NEW c, NEW g, NEW h, Dutiful(g, b),
         c.up = b.up, c.at = b.at, c.inc = b.inc, Handled(c) <=> Handled(b),
         g = h \/ (g \in DOMAIN AfterLoad /\ h = AfterLoad[g])
  PROVE  Dutiful(h, c)
<1>1. /\ g \in Unheard => h \in Unheard
      /\ g \in OnFailure => h \in OnFailure
      /\ g \in OnSuccess => h \in OnSuccess
      /\ h \in Fresh => g \in Fresh
      /\ h \in Escalating => g \in Escalating
      /\ h = "idle" <=> g = "idle"
      /\ h = "mark_escalation" => g = "mark_escalation"
      /\ h = "escalate_lookup" => g = "escalate_lookup"
  BY DEF AfterLoad, Unheard, OnFailure, OnSuccess, Fresh, Escalating, Recovering
<1>2. CASE ~Handled(b)
  BY <1>1, <1>2 DEF Dutiful
<1>3. CASE Handled(b) /\ b.up
  BY <1>1, <1>3 DEF Dutiful
<1>4. CASE Handled(b) /\ ~b.up
  BY <1>1, <1>4 DEF Dutiful, FailureHandled
<1>5. QED
  BY <1>2, <1>3, <1>4

LEMMA CallAtHand ==
  ASSUME TypeOK, OneAtATime, PolicyInv, NEW p \in Procs
  PROVE  \E b \in Call : b = call[p] /\ Good(b) /\ HandledCheck = CheckOf(b)
<1>1. PICK b \in Call : b = call[p]
  BY DEF TypeOK
<1>2. QED
  BY <1>1, CheckIs, PolicyParts

LEMMA PolicyStart ==
  ASSUME TypeOK, OneAtATime, PolicyInv, NEW p \in Procs, StartCheck(p)
  PROVE  PolicyInv' /\ PolicyStep
<1>1. PICK up \in BOOLEAN :
        Continue(p, [Idle EXCEPT !.pc = "process_check", !.up = up, !.at = now])
  BY DEF StartCheck
<1>2. PICK c \in Call : Continue(p, c) /\ c.pc = "process_check" /\ c.ret = "idle"
  <2> DEFINE c == [Idle EXCEPT !.pc = "process_check", !.up = up, !.at = now]
  <2>1. c \in Call /\ c.pc = "process_check" /\ c.ret = "idle"
    BY IdleIsACall DEF Call, Points, Idle, TypeOK
  <2>2. QED
    BY <1>1, <2>1
<1>3. PICK b \in Call : b = call[p] /\ Good(b) /\ HandledCheck = CheckOf(b)
  BY CallAtHand
<1>4. b.pc = "idle" /\ Heading(b) = "idle" /\ ~Handled(b) /\ CheckOf(b) = Policy!NoCheck
  BY <1>3 DEF StartCheck, At, Heading, Transit, Handled, CheckOf
<1>5. Right(redis) /\ redis.lastAlert = LastAlertedAt /\ OpenMeansDown
  BY <1>3, <1>4 DEF Good, Writing, Stamping, Dutiful
<1>6. Heading(c) = "process_check" /\ ~Handled(c) /\ CheckOf(c) = Policy!NoCheck
  BY <1>2 DEF Heading, Transit, Handled, CheckOf
<1>7. Good(c)
  BY <1>2, <1>5, <1>6 DEF Good, Reading, Writing, Loaded, Stamping, Dutiful, Unheard
<1>8. UNCHANGED <<env, redis, expires, incidents, log, streak>>
  BY DEF StartCheck, stores
<1>9. QED
  BY <1>2, <1>3, <1>4, <1>6, <1>7, <1>8, QuietMoves

LEMMA PolicyBeginLoad ==
  ASSUME TypeOK, OneAtATime, PolicyInv, NEW p \in Procs, BeginLoad(p)
  PROVE  PolicyInv' /\ PolicyStep
<1>1. PICK b \in Call : b = call[p] /\ Good(b) /\ HandledCheck = CheckOf(b)
  BY CallAtHand
<1>2. PICK g, h : g = b.pc /\ g \in DOMAIN AfterLoad /\ h = AfterLoad[g]
  BY <1>1 DEF BeginLoad
<1>3. h \in Points /\ h \in Loaded /\ Heading(b) = g /\ (h \in Stamping <=> g \in Stamping)
  BY <1>2 DEF AfterLoad, Points, Loaded, Heading, Transit, Stamping
<1>4. PICK c \in Call : /\ Continue(p, c) /\ c.pc = "get_failures" /\ c.ret = h
                        /\ c.st = ZeroState /\ c.up = b.up /\ c.at = b.at /\ c.inc = b.inc
  <2> DEFINE c == [b EXCEPT !.pc = "get_failures", !.ret = h, !.st = ZeroState]
  <2>1. c \in Call
    BY <1>3 DEF Call, Points, ZeroState, AlertState, NULL
  <2>2. Continue(p, c)
    BY <1>1, <1>2, PolicyParts DEF BeginLoad, Answering
  <2>3. QED
    BY <2>1, <2>2 DEF Call
<1>5. Handled(c) <=> Handled(b)
  <2>1. CASE g = "process_check"
    BY <1>2, <1>4, <2>1 DEF Handled, AfterLoad
  <2>2. CASE g # "process_check"
    <3>1. g \notin Unheard
      BY <1>2, <2>2 DEF AfterLoad, Unheard
    <3>2. Handled(b)
      BY <1>1, <1>3, <3>1 DEF Good, Dutiful
    <3>3. QED
      BY <1>2, <1>4, <2>2, <3>2 DEF Handled, AfterLoad
  <2>3. QED
    BY <2>1, <2>2
<1>6. Heading(c) = h
  BY <1>4 DEF Heading, Transit
<1>7. Dutiful(h, c)
  BY <1>1, <1>2, <1>3, <1>4, <1>5, DutyGoes DEF Good
<1>8. Writing(c)
  <2>1. b.pc # "save" /\ c.pc \notin {"save", "save_memory"}
    BY <1>2, <1>4 DEF AfterLoad
  <2>2. QED
    BY <1>1, <1>3, <1>4, <1>6, <2>1 DEF Good, Writing
<1>9. Reading(c)
  BY <1>3, <1>4 DEF Reading, Loaded
<1>10. UNCHANGED <<env, redis, expires, incidents, log, streak>>
  BY DEF BeginLoad, stores, observers
<1>11. CheckOf(c) = CheckOf(call[p]) /\ Good(c) /\ c.pc # "idle"
  BY <1>1, <1>4, <1>5, <1>6, <1>7, <1>8, <1>9 DEF CheckOf, Good
<1>12. QED
  BY <1>4, <1>10, <1>11, QuietMoves

(* Redis answers a load with what was saved last, or with nothing before    *)
(* the first save.                                                          *)
LEMMA SavedIsRead ==
  ASSUME TypeOK, Answering, KeysLast
  PROVE  Readable \/ redis = ZeroState
<1>1. expires \in Nat
  BY DEF TypeOK
<1>2. QED
  BY <1>1 DEF Answering, KeysLast, Readable

LEMMA PolicyRead ==
  ASSUME TypeOK, OneAtATime, PolicyInv, KeysLast, NEW p \in Procs,
         GetFailures(p) \/ GetCooldown(p) \/ GetIsDown(p)
  PROVE  PolicyInv' /\ PolicyStep
<1>1. PICK b \in Call : b = call[p] /\ Good(b) /\ HandledCheck = CheckOf(b)
  BY CallAtHand
<1>2. /\ b.pc \in {"get_failures", "get_cooldown", "get_isdown"} /\ b.ret \in Loaded
      /\ Heading(b) = b.ret /\ b.ret \in Points /\ b.st \in AlertState /\ redis \in AlertState
  <2>1. b.pc \in {"get_failures", "get_cooldown", "get_isdown"}
    BY <1>1 DEF GetFailures, GetCooldown, GetIsDown, At
  <2>2. QED
    BY <1>1, <2>1 DEF Good, Reading, Heading, Transit, Call, TypeOK
<1>3. \/ Readable
      \/ redis.failures = 0 /\ redis.lastAlert = NULL /\ ~redis.isDown
  BY SavedIsRead, PolicyParts DEF ZeroState
<1>4. PICK c \in Call :
        /\ Continue(p, c) /\ c.ret = b.ret /\ c.up = b.up /\ c.at = b.at /\ c.inc = b.inc
        /\ c.pc \in {"get_cooldown", "get_isdown"} \cup Loaded /\ Heading(c) = b.ret
        /\ Reading(c)
  <2>1. CASE GetFailures(p)
    <3> DEFINE c == [b EXCEPT !.pc = "get_cooldown",
                              !.st.failures = IF Readable THEN redis.failures ELSE @]
    <3>1. b.pc = "get_failures" /\ b.st = ZeroState
      BY <1>1, <2>1 DEF GetFailures, At, Good, Reading
    <3>2. c \in Call /\ c.ret = b.ret /\ c.up = b.up /\ c.at = b.at /\ c.inc = b.inc
      BY <1>2 DEF Call, Points, AlertState
    <3>3. c.pc = "get_cooldown" /\ Heading(c) = b.ret
      BY DEF Call, Heading, Transit
    <3>4. c.st.failures = redis.failures /\ c.st.lastAlert = NULL /\ ~c.st.isDown
      BY <1>3, <3>1 DEF Call, ZeroState
    <3>5. Continue(p, c)
      BY <1>1, <2>1 DEF GetFailures
    <3> HIDE DEF c
    <3>6. Reading(c)
      BY <1>2, <3>2, <3>3, <3>4 DEF Reading, Loaded
    <3>7. QED
      BY <3>2, <3>3, <3>5, <3>6
  <2>2. CASE GetCooldown(p)
    <3> DEFINE c == [b EXCEPT !.pc = "get_isdown",
                              !.st.lastAlert = IF Readable THEN redis.lastAlert ELSE @]
    <3>1. /\ b.pc = "get_cooldown" /\ b.st.failures = redis.failures
          /\ b.st.lastAlert = NULL /\ ~b.st.isDown
      BY <1>1, <2>2 DEF GetCooldown, At, Good, Reading
    <3>2. c \in Call /\ c.ret = b.ret /\ c.up = b.up /\ c.at = b.at /\ c.inc = b.inc
      BY <1>2 DEF Call, Points, AlertState
    <3>3. c.pc = "get_isdown" /\ Heading(c) = b.ret
      BY DEF Call, Heading, Transit
    <3>4. c.st.failures = redis.failures /\ c.st.lastAlert = redis.lastAlert /\ ~c.st.isDown
      BY <1>2, <1>3, <3>1 DEF Call, AlertState
    <3>5. Continue(p, c)
      BY <1>1, <2>2 DEF GetCooldown
    <3> HIDE DEF c
    <3>6. Reading(c)
      BY <1>2, <3>2, <3>3, <3>4 DEF Reading, Loaded
    <3>7. QED
      BY <3>2, <3>3, <3>5, <3>6
  <2>3. CASE GetIsDown(p)
    <3> DEFINE c == [b EXCEPT !.pc = b.ret,
                              !.st.isDown = IF Readable THEN redis.isDown ELSE @]
    <3>1. /\ b.pc = "get_isdown" /\ b.st.failures = redis.failures
          /\ b.st.lastAlert = redis.lastAlert /\ ~b.st.isDown
      BY <1>1, <2>3 DEF GetIsDown, At, Good, Reading
    <3>2. c \in Call /\ c.ret = b.ret /\ c.up = b.up /\ c.at = b.at /\ c.inc = b.inc
      BY <1>2 DEF Call, Points, AlertState
    <3>3. c.pc = b.ret /\ Heading(c) = b.ret
      BY <1>2 DEF Call, Heading, Transit, Loaded
    <3>4. /\ c.st.failures = redis.failures /\ c.st.lastAlert = redis.lastAlert
          /\ c.st.isDown <=> redis.isDown
      BY <1>2, <1>3, <3>1 DEF Call, AlertState
    <3>5. Continue(p, c)
      BY <1>1, <2>3 DEF GetIsDown
    <3> HIDE DEF c
    <3>6. Reading(c)
      BY <1>2, <3>2, <3>3, <3>4 DEF Reading, Loaded
    <3>7. QED
      BY <1>2, <3>2, <3>3, <3>5, <3>6
  <2>4. QED
    BY <2>1, <2>2, <2>3
<1>5. Handled(c) <=> Handled(b)
  BY <1>2, <1>4 DEF Handled, Loaded
<1>6. Dutiful(Heading(c), c)
  <2>1. Dutiful(b.ret, b)
    BY <1>1, <1>2 DEF Good
  <2>2. Dutiful(b.ret, c)
    BY <1>4, <1>5, <2>1, DutyGoes
  <2>3. QED
    BY <1>4, <2>2
<1>7. Writing(c)
  <2>1. b.pc # "save" /\ c.pc \notin {"save", "save_memory"}
    BY <1>2, <1>4 DEF Loaded
  <2>2. QED
    BY <1>1, <1>2, <1>4, <2>1 DEF Good, Writing
<1>8. UNCHANGED <<env, redis, expires, incidents, log, streak>>
  BY DEF GetFailures, GetCooldown, GetIsDown, stores, observers
<1>9. CheckOf(c) = CheckOf(call[p]) /\ Good(c) /\ c.pc # "idle"
  BY <1>1, <1>4, <1>5, <1>6, <1>7 DEF CheckOf, Good, Loaded
<1>10. QED
  BY <1>4, <1>8, <1>9, QuietMoves

LEMMA PolicySave ==
  ASSUME TypeOK, OneAtATime, PolicyInv, NEW p \in Procs, Save(p)
  PROVE  PolicyInv' /\ PolicyStep
<1>1. PICK b \in Call : b = call[p] /\ Good(b) /\ HandledCheck = CheckOf(b)
  BY CallAtHand
<1>2. /\ b.pc = "save" /\ redis' = b.st /\ expires' = now + KeyTTL
      /\ UNCHANGED <<env, incidents, log, streak>>
      /\ Goto(p, "save_memory")
  BY <1>1, PolicyParts DEF Save, At, Answering, observers
<1>3. /\ Right(b.st) /\ b.st.lastAlert = LastAlertedAt /\ Heading(b) = b.ret
      /\ b.ret \in {"idle", "recovery_lookup", "should_alert", "escalate_lookup", "resolve"}
  BY <1>1, <1>2 DEF Good, Writing, Heading, Transit
<1>4. PICK c \in Call : /\ Continue(p, c) /\ c.pc = "save_memory" /\ c.ret = b.ret
                        /\ c.st = b.st /\ c.up = b.up /\ c.at = b.at /\ c.inc = b.inc
  <2> DEFINE c == [b EXCEPT !.pc = "save_memory"]
  <2>1. c \in Call
    BY DEF Call, Points
  <2>2. Continue(p, c)
    BY <1>1, <1>2 DEF Goto
  <2>3. QED
    BY <2>1, <2>2 DEF Call
<1>5. Heading(c) = b.ret /\ Handled(c) /\ Handled(b)
  BY <1>2, <1>3, <1>4 DEF Heading, Transit, Handled
<1>6. Dutiful(b.ret, c)
  BY <1>1, <1>3, <1>4, <1>5, DutyGoes DEF Good
<1>7. UNCHANGED <<now, incidents, log, streak>>
  BY <1>2 DEF env
<1>8. Good(c)'
  <2>1. Reading(c)'
    BY <1>4 DEF Reading, Loaded
  <2>2. Writing(c)'
    BY <1>2, <1>3, <1>4, <1>5, ShownStaysOpen DEF Writing, Right, Stamping, Heading
  <2>3. Dutiful(Heading(c), c)'
    <3>1. PICK h : h = b.ret
      OBVIOUS
    <3>2. Policy!Cooling(c.at)' <=> Policy!Cooling(c.at)
      BY <1>7, ShownStaysOpen DEF Policy!Cooling
    <3>3. (Policy!Down' <=> Policy!Down) /\ (Policy!Cooling(now)' <=> Policy!Cooling(now))
      BY <1>7, ShownStaysOpen DEF Policy!Down, Policy!Cooling
    <3>4. Dutiful(h, c)'
      BY <1>6, <1>7, <3>1, <3>2, <3>3, ShownStaysOpen DEF Dutiful, FailureHandled, OpenMeansDown
    <3>5. QED
      BY <1>5, <3>1, <3>4
  <2>4. QED
    BY <2>1, <2>2, <2>3 DEF Good
<1>9. Begun /\ Answering'
  <2>1. redisUp' /\ expires' # 0
    BY <1>2, PolicyParts, ConfigAssumption DEF Answering, env, TypeOK, ConfigAssumption
  <2>2. QED
    BY <2>1, PolicyParts DEF Answering
<1>10. CheckOf(c) = CheckOf(call[p]) /\ c.pc # "idle"
  BY <1>1, <1>4, <1>5 DEF CheckOf
<1>11. QED
  BY <1>4, <1>7, <1>8, <1>9, <1>10, Moves

LEMMA AlertTime ==
  ASSUME TypeOK
  PROVE  LastAlertedAt \in Nat
<1>1. CASE log = <<>>
  BY <1>1 DEF LastAlertedAt
<1>2. CASE log # <<>>
  <2>1. log[Len(log)] \in Notification
    BY <1>2 DEF TypeOK
  <2>2. QED
    BY <1>2, <2>1 DEF LastAlertedAt, Notification
<1>3. QED
  BY <1>1, <1>2

(* The check at hand is not made after the clock's time.                    *)
LEMMA CheckTime ==
  ASSUME TypeOK, OutageInv, StoryInv, NEW p \in Procs, call[p].pc # "idle"
  PROVE  /\ call[p].at \in Nat /\ now \in Nat /\ call[p].at # NULL /\ call[p].at <= now
         /\ LastAlertedAt \in Nat
<1>1. call[p].at \in Nat /\ now \in Nat
  BY DEF TypeOK, Call
<1>2. call[p].at # NULL
  BY StoryParts
<1>3. call[p].at <= now
  BY DEF OutageInv, Timely
<1>4. QED
  BY <1>1, <1>2, <1>3, AlertTime

(* What cools at present has cooled at the time of the check.               *)
LEMMA CoolingEarlier ==
  ASSUME TypeOK, OutageInv, StoryInv, NEW p \in Procs, call[p].pc # "idle", Policy!Cooling(now)
  PROVE  Policy!Cooling(call[p].at)
<1>1. PICK t, u \in Nat : t = call[p].at /\ t \in Nat /\ u = LastAlertedAt /\ t <= now /\ now \in Nat
  BY CheckTime
<1>2. Cooldown \in Nat
  BY ConfigAssumption DEF ConfigAssumption
<1>3. QED
  BY <1>1, <1>2 DEF Policy!Cooling

LEMMA CoolingAfterAlert ==
  ASSUME TypeOK, OutageInv, StoryInv, NEW p \in Procs, call[p].pc # "idle",
         LastAlertedAt = call[p].at
  PROVE  Policy!Cooling(call[p].at)
<1>1. PICK t \in Nat : t = call[p].at /\ t # 0
  BY CheckTime DEF NULL
<1>2. Cooldown \in Nat \ {0}
  BY ConfigAssumption DEF ConfigAssumption
<1>3. QED
  BY <1>1, <1>2 DEF Policy!Cooling

LEMMA PolicySaveMemory ==
  ASSUME TypeOK, OneAtATime, OutageInv, StoryInv, PolicyInv, NEW p \in Procs, SaveMemory(p)
  PROVE  PolicyInv' /\ PolicyStep
<1>1. PICK b \in Call : b = call[p] /\ Good(b) /\ HandledCheck = CheckOf(b)
  BY CallAtHand
<1>2. b.pc = "save_memory" /\ Goto(p, b.ret) /\ UNCHANGED <<env, redis, expires, incidents, log, streak>>
  BY <1>1 DEF SaveMemory, At, observers
<1>3. /\ Right(redis) /\ Heading(b) = b.ret
      /\ b.ret \in {"idle", "recovery_lookup", "should_alert", "escalate_lookup", "resolve"}
      /\ redis.lastAlert = LastAlertedAt
  BY <1>1, <1>2 DEF Good, Writing, Heading, Transit, Stamping
<1>4. Handled(b) /\ Dutiful(b.ret, b)
  BY <1>1, <1>2, <1>3 DEF Handled, Good
<1>5. PICK c \in Call : /\ Continue(p, c) /\ c.pc = b.ret /\ c.ret = b.ret
                        /\ c.up = b.up /\ c.at = b.at /\ c.inc = b.inc
  <2> DEFINE c == [b EXCEPT !.pc = b.ret]
  <2>1. c \in Call
    BY DEF Call
  <2>2. Continue(p, c)
    BY <1>1, <1>2 DEF Goto
  <2>3. QED
    BY <2>1, <2>2 DEF Call
<1>6. CASE b.ret # "idle"
  <2>1. Heading(c) = b.ret /\ Handled(c)
    BY <1>3, <1>5, <1>6 DEF Heading, Transit, Handled
  <2>2. Dutiful(b.ret, c)
    BY <1>4, <1>5, <2>1, DutyGoes
  <2>3. Reading(c) /\ Writing(c)
    BY <1>3, <1>5, <2>1 DEF Reading, Writing, Loaded, Stamping
  <2>4. CheckOf(c) = CheckOf(call[p]) /\ Good(c)
    BY <1>1, <1>4, <1>5, <2>1, <2>2, <2>3 DEF CheckOf, Good
  <2>5. QED
    BY <1>2, <1>5, <1>6, <2>4, QuietMoves
<1>7. CASE b.ret = "idle"
  <2>1. Released(b) /\ OpenMeansDown
    BY <1>4, <1>7 DEF Dutiful, FailureHandled, Released, OpenMeansDown
  <2>2. b.at # NULL
    BY <1>1, <1>2, CheckTime
  <2>3. b.pc # "save" /\ Heading(b) \notin Stamping
    BY <1>2, <1>3 DEF Stamping
  <2>4. QED
    BY <1>1, <1>2, <1>4, <1>5, <1>7, <2>1, <2>2, <2>3, CheckEnds
<1>8. QED
  BY <1>6, <1>7

-----------------------------------------------------------------------------
(* A check is taken up: it counts, and what it counts is saved.             *)

LEMMA PolicyTake ==
  ASSUME TypeOK, OneAtATime, OutageInv, StoryInv, PolicyInv, NEW p \in Procs,
         HandleRecovery(p) \/ HandleFailure(p)
  PROVE  PolicyInv' /\ PolicyStep
<1>1. PICK b \in Call : b = call[p] /\ Good(b) /\ HandledCheck = CheckOf(b)
  BY CallAtHand
<1>2. b.pc = "dispatch" /\ Heading(b) = "dispatch"
  BY <1>1 DEF HandleRecovery, HandleFailure, At, Heading, Transit
<1>3. ~Handled(b) /\ OpenMeansDown
  <2>1. "dispatch" \notin OnSuccess /\ "dispatch" \notin OnFailure
    BY DEF OnSuccess, OnFailure, Fresh, Escalating, Recovering
  <2>2. QED
    BY <1>1, <1>2, <2>1 DEF Good, Dutiful, FailureHandled
<1>4. /\ b.st \in AlertState /\ streak \in Nat
      /\ b.st.failures = streak /\ (b.st.isDown <=> streak > 0) /\ b.st.lastAlert = LastAlertedAt
  BY <1>1, <1>2 DEF Good, Reading, Writing, Right, Loaded, Stamping, Call, TypeOK
<1>5. /\ b.at \in 1 .. now /\ FailureThreshold \in Nat \ {0}
      /\ UNCHANGED <<env, stores, incidents, log>>
  <2>1. b.at \in Nat /\ now \in Nat /\ b.at # 0 /\ b.at <= now
    BY <1>1, <1>2, CheckTime DEF NULL
  <2>2. QED
    BY <2>1, ConfigAssumption DEF ConfigAssumption, HandleRecovery, HandleFailure
<1>6. PICK c \in Call :
        /\ Continue(p, c) /\ c.pc = "save" /\ c.up = b.up /\ c.at = b.at
        /\ c.st.lastAlert = b.st.lastAlert /\ c.st.failures = streak' /\ (c.st.isDown <=> streak' > 0)
        /\ \/ /\ b.up /\ streak' = 0 /\ c.ret \in {"recovery_lookup", "idle"}
              /\ c.ret = "idle" => streak = 0
           \/ /\ ~b.up /\ streak' = streak + 1
              /\ c.ret = IF streak' < FailureThreshold THEN "idle" ELSE "should_alert"
  <2>1. CASE HandleRecovery(p)
    <3> DEFINE s == Cleared(b.st)
               c == [b EXCEPT !.pc = "save", !.st = s,
                              !.ret = IF b.st.isDown THEN "recovery_lookup" ELSE "idle"]
    <3>1. s \in AlertState /\ s.failures = 0 /\ s.lastAlert = b.st.lastAlert /\ ~s.isDown
      BY <1>4, StatesType DEF Cleared
    <3>2. c \in Call /\ c.pc = "save" /\ c.up = b.up /\ c.at = b.at /\ c.st = s
      BY <3>1 DEF Call, Points
    <3>3. c.ret \in {"recovery_lookup", "idle"} /\ (c.ret = "idle" => streak = 0)
      BY <1>4 DEF Call
    <3>4. Continue(p, c) /\ streak' = 0 /\ b.up
      BY <1>1, <2>1 DEF HandleRecovery
    <3> HIDE DEF c, s
    <3>5. /\ c.st.lastAlert = b.st.lastAlert /\ c.st.failures = streak'
          /\ c.st.isDown <=> streak' > 0
      BY <3>1, <3>2, <3>4
    <3>6. QED
      BY <3>2, <3>3, <3>4, <3>5
  <2>2. CASE HandleFailure(p)
    <3> DEFINE s == Incremented(b.st)
               c == [b EXCEPT !.pc = "save", !.st = s,
                              !.ret = IF BelowThreshold(s) THEN "idle" ELSE "should_alert"]
    <3>1. s \in AlertState /\ s.failures = streak + 1 /\ s.lastAlert = b.st.lastAlert /\ s.isDown
      BY <1>4, StatesType DEF Incremented
    <3>2. c \in Call /\ c.pc = "save" /\ c.up = b.up /\ c.at = b.at /\ c.st = s
      BY <3>1 DEF Call, Points
    <3>3. c.ret = IF streak + 1 < FailureThreshold THEN "idle" ELSE "should_alert"
      BY <3>1 DEF Call, BelowThreshold
    <3>4. Continue(p, c) /\ streak' = streak + 1 /\ ~b.up
      BY <1>1, <2>2 DEF HandleFailure
    <3> HIDE DEF c, s
    <3>5. QED
      BY <1>4, <3>1, <3>2, <3>3, <3>4
  <2>3. QED
    BY <2>1, <2>2
<1>7. PICK h : h = c.ret /\ Heading(c) = h /\ h \in {"recovery_lookup", "idle", "should_alert"}
  BY <1>6 DEF Heading, Transit
<1>8. Handled(c) /\ CheckOf(c) = [up |-> b.up, at |-> b.at]
  BY <1>6, <1>7 DEF Handled, CheckOf
<1>9. OpenIds' = OpenIds /\ LastAlertedAt' = LastAlertedAt /\ Begun' /\ Answering'
  BY <1>5, PolicyParts, ShownStaysOpen DEF Answering, stores, env
<1>10. Dutiful(h, c)'
  <2>1. CASE b.up
    <3>1. h \in OnSuccess /\ (h = "idle" => OpenIds = {})
      BY <1>3, <1>4, <1>5, <1>6, <1>7, <2>1 DEF OnSuccess, OpenMeansDown, Policy!Down
    <3>2. QED
      BY <1>6, <1>8, <1>9, <2>1, <3>1 DEF Dutiful, Handled
  <2>2. CASE ~b.up
    <3>1. /\ streak' = streak + 1 /\ h \in {"idle", "should_alert"}
          /\ h = "idle" <=> streak' < FailureThreshold
      BY <1>6, <1>7, <2>2
    <3>2. /\ OpenMeansDown'
          /\ IF h = "idle" THEN ~Policy!Down' ELSE Policy!Down'
      BY <1>3, <1>4, <1>5, <1>9, <3>1 DEF OpenMeansDown, Policy!Down
    <3>3. /\ h \in OnFailure /\ h \notin Fresh /\ h \notin Escalating
          /\ h # "escalate_lookup" /\ h # "mark_escalation"
      BY <3>1 DEF OnFailure, Fresh, Escalating
    <3>4. FailureHandled(h, c)'
      BY <3>2, <3>3 DEF FailureHandled
    <3>5. QED
      BY <1>6, <1>8, <2>2, <3>4 DEF Dutiful, Handled
  <2>3. QED
    BY <2>1, <2>2
<1>11. Good(c)'
  <2>1. Reading(c)'
    BY <1>6 DEF Reading, Loaded
  <2>2. Heading(c) \notin Stamping
    BY <1>7 DEF Stamping
  <2>3. Writing(c)'
    BY <1>4, <1>6, <1>7, <1>9, <2>2 DEF Writing, Right, Heading
  <2>4. Dutiful(Heading(c), c)'
    BY <1>7, <1>10
  <2>5. QED
    BY <2>1, <2>3, <2>4 DEF Good
<1>12. PolicyInv'
  BY <1>6, <1>9, <1>11, NextCall, PolicyNext
<1>13. Policy!Take(b.up)
  <2>1. HandledCheck = Policy!NoCheck /\ HandledCheck' = [up |-> b.up, at |-> b.at]
    BY <1>1, <1>3, <1>6, <1>8, CheckNext DEF CheckOf
  <2>2. streak' = IF b.up THEN 0 ELSE streak + 1
    BY <1>6
  <2>3. UNCHANGED <<now, PresentOutage, LastAlertedAt>>
    BY <1>5, ShownStays DEF env
  <2>4. QED
    BY <1>5, <2>1, <2>2, <2>3 DEF Policy!Take
<1>14. b.up \in BOOLEAN
  BY DEF Call
<1>15. QED
  BY <1>12, <1>13, <1>14 DEF PolicyStep, Policy!Next

-----------------------------------------------------------------------------
(* Decisions                                                                *)

LEMMA PolicyJudge ==
  ASSUME TypeOK, OneAtATime, OutageInv, StoryInv, PolicyInv, NEW p \in Procs, Judge(p)
  PROVE  PolicyInv' /\ PolicyStep
<1>1. PICK b \in Call : b = call[p] /\ Good(b) /\ HandledCheck = CheckOf(b)
  BY CallAtHand
<1>2. b.pc = "judge" /\ Heading(b) = "judge"
  BY <1>1 DEF Judge, At, Heading, Transit
<1>3. Handled(b) /\ ~b.up /\ Policy!Down /\ OpenMeansDown
  <2>1. "judge" \notin OnSuccess /\ "judge" \notin Unheard
    BY DEF OnSuccess, Recovering, Unheard
  <2>2. QED
    BY <1>1, <1>2, <2>1 DEF Good, Dutiful, FailureHandled
<1>4. Right(redis) /\ redis.lastAlert = LastAlertedAt /\ b.st.lastAlert = LastAlertedAt
      /\ b.st.failures = streak
  BY <1>1, <1>2 DEF Good, Reading, Writing, Right, Loaded, Stamping
<1>5. (InCooldown(b.st) <=> Policy!Cooling(now)) /\ ~BelowThreshold(b.st)
  <2>1. ~BelowThreshold(b.st)
    BY <1>3, <1>4, ConfigAssumption DEF BelowThreshold, Policy!Down, ConfigAssumption, TypeOK
  <2>2. QED
    BY <1>4, <2>1 DEF InCooldown, Policy!Cooling, NULL
<1>6. PICK g : g = IF Policy!Cooling(now) THEN "escalate_lookup" ELSE "alert_lookup"
  OBVIOUS
<1>7. Goto(p, g) /\ UNCHANGED <<env, redis, expires, incidents, log, streak>>
  BY <1>1, <1>5, <1>6 DEF Judge, stores, observers
<1>8. PICK c \in Call : /\ Continue(p, c) /\ c.pc = g /\ c.ret = b.ret
                        /\ c.up = b.up /\ c.at = b.at /\ c.inc = b.inc
  <2> DEFINE c == [b EXCEPT !.pc = g]
  <2>1. c \in Call
    BY <1>6 DEF Call, Points
  <2>2. Continue(p, c)
    BY <1>1, <1>7 DEF Goto
  <2>3. QED
    BY <2>1, <2>2 DEF Call
<1>9. Heading(c) = g /\ Handled(c)
  BY <1>2, <1>3, <1>6, <1>8 DEF Heading, Transit, Handled
<1>10. FailureHandled(g, c)
  <2>1. CASE Policy!Cooling(now)
    <3>1. Policy!Cooling(c.at)
      BY <1>1, <1>2, <1>8, <2>1, CoolingEarlier
    <3>2. g = "escalate_lookup"
      BY <1>6, <2>1
    <3>3. QED
      BY <1>3, <3>1, <3>2 DEF FailureHandled, OnFailure, Fresh, Escalating
  <2>2. CASE ~Policy!Cooling(now)
    <3>1. g = "alert_lookup"
      BY <1>6, <2>2
    <3>2. QED
      BY <1>3, <2>2, <3>1 DEF FailureHandled, OnFailure, Fresh, Escalating
  <2>3. QED
    BY <2>1, <2>2
<1>11. Good(c)
  <2>1. Reading(c) /\ Writing(c)
    BY <1>4, <1>6, <1>8, <1>9 DEF Reading, Writing, Loaded, Stamping
  <2>2. QED
    BY <1>3, <1>8, <1>9, <1>10, <2>1 DEF Good, Dutiful
<1>12. CheckOf(c) = CheckOf(call[p]) /\ c.pc # "idle"
  BY <1>1, <1>3, <1>6, <1>8, <1>9 DEF CheckOf
<1>13. QED
  BY <1>7, <1>8, <1>11, <1>12, QuietMoves

LEMMA PolicyWeigh ==
  ASSUME TypeOK, OneAtATime, OutageInv, StoryInv, PolicyInv, NEW p \in Procs, Weigh(p)
  PROVE  PolicyInv' /\ PolicyStep
<1>1. PICK b \in Call : b = call[p] /\ Good(b) /\ HandledCheck = CheckOf(b)
  BY CallAtHand
<1>2. b.pc = "weigh" /\ Heading(b) = "weigh"
  BY <1>1 DEF Weigh, At, Heading, Transit
<1>3. /\ Handled(b) /\ ~b.up /\ Policy!Down /\ OpenMeansDown
      /\ b.at - incidents[b.inc].startedAt >= EscalationThreshold
  <2>1. "weigh" \notin OnSuccess /\ "weigh" \notin Unheard /\ "weigh" \in Escalating
    BY DEF OnSuccess, Recovering, Unheard, Escalating
  <2>2. QED
    BY <1>1, <1>2, <2>1 DEF Good, Dutiful, FailureHandled
<1>4. Right(redis) /\ redis.lastAlert = LastAlertedAt /\ b.st.lastAlert = LastAlertedAt
  BY <1>1, <1>2 DEF Good, Reading, Writing, Right, Loaded, Stamping
<1>5. InCooldown(b.st) <=> Policy!Cooling(now)
  BY <1>4 DEF InCooldown, Policy!Cooling, NULL
<1>6. PICK g : g = IF Policy!Cooling(now) THEN "idle" ELSE "send_escalation"
  OBVIOUS
<1>7. Goto(p, g) /\ UNCHANGED <<env, redis, expires, incidents, log, streak>>
  BY <1>1, <1>5, <1>6 DEF Weigh, stores, observers
<1>8. PICK c \in Call : /\ Continue(p, c) /\ c.pc = g /\ c.ret = b.ret
                        /\ c.up = b.up /\ c.at = b.at /\ c.inc = b.inc
  <2> DEFINE c == [b EXCEPT !.pc = g]
  <2>1. c \in Call
    BY <1>6 DEF Call, Points
  <2>2. Continue(p, c)
    BY <1>1, <1>7 DEF Goto
  <2>3. QED
    BY <2>1, <2>2 DEF Call
<1>9. CASE Policy!Cooling(now)
  <2>1. g = "idle" /\ Policy!Cooling(b.at) /\ b.at # NULL
    BY <1>1, <1>2, <1>6, <1>9, CoolingEarlier, CheckTime
  <2>2. Released(b)
    BY <1>3, <2>1 DEF Released
  <2>3. b.pc # "save" /\ Heading(b) \notin Stamping
    BY <1>2 DEF Stamping
  <2>4. QED
    BY <1>1, <1>3, <1>7, <1>8, <2>1, <2>2, <2>3, CheckEnds
<1>10. CASE ~Policy!Cooling(now)
  <2>1. g = "send_escalation"
    BY <1>6, <1>10
  <2>2. Heading(c) = g /\ Handled(c)
    BY <1>2, <1>3, <1>8, <2>1 DEF Heading, Transit, Handled
  <2>3. FailureHandled(g, c)
    BY <1>3, <1>8, <1>10, <2>1 DEF FailureHandled, OnFailure, Fresh, Escalating
  <2>4. Reading(c) /\ Writing(c)
    BY <1>4, <1>8, <2>1, <2>2 DEF Reading, Writing, Loaded, Stamping
  <2>5. Good(c)
    BY <1>3, <1>8, <2>2, <2>3, <2>4 DEF Good, Dutiful
  <2>6. CheckOf(c) = CheckOf(call[p]) /\ c.pc # "idle"
    BY <1>1, <1>3, <1>8, <2>1, <2>2 DEF CheckOf
  <2>7. QED
    BY <1>7, <1>8, <2>5, <2>6, QuietMoves
<1>11. QED
  BY <1>9, <1>10

(* The time of the alert that was sent is added to what was just loaded.    *)
LEMMA PolicyStamp ==
  ASSUME TypeOK, OneAtATime, OutageInv, StoryInv, PolicyInv, NEW p \in Procs, SetAlertCooldown(p)
  PROVE  PolicyInv' /\ PolicyStep
<1>1. PICK b \in Call : b = call[p] /\ Good(b) /\ HandledCheck = CheckOf(b)
  BY CallAtHand
<1>2. PICK g, h : g = b.pc /\ g \in DOMAIN AfterStamp /\ h = AfterStamp[g]
  BY <1>1 DEF SetAlertCooldown
<1>3. /\ g \in Stamping /\ g \in Loaded /\ Heading(b) = g /\ g \notin Unheard
      /\ g # "idle" /\ h \in Points /\ h \notin Stamping
      /\ h \in {"escalate_lookup", "resolve", "idle"}
  BY <1>2 DEF AfterStamp, Stamping, Loaded, Heading, Transit, Unheard, Points
<1>4. Handled(b) /\ LastAlertedAt = b.at /\ Right(redis)
  BY <1>1, <1>2, <1>3 DEF Good, Dutiful, Writing, Loaded
<1>5. /\ b.st.failures = redis.failures /\ (b.st.isDown <=> redis.isDown)
      /\ b.st \in AlertState /\ b.at \in Nat
  BY <1>1, <1>2, <1>3 DEF Good, Reading, Call
<1>6. PICK c \in Call :
        /\ Continue(p, c) /\ c.pc = "save" /\ c.ret = h /\ c.up = b.up /\ c.at = b.at
        /\ c.st.failures = redis.failures /\ (c.st.isDown <=> redis.isDown) /\ c.st.lastAlert = b.at
  <2> DEFINE c == [b EXCEPT !.pc = "save", !.st.lastAlert = b.at, !.ret = h]
  <2>1. c \in Call /\ c.pc = "save" /\ c.ret = h /\ c.up = b.up /\ c.at = b.at
    BY <1>3, <1>5 DEF Call, Points, AlertState
  <2>2. c.st.failures = redis.failures /\ (c.st.isDown <=> redis.isDown) /\ c.st.lastAlert = b.at
    BY <1>5 DEF Call, AlertState
  <2>3. Continue(p, c)
    BY <1>1, <1>2 DEF SetAlertCooldown
  <2> HIDE DEF c
  <2>4. QED
    BY <2>1, <2>2, <2>3
<1>7. Heading(c) = h /\ Handled(c)
  BY <1>3, <1>6 DEF Heading, Transit, Handled
<1>8. Policy!Cooling(c.at)
  BY <1>1, <1>2, <1>3, <1>4, <1>6, CoolingAfterAlert
<1>9. Dutiful(h, c)
  <2>1. CASE g = "stamp_recovery"
    <3>1. h = "resolve" /\ b.up
      BY <1>1, <1>2, <1>3, <1>4, <2>1
         DEF AfterStamp, Good, Dutiful, FailureHandled, OnFailure, Fresh, Escalating
    <3>2. QED
      BY <1>6, <1>7, <3>1 DEF Dutiful, OnSuccess, Recovering
  <2>2. CASE g \in {"stamp_down", "stamp_escalation"}
    <3>1. g \notin OnSuccess
      BY <2>2 DEF OnSuccess, Recovering
    <3>2. ~b.up /\ Policy!Down /\ OpenMeansDown
      BY <1>1, <1>3, <1>4, <3>1 DEF Good, Dutiful, FailureHandled
    <3>3. h \in {"escalate_lookup", "idle"}
      BY <1>2, <2>2 DEF AfterStamp
    <3>4. FailureHandled(h, c)
      BY <1>8, <3>2, <3>3 DEF FailureHandled, OnFailure, Fresh, Escalating
    <3>5. QED
      BY <1>6, <1>7, <3>2, <3>4 DEF Dutiful
  <2>3. QED
    BY <1>2, <2>1, <2>2 DEF AfterStamp
<1>10. Good(c)
  <2>1. Reading(c)
    BY <1>6 DEF Reading, Loaded
  <2>2. Writing(c)
    BY <1>3, <1>4, <1>6, <1>7 DEF Writing, Right
  <2>3. QED
    BY <1>7, <1>9, <2>1, <2>2 DEF Good
<1>11. CheckOf(c) = CheckOf(call[p]) /\ c.pc # "idle"
  BY <1>1, <1>4, <1>6, <1>7 DEF CheckOf
<1>12. UNCHANGED <<env, redis, expires, incidents, log, streak>>
  BY DEF SetAlertCooldown, stores, observers
<1>13. QED
  BY <1>6, <1>10, <1>11, <1>12, QuietMoves

-----------------------------------------------------------------------------
(* Lookups                                                                  *)

Lookups == {"recovery_lookup", "alert_lookup", "create_lookup", "escalate_lookup"}

LEMMA AtLookup ==
  ASSUME TypeOK, OneAtATime, PolicyInv, NEW p \in Procs, call[p].pc \in Lookups
  PROVE  \E b \in Call :
           /\ b = call[p] /\ Heading(b) = b.pc /\ Handled(b)
           /\ b.up <=> b.pc = "recovery_lookup"
           /\ b.up \/ FailureHandled(b.pc, b)
           /\ HandledCheck = CheckOf(b) /\ Right(redis) /\ redis.lastAlert = LastAlertedAt
<1>1. PICK b \in Call : b = call[p] /\ Good(b) /\ HandledCheck = CheckOf(b)
  BY CallAtHand
<1>2. b.pc \in Lookups /\ Heading(b) = b.pc /\ b.pc \notin Unheard \cup Stamping /\ b.pc # "save"
  BY <1>1 DEF Lookups, Heading, Transit, Unheard, Stamping
<1>3. /\ b.pc \in OnSuccess <=> b.pc = "recovery_lookup"
      /\ b.pc \in OnFailure <=> b.pc # "recovery_lookup"
  BY <1>2 DEF Lookups, OnSuccess, OnFailure, Recovering, Fresh, Escalating
<1>4. Handled(b) /\ (b.up <=> b.pc = "recovery_lookup") /\ (b.up \/ FailureHandled(b.pc, b))
  BY <1>1, <1>2, <1>3 DEF Good, Dutiful, FailureHandled
<1>5. Right(redis) /\ redis.lastAlert = LastAlertedAt
  BY <1>1, <1>2 DEF Good, Writing
<1>6. QED
  BY <1>1, <1>2, <1>4, <1>5

LEMMA LookupMoves ==
  ASSUME TypeOK, OneAtATime, PolicyInv, NEW p \in Procs, call[p].pc \in Lookups,
         UNCHANGED <<env, redis, expires, incidents, log, streak>>,
         NEW c \in Call, MovesOn(p, c), Heading(c) = c.pc, Kept(c, p),
         IF c.up THEN c.pc = "send_recovery"
         ELSE /\ c.pc \in {"escalate_lookup", "create_lookup", "create_insert", "send_down", "escalate"}
              /\ FailureHandled(c.pc, c)
  PROVE  PolicyInv' /\ PolicyStep
<1>1. PICK b \in Call :
        /\ b = call[p] /\ Heading(b) = b.pc /\ Handled(b) /\ HandledCheck = CheckOf(b)
        /\ Right(redis) /\ redis.lastAlert = LastAlertedAt
  BY AtLookup
<1>2. c.up = b.up /\ c.ret = b.ret /\ c.at = b.at /\ Continue(p, c)
  BY <1>1 DEF Kept, MovesOn
<1>3. c.pc \in {"send_recovery", "escalate_lookup", "create_lookup", "create_insert", "send_down",
               "escalate"}
  OBVIOUS
<1>4. Handled(c) /\ c.pc # "idle"
  BY <1>1, <1>2, <1>3 DEF Handled
<1>5. Reading(c) /\ Writing(c)
  BY <1>1, <1>3 DEF Reading, Writing, Loaded, Stamping
<1>6. Dutiful(c.pc, c)
  BY <1>4 DEF Dutiful, OnSuccess
<1>7. Good(c) /\ CheckOf(c) = CheckOf(call[p])
  BY <1>1, <1>2, <1>4, <1>5, <1>6 DEF Good, CheckOf
<1>8. QED
  BY <1>2, <1>4, <1>7, QuietMoves

LEMMA LookupEnds ==
  ASSUME TypeOK, OneAtATime, OutageInv, StoryInv, PolicyInv, NEW p \in Procs,
         call[p].pc \in Lookups, UNCHANGED <<env, redis, expires, incidents, log, streak>>,
         NEW c \in Call, MovesOn(p, c), c.pc = "idle", Released(call[p])
  PROVE  PolicyInv' /\ PolicyStep
<1>1. PICK b \in Call :
        /\ b = call[p] /\ Heading(b) = b.pc /\ Handled(b) /\ (b.up \/ FailureHandled(b.pc, b))
  BY AtLookup
<1>2. b.pc # "save" /\ Heading(b) \notin Stamping
  BY <1>1 DEF Lookups, Stamping
<1>3. OpenMeansDown
  BY <1>1 DEF FailureHandled, Released, OpenMeansDown
<1>4. b.at # NULL
  BY <1>1, CheckTime DEF MovesOn
<1>5. QED
  BY <1>1, <1>2, <1>3, <1>4, CheckEnds DEF MovesOn

(* An open incident that nobody is about to announce has been announced.    *)
LEMMA OpenIsAnnounced ==
  ASSUME TypeOK, StoryInv, NEW p \in Procs, call[p].pc \in Lookups, NEW i \in OpenIds
  PROVE  Told("down", i)
<1>1. PICK h : h = call[p].pc /\ Heading(call[p]) = h /\ h \notin Announcing
  BY DEF Lookups, Heading, Transit, Announcing
<1>2. Sound(h, call[p].inc)
  BY <1>1, StoryParts
<1>3. incidents[i].alertSentAt # NULL /\ i \in DOMAIN incidents
  BY <1>1, <1>2 DEF Sound, Settled, OpenIds
<1>4. QED
  BY <1>3 DEF StoryInv, Recorded

LEMMA LookupPoints ==
  {"idle", "escalate_lookup", "create_lookup", "create_insert", "send_recovery",
   "send_down", "escalate"} \subseteq Points \ Transit
  BY DEF Points, Transit

LEMMA PolicyRecoveryLookup ==
  ASSUME TypeOK, OneAtATime, Faults = {}, OutageInv, StoryInv, PolicyInv, NEW p \in Procs,
         RecoveryLookup(p)
  PROVE  PolicyInv' /\ PolicyStep
<1>1. call[p].pc = "recovery_lookup" /\ call[p].pc \in Lookups /\ call[p].pc # "idle"
  BY DEF RecoveryLookup, At, Lookups
<1>2. call[p].up
  BY <1>1, AtLookup
<1> DEFINE found == [i \in OpenIds |-> "send_recovery"]
<1>3. found \in [OpenIds -> Points \ Transit]
  BY LookupPoints
<1>4. PICK c \in Call : /\ MovesOn(p, c) /\ Heading(c) = c.pc /\ Kept(c, p)
                        /\ \/ OpenIds = {} /\ c.pc = "idle"
                           \/ c.inc \in OpenIds /\ c.pc = found[c.inc]
  BY <1>1, <1>3, LookedUp, LookupPoints DEF RecoveryLookup
<1>5. UNCHANGED <<env, redis, expires, incidents, log, streak>>
  BY DEF RecoveryLookup, GetOpenIncident, stores, observers
<1>6. CASE OpenIds = {} /\ c.pc = "idle"
  <2>1. Released(call[p])
    BY <1>2, <1>6 DEF Released
  <2>2. QED
    BY <1>1, <1>4, <1>5, <1>6, <2>1, LookupEnds
<1>7. CASE c.inc \in OpenIds /\ c.pc = found[c.inc]
  <2>1. c.pc = "send_recovery" /\ c.up
    BY <1>2, <1>4, <1>7 DEF Kept
  <2>2. QED
    BY <1>1, <1>4, <1>5, <2>1, LookupMoves
<1>8. QED
  BY <1>4, <1>6, <1>7

LEMMA PolicyAlertLookup ==
  ASSUME TypeOK, OneAtATime, Faults = {}, OutageInv, StoryInv, PolicyInv, NEW p \in Procs,
         AlertLookup(p) \/ CreateLookup(p)
  PROVE  PolicyInv' /\ PolicyStep
<1>1. PICK g : /\ g = call[p].pc /\ g \in {"alert_lookup", "create_lookup"} /\ g \in Lookups /\ g # "idle"
              /\ g \in Fresh
  BY DEF AlertLookup, CreateLookup, At, Lookups, Fresh
<1>2. ~call[p].up /\ FailureHandled(g, call[p])
  <2>1. PICK b \in Call : /\ b = call[p] /\ (b.up <=> b.pc = "recovery_lookup")
                          /\ b.up \/ FailureHandled(b.pc, b)
    BY <1>1, AtLookup
  <2>2. QED
    BY <1>1, <2>1
<1>3. OpenMeansDown /\ Policy!Down /\ ~Policy!Cooling(now)
  BY <1>1, <1>2 DEF FailureHandled
<1>4. PICK c \in Call :
        /\ MovesOn(p, c) /\ Heading(c) = c.pc /\ Kept(c, p)
        /\ \/ c.pc \in {"create_lookup", "create_insert", "send_down"}
           \/ c.pc = "escalate_lookup" /\ OpenIds # {}
  <2>1. CASE AlertLookup(p)
    <3> DEFINE found == [i \in OpenIds |-> IF AlreadyAlerted(i) THEN "escalate_lookup" ELSE "create_lookup"]
    <3>1. found \in [OpenIds -> Points \ Transit]
      BY LookupPoints
    <3>2. PICK c \in Call : /\ MovesOn(p, c) /\ Heading(c) = c.pc /\ Kept(c, p)
                            /\ \/ OpenIds = {} /\ c.pc = "create_lookup"
                               \/ c.inc \in OpenIds /\ c.pc = found[c.inc]
      BY <1>1, <2>1, <3>1, LookedUp, LookupPoints DEF AlertLookup
    <3>3. QED
      BY <3>2
  <2>2. CASE CreateLookup(p)
    <3> DEFINE found == [i \in OpenIds |-> "send_down"]
    <3>1. found \in [OpenIds -> Points \ Transit]
      BY LookupPoints
    <3>2. PICK c \in Call : /\ MovesOn(p, c) /\ Heading(c) = c.pc /\ Kept(c, p)
                            /\ \/ OpenIds = {} /\ c.pc = "create_insert"
                               \/ c.inc \in OpenIds /\ c.pc = found[c.inc]
      BY <1>1, <2>2, <3>1, LookedUp, LookupPoints DEF CreateLookup
    <3>3. QED
      BY <3>2
  <2>3. QED
    BY <2>1, <2>2
<1>5. UNCHANGED <<env, redis, expires, incidents, log, streak>>
  BY DEF AlertLookup, CreateLookup, GetOpenIncident, stores, observers
<1>6. ~c.up /\ FailureHandled(c.pc, c)
  BY <1>2, <1>3, <1>4 DEF Kept, FailureHandled, OnFailure, Fresh, Escalating
<1>7. QED
  BY <1>1, <1>4, <1>5, <1>6, LookupMoves

LEMMA PolicyEscalateLookup ==
  ASSUME TypeOK, OneAtATime, Faults = {}, OutageInv, StoryInv, PolicyInv, NEW p \in Procs,
         EscalateLookup(p)
  PROVE  PolicyInv' /\ PolicyStep
<1>1. call[p].pc = "escalate_lookup" /\ call[p].pc \in Lookups /\ call[p].pc # "idle"
  BY DEF EscalateLookup, At, Lookups
<1>2. PICK b \in Call : b = call[p] /\ ~b.up /\ FailureHandled("escalate_lookup", b)
  BY <1>1, AtLookup
<1>3. OpenMeansDown /\ Policy!Down /\ (Policy!Cooling(b.at) \/ OpenIds # {})
  BY <1>2 DEF FailureHandled
<1> DEFINE found == [i \in OpenIds |-> IF MayEscalate(i, call[p].at) THEN "escalate" ELSE "idle"]
<1>4. found \in [OpenIds -> Points \ Transit]
  BY LookupPoints
<1>5. PICK c \in Call : /\ MovesOn(p, c) /\ Heading(c) = c.pc /\ Kept(c, p)
                        /\ \/ OpenIds = {} /\ c.pc = "idle"
                           \/ c.inc \in OpenIds /\ c.pc = found[c.inc]
  BY <1>1, <1>4, LookedUp, LookupPoints DEF EscalateLookup
<1>6. UNCHANGED <<env, redis, expires, incidents, log, streak>>
  BY DEF EscalateLookup, GetOpenIncident, stores, observers
<1>7. CASE OpenIds = {} /\ c.pc = "idle"
  <2>1. Released(call[p])
    BY <1>2, <1>3, <1>7 DEF Released
  <2>2. QED
    BY <1>1, <1>5, <1>6, <1>7, <2>1, LookupEnds
<1>8. ASSUME c.inc \in OpenIds, MayEscalate(c.inc, b.at), c.pc = "escalate"
      PROVE  PolicyInv' /\ PolicyStep
  <2>1. b.at - incidents[c.inc].startedAt >= EscalationThreshold /\ c.at = b.at /\ ~c.up
    BY <1>2, <1>5, <1>8 DEF MayEscalate, MovesOn, Kept
  <2>2. FailureHandled(c.pc, c)
    BY <1>3, <1>8, <2>1 DEF FailureHandled, OnFailure, Fresh, Escalating
  <2>3. QED
    BY <1>1, <1>5, <1>6, <1>8, <2>1, <2>2, LookupMoves
<1>9. ASSUME c.inc \in OpenIds, ~MayEscalate(c.inc, b.at), c.pc = "idle"
      PROVE  PolicyInv' /\ PolicyStep
  <2>1. PICK i : i = c.inc /\ OpenIds = {i} /\ i \in DOMAIN incidents
    BY <1>9, OneIsOpen DEF OpenIds, OutageInv
  <2>2. Told("down", i)
    BY <1>1, <2>1, OpenIsAnnounced
  <2>3. AlreadyAlerted(i)
    <3>1. Heading(call[p]) = "escalate_lookup"
      BY <1>1 DEF Heading, Transit
    <3>2. Sound("escalate_lookup", call[p].inc)
      BY <3>1, StoryParts
    <3>3. QED
      BY <2>1, <3>2 DEF Sound, Settled, Announcing, AlreadyAlerted
  <2>4. Told("escalation", i) \/ b.at - incidents[i].startedAt < EscalationThreshold
    <3>1. CASE incidents[i].lastEscalationAt # NULL
      BY <2>1, <3>1, PolicyParts DEF Begun
    <3>2. CASE incidents[i].lastEscalationAt = NULL
      <4>1. ~(b.at - incidents[i].startedAt >= EscalationThreshold)
        BY <1>9, <2>1, <2>3, <3>2 DEF MayEscalate
      <4>2. PICK t \in Nat, u \in Nat, e \in Nat :
              t = b.at /\ u = incidents[i].startedAt /\ e = EscalationThreshold
        BY <2>1, RowTimes, ConfigAssumption DEF Call, ConfigAssumption
      <4>3. QED
        BY <4>1, <4>2
    <3>3. QED
      BY <3>1, <3>2
  <2>5. Released(call[p])
    BY <1>2, <2>1, <2>2, <2>4 DEF Released
  <2>6. QED
    BY <1>1, <1>5, <1>6, <1>9, <2>5, LookupEnds
<1>10. QED
  BY <1>2, <1>5, <1>7, <1>8, <1>9

-----------------------------------------------------------------------------
(* Alerts                                                                   *)

LEMMA KindsAreToldNext ==
  \A i, g : g \in KindsTold(i)' <=> Told(g, i)'
  BY DEF KindsTold, Told

LEMMA KindsAreKinds ==
  ASSUME TypeOK, NEW g, NEW i, Told(g, i)
  PROVE  g \in DOMAIN Rank
<1>1. PICK k \in DOMAIN log : log[k].kind = g
  BY DEF Told
<1>2. log[k] \in Notification
  BY DEF TypeOK
<1>3. QED
  BY <1>1, <1>2, StartsInOrder DEF Notification

(* The points at which an alert is sent, and what it tells                  *)
Sending(h, g, kind) ==
  \/ kind = "down" /\ h = "send_down" /\ g = "mark_sent"
  \/ kind = "escalation" /\ h = "send_escalation" /\ g = "mark_escalation"
  \/ kind = "recovery" /\ h = "send_recovery" /\ g = "cool_recovery"

(* A goroutine that is about to tell of its incident has the only one that  *)
(* is open, and the alert is the next of its story.                         *)
Ready(b, i, h, kind) ==
  /\ i = b.inc /\ Good(b) /\ Dutiful(h, b) /\ Handled(b)
  /\ b.up <=> kind = "recovery"
  /\ HandledCheck = [up |-> b.up, at |-> b.at] /\ b.at # NULL
  /\ OpenIds = {i} /\ i \in DOMAIN incidents /\ Sound(h, i) /\ Tellable(kind, i)
  /\ PresentOutage = [since |-> incidents[i].startedAt, told |-> KindsTold(i)]

LEMMA ReadyToSend ==
  ASSUME TypeOK, OneAtATime, OutageInv, StoryInv, PolicyInv, NEW p \in Procs,
         NEW kind, NEW h, NEW g, call[p].pc = h, Sending(h, g, kind)
  PROVE  \E b \in Call, i \in DOMAIN incidents : b = call[p] /\ Ready(b, i, h, kind)
<1>1. PICK b \in Call : b = call[p] /\ Good(b) /\ HandledCheck = CheckOf(b)
  BY CallAtHand
<1>2. PICK i : i = b.inc
  OBVIOUS
<1>3. h \in {"send_down", "send_escalation", "send_recovery"} /\ Heading(b) = h /\ h # "idle"
  BY <1>1 DEF Sending, Heading, Transit
<1>4. Dutiful(h, b) /\ Sound(h, i) /\ b.at # NULL
  BY <1>1, <1>2, <1>3, StoryParts DEF Good
<1>5. Handled(b) /\ (b.up <=> kind = "recovery")
  <2>1. /\ h \notin Unheard /\ (h \in OnSuccess <=> kind = "recovery")
        /\ h \in OnFailure <=> kind # "recovery"
    BY <1>3 DEF Sending, Unheard, OnSuccess, OnFailure, Recovering, Fresh, Escalating
  <2>2. QED
    BY <1>4, <2>1 DEF Dutiful, FailureHandled
<1>6. OpenIds = {i} /\ Settled(h, i) /\ i \in DOMAIN incidents
  <2>1. OpenIds = {i}
    BY <1>3, <1>4 DEF Sound, InHand, Announcing, Escalating
  <2>2. QED
    BY <1>4, <2>1 DEF Sound, OpenIds
<1>7. Tellable(kind, i)
  <2>1. CASE kind = "down"
    BY <1>4, <2>1, StartsInOrder DEF Sending, Sound, Tellable
  <2>2. CASE kind = "escalation"
    <3>1. Told("down", i) /\ ~Told("escalation", i) /\ ~Told("recovery", i)
      BY <1>4, <1>6, <2>2 DEF Sending, Sound, Settled, Escalating, Recovering
    <3>2. QED
      BY <2>2, <3>1, StartsInOrder DEF Tellable
  <2>3. CASE kind = "recovery"
    <3>1. Told("down", i) /\ ~Told("recovery", i)
      BY <1>4, <1>6, <2>3 DEF Sending, Settled, Announcing, Recovering, StoryInv, Recorded
    <3>2. QED
      BY <2>3, <3>1, StartsInOrder DEF Tellable
  <2>4. QED
    BY <2>1, <2>2, <2>3 DEF Sending
<1>8. PresentOutage = [since |-> incidents[i].startedAt, told |-> KindsTold(i)]
  BY <1>6, OneShown
<1>9. HandledCheck = [up |-> b.up, at |-> b.at]
  BY <1>1, <1>5 DEF CheckOf
<1>10. Ready(b, i, h, kind)
  BY <1>1, <1>2, <1>4, <1>5, <1>6, <1>7, <1>8, <1>9 DEF Ready
<1>11. QED
  BY <1>1, <1>6, <1>10

LEMMA OneMoreKind ==
  ASSUME NEW s, NEW told, NEW kind, NEW o, NEW q,
         o = [since |-> s, told |-> told], q = [since |-> s, told |-> told \cup {kind}]
  PROVE  q = [o EXCEPT !.told = @ \cup {kind}]
  OBVIOUS

(* The alert goes out: the outage has been told of, and what is known of    *)
(* the check holds after it.                                                *)
LEMMA AlertGoesOut ==
  ASSUME TypeOK, TypeOK', OneAtATime, Faults = {}, OutageInv, StoryInv, PolicyInv, NEW p \in Procs,
         NEW kind, NEW h, NEW g, NEW onError, call[p].pc = h, Sending(h, g, kind),
         Broadcast(p, kind, g, onError)
  PROVE  PolicyInv' /\ Policy!Tell(kind)
<1>0. PICK b \in Call, i \in DOMAIN incidents : b = call[p] /\ Ready(b, i, h, kind)
  BY ReadyToSend
<1>1. /\ b = call[p] /\ i = b.inc /\ Good(b) /\ Dutiful(h, b) /\ Handled(b)
      /\ b.up <=> kind = "recovery"
      /\ HandledCheck = [up |-> b.up, at |-> b.at]
      /\ OpenIds = {i} /\ i \in DOMAIN incidents /\ Tellable(kind, i)
      /\ PresentOutage = [since |-> incidents[i].startedAt, told |-> KindsTold(i)]
  BY <1>0 DEF Ready
<1>2. kind \in {"down", "recovery", "escalation"} /\ g \in Points \ Transit /\ "send" \notin Faults
  BY DEF Sending, Points, Transit
<1>3. PICK c \in Call, n \in Notification :
        /\ Continue(p, c) /\ c.inc = i /\ c.at = b.at /\ Heading(c) = g /\ c.pc = g
        /\ c.up = b.up /\ c.ret = b.ret
        /\ log' = Append(log, n) /\ n.kind = kind /\ n.inc = i /\ n.checked = b.at
        /\ UNCHANGED incidents
  BY <1>1, <1>2, AlwaysSent DEF Kept
<1>4. \A k, j : Told(k, j)' <=> Told(k, j) \/ (k = kind /\ j = i)
  BY <1>1, <1>3, StoryContinues DEF StoryInv
<1>5. UNCHANGED <<now, redisUp, redis, expires, streak>>
  BY DEF Broadcast, env, stores
<1>6. OpenIds' = {i} /\ LastAlertedAt' = b.at
  <2>1. OpenIds' = {i}
    BY <1>1, <1>3 DEF OpenIds
  <2>2. log \in Seq(Notification)
    BY DEF TypeOK
  <2>3. log' # <<>> /\ log'[Len(log')] = n
    BY <1>3, <2>2
  <2>4. QED
    BY <1>3, <2>1, <2>3 DEF LastAlertedAt
<1>7. KindsTold(i)' = KindsTold(i) \cup {kind}
  BY <1>4, KindsAreTold, KindsAreToldNext
<1>8. PresentOutage' = [since |-> incidents[i].startedAt, told |-> KindsTold(i)']
  BY <1>3, <1>6, OneShownNext
<1>9. HandledCheck' = [up |-> b.up, at |-> b.at] /\ Handled(c) /\ g # "idle"
  <2>1. Handled(c) /\ g # "idle"
    BY <1>1, <1>3 DEF Handled, Sending
  <2>2. QED
    BY <1>3, <2>1, CheckNext DEF CheckOf
<1>10. Policy!Tell(kind)
  <2>1. PICK s, told, t, u : /\ s = incidents[i].startedAt /\ told = KindsTold(i)
                             /\ t = b.at /\ u = b.up
    OBVIOUS
  <2>2. /\ PresentOutage = [since |-> s, told |-> told]
        /\ PresentOutage' = [since |-> s, told |-> told \cup {kind}]
    BY <1>1, <1>7, <1>8, <2>1
  <2>3. HandledCheck = [up |-> u, at |-> t] /\ UNCHANGED HandledCheck /\ LastAlertedAt' = t
    BY <1>1, <1>6, <1>9, <2>1
  <2>4. PresentOutage' = [PresentOutage EXCEPT !.told = @ \cup {kind}]
    <3>1. PICK o, q : o = PresentOutage /\ q = PresentOutage'
      OBVIOUS
    <3>2. q = [o EXCEPT !.told = @ \cup {kind}]
      BY <2>2, <3>1, OneMoreKind, SMTT(30)
    <3>3. QED
      BY <3>1, <3>2
  <2>5. LastAlertedAt' = HandledCheck.at
    BY <2>3
  <2>6. QED
    BY <1>5, <2>3, <2>4, <2>5 DEF Policy!Tell
<1>11. Good(c)'
  <2>1. Reading(c)'
    BY <1>3 DEF Sending, Reading, Loaded
  <2>2. Writing(c)'
    <3>1. g \in Stamping /\ g \notin {"save", "save_memory"} /\ h # "save"
      BY DEF Sending, Stamping
    <3>2. Right(redis)
      BY <1>1, <3>1 DEF Good, Writing
    <3>3. QED
      BY <1>3, <1>5, <1>6, <3>1, <3>2 DEF Writing, Right, Heading
  <2>3. Dutiful(g, c)'
    <3>1. CASE b.up
      <4>1. g \in OnSuccess
        BY <1>1, <3>1 DEF Sending, OnSuccess, Recovering
      <4>2. QED
        BY <1>3, <1>9, <3>1, <4>1 DEF Dutiful, Handled
    <3>2. CASE ~b.up
      <4>1. g \in OnFailure /\ g \notin Fresh /\ g \notin Escalating /\ g # "escalate_lookup"
        BY <1>1, <3>2 DEF Sending, OnFailure, Fresh, Escalating
      <4>2. Policy!Down'
        BY <1>1, <1>5, <1>9, <3>2 DEF Dutiful, FailureHandled, Policy!Down, Sending
      <4>3. g = "mark_escalation" => Told("escalation", i)'
        BY <1>4 DEF Sending
      <4>4. FailureHandled(g, c)'
        BY <1>3, <1>9, <4>1, <4>2, <4>3 DEF FailureHandled, OpenMeansDown
      <4>5. QED
        BY <1>3, <1>9, <3>2, <4>4 DEF Dutiful, Handled
    <3>3. QED
      BY <3>1, <3>2
  <2>4. QED
    BY <1>3, <2>1, <2>2, <2>3 DEF Good, Heading
<1>12. Begun' /\ Answering'
  <2>1. Begun'
    BY <1>3, <1>4, PolicyParts DEF Begun
  <2>2. QED
    BY <1>5, <2>1, PolicyParts DEF Answering
<1>13. PolicyInv'
  BY <1>3, <1>9, <1>11, <1>12, NextCall, PolicyNext
<1>14. QED
  BY <1>10, <1>13

LEMMA PolicySendDown ==
  ASSUME TypeOK, TypeOK', OneAtATime, Faults = {}, OutageInv, StoryInv, PolicyInv, NEW p \in Procs,
         SendDownAlert(p)
  PROVE  PolicyInv' /\ PolicyStep
<1>1. /\ call[p].pc = "send_down" /\ Sending("send_down", "mark_sent", "down")
      /\ Broadcast(p, "down", "mark_sent", "idle")
  BY DEF SendDownAlert, At, Sending
<1>0. PICK b \in Call, i \in DOMAIN incidents : Ready(b, i, "send_down", "down")
  BY <1>1, ReadyToSend
<1>2. /\ Dutiful("send_down", b) /\ Handled(b) /\ ~b.up
      /\ HandledCheck = [up |-> b.up, at |-> b.at] /\ b.at # NULL
      /\ i \in DOMAIN incidents /\ Sound("send_down", i)
      /\ PresentOutage = [since |-> incidents[i].startedAt, told |-> KindsTold(i)]
  BY <1>0 DEF Ready
<1>3. Policy!Down /\ ~Policy!Cooling(now)
  BY <1>2 DEF Dutiful, FailureHandled, Fresh
<1>4. PresentOutage.told = {}
  <2>1. \A g : ~Told(g, i)
    BY <1>2, KindsAreKinds DEF Sound
  <2>2. QED
    BY <1>2, <2>1, KindsAreTold
<1>5. PresentOutage # Policy!NoOutage
  BY <1>2, PolicyParts DEF Begun, Policy!NoOutage, NULL
<1>6. Policy!Failing
  BY <1>2 DEF Policy!Failing, Policy!NoCheck, NULL
<1>7. PolicyInv' /\ Policy!Tell("down")
  BY <1>1, AlertGoesOut
<1>8. QED
  BY <1>3, <1>4, <1>5, <1>6, <1>7 DEF Policy!Announce, PolicyStep, Policy!Next

LEMMA PolicySendEscalation ==
  ASSUME TypeOK, TypeOK', OneAtATime, Faults = {}, OutageInv, StoryInv, PolicyInv, NEW p \in Procs,
         SendEscalationAlert(p)
  PROVE  PolicyInv' /\ PolicyStep
<1>1. /\ call[p].pc = "send_escalation"
      /\ Sending("send_escalation", "mark_escalation", "escalation")
      /\ Broadcast(p, "escalation", "mark_escalation", "idle")
  BY DEF SendEscalationAlert, At, Sending
<1>0. PICK b \in Call, i \in DOMAIN incidents : Ready(b, i, "send_escalation", "escalation")
  BY <1>1, ReadyToSend
<1>2. /\ i = b.inc /\ Dutiful("send_escalation", b) /\ Handled(b) /\ ~b.up
      /\ HandledCheck = [up |-> b.up, at |-> b.at] /\ b.at # NULL
      /\ i \in DOMAIN incidents /\ Sound("send_escalation", i) /\ Tellable("escalation", i)
      /\ PresentOutage = [since |-> incidents[i].startedAt, told |-> KindsTold(i)]
  BY <1>0 DEF Ready
<1>3. ~Policy!Cooling(now) /\ b.at - incidents[i].startedAt >= EscalationThreshold
  BY <1>2 DEF Dutiful, FailureHandled, Fresh, Escalating
<1>4. PresentOutage.told = {"down"}
  <2>1. Told("down", i) /\ ~Told("escalation", i) /\ ~Told("recovery", i)
    BY <1>2, StartsInOrder DEF Tellable
  <2>2. \A g : Told(g, i) <=> g = "down"
    BY <2>1, KindsAreKinds, StartsInOrder
  <2>3. QED
    BY <1>2, <2>2, KindsAreTold
<1>5. Policy!StillDown
  BY <1>2, <1>3, <1>4 DEF Policy!StillDown
<1>6. Policy!Failing
  BY <1>2 DEF Policy!Failing, Policy!NoCheck, NULL
<1>7. PolicyInv' /\ Policy!Tell("escalation")
  BY <1>1, AlertGoesOut
<1>8. QED
  BY <1>3, <1>5, <1>6, <1>7 DEF Policy!Escalate, PolicyStep, Policy!Next

LEMMA PolicySendRecovery ==
  ASSUME TypeOK, TypeOK', OneAtATime, Faults = {}, OutageInv, StoryInv, PolicyInv, NEW p \in Procs,
         SendRecoveryAlert(p)
  PROVE  PolicyInv' /\ PolicyStep
<1>1. /\ call[p].pc = "send_recovery" /\ Sending("send_recovery", "cool_recovery", "recovery")
      /\ Broadcast(p, "recovery", "cool_recovery", "resolve")
  BY DEF SendRecoveryAlert, At, Sending
<1>0. PICK b \in Call, i \in DOMAIN incidents : Ready(b, i, "send_recovery", "recovery")
  BY <1>1, ReadyToSend
<1>2. /\ b.up /\ HandledCheck = [up |-> b.up, at |-> b.at] /\ Tellable("recovery", i)
      /\ PresentOutage = [since |-> incidents[i].startedAt, told |-> KindsTold(i)]
  BY <1>0 DEF Ready
<1>3. Told("down", i) /\ ~Told("recovery", i)
  BY <1>2, StartsInOrder DEF Tellable
<1>4. "down" \in PresentOutage.told /\ "recovery" \notin PresentOutage.told
  BY <1>2, <1>3, KindsAreTold
<1>5. Policy!Succeeding
  BY <1>2 DEF Policy!Succeeding, Policy!NoCheck
<1>6. PolicyInv' /\ Policy!Tell("recovery")
  BY <1>1, AlertGoesOut
<1>7. QED
  BY <1>4, <1>5, <1>6 DEF Policy!Recover, PolicyStep, Policy!Next

-----------------------------------------------------------------------------
(* Writes to the incidents table                                            *)

Writes == {"create_insert", "resolve", "mark_sent", "mark_escalation"}

(* Where the goroutine is with a write, and what it knows                   *)
Able(b, h) ==
  /\ b.pc = h /\ Heading(b) = h /\ Good(b) /\ Dutiful(h, b) /\ Handled(b)
  /\ b.up <=> h = "resolve"
  /\ HandledCheck = [up |-> b.up, at |-> b.at] /\ b.at # NULL
  /\ Sound(h, b.inc) /\ Right(redis)

LEMMA AbleToWrite ==
  ASSUME TypeOK, OneAtATime, OutageInv, StoryInv, PolicyInv, NEW p \in Procs,
         NEW h \in Writes, call[p].pc = h
  PROVE  \E b \in Call : b = call[p] /\ Able(b, h)
<1>1. PICK b \in Call : b = call[p] /\ Good(b) /\ HandledCheck = CheckOf(b)
  BY CallAtHand
<1>2. Heading(b) = h /\ h # "idle" /\ h # "save"
  BY <1>1 DEF Writes, Heading, Transit
<1>3. Dutiful(h, b) /\ Sound(h, b.inc) /\ b.at # NULL /\ Right(redis)
  BY <1>1, <1>2, StoryParts DEF Good, Writing
<1>4. /\ h \notin Unheard /\ (h \in OnSuccess <=> h = "resolve")
      /\ h \in OnFailure <=> h # "resolve"
  BY DEF Writes, Unheard, OnSuccess, OnFailure, Recovering, Fresh, Escalating
<1>5. Handled(b) /\ (b.up <=> h = "resolve")
  BY <1>3, <1>4 DEF Dutiful, FailureHandled
<1>6. HandledCheck = [up |-> b.up, at |-> b.at]
  BY <1>1, <1>5 DEF CheckOf
<1>7. QED
  BY <1>1, <1>2, <1>3, <1>5, <1>6 DEF Able

LEMMA WritesLeave ==
  ASSUME NEW p \in Procs,
         \/ ResolveIncident(p) \/ CreateInsert(p)
         \/ MarkIncidentAlertSent(p) \/ MarkIncidentEscalation(p)
  PROVE  UNCHANGED <<now, redisUp, redis, expires, log, streak>>
  BY DEF ResolveIncident, CreateInsert, MarkIncidentAlertSent, MarkIncidentEscalation, Update,
         env, stores, observers

LEMMA LogStays ==
  ASSUME UNCHANGED log
  PROVE  /\ LastAlertedAt' = LastAlertedAt
         /\ \A i : KindsTold(i)' = KindsTold(i)
         /\ \A g, i : Told(g, i)' <=> Told(g, i)
  BY DEF LastAlertedAt, KindsTold, Told

LEMMA PolicyInsert ==
  ASSUME TypeOK, TypeOK', OneAtATime, Faults = {}, OutageInv, StoryInv, PolicyInv, NEW p \in Procs,
         CreateInsert(p)
  PROVE  PolicyInv' /\ PolicyStep
<1>1. call[p].pc = "create_insert" /\ "create_insert" \in Writes
  BY DEF CreateInsert, At, Writes
<1>2. PICK b \in Call : b = call[p] /\ Able(b, "create_insert")
  BY <1>1, AbleToWrite
<1>3. /\ Handled(b) /\ ~b.up /\ Policy!Down /\ ~Policy!Cooling(now) /\ OpenIds = {}
      /\ HandledCheck = [up |-> b.up, at |-> b.at] /\ b.at # NULL /\ Right(redis)
      /\ redis.lastAlert = LastAlertedAt
  BY <1>2 DEF Able, Good, Writing, Stamping, Dutiful, FailureHandled, Fresh, Sound
<1>4. PICK c \in Call :
        /\ Continue(p, c) /\ c.at = b.at /\ c.up = b.up /\ c.ret = b.ret
        /\ incidents' = Append(incidents, NewIncident(b.at))
        /\ c.pc = "send_down" /\ Heading(c) = "send_down" /\ c.inc = Len(incidents) + 1
  BY <1>1, <1>2, WrittenBy DEF Kept
<1>5. PICK i : i = Len(incidents) + 1
  OBVIOUS
<1>6. PICK t : t = b.at
  OBVIOUS
<1>7. /\ DOMAIN incidents' = DOMAIN incidents \cup {i} /\ i \notin DOMAIN incidents
      /\ \A j \in DOMAIN incidents : incidents'[j] = incidents[j]
      /\ incidents'[i].startedAt = t /\ incidents'[i].status = "open"
      /\ incidents'[i].lastEscalationAt = NULL
  <2>1. incidents' = Append(incidents, NewIncident(t))
    BY <1>4, <1>6
  <2>2. /\ NewIncident(t).startedAt = t /\ NewIncident(t).status = "open"
        /\ NewIncident(t).lastEscalationAt = NULL
    BY DEF NewIncident
  <2>3. QED
    BY <1>5, <2>1, <2>2, InsertedRow
<1>8. OpenIds' = {i}
  BY <1>3, <1>7 DEF OpenIds
<1>9. KindsTold(i)' = {}
  <2>1. \A g : ~Told(g, i)
    BY <1>7 DEF Told, StoryInv, Recorded
  <2>2. KindsTold(i) = {}
    BY <2>1, KindsAreTold
  <2>3. QED
    BY <2>2, LogStays, WritesLeave
<1>10. PresentOutage = Policy!NoOutage /\ PresentOutage' = [since |-> t, told |-> {}]
  BY <1>3, <1>7, <1>8, <1>9, NoneShown, OneShownNext
<1>11. Handled(c)
  BY <1>3, <1>4 DEF Handled
<1>12. HandledCheck' = HandledCheck /\ HandledCheck.at = t /\ Policy!Failing
  BY <1>3, <1>4, <1>6, <1>11, CheckNext DEF CheckOf, Policy!Failing, Policy!NoCheck, NULL
<1>13. UNCHANGED <<now, redisUp, redis, expires, log, streak>>
  BY WritesLeave
<1>14. Policy!Open
  BY <1>3, <1>10, <1>12, <1>13, LogStays DEF Policy!Open
<1>15. Good(c)'
  <2>1. Reading(c)'
    BY <1>4 DEF Reading, Loaded
  <2>2. Writing(c)'
    BY <1>3, <1>4, <1>13, LogStays DEF Writing, Right, Heading, Stamping
  <2>3. FailureHandled("send_down", c)'
    <3>1. Policy!Down' /\ ~Policy!Cooling(now)'
      BY <1>3, <1>13, LogStays DEF Policy!Down, Policy!Cooling
    <3>2. QED
      BY <3>1 DEF FailureHandled, OpenMeansDown, OnFailure, Fresh, Escalating
  <2>4. Dutiful("send_down", c)'
    BY <1>3, <1>4, <1>11, <2>3 DEF Dutiful, Handled
  <2>5. QED
    BY <1>4, <2>1, <2>2, <2>4 DEF Good, Heading
<1>16. Begun' /\ Answering'
  <2>1. Begun'
    <3>1. \A g, j : Told(g, j)' <=> Told(g, j)
      BY <1>13, LogStays
    <3>2. t # NULL
      BY <1>3, <1>6
    <3>3. QED
      BY <1>7, <3>1, <3>2, PolicyParts DEF Begun
  <2>2. QED
    BY <1>13, <2>1, PolicyParts DEF Answering
<1>17. PolicyInv'
  BY <1>4, <1>15, <1>16, NextCall, PolicyNext
<1>18. QED
  BY <1>14, <1>17 DEF PolicyStep, Policy!Next

(* The recovery has been told: the outage is over, and so is the check.     *)
LEMMA PolicyResolve ==
  ASSUME TypeOK, TypeOK', OneAtATime, Faults = {}, OutageInv, StoryInv, PolicyInv, NEW p \in Procs,
         ResolveIncident(p)
  PROVE  PolicyInv' /\ PolicyStep
<1>1. call[p].pc = "resolve" /\ "resolve" \in Writes
  BY DEF ResolveIncident, At, Writes
<1>2. PICK b \in Call : b = call[p] /\ Able(b, "resolve")
  BY <1>1, AbleToWrite
<1>3. PICK i : i = b.inc
  OBVIOUS
<1>4. /\ b.up /\ OpenIds = {i} /\ Told("recovery", i) /\ Right(redis)
      /\ HandledCheck = [up |-> b.up, at |-> b.at] /\ redis.lastAlert = LastAlertedAt
  BY <1>2, <1>3 DEF Able, Good, Writing, Stamping, Sound, InHand, Recovering
<1>5. PICK c \in Call : Continue(p, c) /\ incidents' = Resolved(b.at) /\ c.pc = "idle"
  BY <1>1, <1>2, WrittenBy
<1>6. /\ DOMAIN incidents' = DOMAIN incidents
      /\ \A j \in DOMAIN incidents :
           /\ incidents'[j].startedAt = incidents[j].startedAt
           /\ incidents'[j].lastEscalationAt = incidents[j].lastEscalationAt
           /\ incidents'[j].status = "resolved"
  <2>1. PICK t : t = b.at
    OBVIOUS
  <2>2. incidents' = Resolved(t)
    BY <1>5, <2>1
  <2>3. QED
    BY <2>2, ResolvedRows
<1>7. OpenIds' = {}
  BY <1>6 DEF OpenIds
<1>8. "recovery" \in PresentOutage.told /\ PresentOutage' = Policy!NoOutage
  <2>1. PresentOutage = [since |-> incidents[i].startedAt, told |-> KindsTold(i)]
    BY <1>4, OneShown
  <2>2. "recovery" \in KindsTold(i)
    BY <1>4, KindsAreTold
  <2>3. QED
    BY <1>7, <2>1, <2>2, NoneShownNext
<1>9. call'[p] = Idle /\ HandledCheck' = Policy!NoCheck
  BY <1>5, NextCall, CheckIs, IdleIsUnheard
<1>10. Policy!Succeeding
  BY <1>4 DEF Policy!Succeeding, Policy!NoCheck
<1>11. UNCHANGED <<now, redisUp, redis, expires, log, streak>>
  BY WritesLeave
<1>12. Policy!Close
  BY <1>8, <1>9, <1>10, <1>11, LogStays DEF Policy!Close
<1>13. Good(Idle)'
  <2>1. Idle.pc = "idle" /\ Heading(Idle) = "idle" /\ ~Handled(Idle)
    BY IdleHeading, IdleIsUnheard DEF Idle
  <2>2. Reading(Idle)'
    BY <2>1 DEF Reading, Loaded
  <2>3. Writing(Idle)'
    BY <1>4, <1>11, <2>1, LogStays DEF Writing, Right, Heading, Stamping
  <2>4. Dutiful("idle", Idle)'
    BY <1>7, <2>1 DEF Dutiful, Handled, Unheard, OpenMeansDown
  <2>5. QED
    BY <2>1, <2>2, <2>3, <2>4 DEF Good, Heading
<1>14. Begun' /\ Answering'
  <2>1. \A g, j : Told(g, j)' <=> Told(g, j)
    BY <1>11, LogStays
  <2>2. Begun'
    BY <1>6, <2>1, PolicyParts DEF Begun
  <2>3. QED
    BY <1>11, <2>2, PolicyParts DEF Answering
<1>15. PolicyInv'
  BY <1>9, <1>13, <1>14, PolicyNext
<1>16. QED
  BY <1>12, <1>15 DEF PolicyStep, Policy!Next

(* The columns of the row lag behind what was told; catching up shows       *)
(* nothing new.                                                             *)
LEMMA PolicyMark ==
  ASSUME TypeOK, TypeOK', OneAtATime, Faults = {}, OutageInv, StoryInv, PolicyInv, NEW p \in Procs,
         MarkIncidentAlertSent(p) \/ MarkIncidentEscalation(p)
  PROVE  PolicyInv' /\ PolicyStep
<1>1. PICK h : h = call[p].pc /\ h \in {"mark_sent", "mark_escalation"} /\ h \in Writes
  BY DEF MarkIncidentAlertSent, MarkIncidentEscalation, At, Writes
<1>2. PICK b \in Call : b = call[p] /\ Able(b, h)
  BY <1>1, AbleToWrite
<1>3. PICK i : i = b.inc
  OBVIOUS
<1>4. /\ Handled(b) /\ ~b.up /\ Policy!Down /\ Right(redis) /\ LastAlertedAt = b.at
      /\ h = "mark_escalation" => Told("escalation", i)
      /\ HandledCheck = [up |-> b.up, at |-> b.at]
  BY <1>1, <1>2, <1>3 DEF Able, Good, Writing, Stamping, Dutiful, FailureHandled
<1>5. OpenIds = {i}
  BY <1>1, <1>2, <1>3 DEF Able, Sound, InHand, Announcing
<1>6. PICK c \in Call :
        /\ Continue(p, c) /\ c.at = b.at /\ c.up = b.up /\ c.ret = b.ret /\ Heading(c) = c.pc
        /\ c.pc \in {"cool_down", "cool_escalation"}
        /\ \/ incidents' = [incidents EXCEPT ![call[p].inc].alertSentAt = call[p].at]
           \/ /\ h = "mark_escalation"
              /\ incidents' = [incidents EXCEPT ![call[p].inc].lastEscalationAt = call[p].at]
  BY <1>1, <1>2, WrittenBy DEF Kept
<1>7. UNCHANGED <<now, redisUp, redis, expires, log, streak>>
  BY WritesLeave
<1>8. /\ DOMAIN incidents' = DOMAIN incidents
      /\ \A j \in DOMAIN incidents :
           /\ incidents'[j].startedAt = incidents[j].startedAt
           /\ \/ incidents'[j].lastEscalationAt = incidents[j].lastEscalationAt
              \/ j = i /\ h = "mark_escalation"
  <2>1. CASE incidents' = [incidents EXCEPT ![call[p].inc].alertSentAt = call[p].at]
    <3>1. \A j \in DOMAIN incidents : incidents[j] \in Incident
      BY DEF TypeOK
    <3>2. \A j \in DOMAIN incidents : incidents'[j].lastEscalationAt = incidents[j].lastEscalationAt
      BY <2>1, <3>1 DEF Incident
    <3>3. QED
      BY <2>1, <3>2, MarksKeepTimes
  <2>2. CASE /\ h = "mark_escalation"
             /\ incidents' = [incidents EXCEPT ![call[p].inc].lastEscalationAt = call[p].at]
    <3>1. \A j \in DOMAIN incidents :
            j # i => incidents'[j].lastEscalationAt = incidents[j].lastEscalationAt
      BY <1>2, <1>3, <2>2
    <3>2. QED
      BY <2>2, <3>1, MarksKeepTimes
  <2>3. QED
    BY <1>6, <2>1, <2>2
<1>9. OpenIds' = {i}
  BY <1>5, <1>6, MarksKeepOpen
<1>10. UNCHANGED PresentOutage
  <2>1. PICK s : i \in DOMAIN incidents /\ s = incidents[i].startedAt
    BY <1>5 DEF OpenIds
  <2>2. incidents'[i].startedAt = s
    BY <1>8, <2>1
  <2>3. KindsTold(i)' = KindsTold(i)
    BY <1>7, LogStays
  <2>4. QED
    BY <1>5, <1>9, <2>1, <2>2, <2>3, OneShown, OneShownNext
<1>11. Handled(c) /\ c.pc # "idle"
  BY <1>4, <1>6 DEF Handled
<1>12. UNCHANGED HandledCheck
  BY <1>4, <1>6, <1>11, CheckNext DEF CheckOf
<1>13. UNCHANGED Policy!vars
  BY <1>7, <1>10, <1>12, LogStays DEF Policy!vars
<1>14. Good(c)'
  <2>1. PICK g : g = c.pc /\ g \in {"cool_down", "cool_escalation"} /\ Heading(c) = g
    BY <1>6
  <2>2. Reading(c)'
    BY <2>1 DEF Reading, Loaded
  <2>3. Writing(c)'
    <3>1. g \in Stamping /\ LastAlertedAt' = c.at /\ Right(redis)'
      BY <1>4, <1>6, <1>7, <2>1, LogStays DEF Stamping, Right
    <3>2. QED
      BY <2>1, <3>1 DEF Writing, Heading
  <2>4. FailureHandled(g, c)'
    <3>1. Policy!Down'
      BY <1>4, <1>7 DEF Policy!Down
    <3>2. g \in OnFailure /\ g \notin Fresh /\ g \notin Escalating
      BY <2>1 DEF OnFailure, Fresh, Escalating
    <3>3. QED
      BY <2>1, <3>1, <3>2 DEF FailureHandled, OpenMeansDown
  <2>5. Dutiful(g, c)'
    BY <1>4, <1>6, <1>11, <2>4 DEF Dutiful, Handled
  <2>6. QED
    BY <2>1, <2>2, <2>3, <2>5 DEF Good, Heading
<1>15. Begun' /\ Answering'
  <2>1. \A g, j : Told(g, j)' <=> Told(g, j)
    BY <1>7, LogStays
  <2>2. Begun'
    BY <1>4, <1>8, <2>1, PolicyParts DEF Begun
  <2>3. QED
    BY <1>7, <2>2, PolicyParts DEF Answering
<1>16. PolicyInv'
  BY <1>6, <1>11, <1>14, <1>15, NextCall, PolicyNext
<1>17. QED
  BY <1>13, <1>16 DEF PolicyStep

-----------------------------------------------------------------------------
(* The clock, and the rest of the environment, which stands still           *)

LEMMA PolicyTick ==
  ASSUME TypeOK, OneAtATime, Procs # {}, PolicyInv, Tick
  PROVE  PolicyInv' /\ PolicyStep
<1>1. /\ UNCHANGED <<redisUp, redis, expires, incidents, call, log, streak>>
      /\ now' = now + 1 /\ now \in Nat
  BY DEF Tick, stores, observers, TypeOK
<1>2. PICK p \in Procs : TRUE
  OBVIOUS
<1>3. UNCHANGED HandledCheck
  BY <1>1 DEF HandledCheck
<1>4. Policy!Tick
  BY <1>1, <1>3, ShownStays DEF Policy!Tick
<1>5. PICK b \in Call : b = call[p] /\ Good(b)
  BY CallAtHand
<1>6. Good(b)'
  <2>1. Reading(b)' /\ Writing(b)'
    BY <1>1, <1>5, ShownStaysOpen DEF Good, Reading, Writing, Right, Heading
  <2>2. PICK h : h = Heading(b)
    OBVIOUS
  <2>3. Policy!Cooling(now)' => Policy!Cooling(now)
    <3>1. PICK a \in Nat, n \in Nat, d \in Nat : a = LastAlertedAt /\ n = now /\ d = Cooldown
      BY <1>1, AlertTime, ConfigAssumption DEF ConfigAssumption
    <3>2. LastAlertedAt' = a /\ now' = n + 1
      BY <1>1, <3>1, ShownStaysOpen
    <3>3. QED
      BY <3>1, <3>2 DEF Policy!Cooling
  <2>4. Policy!Cooling(b.at)' <=> Policy!Cooling(b.at)
    BY <1>1, ShownStaysOpen DEF Policy!Cooling
  <2>5. Policy!Down' <=> Policy!Down
    BY <1>1 DEF Policy!Down
  <2>6. Dutiful(h, b)'
    BY <1>1, <1>5, <2>2, <2>3, <2>4, <2>5, ShownStaysOpen
       DEF Good, Dutiful, FailureHandled, OpenMeansDown, Handled
  <2>7. QED
    BY <2>1, <2>2, <2>6 DEF Good, Heading
<1>7. Begun' /\ Answering'
  BY <1>1, <1>2, PolicyParts, ShownStaysOpen DEF Answering
<1>8. call'[p] = b
  BY <1>1, <1>5
<1>9. PolicyInv'
  BY <1>6, <1>7, <1>8, PolicyNext
<1>10. QED
  BY <1>4, <1>9 DEF PolicyStep, Policy!Next

LEMMA PolicyStands ==
  ASSUME Faults = {}, PolicyInv, RedisDown \/ RedisUp \/ Crash \/ BoundReached \/ UNCHANGED vars
  PROVE  PolicyInv' /\ PolicyStep
<1>1. UNCHANGED vars
  BY DEF RedisDown, RedisUp, Crash, BoundReached, PolicyInv, Answering
<1>2. UNCHANGED <<now, redisUp, redis, expires, incidents, call, log, streak>>
  BY <1>1 DEF vars, env, stores, observers
<1>3. ASSUME NEW q \in Procs
      PROVE  Good(call[q])'
  <2>1. PICK b : b = call[q] /\ b = call'[q]
    BY <1>2
  <2>2. Good(b)'
    BY <1>2, <1>3, <2>1, GoodStays DEF PolicyInv
  <2>3. QED
    BY <2>1, <2>2
<1>4. PolicyInv'
  BY <1>2, <1>3, ShownStaysOpen DEF PolicyInv, Answering
<1>5. UNCHANGED Policy!vars
  BY <1>2, ShownStays DEF Policy!vars, HandledCheck
<1>6. QED
  BY <1>4, <1>5 DEF PolicyStep

-----------------------------------------------------------------------------
(* The refinement                                                           *)

LEMMA InitPolicy ==
  ASSUME OneAtATime, Procs # {}
  PROVE  Init => PolicyInv /\ Policy!Init
<1> SUFFICES ASSUME Init PROVE PolicyInv /\ Policy!Init
  OBVIOUS
<1>1. PICK p \in Procs : call[p] = Idle
  BY DEF Init
<1>2. OpenIds = {} /\ LastAlertedAt = 0
  BY DEF Init, OpenIds, LastAlertedAt
<1>3. PresentOutage = Policy!NoOutage /\ HandledCheck = Policy!NoCheck
  BY <1>1, <1>2, NoneShown, CheckIs, IdleIsUnheard
<1>4. Policy!Init
  BY <1>2, <1>3 DEF Init, Policy!Init
<1>5. Good(Idle)
  <2>1. Idle.pc = "idle" /\ Heading(Idle) = "idle" /\ ~Handled(Idle)
    BY IdleHeading, IdleIsUnheard DEF Idle
  <2>2. Reading(Idle)
    BY <2>1 DEF Reading, Loaded
  <2>3. Right(redis) /\ redis.lastAlert = LastAlertedAt
    BY <1>2 DEF Init, Right, ZeroState, NULL
  <2>4. Writing(Idle)
    BY <2>1, <2>3 DEF Writing, Stamping
  <2>5. Dutiful("idle", Idle)
    BY <1>2, <2>1 DEF Dutiful, Unheard, OpenMeansDown
  <2>6. QED
    BY <2>1, <2>2, <2>4, <2>5 DEF Good
<1>6. \A q \in Procs : Good(call[q])
  BY <1>5 DEF Init
<1>7. Begun /\ Answering
  BY DEF Init, Begun, Answering
<1>8. QED
  BY <1>4, <1>6, <1>7 DEF PolicyInv

LEMMA NextPolicy ==
  ASSUME TypeOK, TypeOK', OneAtATime, Procs # {}, Faults = {}, OutageInv, StoryInv, PolicyInv,
         KeysLast, [Next]_vars
  PROVE  PolicyInv' /\ PolicyStep
<1>1. ASSUME NEW p \in Procs, StartCheck(p)
      PROVE  PolicyInv' /\ PolicyStep
  BY <1>1, PolicyStart
<1>2. ASSUME NEW p \in Procs, Step(p)
      PROVE  PolicyInv' /\ PolicyStep
  <2>1. CASE BeginLoad(p) \/ GetFailures(p) \/ GetCooldown(p) \/ GetIsDown(p)
    BY <2>1, PolicyBeginLoad, PolicyRead
  <2>2. CASE Save(p) \/ SaveMemory(p)
    BY <2>2, PolicySave, PolicySaveMemory
  <2>3. CASE HandleRecovery(p) \/ HandleFailure(p)
    BY <2>3, PolicyTake
  <2>4. CASE Judge(p) \/ Weigh(p) \/ SetAlertCooldown(p)
    BY <2>4, PolicyJudge, PolicyWeigh, PolicyStamp
  <2>5. CASE RecoveryLookup(p) \/ AlertLookup(p) \/ CreateLookup(p) \/ EscalateLookup(p)
    BY <2>5, PolicyRecoveryLookup, PolicyAlertLookup, PolicyEscalateLookup
  <2>6. CASE SendDownAlert(p) \/ SendEscalationAlert(p) \/ SendRecoveryAlert(p)
    BY <2>6, PolicySendDown, PolicySendEscalation, PolicySendRecovery
  <2>7. CASE \/ CreateInsert(p) \/ ResolveIncident(p)
             \/ MarkIncidentAlertSent(p) \/ MarkIncidentEscalation(p)
    BY <2>7, PolicyInsert, PolicyResolve, PolicyMark
  <2>8. QED
    BY <1>2, <2>1, <2>2, <2>3, <2>4, <2>5, <2>6, <2>7 DEF Step
<1>3. CASE Tick
  BY <1>3, PolicyTick
<1>4. CASE RedisDown \/ RedisUp \/ Crash \/ BoundReached \/ UNCHANGED vars
  BY <1>4, PolicyStands
<1>5. QED
  BY <1>1, <1>2, <1>3, <1>4 DEF Next

(* All that is known as long as nothing fails                               *)
RulesInv == TypeOK /\ OutageInv /\ StoryInv /\ PolicyInv

LEMMA RulesAlways ==
  ASSUME OneAtATime, Procs # {}, Faults = {}
  PROVE  Spec /\ []KeysLast => []RulesInv
<1>1. RulesInv /\ KeysLast /\ [Next]_vars => RulesInv'
  <2>1. RulesInv /\ [Next]_vars => TypeOK'
    BY NextType, ConfigAssumption DEF RulesInv
  <2>2. RulesInv /\ TypeOK' /\ [Next]_vars => OutageInv' /\ StoryInv'
    BY NextOutage, NextStory DEF RulesInv, OutageInv
  <2>3. RulesInv /\ TypeOK' /\ KeysLast /\ [Next]_vars => PolicyInv'
    BY NextPolicy DEF RulesInv
  <2>4. QED
    BY <2>1, <2>2, <2>3 DEF RulesInv
<1>2. Init => RulesInv
  BY InitType, InitOutage, InitStory, InitPolicy DEF RulesInv
<1>3. QED
  BY <1>1, <1>2, PTL DEF Spec

(* The alert manager keeps the rules of alertmanager.go:35-40 at once, when *)
(* the checks of the site are handled one at a time, nothing fails and the  *)
(* keys in Redis do not expire: with its loads and saves key by key, its    *)
(* lookups and its marks, every step is one of AlertPolicy or shows         *)
(* nothing, and no check ends that owes an alert.                           *)
THEOREM PolicyIsKept ==
  ASSUME OneAtATime, Procs # {}, Faults = {}
  PROVE  Spec /\ []KeysLast => PolicyKept
<1>1. RulesInv /\ RulesInv' /\ KeysLast /\ [Next]_vars => [Policy!Next]_(Policy!vars)
  BY NextPolicy DEF RulesInv, PolicyStep
<1>2. Init => Policy!Init
  BY InitPolicy
<1>3. QED
  BY <1>1, <1>2, RulesAlways, PTL DEF Spec, PolicyKept, Policy!Spec

(* A key lasts for KeyTTL after each save: within that time none expires.   *)
KeysInv == /\ now <= MaxTime \/ now = 1
           /\ expires # 0 => expires > KeyTTL

LEMMA NextKeys ==
  ASSUME TypeOK, KeysInv, [Next]_vars
  PROVE  KeysInv'
<1>1. now \in Nat \ {0} /\ expires \in Nat /\ KeyTTL \in Nat \ {0} /\ MaxTime \in Nat
  BY ConfigAssumption DEF TypeOK, ConfigAssumption
<1>2. /\ now' = now \/ (now < MaxTime /\ now' = now + 1)
      /\ expires' = expires \/ expires' = now + KeyTTL
  <2>1. ASSUME NEW p \in Procs, StartCheck(p) \/ Step(p)
        PROVE  UNCHANGED now /\ (expires' = expires \/ expires' = now + KeyTTL)
    BY <2>1 DEF StartCheck, Step, BeginLoad, GetFailures, GetCooldown, GetIsDown, Save, SaveMemory,
         HandleRecovery, HandleFailure, RecoveryLookup, AlertLookup, CreateLookup, EscalateLookup,
         GetOpenIncident, SendRecoveryAlert, SendDownAlert, SendEscalationAlert, Broadcast,
         ResolveIncident, CreateInsert, MarkIncidentAlertSent, MarkIncidentEscalation, Update,
         Judge, Weigh, SetAlertCooldown, env, stores
  <2>2. CASE Tick \/ RedisDown \/ RedisUp \/ Crash \/ BoundReached \/ UNCHANGED vars
    BY <2>2 DEF Tick, RedisDown, RedisUp, Crash, BoundReached, vars, env, stores
  <2>3. QED
    BY <2>1, <2>2, SMTT(40) DEF Next
<1>3. QED
  BY <1>1, <1>2 DEF KeysInv

(* In particular they are kept as long as no more time goes by than a key   *)
(* lasts (alert_redis.go:13), however rarely the site is checked: without   *)
(* anything being supposed of a behaviour.                                  *)
COROLLARY PolicyIsKeptInTime ==
  ASSUME OneAtATime, Procs # {}, Faults = {}, MaxTime < KeyTTL
  PROVE  Spec => PolicyKept
<1>1. Init => KeysInv
  BY DEF Init, KeysInv
<1>2. TypeOK /\ KeysInv /\ [Next]_vars => KeysInv'
  BY NextKeys
<1>3. TypeOK /\ KeysInv => KeysLast
  BY ConfigAssumption DEF ConfigAssumption, TypeOK, KeysInv, KeysLast
<1>4. QED
  BY <1>1, <1>2, <1>3, PolicyIsKept, TypeCorrect, PTL DEF Spec

-----------------------------------------------------------------------------
(* What a check that ends has not left undone                               *)

LEMMA EndsAfter ==
  ASSUME TypeOK, OneAtATime, Faults = {}, PolicyInv, NEW p \in Procs, Ends(p), [Next]_vars
  PROVE  \/ SaveMemory(p) /\ call[p].ret = "idle"
         \/ Weigh(p) \/ RecoveryLookup(p) \/ EscalateLookup(p) \/ ResolveIncident(p)
<1>1. PICK b \in Call : b = call[p] /\ Good(b)
  BY CallAtHand
<1>2. b.pc # "idle" /\ call'[p].pc = "idle"
  BY <1>1 DEF Ends, At
<1>3. ASSUME NEW c \in Call, Continue(p, c)
      PROVE  c.pc = "idle"
  BY <1>2, <1>3, NextCall
<1>4. ASSUME NEW point \in Points, Goto(p, point)
      PROVE  point = "idle"
  <2> DEFINE c == [b EXCEPT !.pc = point]
  <2>1. c \in Call /\ c.pc = point
    BY DEF Call
  <2>2. Continue(p, c)
    BY <1>1, <1>4 DEF Goto
  <2>3. QED
    BY <1>3, <2>1, <2>2
<1>5. Step(p)
  <2>1. call' # call
    BY <1>1, <1>2
  <2>2. ~(Tick \/ RedisDown \/ RedisUp \/ Crash \/ BoundReached \/ UNCHANGED vars)
    BY <2>1 DEF Tick, RedisDown, RedisUp, Crash, BoundReached, vars
  <2>3. PICK q \in Procs : StartCheck(q) \/ Step(q)
    BY <2>2 DEF Next
  <2>4. q = p
    BY OnlyOne
  <2>5. ~StartCheck(p)
    BY <1>1, <1>2 DEF StartCheck, At
  <2>6. QED
    BY <2>3, <2>4, <2>5
<1>6. ~(BeginLoad(p) \/ GetFailures(p) \/ GetCooldown(p))
  <2>1. BeginLoad(p) => b.pc \in DOMAIN AfterLoad /\ AfterLoad[b.pc] \in Points \ {"idle"}
    BY <1>1 DEF BeginLoad, AfterLoad, Points
  <2>2. ASSUME BeginLoad(p) PROVE FALSE
    <3> DEFINE c == [b EXCEPT !.pc = "get_failures", !.ret = AfterLoad[b.pc], !.st = ZeroState]
    <3>1. c \in Call /\ c.pc = "get_failures"
      BY <2>1, <2>2 DEF Call, Points, ZeroState, AlertState, NULL
    <3>2. Continue(p, c)
      BY <1>1, <2>2, PolicyParts DEF BeginLoad, Answering
    <3>3. QED
      BY <1>3, <3>1, <3>2
  <2>3. ASSUME GetFailures(p) PROVE FALSE
    <3> DEFINE c == [b EXCEPT !.pc = "get_cooldown",
                              !.st.failures = IF Readable THEN redis.failures ELSE @]
    <3>1. c \in Call /\ c.pc = "get_cooldown"
      BY DEF Call, Points, AlertState, TypeOK
    <3>2. Continue(p, c)
      BY <1>1, <2>3 DEF GetFailures
    <3>3. QED
      BY <1>3, <3>1, <3>2
  <2>4. ASSUME GetCooldown(p) PROVE FALSE
    <3> DEFINE c == [b EXCEPT !.pc = "get_isdown",
                              !.st.lastAlert = IF Readable THEN redis.lastAlert ELSE @]
    <3>1. c \in Call /\ c.pc = "get_isdown"
      BY DEF Call, Points, AlertState, TypeOK
    <3>2. Continue(p, c)
      BY <1>1, <2>4 DEF GetCooldown
    <3>3. QED
      BY <1>3, <3>1, <3>2
  <2>5. QED
    BY <2>2, <2>3, <2>4
<1>7. ~GetIsDown(p)
  <2> SUFFICES ASSUME GetIsDown(p) PROVE FALSE
    OBVIOUS
  <2>1. b.ret \in Loaded
    BY <1>1 DEF GetIsDown, At, Good, Reading
  <2> DEFINE c == [b EXCEPT !.pc = b.ret, !.st.isDown = IF Readable THEN redis.isDown ELSE @]
  <2>2. c \in Call /\ c.pc = b.ret
    BY DEF Call, Points, AlertState, TypeOK
  <2>3. Continue(p, c)
    BY <1>1 DEF GetIsDown
  <2>4. c.pc # "idle"
    BY <2>1, <2>2 DEF Loaded
  <2>5. QED
    BY <1>3, <2>2, <2>3, <2>4
<1>8. ~(HandleRecovery(p) \/ HandleFailure(p) \/ SetAlertCooldown(p))
  <2>1. ASSUME NEW s \in AlertState, NEW r \in Points,
               Continue(p, [b EXCEPT !.pc = "save", !.st = s, !.ret = r])
        PROVE  FALSE
    <3> DEFINE c == [b EXCEPT !.pc = "save", !.st = s, !.ret = r]
    <3>1. c \in Call /\ c.pc = "save"
      BY DEF Call, Points
    <3>2. QED
      BY <1>3, <2>1, <3>1
  <2>2. ASSUME HandleRecovery(p) PROVE FALSE
    <3>1. Cleared(b.st) \in AlertState /\ "recovery_lookup" \in Points /\ "idle" \in Points
      BY StatesType DEF Call, Points
    <3>2. QED
      BY <1>1, <2>1, <2>2, <3>1 DEF HandleRecovery
  <2>3. ASSUME HandleFailure(p) PROVE FALSE
    <3>1. Incremented(b.st) \in AlertState /\ "should_alert" \in Points /\ "idle" \in Points
      BY StatesType DEF Call, Points
    <3>2. QED
      BY <1>1, <2>1, <2>3, <3>1 DEF HandleFailure
  <2>4. ASSUME SetAlertCooldown(p) PROVE FALSE
    <3>1. AfterStamp[b.pc] \in Points
      BY <1>1, <2>4 DEF SetAlertCooldown, AfterStamp, Points
    <3> DEFINE c == [b EXCEPT !.pc = "save", !.st.lastAlert = b.at, !.ret = AfterStamp[b.pc]]
    <3>2. c \in Call /\ c.pc = "save"
      BY <3>1 DEF Call, Points, AlertState
    <3>3. Continue(p, c)
      BY <1>1, <2>4 DEF SetAlertCooldown
    <3>4. QED
      BY <1>3, <3>2, <3>3
  <2>5. QED
    BY <2>2, <2>3, <2>4
<1>9. /\ ~Save(p) /\ ~Judge(p) /\ ~MarkIncidentAlertSent(p) /\ ~MarkIncidentEscalation(p)
      /\ SaveMemory(p) => call[p].ret = "idle"
  <2>1. {"save_memory", "escalate_lookup", "alert_lookup", "cool_down", "cool_escalation"} \subseteq Points
    BY DEF Points
  <2>2. Save(p) => Goto(p, "save_memory")
    BY PolicyParts DEF Save, Answering
  <2>3. Judge(p) => Goto(p, "escalate_lookup") \/ Goto(p, "alert_lookup")
    BY DEF Judge
  <2>4. MarkIncidentAlertSent(p) => Goto(p, "cool_down")
    BY DEF MarkIncidentAlertSent, Update
  <2>5. MarkIncidentEscalation(p) => Goto(p, "cool_escalation")
    BY DEF MarkIncidentEscalation, Update
  <2>6. SaveMemory(p) => Goto(p, b.ret) /\ b.ret \in Points
    BY <1>1 DEF SaveMemory, Call
  <2>7. QED
    BY <1>1, <1>4, <2>1, <2>2, <2>3, <2>4, <2>5, <2>6
<1>10. ~(SendDownAlert(p) \/ SendEscalationAlert(p) \/ SendRecoveryAlert(p))
  <2>1. {"mark_sent", "mark_escalation", "cool_recovery"} \subseteq Points
    BY DEF Points
  <2>2. SendDownAlert(p) => Goto(p, "mark_sent")
    BY DEF SendDownAlert, Broadcast, Deliveries
  <2>3. SendEscalationAlert(p) => Goto(p, "mark_escalation")
    BY DEF SendEscalationAlert, Broadcast, Deliveries
  <2>4. SendRecoveryAlert(p) => Goto(p, "cool_recovery")
    BY DEF SendRecoveryAlert, Broadcast, Deliveries
  <2>5. QED
    BY <1>4, <2>1, <2>2, <2>3, <2>4
<1>11. ~(AlertLookup(p) \/ CreateLookup(p) \/ CreateInsert(p))
  <2>1. ASSUME NEW onError \in Points \ Transit, NEW onNone \in Points \ Transit,
               NEW onFound \in [OpenIds -> Points \ Transit],
               onNone # "idle", \A i \in OpenIds : onFound[i] # "idle"
        PROVE  ~GetOpenIncident(p, onError, onNone, onFound)
    <3> SUFFICES ASSUME GetOpenIncident(p, onError, onNone, onFound) PROVE FALSE
      OBVIOUS
    <3>1. PICK c \in Call : /\ MovesOn(p, c)
                            /\ \/ OpenIds = {} /\ c.pc = onNone
                               \/ c.inc \in OpenIds /\ c.pc = onFound[c.inc]
      BY <1>1, <1>2, LookedUp
    <3>2. c.pc # "idle"
      BY <2>1, <3>1
    <3>3. QED
      BY <1>3, <3>1, <3>2 DEF MovesOn
  <2>2. ~AlertLookup(p)
    <3> DEFINE found == [i \in OpenIds |-> IF AlreadyAlerted(i) THEN "escalate_lookup" ELSE "create_lookup"]
    <3>1. found \in [OpenIds -> Points \ Transit] /\ \A i \in OpenIds : found[i] # "idle"
      BY LookupPoints
    <3>2. QED
      BY <2>1, <3>1, LookupPoints DEF AlertLookup
  <2>3. ~CreateLookup(p)
    <3> DEFINE found == [i \in OpenIds |-> "send_down"]
    <3>1. found \in [OpenIds -> Points \ Transit] /\ \A i \in OpenIds : found[i] # "idle"
      BY LookupPoints
    <3>2. QED
      BY <2>1, <3>1, LookupPoints DEF CreateLookup
  <2>4. ~CreateInsert(p)
    <3> SUFFICES ASSUME CreateInsert(p) PROVE FALSE
      OBVIOUS
    <3>1. call[p].pc = "create_insert"
      BY DEF CreateInsert, At
    <3>2. PICK c \in Call : Continue(p, c) /\ c.pc = "send_down"
      BY <3>1, WrittenBy
    <3>3. QED
      BY <1>3, <3>2
  <2>5. QED
    BY <2>2, <2>3, <2>4
<1>12. QED
  BY <1>5, <1>6, <1>7, <1>8, <1>9, <1>10, <1>11 DEF Step

(* A failed check only ends where it has no incident in hand.               *)
LEMMA EndsIdle ==
  ASSUME TypeOK, OneAtATime, Faults = {}, PolicyInv, NEW p \in Procs, Ends(p), ~call[p].up,
         [Next]_vars
  PROVE  /\ Heading(call[p]) \in {"idle", "weigh", "escalate_lookup"} /\ Handled(call[p])
         /\ HandledCheck = [up |-> FALSE, at |-> call[p].at] /\ HandledCheck' = Policy!NoCheck
<1>1. PICK b \in Call : b = call[p] /\ Good(b) /\ HandledCheck = CheckOf(b)
  BY CallAtHand
<1>2. \/ b.pc = "save_memory" /\ b.ret = "idle"
      \/ b.pc \in {"weigh", "recovery_lookup", "escalate_lookup", "resolve"}
  BY <1>1, EndsAfter DEF SaveMemory, Weigh, RecoveryLookup, EscalateLookup, ResolveIncident, At
<1>3. PICK h : h = Heading(b) /\ h \in {"idle", "weigh", "recovery_lookup", "escalate_lookup", "resolve"}
  BY <1>2 DEF Heading, Transit
<1>4. Handled(b)
  <2>1. CASE b.pc = "save_memory" /\ b.ret = "idle"
    BY <2>1 DEF Handled
  <2>2. CASE b.pc \in {"weigh", "recovery_lookup", "escalate_lookup", "resolve"}
    <3>1. h \notin Unheard
      BY <1>3, <2>2 DEF Heading, Transit, Unheard
    <3>2. QED
      BY <1>1, <1>3, <3>1 DEF Good, Dutiful
  <2>3. QED
    BY <1>2, <2>1, <2>2
<1>5. h \in {"idle", "weigh", "escalate_lookup"}
  <2>1. h \in OnFailure
    BY <1>1, <1>3, <1>4 DEF Good, Dutiful, FailureHandled
  <2>2. QED
    BY <1>3, <2>1 DEF OnFailure, Fresh, Escalating
<1>6. HandledCheck = [up |-> FALSE, at |-> b.at]
  <2>1. b.up = FALSE
    BY <1>1 DEF Call
  <2>2. QED
    BY <1>1, <1>4, <2>1 DEF CheckOf
<1>7. HandledCheck' = Policy!NoCheck
  <2>1. PICK d : d = call'[p] /\ d.pc = "idle"
    BY DEF Ends, At
  <2>2. CheckOf(d) = Policy!NoCheck
    BY <2>1 DEF CheckOf, Handled
  <2>3. QED
    BY <2>1, <2>2, CheckIs
<1>8. QED
  BY <1>1, <1>3, <1>4, <1>5, <1>6, <1>7

(* So, of the steps of the policy, it can only be the one that owes nothing.*)
LEMMA EndsDone ==
  ASSUME TypeOK, OneAtATime, Faults = {}, OutageInv, StoryInv, PolicyInv, PolicyStep,
         NEW p \in Procs, Ends(p), ~call[p].up, [Next]_vars
  PROVE  Policy!Failing /\ ~Policy!Owed /\ HandledCheck.at = call[p].at
<1>1. PICK t : t = call[p].at /\ t # NULL
  BY StoryParts DEF Ends, At
<1>2. HandledCheck = [up |-> FALSE, at |-> t] /\ HandledCheck' = Policy!NoCheck
  BY <1>1, EndsIdle
<1>3. HandledCheck # Policy!NoCheck /\ HandledCheck.at = t /\ ~HandledCheck.up
  BY <1>1, <1>2 DEF Policy!NoCheck, NULL
<1>4. Policy!Failing /\ ~Policy!Succeeding
  BY <1>3 DEF Policy!Failing, Policy!Succeeding
<1>5. HandledCheck' # HandledCheck
  BY <1>2, <1>3
<1>6. Policy!Done
  <2>1. ~(UNCHANGED Policy!vars) /\ ~Policy!Open /\ ~Policy!Tick
    BY <1>5 DEF Policy!vars, Policy!Open, Policy!Tick
  <2>2. ~Policy!Announce /\ ~Policy!Escalate /\ ~Policy!Recover
    BY <1>5 DEF Policy!Announce, Policy!Escalate, Policy!Recover, Policy!Tell
  <2>3. ~Policy!Close /\ \A up \in BOOLEAN : ~Policy!Take(up)
    BY <1>3, <1>4 DEF Policy!Close, Policy!Take
  <2>4. QED
    BY <2>1, <2>2, <2>3 DEF PolicyStep, Policy!Next
<1>7. QED
  BY <1>1, <1>3, <1>4, <1>6 DEF Policy!Done

LEMMA CoolingIsLogged ==
  ASSUME TypeOK, NEW t, Policy!Cooling(t)
  PROVE  CoolingAt(t)
<1>1. LastAlertedAt # 0 /\ t - LastAlertedAt < Cooldown
  BY DEF Policy!Cooling
<1>2. PICK k \in DOMAIN log : LastAlertedAt = log[k].checked
  <2>1. log # <<>> /\ log \in Seq(Notification)
    BY <1>1 DEF LastAlertedAt, TypeOK
  <2>2. Len(log) \in DOMAIN log
    BY <2>1
  <2>3. QED
    BY <2>1, <2>2 DEF LastAlertedAt
<1>3. QED
  BY <1>1, <1>2 DEF CoolingAt

LEMMA NothingIsLeft ==
  ASSUME TypeOK, OneAtATime, Faults = {}, OutageInv, StoryInv, PolicyInv, PolicyStep,
         NEW p \in Procs, Ends(p), ~call[p].up, [Next]_vars
  PROVE  /\ streak >= FailureThreshold =>
              \/ \E i \in OpenIds : AlreadyAlerted(i)
              \/ CoolingAt(call[p].at)
         /\ \A i \in OpenIds : \/ call[p].at - incidents[i].startedAt < EscalationThreshold
                               \/ incidents[i].lastEscalationAt # NULL
                               \/ CoolingAt(call[p].at)
<1>1. PICK t : t = call[p].at /\ HandledCheck.at = t
  BY EndsDone
<1>2. /\ Policy!Cooling(t) => CoolingAt(t)
      /\ \/ Policy!Cooling(t)
         \/ ~Policy!StillDown /\ (streak >= FailureThreshold => PresentOutage.told # {})
  BY <1>1, EndsDone, CoolingIsLogged DEF Policy!Owed, Policy!Down
<1>3. ASSUME NEW i \in OpenIds
      PROVE  /\ i \in DOMAIN incidents /\ OpenIds = {i} /\ AlreadyAlerted(i)
             /\ Told("down", i) /\ ~Told("recovery", i)
             /\ Told("escalation", i) => incidents[i].lastEscalationAt # NULL
  <2>1. PICK h : h = Heading(call[p]) /\ h \in {"idle", "weigh", "escalate_lookup"}
    BY EndsIdle
  <2>2. Settled(h, i)
    BY <2>1, StoryParts DEF Sound
  <2>3. /\ incidents[i].alertSentAt # NULL /\ ~Told("recovery", i)
        /\ Told("escalation", i) => incidents[i].lastEscalationAt # NULL
    BY <2>1, <2>2 DEF Settled, Announcing, Recovering
  <2>4. i \in DOMAIN incidents /\ OpenIds = {i}
    BY <1>3, OneIsOpen DEF OpenIds, OutageInv
  <2>5. QED
    BY <2>3, <2>4 DEF AlreadyAlerted, StoryInv, Recorded
<1>4. ASSUME streak >= FailureThreshold, ~Policy!Cooling(t)
      PROVE  \E i \in OpenIds : AlreadyAlerted(i)
  <2>1. OpenIds # {}
    BY <1>2, <1>4, NoneShown DEF Policy!NoOutage
  <2>2. QED
    BY <1>3, <2>1
<1>5. ASSUME NEW i \in OpenIds, ~Policy!Cooling(t), incidents[i].lastEscalationAt = NULL
      PROVE  t - incidents[i].startedAt < EscalationThreshold
  <2>1. PICK s : s = incidents[i].startedAt
    OBVIOUS
  <2>2. PresentOutage = [since |-> s, told |-> KindsTold(i)]
    BY <1>3, <2>1, OneShown
  <2>3. \A g : Told(g, i) <=> g = "down"
    BY <1>3, <1>5, KindsAreKinds, StartsInOrder
  <2>4. KindsTold(i) = {"down"}
    BY <2>3, KindsAreTold
  <2>5. ~(t - s >= EscalationThreshold)
    BY <1>1, <1>2, <1>5, <2>2, <2>4 DEF Policy!StillDown
  <2>6. s \in Nat /\ t \in Nat /\ EscalationThreshold \in Nat
    BY <1>1, <1>3, <2>1, RowTimes, ConfigAssumption DEF TypeOK, Call, ConfigAssumption
  <2>7. QED
    BY <2>1, <2>5, <2>6
<1>6. QED
  BY <1>1, <1>2, <1>4, <1>5

LEMMA EndsInOrder ==
  ASSUME OneAtATime, Procs # {}, Faults = {}, RulesInv, RulesInv', KeysLast, [Next]_vars
  PROVE  /\ \A p \in Procs : Ends(p) /\ ~call[p].up /\ streak >= FailureThreshold =>
              \/ \E i \in OpenIds : AlreadyAlerted(i)
              \/ CoolingAt(call[p].at)
         /\ \A p \in Procs : Ends(p) /\ ~call[p].up => \A i \in OpenIds :
              \/ call[p].at - incidents[i].startedAt < EscalationThreshold
              \/ incidents[i].lastEscalationAt # NULL
              \/ CoolingAt(call[p].at)
<1>1. PolicyStep
  BY NextPolicy DEF RulesInv
<1>2. QED
  BY <1>1, NothingIsLeft DEF RulesInv

(* What the rules say of a check that ends, said of the incidents table: no *)
(* check leaves an outage unannounced, unless the alert before is too       *)
(* recent (alertmanager.go:137-152).                                        *)
THEOREM OutagesAreAnnounced ==
  ASSUME OneAtATime, Procs # {}, Faults = {}
  PROVE  Spec /\ []KeysLast => OutageIsAnnounced
<1>1. RulesInv /\ RulesInv' /\ KeysLast /\ [Next]_vars
        => [\A p \in Procs : Ends(p) /\ ~call[p].up /\ streak >= FailureThreshold =>
              \/ \E i \in OpenIds : AlreadyAlerted(i)
              \/ CoolingAt(call[p].at)]_vars
  BY EndsInOrder
<1>2. QED
  BY <1>1, RulesAlways, PTL DEF Spec, OutageIsAnnounced

(* Nor does it leave one unescalated that has lasted for the escalation     *)
(* threshold (alertmanager.go:154, :165-177).                               *)
THEOREM LongOutagesAreEscalated ==
  ASSUME OneAtATime, Procs # {}, Faults = {}
  PROVE  Spec /\ []KeysLast => LongOutageEscalated
<1>1. RulesInv /\ RulesInv' /\ KeysLast /\ [Next]_vars
        => [\A p \in Procs : Ends(p) /\ ~call[p].up => \A i \in OpenIds :
              \/ call[p].at - incidents[i].startedAt < EscalationThreshold
              \/ incidents[i].lastEscalationAt # NULL
              \/ CoolingAt(call[p].at)]_vars
  BY EndsInOrder
<1>2. QED
  BY <1>1, RulesAlways, PTL DEF Spec, LongOutageEscalated

-----------------------------------------------------------------------------
(* A site that stays monitored.  Its keys do not expire, since the feeder   *)
(* has it checked long before: that they last is no condition any more.     *)

StaysMonitored == [][~DeleteSite]_siteVars

SiteKeysInv ==
  /\ KeysLast /\ redisUp
  /\ monitored \/ (expires = 0 /\ underway = 0 /\ Quiet)

LEMMA LoadPoints == "idle" \notin DOMAIN AfterLoad /\ "dispatch" \notin DOMAIN AfterLoad
  BY DEF AfterLoad

LEMMA StampPoints == DOMAIN AfterStamp = {"stamp_down", "stamp_recovery", "stamp_escalation"}
  BY DEF AfterStamp

LEMMA StepsAreBegun ==
  ASSUME NEW p \in Procs, Step(p)
  PROVE  call[p].pc # "idle"
<1>1. CASE \/ BeginLoad(p) \/ GetFailures(p) \/ GetCooldown(p) \/ GetIsDown(p) \/ Save(p)
           \/ SaveMemory(p) \/ HandleRecovery(p) \/ HandleFailure(p)
  <2>1. BeginLoad(p) => call[p].pc # "idle"
    BY LoadPoints DEF BeginLoad
  <2>2. QED
    BY <1>1, <2>1 DEF GetFailures, GetCooldown, GetIsDown, Save, SaveMemory, HandleRecovery,
         HandleFailure, At
<1>2. CASE SetAlertCooldown(p)
  BY <1>2, StampPoints DEF SetAlertCooldown
<1>3. CASE \/ RecoveryLookup(p) \/ AlertLookup(p) \/ CreateLookup(p) \/ EscalateLookup(p)
           \/ Judge(p) \/ Weigh(p)
  BY <1>3 DEF RecoveryLookup, AlertLookup, CreateLookup, EscalateLookup, Judge, Weigh, At
<1>4. CASE \/ SendRecoveryAlert(p) \/ SendDownAlert(p) \/ SendEscalationAlert(p)
           \/ ResolveIncident(p) \/ CreateInsert(p) \/ MarkIncidentAlertSent(p)
           \/ MarkIncidentEscalation(p)
  BY <1>4 DEF SendRecoveryAlert, SendDownAlert, SendEscalationAlert, ResolveIncident, CreateInsert,
       MarkIncidentAlertSent, MarkIncidentEscalation, At
<1>5. QED
  BY <1>1, <1>2, <1>3, <1>4 DEF Step

LEMMA AtDispatch ==
  ASSUME NEW p \in Procs, Step(p), call[p].pc = "dispatch"
  PROVE  HandleRecovery(p) \/ HandleFailure(p)
<1>1. ~(BeginLoad(p) \/ GetFailures(p) \/ GetCooldown(p) \/ GetIsDown(p) \/ Save(p) \/ SaveMemory(p))
  <2>1. ~BeginLoad(p)
    BY LoadPoints DEF BeginLoad
  <2>2. QED
    BY <2>1 DEF GetFailures, GetCooldown, GetIsDown, Save, SaveMemory, At
<1>2. ~SetAlertCooldown(p)
  BY StampPoints DEF SetAlertCooldown
<1>3. ~(RecoveryLookup(p) \/ AlertLookup(p) \/ CreateLookup(p) \/ EscalateLookup(p) \/ Judge(p) \/ Weigh(p))
  BY DEF RecoveryLookup, AlertLookup, CreateLookup, EscalateLookup, Judge, Weigh, At
<1>4. ~(\/ SendRecoveryAlert(p) \/ SendDownAlert(p) \/ SendEscalationAlert(p)
        \/ ResolveIncident(p) \/ CreateInsert(p) \/ MarkIncidentAlertSent(p)
        \/ MarkIncidentEscalation(p))
  BY DEF SendRecoveryAlert, SendDownAlert, SendEscalationAlert, ResolveIncident, CreateInsert,
       MarkIncidentAlertSent, MarkIncidentEscalation, At
<1>5. QED
  BY <1>1, <1>2, <1>3, <1>4 DEF Step

(* What is handled is counted when it leaves "dispatch", and nowhere else.  *)
LEMMA StreakSteps ==
  ASSUME NEW p \in Procs, Step(p), ~HandleRecovery(p), ~HandleFailure(p)
  PROVE  UNCHANGED streak
<1>1. CASE \/ BeginLoad(p) \/ GetFailures(p) \/ GetCooldown(p) \/ GetIsDown(p) \/ Save(p)
           \/ SaveMemory(p) \/ SetAlertCooldown(p) \/ Judge(p) \/ Weigh(p)
  BY <1>1 DEF BeginLoad, GetFailures, GetCooldown, GetIsDown, Save, SaveMemory, SetAlertCooldown,
       Judge, Weigh, observers
<1>2. CASE \/ RecoveryLookup(p) \/ AlertLookup(p) \/ CreateLookup(p) \/ EscalateLookup(p)
  BY <1>2 DEF RecoveryLookup, AlertLookup, CreateLookup, EscalateLookup, GetOpenIncident, observers
<1>3. CASE \/ SendRecoveryAlert(p) \/ SendDownAlert(p) \/ SendEscalationAlert(p)
           \/ ResolveIncident(p) \/ CreateInsert(p) \/ MarkIncidentAlertSent(p)
           \/ MarkIncidentEscalation(p)
  BY <1>3 DEF SendRecoveryAlert, SendDownAlert, SendEscalationAlert, Broadcast, ResolveIncident,
       CreateInsert, MarkIncidentAlertSent, MarkIncidentEscalation, Update, observers
<1>4. QED
  BY <1>1, <1>2, <1>3 DEF Step

(* Only a save of some goroutine makes keys, which live from then on.       *)
LEMMA SiteKeysWritten ==
  ASSUME TypeOK, Faults = {}, SiteKeysInv, NEW p \in Procs, AlertOn(p) \/ Handle(p)
  PROVE  SiteKeysInv'
<1>1. now \in Nat \ {0} /\ expires \in Nat /\ KeyTTL \in Nat \ {0}
  BY ConfigAssumption DEF TypeOK, ConfigAssumption
<1>2. UNCHANGED monitored
  BY DEF AlertOn, Handle
<1>3. monitored
  <2>1. AlertOn(p) => underway # 0
    BY DEF AlertOn
  <2>2. Step(p) => ~At(p, "idle")
    BY StepsAreBegun DEF At
  <2>3. QED
    BY <2>1, <2>2 DEF Handle, SiteKeysInv, Quiet
<1>4. UNCHANGED <<now, redisUp>> /\ expires' \in {expires, now + KeyTTL}
  BY DEF AlertOn, Handle, StartCheck, Step, BeginLoad, GetFailures, GetCooldown, GetIsDown, Save,
       SaveMemory, HandleRecovery, HandleFailure, RecoveryLookup, AlertLookup, CreateLookup,
       EscalateLookup, GetOpenIncident, SendRecoveryAlert, SendDownAlert, SendEscalationAlert,
       Broadcast, ResolveIncident, CreateInsert, MarkIncidentAlertSent, MarkIncidentEscalation,
       Update, Judge, Weigh, SetAlertCooldown, env, stores
<1>5. QED
  BY <1>1, <1>2, <1>3, <1>4 DEF SiteKeysInv, KeysLast

LEMMA SiteKeysNext ==
  ASSUME TypeOK, Faults = {}, SiteKeysInv, [SiteNext]_allVars, [~DeleteSite]_siteVars
  PROVE  SiteKeysInv'
<1>1. CASE AddSite \/ FeedSite
  <2>1. monitored'
    <3>1. AddSite => monitored'
      BY DEF AddSite
    <3>2. FeedSite => monitored /\ monitored' = monitored
      BY DEF FeedSite
    <3>3. QED
      BY <1>1, <3>1, <3>2
  <2>2. UNCHANGED <<now, redisUp, expires>>
    BY <1>1 DEF AddSite, FeedSite, vars, env, stores
  <2>3. QED
    BY <2>1, <2>2 DEF SiteKeysInv, KeysLast
<1>2. CASE DeleteSite
  <2>1. UNCHANGED siteVars
    BY <1>2
  <2>2. QED
    BY <1>2, <2>1 DEF DeleteSite, siteVars
<1>3. ASSUME NEW p \in Procs, AlertOn(p) \/ Handle(p)
      PROVE  SiteKeysInv'
  BY <1>3, SiteKeysWritten
<1>4. CASE Surroundings
  <2>1. CASE Tick /\ KeysOutlast(now + 1)
    <3>1. /\ now' = now + 1 /\ UNCHANGED <<redisUp, expires, call, monitored, underway>>
      BY <1>4, <2>1 DEF Tick, Surroundings, stores, siteVars
    <3>2. Quiet => Quiet'
      BY <3>1 DEF Quiet, At
    <3>3. expires # 0 => now + 1 < expires
      BY <2>1 DEF KeysOutlast, Readable, SiteKeysInv, KeysLast
    <3>4. QED
      BY <3>1, <3>2, <3>3 DEF SiteKeysInv, KeysLast
  <2>2. CASE RedisDown \/ RedisUp
    BY <2>2 DEF RedisDown, RedisUp, SiteKeysInv
  <2>3. QED
    BY <1>4, <2>1, <2>2 DEF Surroundings
<1>5. CASE SiteBoundReached \/ UNCHANGED allVars
  BY <1>5 DEF SiteBoundReached, BoundReached, allVars, siteVars, vars, env, stores, SiteKeysInv, KeysLast,
              Quiet, At
<1>6. QED
  BY <1>1, <1>2, <1>3, <1>4, <1>5 DEF SiteNext

LEMMA SiteKeysLast ==
  ASSUME Faults = {}
  PROVE  SiteSpec /\ StaysMonitored => []KeysLast
<1>1. SiteInit => SiteKeysInv
  BY DEF SiteInit, Init, SiteKeysInv, KeysLast, Quiet, At, Idle
<1>2. TypeOK /\ SiteKeysInv /\ [SiteNext]_allVars /\ [~DeleteSite]_siteVars => SiteKeysInv'
  BY SiteKeysNext
<1>3. SiteKeysInv => KeysLast
  BY DEF SiteKeysInv
<1>4. QED
  BY <1>1, <1>2, <1>3, SitesAreAlerted, TypeCorrect, PTL DEF SiteSpec, StaysMonitored

(* So a site that is added and never deleted is alerted by the rules of     *)
(* alertmanager.go:35-40, whatever its checks and however time goes by.     *)
THEOREM MonitoredSitesKeepThePolicy ==
  ASSUME OneAtATime, Procs # {}, Faults = {}
  PROVE  SiteSpec /\ StaysMonitored => PolicyKept /\ OutageIsAnnounced /\ LongOutageEscalated
  BY SitesAreAlerted, SiteKeysLast, PolicyIsKept, OutagesAreAnnounced, LongOutagesAreEscalated, PTL

-----------------------------------------------------------------------------
(* Whose outage an escalation is about: after a success, the check that had *)
(* it closes the outage before the next one is looked at.                   *)

UpSinceInv == upSince => streak = 0 /\ OpenIds # {}

LEMMA UpIsRecovering ==
  ASSUME OneAtATime, PolicyInv, UpSinceInv, upSince, NEW p \in Procs
  PROVE  /\ Handled(call[p]) /\ call[p].up
         /\ Heading(call[p]) \in OnSuccess
<1>1. ~Policy!Down
  BY ConfigAssumption DEF ConfigAssumption, UpSinceInv, Policy!Down
<1>2. ~OpenMeansDown
  BY <1>1 DEF UpSinceInv, OpenMeansDown
<1>3. Dutiful(Heading(call[p]), call[p])
  BY DEF PolicyInv, Good
<1>4. QED
  BY <1>2, <1>3 DEF Dutiful, FailureHandled

LEMMA UpSinceNext ==
  ASSUME TypeOK, OneAtATime, PolicyInv, UpSinceInv, [SiteNext]_allVars
  PROVE  UpSinceInv'
<1>1. CASE \/ AddSite \/ FeedSite \/ DeleteSite \/ Surroundings \/ SiteBoundReached
           \/ UNCHANGED allVars
  BY <1>1 DEF AddSite, FeedSite, DeleteSite, Surroundings, SiteBoundReached, Tick, RedisDown, RedisUp,
              BoundReached, allVars, siteVars, vars, observers, UpSinceInv, OpenIds
<1>2. ASSUME NEW p \in Procs, AlertOn(p)
      PROVE  UpSinceInv'
  <2>1. call[p].pc = "idle" /\ UNCHANGED upSince
    BY <1>2 DEF AlertOn, StartCheck, At
  <2>2. ~upSince
    BY <2>1, UpIsRecovering DEF Handled
  <2>3. QED
    BY <2>1, <2>2 DEF UpSinceInv
<1>3. ASSUME NEW p \in Procs, Handle(p), upSince'
      PROVE  streak' = 0 /\ OpenIds' # {}
  <2>1. Step(p) /\ OpenIds' # {} /\ (upSince \/ (call[p].pc = "dispatch" /\ call[p].up))
    BY <1>3 DEF Handle, At
  <2>2. call[p].up
    BY <2>1, UpIsRecovering
  <2>3. HandleRecovery(p) => streak' = 0
    BY DEF HandleRecovery
  <2>4. ~HandleFailure(p)
    BY <2>2 DEF HandleFailure
  <2>5. ASSUME call[p].pc = "dispatch"
        PROVE  HandleRecovery(p)
    BY <2>1, <2>4, <2>5, AtDispatch
  <2>6. ASSUME ~HandleRecovery(p)
        PROVE  streak' = streak
    BY <2>1, <2>4, <2>6, StreakSteps
  <2>7. QED
    BY <2>1, <2>3, <2>5, <2>6 DEF UpSinceInv
<1>4. QED
  BY <1>1, <1>2, <1>3 DEF SiteNext, UpSinceInv

LEMMA WhileDown ==
  ASSUME TypeOK, OneAtATime, PolicyInv, UpSinceInv, [SiteNext]_allVars,
         log' # log, log'[Len(log')].kind = "escalation"
  PROVE  ~upSince
<1>1. PICK p \in Procs : Handle(p)
  BY DEF SiteNext, AddSite, FeedSite, DeleteSite, Surroundings, SiteBoundReached, Tick, RedisDown,
         RedisUp, BoundReached, AlertOn, StartCheck, allVars, vars, observers
<1>2. SendRecoveryAlert(p) \/ SendDownAlert(p) \/ SendEscalationAlert(p)
  BY <1>1
  DEF Handle, Step, BeginLoad, GetFailures, GetCooldown, GetIsDown, Save, SaveMemory, RecoveryLookup,
      HandleRecovery, HandleFailure, AlertLookup, CreateLookup, EscalateLookup, GetOpenIncident,
      ResolveIncident, CreateInsert, MarkIncidentAlertSent, MarkIncidentEscalation, Update, Judge,
      Weigh, SetAlertCooldown, observers
<1>3. ASSUME NEW kind, NEW onSent, NEW onError, Broadcast(p, kind, onSent, onError)
      PROVE  kind = "escalation"
  <2>1. PICK e : log' = Append(log, e) /\ e.kind = kind
    BY <1>3 DEF Broadcast
  <2>2. log'[Len(log')] = e
    BY <2>1 DEF TypeOK
  <2>3. QED
    BY <2>1, <2>2
<1>4. SendEscalationAlert(p)
  BY <1>2, <1>3 DEF SendRecoveryAlert, SendDownAlert
<1>5. call[p].pc = "send_escalation"
  BY <1>4 DEF SendEscalationAlert, At
<1>6. Heading(call[p]) \notin OnSuccess
  BY <1>5 DEF Heading, Transit, OnSuccess, Recovering
<1>7. QED
  BY <1>6, UpIsRecovering

(* An escalation is about an outage that no success has ended               *)
(* (alertmanager.go:39), as long as the keys last, even if the site is      *)
(* deleted and added again: only keys that expired, with the down flag,     *)
(* while an incident is open let a later outage be escalated as that one.   *)
THEOREM EscalationsAreOfThisOutage ==
  ASSUME OneAtATime, Procs # {}, Faults = {}
  PROVE  SiteSpec /\ []KeysLast => EscalatedStillDown
<1>1. SiteInit => UpSinceInv
  BY DEF SiteInit, UpSinceInv
<1>2. RulesInv /\ UpSinceInv /\ [SiteNext]_allVars => UpSinceInv'
  BY UpSinceNext DEF RulesInv
<1>3. RulesInv /\ UpSinceInv /\ [SiteNext]_allVars =>
        [log' # log /\ log'[Len(log')].kind = "escalation" => ~upSince]_allVars
  BY WhileDown DEF RulesInv
<1>4. QED
  BY <1>1, <1>2, <1>3, SitesAreAlerted, RulesAlways, PTL DEF SiteSpec, EscalatedStillDown
=============================================================================
