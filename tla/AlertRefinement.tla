---------------------------- MODULE AlertRefinement ----------------------------
(***************************************************************************)
(* AlertManager implements AlertPolicy as long as one goroutine at a time  *)
(* handles the checks of a site, nothing fails and no key expires between  *)
(* them.  The mapping reads the outage from the incidents table, what was  *)
(* told of it from the notifications that were sent, and looks through the *)
(* loads, saves and lookups between the steps that matter.                 *)
(***************************************************************************)
EXTENDS AlertManager

(* The goroutine that there is                                              *)
Sole == CHOOSE p \in Procs : TRUE

(* From HandleFailure or HandleRecovery on; before that the check waits for *)
(* its first LoadAlertState.                                                *)
HandledCheck ==
  IF call[Sole].pc \in {"idle", "process_check"} \/ call[Sole].ret = "dispatch"
  THEN [up |-> FALSE, at |-> 0]
  ELSE [up |-> call[Sole].up, at |-> call[Sole].at]

KindsTold(i) == {log[k].kind : k \in {n \in DOMAIN log : log[n].inc = i}}

PresentOutage ==
  IF OpenIds = {} THEN [since |-> 0, told |-> {}]
  ELSE LET i == CHOOSE j \in LatestOpen : TRUE IN
       [since |-> incidents[i].startedAt, told |-> KindsTold(i)]

LastAlertedAt == IF log = <<>> THEN 0 ELSE log[Len(log)].checked

Policy ==
  INSTANCE AlertPolicy WITH
    clock <- now, check <- HandledCheck, outage <- PresentOutage, alerted <- LastAlertedAt

(* Everything that alertmanager.go:35-40 promises, at once: the streak      *)
(* before a down alert, the cooldown, recovery, escalation only while still *)
(* down, no second down alert, and no check that ends while an alert is     *)
(* owed.  In particular the alert state in Redis, which every check reads   *)
(* and writes several times, never loses a failure or a down flag.          *)
PolicyKept == Policy!Spec
=============================================================================
