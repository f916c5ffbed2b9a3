------------------------------ MODULE AlertPolicy ------------------------------
(***************************************************************************)
(* What the alert manager promises for one site: the rules of              *)
(* alertmanager.go:35-40, without Redis, rows, goroutines or round trips.  *)
(* A check is handled in a few steps: it counts, it may open or close an   *)
(* outage, each alert is one step, and it is not done while one is owed.   *)
(***************************************************************************)
EXTENDS Integers

CONSTANTS FailureThreshold, Cooldown, EscalationThreshold

VARIABLES
  clock,    \* the time
  check,    \* the check being handled
  streak,   \* failed checks in a row
  outage,   \* since when the site is down, and what was told of that
  alerted   \* time of the check that led to the latest alert

vars == <<clock, check, streak, outage, alerted>>

NoCheck == [up |-> FALSE, at |-> 0]

NoOutage == [since |-> 0, told |-> {}]

Succeeding == check # NoCheck /\ check.up

Failing == check # NoCheck /\ ~check.up

(* Cooldown between alerts for the same site                                *)
Cooling(t) == alerted # 0 /\ t - alerted < Cooldown

Down == streak >= FailureThreshold

StillDown == outage.told = {"down"} /\ check.at - outage.since >= EscalationThreshold

(* The result of a check that was made some time ago is taken up.           *)
Take(up) ==
  /\ check = NoCheck
  /\ \E t \in 1 .. clock : check' = [up |-> up, at |-> t]
  /\ streak' = IF up THEN 0 ELSE streak + 1
  /\ UNCHANGED <<clock, outage, alerted>>

Open ==
  /\ Failing /\ Down /\ outage = NoOutage /\ ~Cooling(clock)
  /\ outage' = [since |-> check.at, told |-> {}]
  /\ UNCHANGED <<clock, check, streak, alerted>>

Tell(kind) ==
  /\ outage' = [outage EXCEPT !.told = @ \cup {kind}]
  /\ alerted' = check.at
  /\ UNCHANGED <<clock, check, streak>>

(* A down alert only after FailureThreshold failures in a row, and only one *)
Announce ==
  /\ Failing /\ Down /\ outage # NoOutage /\ outage.told = {} /\ ~Cooling(clock)
  /\ Tell("down")

(* An escalation if the site is still down past the threshold               *)
Escalate == Failing /\ StillDown /\ ~Cooling(clock) /\ Tell("escalation")

(* A recovery alert when the site comes back after being down; the cooldown *)
(* does not hold it back.                                                   *)
Recover ==
  /\ Succeeding /\ "down" \in outage.told /\ "recovery" \notin outage.told
  /\ Tell("recovery")

(* That ends the outage, and the check.                                     *)
Close ==
  /\ Succeeding /\ "recovery" \in outage.told
  /\ outage' = NoOutage /\ check' = NoCheck
  /\ UNCHANGED <<clock, streak, alerted>>

(* What a check must not leave undone.  A cooldown that was over when the   *)
(* check was made is no excuse.                                             *)
Owed ==
  \/ Succeeding /\ outage # NoOutage
  \/ Failing /\ ~Cooling(check.at) /\ ((Down /\ outage.told = {}) \/ StillDown)

Done ==
  /\ check # NoCheck /\ ~Owed
  /\ check' = NoCheck
  /\ UNCHANGED <<clock, streak, outage, alerted>>

Tick == clock' = clock + 1 /\ UNCHANGED <<check, streak, outage, alerted>>

Init == clock = 1 /\ check = NoCheck /\ streak = 0 /\ outage = NoOutage /\ alerted = 0

Next ==
  \/ \E up \in BOOLEAN : Take(up)
  \/ Open \/ Announce \/ Escalate \/ Recover \/ Close \/ Done \/ Tick

Spec == Init /\ [][Next]_vars
=============================================================================
