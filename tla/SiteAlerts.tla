------------------------------- MODULE SiteAlerts -------------------------------
(***************************************************************************)
(* The life of a monitored site together with its alerts: MonitorLifecycle *)
(* and AlertManager composed for one spelling of one site.  Checks come    *)
(* only from the jobs that the API and the feeder send while the site is   *)
(* monitored, but a job that was sent outlives the deletion, and the alert *)
(* state in Redis and the incidents outlive the site: DeleteTarget knows   *)
(* two tables and DeleteSiteMetrics the metrics.  The process does not     *)
(* crash here.                                                             *)
(***************************************************************************)
EXTENDS AlertManager

CONSTANT MaxUnderway  \* bound on the checks of the site between feeder and alerting

ASSUME SiteAssumption == MaxUnderway \in Nat \ {0}

VARIABLES
  monitored,  \* the site is in active_monitors
  underway,   \* jobs and results of the site that wait for their alerting
  upSince     \* observer: a check has succeeded since the open incident began

siteVars == <<monitored, underway, upSince>>
allVars == <<vars, siteVars>>

-----------------------------------------------------------------------------
SendJob == underway < MaxUnderway /\ underway' = underway + 1

(* AddMonitorHandler for a target that is not there: insert, and one job    *)
AddSite ==
  /\ ~monitored /\ monitored' = TRUE
  /\ SendJob
  /\ UNCHANGED <<vars, upSince>>

(* feedTargetsOnce                                                          *)
FeedSite ==
  /\ monitored /\ SendJob
  /\ UNCHANGED <<vars, monitored, upSince>>

(* DeleteMonitorHandler                                                     *)
DeleteSite ==
  /\ monitored /\ monitored' = FALSE
  /\ UNCHANGED <<vars, underway, upSince>>

(* A worker has the result of a job and starts its alerting.                *)
AlertOn(p) ==
  /\ underway > 0 /\ underway' = underway - 1
  /\ StartCheck(p)
  /\ UNCHANGED <<monitored, upSince>>

Handle(p) ==
  /\ Step(p)
  /\ upSince' = ((upSince \/ (At(p, "dispatch") /\ call[p].up)) /\ OpenIds' # {})
  /\ UNCHANGED <<monitored, underway>>

(* A round of the feeder comes every 30 seconds and the keys live an hour:  *)
(* while the site is monitored and Redis answers they are saved in time.    *)
KeysOutlast(t) == monitored /\ Readable => t < expires

Surroundings ==
  /\ (Tick /\ KeysOutlast(now + 1)) \/ RedisDown \/ RedisUp
  /\ UNCHANGED siteVars

SiteBoundReached == BoundReached /\ UNCHANGED siteVars

SiteInit == Init /\ monitored = FALSE /\ underway = 0 /\ upSince = FALSE

SiteNext ==
  \/ AddSite \/ FeedSite \/ DeleteSite
  \/ \E p \in Procs : AlertOn(p) \/ Handle(p)
  \/ Surroundings \/ SiteBoundReached

SiteSpec == SiteInit /\ [][SiteNext]_allVars

-----------------------------------------------------------------------------
(* An escalation is about a site that is still down: no check of it has     *)
(* succeeded since the incident began (alertmanager.go:39).                 *)
EscalatedStillDown ==
  [][log' # log /\ log'[Len(log')].kind = "escalation" => ~upSince]_allVars
=============================================================================
