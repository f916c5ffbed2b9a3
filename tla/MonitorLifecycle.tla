--------------------------- MODULE MonitorLifecycle ---------------------------
(***************************************************************************)
(* The life of a monitored target: it is added and deleted through the API *)
(* (api/server.go over database/postgres.go) while the feeder, the workers,*)
(* the loop of main, and the flusher (see PingPipeline) are busy with it,  *)
(* and leaves traces in active_monitors, ping_results and the per-site     *)
(* metrics, until the retention job (worker/retention.go) removes the rows.*)
(* Here a check is known by its target, the order of the results *)
(* and their number do not matter, and a flush is popped as a whole.       *)
(***************************************************************************)
EXTENDS Integers, Sequences, FiniteSets

CONSTANTS
  Hosts,        \* host names, each of which can be spelled in three ways
  Clients,      \* requests that can be in progress at one time
  Workers,      \* the goroutines of the worker pool
  Capacity,     \* of both channels
  Posts,        \* the jobs that POST /api/monitor is called with
  Deletes,      \* the targets that DELETE /api/monitor is called with
  Retention,    \* PING_RETENTION_DAYS is more than 0
  Faults,       \* which of "db", "redis", "crash" can happen
  MaxRequests,  \* bound on the number of requests
  MaxCrashes    \* bound on the number of crashes

(* A target is a host with the prefix it was written with.                  *)
Schemes == {"", "http://", "https://"}

Target == [scheme : Schemes, host : Hosts]

(* The jobs that Valid accepts; the others change nothing.                  *)
MonitorJob == [type : {"HTTP", "HTTPS", "TCP"}, target : Target]

ASSUME LifecycleAssumption ==
  /\ "" \notin Hosts
  /\ Capacity \in Nat \ {0}
  /\ Posts \subseteq MonitorJob
  /\ Deletes \subseteq Target
  /\ Retention \in BOOLEAN
  /\ Faults \subseteq {"db", "redis", "crash"}
  /\ MaxRequests \in Nat
  /\ MaxCrashes \in Nat

VARIABLES
  monitors,   \* active_monitors
  rows,       \* targets with rows in ping_results
  old,        \* those of them whose rows are all older than the retention
  series,     \* targets with per-site metrics
  handler,    \* what each request in progress has still to do
  feeding,    \* targets the feeder still has to send in this round
  jobs,       \* the jobs channel
  worker,     \* the target each worker is checking
  results,    \* the results channel
  recording,  \* the target whose metrics main's loop has still to record
  buffer,     \* targets with results in ping_buffer
  batch,      \* targets with results in the hands of the flusher
  asked,      \* observer: requests made
  crashes     \* observer: crashes so far

tables == <<monitors, rows, old>>
pool == <<jobs, worker, results, recording>>
flushing == <<buffer, batch>>
observers == <<asked, crashes>>
vars == <<tables, series, handler, feeding, pool, flushing, observers>>

-----------------------------------------------------------------------------
(* "No target"                                                              *)
None == [scheme |-> "", host |-> ""]

Handler == [pc : {"idle", "enqueue", "drop_monitors", "drop_metrics"}, url : Target \cup {None}]

NoRequest == [pc |-> "idle", url |-> None]

(* Definitions named Mutant... are plausible bugs: each stands in for the   *)
(* definition below it in the run that shows a property can be broken.      *)
MutantNormalizeByName(job) == [job.target EXCEPT !.scheme = job.type]

(* Normalize: an HTTP or HTTPS job without a prefix gets that of its type   *)
Normalize(job) ==
  IF job.type = "TCP" \/ job.target.scheme # "" THEN job.target
  ELSE [job.target EXCEPT !.scheme = IF job.type = "HTTPS" THEN "https://" ELSE "http://"]

(* DeleteTarget works on the bare, the http and the https form of any of them *)
Spellings(url) == {t \in Target : t.host = url.host}

(* Everything on its way from the feeder to the table                       *)
InFlight ==
  feeding \cup {jobs[k] : k \in DOMAIN jobs} \cup {worker[w] : w \in Workers}
    \cup {results[k] : k \in DOMAIN results} \cup {recording} \cup buffer \cup batch

-----------------------------------------------------------------------------
(* AddMonitorHandler: the target is inserted unless it is there, in which   *)
(* case, or if the insert fails, the client is told so and nothing is done. *)

Request(c) ==
  /\ handler[c] = NoRequest
  /\ asked < MaxRequests
  /\ asked' = asked + 1

Respond(c) == handler' = [handler EXCEPT ![c] = NoRequest]

MutantAddTargetAnyway(c) ==
  /\ Request(c)
  /\ \E job \in Posts :
       LET t == Normalize(job) IN
       /\ monitors' = monitors \cup {t} \/ ("db" \in Faults /\ UNCHANGED monitors)
       /\ handler' = [handler EXCEPT ![c] = [pc |-> "enqueue", url |-> t]]
  /\ UNCHANGED <<rows, old, series, feeding, pool, flushing, crashes>>

AddTarget(c) ==
  /\ Request(c)
  /\ \E job \in Posts :
       LET t == Normalize(job) IN
       \/ /\ t \notin monitors
          /\ monitors' = monitors \cup {t}
          /\ handler' = [handler EXCEPT ![c] = [pc |-> "enqueue", url |-> t]]
       \/ /\ t \in monitors \/ "db" \in Faults
          /\ UNCHANGED <<monitors, handler>>
  /\ UNCHANGED <<rows, old, series, feeding, pool, flushing, crashes>>

Enqueue(t) == Len(jobs) < Capacity /\ jobs' = Append(jobs, t)

AddMonitorEnqueue(c) ==
  /\ handler[c].pc = "enqueue"
  /\ Enqueue(handler[c].url)
  /\ Respond(c)
  /\ UNCHANGED <<tables, series, feeding, worker, results, recording, flushing, observers>>

(* DeleteMonitorHandler: DeleteTarget's two statements, each of which can   *)
(* fail and ends the request then, and DeleteSiteMetrics with the url as    *)
(* the client wrote it.                                                     *)
DropRows(c) ==
  /\ Request(c)
  /\ \E url \in Deletes :
       \/ /\ rows' = rows \ Spellings(url) /\ old' = old \ Spellings(url)
          /\ handler' = [handler EXCEPT ![c] = [pc |-> "drop_monitors", url |-> url]]
       \/ "db" \in Faults /\ UNCHANGED <<rows, old, handler>>
  /\ UNCHANGED <<monitors, series, feeding, pool, flushing, crashes>>

DropMonitors(c) ==
  /\ handler[c].pc = "drop_monitors"
  /\ \/ /\ monitors' = monitors \ Spellings(handler[c].url)
        /\ handler' = [handler EXCEPT ![c].pc = "drop_metrics"]
     \/ "db" \in Faults /\ Respond(c) /\ UNCHANGED monitors
  /\ UNCHANGED <<rows, old, series, feeding, pool, flushing, observers>>

DropMetrics(c) ==
  /\ handler[c].pc = "drop_metrics"
  /\ series' = series \ {handler[c].url}
  /\ Respond(c)
  /\ UNCHANGED <<tables, feeding, pool, flushing, observers>>

-----------------------------------------------------------------------------
(* feedTargetsOnce: the targets are read once per round, and sent one by    *)
(* one, however long the channel makes it wait.                             *)

MutantFeedRoundNewOnly ==
  /\ feeding = {} /\ monitors # {}
  /\ feeding' = monitors \ rows
  /\ UNCHANGED <<tables, series, handler, pool, flushing, observers>>

MutantFeedRoundWithHistory ==
  /\ feeding = {} /\ monitors \cup rows # {}
  /\ feeding' = monitors \cup rows
  /\ UNCHANGED <<tables, series, handler, pool, flushing, observers>>

FeedRound ==
  /\ feeding = {} /\ monitors # {}
  /\ feeding' = monitors
  /\ UNCHANGED <<tables, series, handler, pool, flushing, observers>>

FeedSend ==
  /\ \E t \in feeding : Enqueue(t) /\ feeding' = feeding \ {t}
  /\ UNCHANGED <<tables, series, handler, worker, results, recording, flushing, observers>>

TakeJob(w) ==
  /\ worker[w] = None /\ jobs # <<>>
  /\ worker' = [worker EXCEPT ![w] = Head(jobs)]
  /\ jobs' = Tail(jobs)
  /\ UNCHANGED <<tables, series, handler, feeding, results, recording, flushing, observers>>

SendResult(w) ==
  /\ worker[w] # None /\ Len(results) < Capacity
  /\ results' = Append(results, worker[w])
  /\ worker' = [worker EXCEPT ![w] = None]
  /\ UNCHANGED <<tables, series, handler, feeding, jobs, recording, flushing, observers>>

(* The loop of main: the result goes to ping_buffer, if Redis takes it, and *)
(* then, in any case, into the metrics of its site.                         *)
SaveResult ==
  /\ recording = None /\ results # <<>>
  /\ recording' = Head(results)
  /\ results' = Tail(results)
  /\ \/ buffer' = buffer \cup {recording'}
     \/ "redis" \in Faults /\ UNCHANGED buffer
  /\ UNCHANGED <<tables, series, handler, feeding, jobs, worker, batch, observers>>

RecordSiteCheck ==
  /\ recording # None
  /\ series' = series \cup {recording}
  /\ recording' = None
  /\ UNCHANGED <<tables, handler, feeding, jobs, worker, results, flushing, observers>>

(* flushToPostgres: the list is popped, and the batch committed or requeued *)
FlushPop ==
  /\ batch = {} /\ buffer # {}
  /\ batch' = buffer
  /\ buffer' = {}
  /\ UNCHANGED <<tables, series, handler, feeding, pool, observers>>

FlushCommit ==
  /\ batch # {}
  /\ rows' = rows \cup batch /\ old' = old \ batch
  /\ batch' = {}
  /\ UNCHANGED <<monitors, series, handler, feeding, pool, buffer, observers>>

FlushRequeue ==
  /\ "db" \in Faults /\ batch # {}
  /\ buffer' = buffer \cup batch
  /\ batch' = {}
  /\ UNCHANGED <<tables, series, handler, feeding, pool, observers>>

-----------------------------------------------------------------------------
(* Time passes.  A target that is monitored, or has a check on its way, has *)
(* rows that are far younger than the retention.                            *)
Age(t) ==
  /\ t \in rows \ (old \cup monitors \cup InFlight)
  /\ old' = old \cup {t}
  /\ UNCHANGED <<monitors, rows, series, handler, feeding, pool, flushing, observers>>

(* pruneOldPingsOnce, when its DELETE succeeds                              *)
MutantPruneMonitored ==
  /\ Retention /\ old \cap monitors # {}
  /\ rows' = rows \ (old \cap monitors) /\ old' = old \ monitors
  /\ UNCHANGED <<monitors, series, handler, feeding, pool, flushing, observers>>

PruneOldPings ==
  /\ Retention /\ old # {}
  /\ rows' = rows \ old /\ old' = {}
  /\ UNCHANGED <<monitors, series, handler, feeding, pool, flushing, observers>>

-----------------------------------------------------------------------------
(* The process ends and is started again: only the tables and ping_buffer   *)
(* survive.                                                                 *)
Crash ==
  /\ "crash" \in Faults /\ crashes < MaxCrashes
  /\ crashes' = crashes + 1
  /\ series' = {} /\ feeding' = {} /\ jobs' = <<>> /\ results' = <<>>
  /\ handler' = [c \in Clients |-> NoRequest]
  /\ worker' = [w \in Workers |-> None]
  /\ recording' = None /\ batch' = {}
  /\ UNCHANGED <<tables, buffer, asked>>

Settled == InFlight = {None} /\ \A c \in Clients : handler[c] = NoRequest

(* Nothing is monitored and MaxRequests are made: the model stops.          *)
BoundReached ==
  /\ Settled /\ monitors = {} /\ asked = MaxRequests
  /\ UNCHANGED vars

Init ==
  /\ monitors = {} /\ rows = {} /\ old = {} /\ series = {}
  /\ handler = [c \in Clients |-> NoRequest]
  /\ feeding = {} /\ jobs = <<>> /\ results = <<>>
  /\ worker = [w \in Workers |-> None]
  /\ recording = None
  /\ buffer = {} /\ batch = {}
  /\ asked = 0 /\ crashes = 0

Add(c) == AddTarget(c) \/ AddMonitorEnqueue(c)

Delete(c) == DropRows(c) \/ DropMonitors(c) \/ DropMetrics(c)

Work(w) == TakeJob(w) \/ SendResult(w)

Next ==
  \/ \E c \in Clients : Add(c) \/ Delete(c)
  \/ FeedRound \/ FeedSend \/ \E w \in Workers : Work(w)
  \/ SaveResult \/ RecordSiteCheck \/ FlushPop \/ FlushCommit \/ FlushRequeue
  \/ \E t \in Target : Age(t)
  \/ PruneOldPings \/ Crash \/ BoundReached

Spec == Init /\ [][Next]_vars

(* Goroutines and tickers go on, and time passes; requests are made at      *)
(* will; neither Redis nor the database refuses for ever.                   *)
Fairness ==
  /\ \A c \in Clients :
       WF_vars(AddMonitorEnqueue(c)) /\ WF_vars(DropMonitors(c)) /\ WF_vars(DropMetrics(c))
  /\ WF_vars(FeedRound) /\ WF_vars(FeedSend)
  /\ \A w \in Workers : WF_vars(Work(w))
  /\ WF_vars(SaveResult) /\ WF_vars(RecordSiteCheck) /\ WF_vars(FlushPop)
  /\ \A t \in Target : SF_vars(SaveResult /\ recording' = t /\ t \in buffer')
  /\ SF_vars(FlushCommit)
  /\ \A t \in Target : WF_vars(Age(t))
  /\ WF_vars(PruneOldPings)

FairSpec == Spec /\ Fairness

-----------------------------------------------------------------------------
TypeOK ==
  /\ monitors \subseteq Target /\ rows \subseteq Target /\ old \subseteq rows /\ series \subseteq Target
  /\ handler \in [Clients -> Handler]
  /\ feeding \subseteq Target
  /\ jobs \in Seq(Target) /\ results \in Seq(Target)
  /\ worker \in [Workers -> Target \cup {None}] /\ recording \in Target \cup {None}
  /\ buffer \subseteq Target /\ batch \subseteq Target
  /\ asked \in Nat /\ crashes \in Nat

(* A target that stays monitored ends with history and with metrics, and    *)
(* keeps them, whatever was deleted, lost or refused before: the feeder     *)
(* makes up for jobs and results that were lost (feeder.go:28-44), and no   *)
(* deletion is left that could take them away (server.go:92-96).            *)
MonitoredIsSeen ==
  \A t \in Target : <>[](t \in monitors) => <>[](t \in rows /\ t \in series)

(* A target that stays deleted falls silent: no round of the feeder, job,   *)
(* result or batch of it is left in the end, although all of them outlive   *)
(* the DELETE request (server.go:92).                                       *)
DeletedFallsSilent ==
  \A t \in Target : <>[](t \notin monitors) => <>[](t \notin InFlight)

(* Nothing of a target that is not monitored is under way: no round of the  *)
(* feeder, no job that a request has still to send, no check, no result.    *)
Silent(t) ==
  /\ t \notin monitors \cup InFlight
  /\ \A c \in Clients : handler[c].pc = "enqueue" => handler[c].url # t

(* Once it has fallen silent it stays so until it is added again, and till  *)
(* then no row and no metrics of it appear: no restart, requeued batch or   *)
(* round of the feeder wakes it, whatever the deletion has left behind of   *)
(* it in the tables (feeder.go:28-44, flusher.go:108-119, server.go:92-96). *)
SilentStaysSilent ==
  [][\A t \in Target : Silent(t) =>
       /\ Silent(t)' \/ t \in monitors'
       /\ t \in rows' => t \in rows
       /\ t \in series' => t \in series]_vars

(* And it is forgotten: rows that a late flush has written after the DELETE *)
(* are removed in the end, by the retention job, which knows nothing of     *)
(* monitors, and by nothing else (postgres.go:227, retention.go:41).        *)
DeletedIsForgotten ==
  \A t \in Target : <>[](t \notin monitors) => <>[](t \notin rows)
=============================================================================
