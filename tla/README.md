# A verification model of Uptime Engine

TLA+ specifications of the engine in this repository, TLC configurations that check
them on small instances, and theorems that TLAPS checks for every value of the constants.
References such as `flusher.go:110` are to the source files of the repository.

Contents: [1 the system](#1-the-system), [2 the modules](#2-the-modules),
[3 what the runs check](#3-what-the-runs-check), [4 what is violated](#4-what-the-code-does-not-keep),
[5 fairness](#5-fairness), [6 proofs](#6-proofs), [7 abstractions](#7-what-the-models-leave-out),
[8 plan](#8-plan).

To check: `tlc -config X.cfg M` for each run of `PROJECT.json`, `tlapm M.tla` for the
modules `AlertManagerProofs`, `IncidentProofs`, `PolicyProofs`, `PingPipelineProofs`,
`PipelineQueueProofs`, `LifecycleProofs`, `HealthCheckProofs` and `DashboardProofs`.

## 1 The system

One Go process, a PostgreSQL database, a Redis server, and a Next.js page.

| component | state | operations | talks to |
|---|---|---|---|
| API (`api/server.go`) | none of its own | add and delete a monitor; read targets, results, logs, incidents, certificate | `active_monitors`, `ping_results`, the jobs channel, per-site metrics |
| Feeder (`worker/feeder.go`) | the targets left in this round | every 30 s reads all targets and sends one job each | database, jobs channel |
| Worker pool (`worker/worker.go`) | the job in hand | HTTP or TCP check, result to a channel, alerting in a goroutine of its own | both channels, alert manager |
| Loop of `main` (`main.go:52-71`) | the result in hand | pushes it to Redis, updates the per-site metrics | results channel, Redis, metrics |
| Redis buffer (`database/redis.go`) | list `ping_buffer` | push, pop | loop of main, flusher |
| Flusher (`worker/flusher.go`) | the popped batch, its context | every 10 s: pop up to 1000, one transaction, requeue on error | Redis, database |
| Alert manager (`notifications/alertmanager.go`) | none; everything is in the stores | `ProcessCheck` per finished check: streak, down alert, escalation, recovery | alert state, incidents, notifiers |
| Alert state (`database/alert_redis.go`) | three keys per site with a TTL, and a copy in memory | load, save, set cooldown | Redis |
| Incidents (`database/incidents.go`) | a row per outage | open, mark alerted, mark escalated, resolve, look up | database |
| Notifiers (`notifications/notifier.go`, `slack.go`, `email_notifier.go`) | none | broadcast to every channel | SMTP, Slack |
| Per-site metrics (`metrics/metrics.go`) | the series of each site | record, delete | Prometheus |
| Retention (`worker/retention.go`) | none | once a day: delete the rows older than `PING_RETENTION_DAYS` | database |
| Collector (`metrics/collector.go`) | none | two gauges | Redis, database |
| Certificate checker (`ssl/checker.go`) | none | one TLS handshake and a verdict | the site |
| Page (`frontend/app`) | lists, selected site, its logs, incidents, certificate | clicks; polling every 5 s | API |

What is hard to test in it, and where (each is a hazard in `PROJECT.json`):

- *Concurrency.* A goroutine per finished check handles the alerts of its site with many
  round trips and no lock (`worker.go:60`): several run for the same site when a
  notification is slow. API requests run against feeder, workers and flusher.
- *Failure.* Redis, PostgreSQL and each notification channel fail independently, at every
  call; the code mostly logs and goes on. The process may die between any two calls.
- *Order.* A failed batch is pushed back to the head of a list whose tail grows; answers
  reach the page in any order.
- *Limits.* Two bounded channels with blocking senders, a pop limit, a context of two minutes,
  keys that expire, thresholds, timeouts of checks, a LIMIT in every list the page shows.

What makes each component correct:

- alerting: no alarm before the threshold, no outage unnoticed, one alert of each kind per
  incident and in order, cooldown, a recovery closes the incident, a closed one stays closed,
  the report of incidents shows the open one;
- checks: none takes longer than its timeout;
- pipeline: each check is stored, once, in order;
- monitors: a monitored target ends with history and metrics, a deleted one falls silent and is forgotten;
- page: it ends with what the tables say about what was selected;
- certificates: verdict, days and certificate agree.

## 2 The modules

| module | models | state |
|---|---|---|
| `AlertManager` | `alertmanager.go` over `alert_redis.go`, `incidents.go`, the notifiers, for one site | goroutines with program counter and locals, Redis keys, memory copy, incidents table, clock |
| `AlertPolicy` | what the alert manager promises (`alertmanager.go:35-40`), without its stores | clock, check, streak, outage, last alert |
| `AlertRefinement` | the mapping by which `AlertManager` implements `AlertPolicy` | |
| `SiteAlerts` | `AlertManager` composed with adding and deleting the site | `AlertManager`'s, and whether the site is monitored, checks under way |
| `IncidentReport` | `api/incidents.go` and the history query, over the rows of `AlertManager` | `AlertManager`'s |
| `PingPipeline` | feeder, API sends, workers, loop of main, Redis list, flusher | channels, list, batch, rows |
| `ResultQueue` | what the way from the loop of main to `ping_results` promises | a queue, what went in, what came out |
| `PipelineRefinement` | the mapping by which `PingPipeline` implements `ResultQueue` | |
| `MonitorLifecycle` | adding and deleting targets against a coarse pipeline and the retention job | tables, series, request handlers, what is in flight |
| `Dashboard` | the page over the read handlers | page state, requests in flight, tables |
| `CertificateCheck` | `ssl/checker.go` | clock, the site's certificate, the check under way |
| `HealthCheck` | `httpCheck` and `tcpCheck` of `worker.go`, beside `CertificateCheck` of the same site | the probe, the kept connection, the latest result |
| `MCAlertManager`, `MCAlertRules`, `MCSiteAlerts`, `MCPingPipeline`, `MCMonitorLifecycle` | symmetry sets and inputs for TLC, modules put together | |
| `AlertManagerProofs`, `IncidentProofs`, `PolicyProofs` | theorems about `AlertManager`, `SiteAlerts`, `IncidentReport` and the refinement of `AlertPolicy` | |
| `PingPipelineProofs`, `PipelineQueueProofs` | theorems about `PingPipeline` and its refinement | |
| `LifecycleProofs` | theorems about `MonitorLifecycle` | |
| `HealthCheckProofs` | theorems about `HealthCheck` and `CertificateCheck` | |
| `DashboardProofs` | theorems about `Dashboard` | |

`PROJECT.json` maps every definition to the lines it stands for. Definitions called
`Mutant...` are plausible bugs: put in place of the definition that follows them, they make
a property fail, which shows that the property says something. They are used by no run.

### AlertManager

A member of `Procs` is a goroutine in `ProcessCheck`. `call[p]` holds its program counter
(`pc`), the arguments (`up`, `at`), the locals (`st`, `inc`) and, while it is in
`LoadAlertState` or `SaveAlertState`, where it returns to (`ret`). Each action is what
happens up to and including one round trip:

| code | actions |
|---|---|
| `worker.go:54-60` | `StartCheck` |
| `LoadAlertState` (a Ping and three GETs) | `BeginLoad`, `GetFailures`, `GetCooldown`, `GetIsDown` |
| `SaveAlertState` | `Save`, `SaveMemory` |
| `handleRecovery` | `HandleRecovery`, `RecoveryLookup`, `SendRecoveryAlert`, `SetAlertCooldown`, `ResolveIncident` |
| `handleFailure`, `ShouldAlert`, `CreateIncident` | `HandleFailure`, `Judge`, `AlertLookup`, `CreateLookup`, `CreateInsert`, `SendDownAlert`, `MarkIncidentAlertSent`, `SetAlertCooldown` |
| `maybeEscalate` | `EscalateLookup`, `Weigh`, `SendEscalationAlert`, `MarkIncidentEscalation`, `SetAlertCooldown` |
| Redis, the process, the clock | `RedisDown`, `RedisUp`, `Crash`, `Tick` |

`Faults` says what may fail: `"redis"`, `"db"` (any statement), `"send"` (any channel),
`"crash"`. The observers `log`, `fails` and `streak` record notifications and the checks handled.

### AlertPolicy and AlertRefinement

`AlertPolicy` states the rules of the comment on `AlertManager` as a specification of its
own: a check is taken up, may open an outage, tells of it, closes it, and is not done while an
alert is owed. Its outage is an incident's row and what was told of it, its cooldown the latest
alert: there are no keys, loads or saves. `AlertRefinement` maps the states of `AlertManager` to it;
`PolicyKept` says that every step of the one is a step, or no step, of the other. The alert
state in Redis, written back as a whole several times per check, is thereby shown to carry the
streak and the down flag correctly.

### SiteAlerts

`AddSite`, `FeedSite` and `DeleteSite` change whether the site is monitored and how many of its
checks are `underway`; `AlertOn` takes one of them to `StartCheck`. The alert state and the
incidents are not touched by a deletion, which is what `DeleteTarget` does. While the site is
monitored and Redis answers, the feeder's rounds (30 s) save the keys long before their TTL (an hour);
`KeysOutlast` keeps the clock from running past it.

### IncidentReport

Operators, no actions: `Answers(n)` is the set of all answers that `GetIncidentsHandler` may give
in the present state of `AlertManager` to a request with limit `n`: `ParseLimit`, the query
(rows with equal `started_at` come in any order), `IncidentToResponse`, `FormatIncidentDuration`.
A tick of the clock is `TickSeconds`, and the answer is computed one of the `Delays` after it, so
that every form of the text occurs.

### PingPipeline

A job is the number under which it entered the jobs channel; its result keeps it.
`FeedRound`/`FeedSend` are `feedTargetsOnce`, `AddMonitor`/`MonitorSend` the API handler,
`TakeJob`/`SendResult` a worker, `TakeResult`/`SaveResult` the loop of main, and `FlushPop`,
`FlushBegin`, `FlushInsert`, `FlushCommit`, `FlushRequeue`, `FlushRequeueEnd` the lines of
`flushToPostgres` and `requeuePingBatch`. `Expire` ends the context that all of a flush
shares, its requeue included. Faults: `"db"` a database call fails; `"ack"` COMMIT succeeds
but its answer is lost; `"redis"` a push or pop fails, before or after it took effect;
`"timeout"`; `"crash"`; `"resend"` the answer to RPUSH, or to the pipeline of LPUSHes, is lost and
go-redis repeats the command (`PushUnheard`, `RequeueAgain`). The observers `pushed` and `missed` record the results that reached the list,
and those whose push failed or that a crash lost.

`ResultQueue` accepts results, delivers some of the oldest as rows, and may lose some of the
oldest, or repeat, where a fault allows it. Under the mapping of `PipelineRefinement` its queue is
what the flusher holds and has not stored or put back, followed by the list; so pop, begin, insert and each
LPUSH of a requeue are no steps at all, and a commit is one delivery.

### MonitorLifecycle

Requests (`Clients`) run the statements of `AddMonitorHandler` and `DeleteMonitorHandler`
one by one while `FeedRound` reads the targets and sends them through the pipeline, which
here is known by targets only. A target is a host with the prefix it was written with,
so that `Normalize` and the three spellings of `DeleteTarget` (`postgres.go:211-225`) can
be told apart. `old` holds the targets all of whose rows are older than the retention: `Age` makes
them so when nothing writes them any more, and `PruneOldPings` is the daily DELETE.

### Dashboard

`waiting` holds requests that wait for one of the browser's `Connections`, `wire` those under
way with the answer once the server has computed it; `Receive...` is what follows each
`await`, in any order. `SelectSite`, `Back`, `AddSite` and `DeleteSite` are the handlers, with
the effects that React runs on a new selection, and `Tick` the two intervals. A request
for a deletion carries the selection its closure saw. `SiteDetail` keeps its state from site
to site and loses it when the dashboard is shown; its requests go on, but of kind `"ignored"`: there is
no component any more that their answers could change.

### CertificateCheck

`Ask` is `Check` up to the dial, `DialRefused`/`DialUnverified`/`DialVerified` the handshake,
`Judge` the rest. The clock may move and the site renew in between.

### HealthCheck

A check goes through the stages `connect`, `handshake`, `headers` and `body`, at each of which
the site may answer, fail, or be silent; `Redirect` starts over with what is left of the
context, `Reconnect` is the transport's second try when a kept connection turns out closed.
`Second` runs the context down. A check that uses a kept connection sees no certificate.
The hours of `CertificateCheck` pass meanwhile.

## 3 What the runs check

| run | instance | properties |
|---|---|---|
| `AlertRules` | one goroutine, nothing fails, 6 checks in 8 ticks, threshold 2, cooldown 2, escalation 3; reports with limits 1 and 2, a tick of 40 minutes | `PolicyKept`, `OutageIsAnnounced`, `LongOutageEscalated`, `OpenOutageIsShown`, `DurationsAgree` |
| `AlertFlakyRedis` | a site added and deleted, one goroutine, 4 checks; Redis comes and goes, keys expire after 2 ticks | `IncidentStory`, `OutagesDoNotOverlap` |
| `AlertFaults` | two goroutines, everything fails, 3 checks, threshold 2 | `TypeOK`, `NoEarlyAlarm`, `EscalationFollowsAlert`, `ResolvedIsFinal` |
| `AlertRecovery` | two goroutines, two channels, one silent and one that may fail or hang, fair | `RecoveryCompletes` |
| `PipelineFaults` | two workers, channels of 1, batches of 2, 5 jobs; database, Redis, context and process fail | `TypeOK`, `CheckedOnce`, `StoredOnceInOrder`, `QueueKept` |
| `PipelineDelivery` | one worker, 3 jobs, transactions fail or commit unheard, pushes are repeated, fair | `DeliveredInOrder`, `EveryCheckIsStored`, `QueueKept` |
| `LifecycleLiveness` | two requests at a time, 4 in all, one crash, both stores fail, retention, fair | `TypeOK`, `MonitoredIsSeen`, `DeletedFallsSilent`, `SilentStaysSilent`, `DeletedIsForgotten` |
| `DashboardConverges` | two sites, two connections, two events (clicks, failed requests, changes elsewhere), fair | `TypeOK`, `PageConverges`, `TruthStays` |
| `CertificateVerdict` | days of two hours, warning one day ahead, certificates of 3 hours, clock of 4; timeout of 2 seconds, one redirect, fair | `TypeOK`, `VerdictIsRight`, `CheckIsBounded`, `CheckEnds` |

The comment above each property says what it means and which lines it is about. Some need
a word:

- `PolicyKept` is the rules of `alertmanager.go:35-40` at full strength; `OutageIsAnnounced` and
  `LongOutageEscalated` say directly what a check may not leave undone. They hold when checks
  of a site do not overlap and nothing fails, and section 4 shows that both conditions are needed.
- `IncidentStory` needs no Redis: the incident row alone keeps alerts from being repeated. It and
  `OutagesDoNotOverlap` survive deletions, since the next check takes up the old incident.
- `OpenOutageIsShown` depends on `OutagesDoNotOverlap`: only because outages follow one another
  is the open incident always the first of the list, so that no limit cuts it off.
- `SilentStaysSilent` says that a deleted target which has fallen silent is woken by nothing but a POST. A job sent
  after an insert that failed would break it; `AddMonitorHandler` returns before (`server.go:57-60`).
- `DeletedIsForgotten` needs the retention job: with `PING_RETENTION_DAYS=0` the rows that a flush writes
  after the deletion stay for ever.
- `TruthStays` is the safety half of `PageConverges`: a page that shows the truth, with no answer under way that is
  about another site or older than the tables (`Settled`), stays so through polls, failures, late answers and leaving
  the site. A page that entered an added site into its list by itself, instead of fetching the list, would break it.
- `NoEarlyAlarm`, `EscalationFollowsAlert` and `ResolvedIsFinal` are what is left with
  overlap and with any fault.
- `DeliveredInOrder` says that rows, batch in hand and list hold every pushed result, in order, if what
  a batch committed unheard repeats is left out. `StoredOnceInOrder` is what is left when
  things are lost; `QueueKept` adds that what is lost was at the head. `StoredInOrder`, exact, is a theorem (section 6).

*Bounds.* Every bound is a constant whose name begins with `Max`, or (`MaxRows` of
`PingPipeline`) defined from one. The interesting cases are inside: a threshold of 2
with 3 checks has one check below and one at it; two goroutines with 3 checks let one finish
and start again beside the other; channels of 1 are full after one send, so every sender
blocks; 5 jobs in batches of 2 make several batches and leave pushes between pop and requeue; two
events are any two clicks, failures and changes, in any order, among the polls; a
clock of 8 covers threshold, escalation and two cooldowns; 6 checks make two incidents, and limits
of 1 and 2 cut the list or do not. One worker is enough in `PipelineDelivery`, where order begins with the
push. `MaxRows` of twice the jobs lets every result be doubled once; one redirect of one allowed is followed, the
next refused. `BoundReached` lets a model whose
bounds are used up stutter, so that TLC still reports a real deadlock. The page, the
health check and the certificate check can always take another step.

## 4 What the code does not keep

Each of these runs checks one property that a comment of the repository states, and TLC
finds a behaviour that breaks it (`findings` in `PROJECT.json`).

| run | states | broken because |
|---|---|---|
| `AlertDuplicateDown` | no duplicate down alert for an open incident (`alertmanager.go:40`) | two goroutines pass the lookup before either marks the row |
| `AlertReadded` | an escalation means that the site is still down (`alertmanager.go:39`) | deletion leaves the open incident and its keys; when the keys have expired, a success of the site added again is no recovery, and its next outage is escalated as the old one |
| `PipelineTimeout` | a failed batch goes back to the list (`flusher.go:32`) | the requeue uses the context whose end made the batch fail |

The models also reach, without a run of its own for each, states that disagree with what the
repository says elsewhere:

- a recovery that is neither announced nor closes the incident (`alertmanager.go:38`): the down flag is
  cleared before the incident is looked up (`:94-104`), so a database error there, or a crash in between, is never
  made up for; the incident stays open until the next outage recovers;
- an incident resolved before it started, with a negative `duration_seconds` (`api/incidents.go:65`): of
  two overlapping checks the recovery may carry the earlier time;
- two open incidents of one site (`incidents.go:44`): lookup and insert are two statements, and
  no index is unique. The next recovery closes both;
- a second alert on a channel within the cooldown (`alertmanager.go:37`): one failing channel makes
  `broadcast` fail, and the channels that delivered are tried again by the next failed check;
- a down alert after a single failure (`alertmanager.go:36`): a success that only the memory copy
  recorded is forgotten when Redis is back with its older keys. This is why `AlertRules` has no
  Redis faults;
- `alert_sent_at` of an incident nobody was told of (`incidents.go:67`): a channel without
  credentials reports success;
- results that are popped and lost although nothing is wrong with the database: an LPOP whose answer is lost
  has removed them (`flusher.go:59`, the fault `"redis"`);
- a site that counts as up although its certificate has expired: the check used a connection that
  was kept (`worker.go:25-27`), while the page, which dials anew, shows the certificate as unavailable;
- jobs that a crash loses: they are in a Go channel, not in a Redis queue (`README.md:11-12`);
- series of a site that was deleted (`metrics.go:127`; the "Total Sites" panel of
  `uptime-operations.json:106-112` counts them): only the spelling of the request is deleted, and results in
  flight bring the series back (`main.go:69`);
- an expired certificate reported as "unavailable": the handshake verifies it first, so the
  branch for "expired" (`checker.go:89-93`) is reached only when a certificate runs out between
  handshake and verdict, or with verification off, as in `checker_test.go:169`.

## 5 Fairness

- `AlertManager`: weak fairness of every goroutine that has begun, except while it sends a down alert
  or an escalation: the Go scheduler runs it again and its call returns. Slack has a timeout (`slack.go:46`),
  Redis too (`alert_redis.go:28`, `:56`, `:82`); `smtp.SendMail` has none, so such a send may hang for ever
  (`MayHang`). `RecoveryCompletes` assumes that the `database/sql` calls and the send of the recovery itself
  return. No check need begin, and time need not pass.
- `PingPipeline`: weak fairness of senders, workers, the loop of main and the flusher; strong
  fairness of the success of each step of a transaction: the database may refuse again and
  again but not for ever. Without it no result need ever be stored.
- `MonitorLifecycle`: the same, coarser, and strong fairness of pushing each target's result:
  Redis does not refuse those of one target for ever. Rows grow old and the retention job runs again
  and again. No request need be made.
- `HealthCheck`: seconds pass while a check runs, and a check whose context has ended fails. The site
  need never do anything.
- `Dashboard`: the intervals fire while the page is open (`page.tsx:137`, `SiteDetail.tsx:121`)
  and requests end, with an answer or (a bounded number of times) an error.

## 6 Proofs

`AlertManagerProofs` proves, for any sets of goroutines and channels, any configuration, any
combination of faults and no bound on checks or time:

- `TypeCorrect`: `TypeOK` always holds. It is inductive; there is a lemma for each group of actions.
- `NoAlarmIsEarly`: `NoEarlyAlarm` always holds. It is not inductive, because a goroutine may
  already be on its way to an alert. The inductive invariant is `AlarmInv`: no copy of the
  streak counter (Redis, memory, the locals of any goroutine) is ahead of the number of
  failed checks handled, and every goroutine *heading* to a step that needs the threshold
  (`Heading` looks through loads and saves to where they return) was sent there when it had
  been reached. So stale, torn and lost states can make an alert late or repeated, never early.
- `ResolvedStaysFinal`: `ResolvedIsFinal` holds of every step, from type correctness: each
  action that writes rows keeps start times and leaves resolved rows alone.
- `EscalationsAreWarranted`: `EscalationFollowsAlert` always holds, by `EscalationInv`: an
  incident marked as alerted was announced, and a goroutine heading to an escalation has read
  such an incident, old enough for the check at hand.

`IncidentProofs` proves, for one check of the site at a time (`OneAtATime`: at most one goroutine), again
for any configuration and number of checks:

- `OutagesFollowOneAnother`: `OutagesDoNotOverlap`, whatever fails. The inductive invariant (`OutageInv`) adds
  that no time in the table is later than that of the
  check at hand (`Past`, `Timely`), and that a goroutine about to insert has seen no open
  row: that lookup and insert are two statements does no harm as long as nobody is in between.
- `DurationsAreRight`: `DurationsAgree` follows from it for every answer of the API; the rest is division.
- `OpenOutagesAreShown`: `OpenOutageIsShown`. While outages follow one another the open incident began after every
  other one (`OpenIsNewest`), so that it is the first row in every order by start time, and the first row is in every
  answer, since a limit is at least 1 (`FirstIsOpen`). Only incidents that begin at the same moment may change places.
- `StoriesAreWhole`: `IncidentStory`, if nothing but Redis fails (`Faults \subseteq {"redis"}`), keys that
  expire at any time included. `StoryInv` relates three things that the code writes one after
  the other: what was sent (the log), what the row says of it (`alert_sent_at`, `last_escalation_at`, `status`), and where the goroutine
  is between them. A failing statement or a crash between the two breaks it, and the story.
- `SitesAreAlerted`: `SiteSpec => Spec`, every step of adding, deleting and feeding the site being a step of the
  alert manager or none of it; so `SiteStoriesAreWhole` says the same of a site that comes and goes.

`PolicyProofs` proves that the code keeps the rules of `AlertPolicy`, for one check of the site at a time, when nothing
fails and the keys have not expired when they are read (`KeysLast`; so it is when a site is checked more often
than once an hour, `alert_redis.go:13`):

- `PolicyIsKept`: `PolicyKept`, the refinement. Each action maps to the step of `AlertPolicy` that it takes, or to
  none. The inductive invariant `PolicyInv` says what the goroutine knows at each point: what a load has read so far
  (`Reading`); that a save writes the true streak, down flag and time of the last alert, and that Redis holds them
  except between an alert and the save of its time (`Writing`); and what the policy knows of the check at hand, the
  way through loads and saves included (`Dutiful`). It needs `OutageInv` and `StoryInv` beside it.
- `PolicyIsKeptInTime`: within one TTL (`MaxTime < KeyTTL`) no key can expire, so that `Spec` alone implies
  `PolicyKept`; the run `AlertRules` is an instance of it.
- `OutagesAreAnnounced`, `LongOutagesAreEscalated`: `OutageIsAnnounced` and `LongOutageEscalated`, which speak of the
  tables and not of the policy. They follow from the refinement: the last step of a failed check changes nothing
  else, so that it can only be the policy's `Done`, which an owed alert or escalation disables.

- `MonitoredSitesKeepThePolicy`: for a site that is added and never deleted (`StaysMonitored`) all three hold with nothing supposed
  of keys or time. `SiteKeysInv` says that there are no keys before the site is added, and that from then on the feeder
  has it checked, and so the keys saved, before they expire (`KeysOutlast`).
- `EscalationsAreOfThisOutage`: as long as keys last, deletions or not, `EscalatedStillDown` holds (`UpSinceInv`: after a
  success, until the outage is closed, the streak is 0 and the check in hand is that success). What `AlertReadded`
  finds is thus due to keys that expire, with the down flag, while an incident is open.

`PingPipelineProofs` proves, for any finite set of workers, any capacity and batch size, and any faults:

- `PipelineTypes`: `TypeOK`, with the flusher's position inside its batch (`InHand`).
- `NoCheckIsDroppedOrDoubled`: `CheckedOnce`. The argument counts: `Copies(j)` adds up how often an id occurs in the channels, with
  the workers, in the loop of main, among the pushed and among the missed. It is 1 for every id that was born and 0 for
  the others, and a step that takes an id out of one place puts it into another.

`PipelineQueueProofs` proves the refinement of `ResultQueue`:

- `PipelineIsAQueue`: `QueueKept`, whatever fails. The initial states map to the initial state, and each action of
  `PingPipeline` to the action of `ResultQueue` that its comment names, or to none. `QueueInv` says how much of
  the batch a requeue has put back and that the list begins with that part in its old order (the lemma
  `PutBackFirst` about LPUSHes in reverse).

It then takes from the refinement what holds under which faults, each by an invariant over the mapped queue:

- `ResultsKeepTheirOrder`: if only database calls fail (`Faults \subseteq {"db"}`), rows, batch and list are always
  exactly the pushed results in order (`StoredInOrder`).
- `NoResultIsDoubledOrOvertaken`: `StoredOnceInOrder`, unless answers are lost after their effect (`"ack"`, `"resend"`).
- `EveryPushIsDeliveredInOrder`: `DeliveredInOrder`, unless Redis fails, the context expires or the process
  crashes; the run `PipelineDelivery` is an instance of it.

`LifecycleProofs` proves, for any hosts, requests, workers, capacity and faults:

- `LifecycleTypes`: `TypeOK`, which needs that a request under way has a target (`HasTarget`).
- `SilenceLasts`: `SilentStaysSilent`. A step at a time: whatever is put into a place came from another one, from the
  body of a POST, or from `monitors`. With `DeletedFallsSilent`, which is liveness and model-checked, it says that deleting works for good.

`HealthCheckProofs` proves, for any timeout and any number of redirects, any length of a day and any warning period:

- `ChecksAreBounded`: `CheckIsBounded` always holds. The inductive invariant is that the time spent and the time left
  add up to the timeout (`AddsUp`), through redirects and reconnections too.
- `CertificateTypes`, `VerdictsAreRight`: `TypeOK` and `VerdictIsRight` of `CertificateCheck`. The invariant adds
  that a certificate which reached the verdict was accepted by the handshake (`SeenIsTrusted`); that hours divided
  into days say neither too much nor too little is a lemma (`DaysTellHours`).

`DashboardProofs` proves, for any sites, any number of connections and any bound on the events:

- `DashboardTypes`: `TypeOK`, which says too that nothing of a site is shown when none is selected. It needs that every request about
  a site names one, and that no request of a `SiteDetail` waits or is under way while no site is selected (`Sound`).
- `TruthIsKept`: `TruthStays`. The proof follows requests and answers as members of two sets, those that are timely
  and those that fit the tables and the selection (`TimelyRequests`, `Fitting`), which change with nothing but these.

The assumptions are the named `ASSUME`s of the modules (positive thresholds and capacities, finitely many workers,
known faults); TLC evaluates them in every run. What a theorem assumes beyond them, about faults or one check at a
time, is in its `ASSUME`, and section 4 has a run that breaks a property where such a condition is dropped.

*Only model-checked:* the liveness properties, since no prover handles fairness. Of two of them the safety half is
proved: `SilentStaysSilent` of `DeletedFallsSilent`, `TruthStays` of `PageConverges`. No module declares a RECURSIVE
operator; nothing is proved by induction over data.

## 7 What the models leave out

- Alerting is per site and every key and row is indexed by it: one site is modelled. What
  two spellings of one host share is in `MonitorLifecycle`.
- The three pipelined SETs are one step. A save whose Ping succeeds and whose pipeline then
  fails has the effect of a save when Redis is down, and is that step.
- Times read back from the database are the times written: that the columns are `TIMESTAMP`
  without time zone (`postgres.go:98`), and a host whose zone is not UTC, are not modelled.
- go-redis repeats a command whose answer was lost up to three times by default; the model
  repeats a push once, and a requeue as often as `MaxRows` allows.
- A proxy (`ProxyFromEnvironment`), HTTP/2 and connections to the hosts that a site redirects to are
  not told apart from connections to the site.
- Entries of `ping_buffer` that do not parse are skipped by the flusher; only `SaveResult` writes
  that list, so there are none.
- Wording of messages, latencies, statistics and rendering of the page, aggregate counters and gauges, and the
  parsing of environment variables are left out.
- The collector (`metrics/collector.go`) sets two gauges nothing depends on; Docker,
  Prometheus and Grafana files are configuration. Neither is modelled.
- Ages of rows are kept per target, not per row: a target has old rows when all of its rows are old, so that the part
  of a monitored target's history that retention removes is not visible.
- A prefix in capitals (`HTTP://`), which `Normalize` accepts and `DeleteTarget` does not know,
  is not among the spellings.
- LIMITs of the queries of results (`postgres.go:155`, `:252`) are never reached in `Dashboard`, where
  the page shows a result of each site; with many sites a rarely checked one drops out of the latest
  800. `checked_at` is the time at which the loop of main takes a result (`main.go:54-56`), so that
  order of rows and order of checks may differ; the models order results by their push.
- The `alive` flag is constant in `Dashboard` (its comment says why).

## 8 Plan

Done: every module of section 2, and a theorem for every safety property that a passing run checks. To do, the most important first:

1. The order of two checks of one site (`OneAtATime` weakened to checks that overlap without overtaking).
2. A history of results with several sites: `checked_at`, the order of overtaking checks, LIMITs over
   all sites, the status the page derives.
3. The JSON forms of `PingResult` and `MonitorJob`, old and new (`models.go:66-137`).
