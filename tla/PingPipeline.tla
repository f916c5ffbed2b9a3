----------------------------- MODULE PingPipeline -----------------------------
(***************************************************************************)
(* The way of a health check through the engine, from the feeder and the   *)
(* API to the ping_results table: main.go, worker/feeder.go,               *)
(* worker/worker.go, worker/flusher.go and database/redis.go.              *)
(*                                                                         *)
(*   feeder, API -> jobs -> workers -> results -> processor                *)
(*                                  -> ping_buffer (Redis) -> flusher -> rows *)
(*                                                                         *)
(* jobs and results are Go channels in memory; ping_buffer and the rows    *)
(* outlive the process.  A job is known by the order in which it entered   *)
(* the jobs channel; its result keeps that number.                         *)
(***************************************************************************)
EXTENDS Integers, Sequences, FiniteSets

CONSTANTS
  Workers,    \* the goroutines of the worker pool (WORKER_COUNT)
  Capacity,   \* of both channels (5000)
  FlushMax,   \* what one tick of the flusher pops at most (1000)
  Faults,     \* which of the faults below can happen
  MaxJobs     \* bound on the number of jobs

(* "db": a database call fails.  "ack": PostgreSQL commits, but the answer  *)
(* is lost.  "resend": the answer to a push is lost, and go-redis pushes    *)
(* again.  "redis": a push or a pop fails, whether or not it was done.      *)
(* "timeout": the flusher's context expires.  "crash": the process ends.    *)
ASSUME PipelineAssumption ==
  /\ IsFiniteSet(Workers)
  /\ Capacity \in Nat \ {0}
  /\ FlushMax \in Nat \ {0}
  /\ Faults \subseteq {"db", "ack", "resend", "redis", "timeout", "crash"}
  /\ MaxJobs \in Nat

VARIABLES
  feeding,    \* targets the feeder still has to send in this round
  waiting,    \* AddMonitor handlers blocked on the jobs channel
  jobs,       \* the jobs channel
  worker,     \* the job each worker is checking, or whose result it is sending
  results,    \* the results channel
  processor,  \* the result that main's loop is saving
  buffer,     \* the ping_buffer list
  unheard,    \* the push of that result is done, but go-redis does not know
  flusher,    \* the flusher: where it is, its batch, how far it is with it
  expired,    \* the two minutes of the flusher's context are over
  rows,       \* ping_results in the order of their ids
  born,       \* observer: jobs that entered the channel
  pushed,     \* observer: results pushed to ping_buffer, in order
  missed      \* observer: results whose push reported an error, jobs a crash lost

sources == <<feeding, waiting>>
pool == <<jobs, worker, results, processor>>
storage == <<buffer, unheard, flusher, expired, rows>>
observers == <<born, pushed, missed>>
vars == <<sources, pool, storage, observers>>

-----------------------------------------------------------------------------
NULL == 0

Job == Nat \ {0}

Resting == [pc |-> "idle", batch |-> <<>>, i |-> 0]

Flusher == [pc : {"idle", "begin", "insert", "requeue"}, batch : Seq(Job), i : Nat]

MaxRows == 2 * MaxJobs   \* bound on what a lost answer may duplicate

Smaller(a, b) == IF a <= b THEN a ELSE b

-----------------------------------------------------------------------------
(* Producers.  A send on a full channel blocks; the handler of a new target *)
(* and the feeder compete for the room.  No id is given before that.        *)

Budget == MaxJobs - born - feeding - waiting

(* feedTargetsOnce: GetAllTargets read n targets (n = 0, or an error, is a  *)
(* round in which nothing happens).                                         *)
FeedRound ==
  /\ feeding = 0
  /\ \E n \in 1 .. Budget : feeding' = n
  /\ UNCHANGED <<waiting, pool, storage, observers>>

(* AddMonitorHandler once AddTarget has inserted a new target               *)
AddMonitor ==
  /\ Budget > 0
  /\ waiting' = waiting + 1
  /\ UNCHANGED <<feeding, pool, storage, observers>>

(* Definitions named Mutant... are plausible bugs: each stands in for the   *)
(* definition below it in the run that shows a property can be broken.      *)
MutantEnqueueOrDrop ==
  /\ jobs' = IF Len(jobs) < Capacity THEN Append(jobs, born + 1) ELSE jobs
  /\ born' = born + 1
  /\ UNCHANGED <<worker, results, processor, storage, pushed, missed>>

Enqueue ==
  /\ Len(jobs) < Capacity
  /\ jobs' = Append(jobs, born + 1)
  /\ born' = born + 1
  /\ UNCHANGED <<worker, results, processor, storage, pushed, missed>>

FeedSend ==
  /\ feeding > 0
  /\ feeding' = feeding - 1
  /\ Enqueue
  /\ UNCHANGED waiting

MutantMonitorSendAgain ==
  /\ waiting' = waiting - 1
  /\ Enqueue
  /\ UNCHANGED feeding

MonitorSend ==
  /\ waiting > 0
  /\ waiting' = waiting - 1
  /\ Enqueue
  /\ UNCHANGED feeding

-----------------------------------------------------------------------------
(* StartWorker: one job at a time, whose result blocks the worker while the *)
(* results channel is full.                                                 *)

TakeJob(w) ==
  /\ worker[w] = NULL /\ jobs # <<>>
  /\ worker' = [worker EXCEPT ![w] = Head(jobs)]
  /\ jobs' = Tail(jobs)
  /\ UNCHANGED <<sources, results, processor, storage, observers>>

SendResult(w) ==
  /\ worker[w] # NULL /\ Len(results) < Capacity
  /\ results' = Append(results, worker[w])
  /\ worker' = [worker EXCEPT ![w] = NULL]
  /\ UNCHANGED <<sources, jobs, processor, storage, observers>>

(* The loop of main over results: SaveResult pushes to the tail of the list *)
(* and gives up after two seconds; the result is then only logged.          *)

TakeResult ==
  /\ processor = NULL /\ results # <<>>
  /\ processor' = Head(results)
  /\ results' = Tail(results)
  /\ UNCHANGED <<sources, jobs, worker, storage, observers>>

MutantPushedFirst ==
  /\ buffer' = <<processor>> \o buffer
  /\ pushed' = IF unheard THEN pushed ELSE Append(pushed, processor)

Pushed ==
  /\ buffer' = Append(buffer, processor)
  /\ pushed' = IF unheard THEN pushed ELSE Append(pushed, processor)

SaveResult ==
  /\ processor # NULL
  /\ \/ Pushed /\ UNCHANGED missed
     \/ /\ "redis" \in Faults         \* an error, whether or not Redis did it
        /\ missed' = missed \cup {processor}
        /\ Pushed \/ UNCHANGED <<buffer, pushed>>
  /\ processor' = NULL /\ unheard' = FALSE
  /\ UNCHANGED <<sources, jobs, worker, results, flusher, expired, rows, born>>

(* The answer to a push is lost: go-redis will push again (once, here).     *)
PushUnheard ==
  /\ "resend" \in Faults
  /\ processor # NULL /\ ~unheard
  /\ Pushed
  /\ unheard' = TRUE
  /\ UNCHANGED <<sources, pool, flusher, expired, rows, born, missed>>

-----------------------------------------------------------------------------
(* flushToPostgres.  What went wrong does not matter to it: every error     *)
(* after the pop rolls back and requeues the whole batch, with the same     *)
(* context.                                                                 *)

Go(point, n) == flusher' = [flusher EXCEPT !.pc = point, !.i = n]

MutantGiveUp == flusher' = Resting

ToRequeue == Go("requeue", Len(flusher.batch))

(* The error of a database call: its own, or that of the context            *)
DbError == "db" \in Faults \/ expired

flushOnly == <<sources, pool, unheard, observers>>

(* A tick that finds something: LPopCount.  Its error can come after the    *)
(* list was cut, and what was cut is then in nobody's hands.                *)
FlushPop ==
  /\ flusher.pc = "idle" /\ buffer # <<>>
  /\ LET n == Smaller(FlushMax, Len(buffer)) IN
     \/ /\ flusher' = [pc |-> "begin", batch |-> SubSeq(buffer, 1, n), i |-> 0]
        /\ buffer' = SubSeq(buffer, n + 1, Len(buffer))
     \/ /\ "redis" \in Faults
        /\ buffer' = SubSeq(buffer, n + 1, Len(buffer))
        /\ UNCHANGED flusher
  /\ expired' = FALSE
  /\ UNCHANGED <<flushOnly, rows>>

(* BeginTx and PrepareContext                                               *)
FlushBegin ==
  /\ flusher.pc = "begin"
  /\ \/ ~expired /\ Go("insert", 0)
     \/ DbError /\ ToRequeue
  /\ UNCHANGED <<flushOnly, buffer, expired, rows>>

FlushInsert ==
  /\ flusher.pc = "insert" /\ flusher.i < Len(flusher.batch)
  /\ \/ ~expired /\ Go("insert", flusher.i + 1)
     \/ DbError /\ ToRequeue
  /\ UNCHANGED <<flushOnly, buffer, expired, rows>>

FlushCommit ==
  /\ flusher.pc = "insert" /\ flusher.i = Len(flusher.batch)
  /\ \/ ~expired /\ rows' = rows \o flusher.batch /\ flusher' = Resting
     \/ DbError /\ ToRequeue /\ UNCHANGED rows
     \/ /\ "ack" \in Faults /\ ~expired   \* committed, but the answer is lost
        /\ Len(rows) + Len(flusher.batch) <= MaxRows
        /\ rows' = rows \o flusher.batch /\ ToRequeue
  /\ UNCHANGED <<flushOnly, buffer, expired>>

(* requeuePingBatch: LPUSH of every item, the last one first; i items are   *)
(* still to be pushed.  An error of the pipeline is logged, and the items   *)
(* that were not pushed are gone.                                           *)
MutantFirstToRequeue == flusher.batch[Len(flusher.batch) - flusher.i + 1]

NextToRequeue == flusher.batch[flusher.i]

FlushRequeue ==
  /\ flusher.pc = "requeue" /\ flusher.i > 0 /\ ~expired
  /\ buffer' = <<NextToRequeue>> \o buffer
  /\ Go("requeue", flusher.i - 1)
  /\ UNCHANGED <<flushOnly, expired, rows>>

(* The same for the pipeline of LPUSHes, after any number of them           *)
RequeueAgain ==
  /\ "resend" \in Faults
  /\ flusher.pc = "requeue" /\ flusher.i < Len(flusher.batch)
  /\ Len(rows) + Len(buffer) + Len(flusher.batch) <= MaxRows
  /\ ToRequeue
  /\ UNCHANGED <<flushOnly, buffer, expired, rows>>

FlushRequeueEnd ==
  /\ flusher.pc = "requeue"
  /\ flusher.i = 0 \/ expired \/ "redis" \in Faults
  /\ flusher' = Resting
  /\ UNCHANGED <<flushOnly, buffer, expired, rows>>

-----------------------------------------------------------------------------
Expire ==
  /\ "timeout" \in Faults
  /\ flusher.pc # "idle" /\ ~expired
  /\ expired' = TRUE
  /\ UNCHANGED <<flushOnly, buffer, flusher, rows>>

(* Where a job is                                                           *)

Within(seq) == {seq[k] : k \in DOMAIN seq}

Occurrences(seq, j) == Cardinality({k \in DOMAIN seq : seq[k] = j})

InMemory == Within(jobs) \cup Within(results) \cup {worker[w] : w \in Workers} \cup {processor}

(* The process ends and is started again: both channels are lost, and what  *)
(* the goroutines had in hand.                                              *)
Crash ==
  /\ "crash" \in Faults
  /\ feeding' = 0 /\ waiting' = 0
  /\ jobs' = <<>> /\ results' = <<>>
  /\ worker' = [w \in Workers |-> NULL]
  /\ processor' = NULL /\ unheard' = FALSE
  /\ flusher' = Resting
  /\ missed' = missed \cup (InMemory \ {NULL})
  /\ UNCHANGED <<buffer, expired, rows, born, pushed>>

(* MaxJobs jobs are done: the model stops, the engine would go on.          *)
BoundReached ==
  /\ Budget = 0 /\ feeding = 0 /\ waiting = 0
  /\ jobs = <<>> /\ results = <<>> /\ buffer = <<>>
  /\ processor = NULL /\ flusher.pc = "idle" /\ \A w \in Workers : worker[w] = NULL
  /\ UNCHANGED vars

Init ==
  /\ feeding = 0 /\ waiting = 0
  /\ jobs = <<>> /\ results = <<>>
  /\ worker = [w \in Workers |-> NULL]
  /\ processor = NULL
  /\ buffer = <<>> /\ unheard = FALSE /\ flusher = Resting /\ expired = FALSE /\ rows = <<>>
  /\ born = 0 /\ pushed = <<>> /\ missed = {}

Produce == FeedRound \/ FeedSend \/ AddMonitor \/ MonitorSend

Work(w) == TakeJob(w) \/ SendResult(w)

Process == TakeResult \/ SaveResult \/ PushUnheard

Flush ==
  \/ FlushPop \/ FlushBegin \/ FlushInsert \/ FlushCommit
  \/ FlushRequeue \/ RequeueAgain \/ FlushRequeueEnd

Next ==
  \/ Produce \/ \E w \in Workers : Work(w) \/ Process \/ Flush
  \/ Expire \/ Crash \/ BoundReached

Spec == Init /\ [][Next]_vars

(* The producers, the workers and the loop of main are always run again; a  *)
(* tick comes while the list is not empty; and the database, although it    *)
(* may fail again and again, does not refuse one of the statements of a     *)
(* transaction for ever.                                                    *)
Fairness ==
  /\ WF_vars(FeedSend) /\ WF_vars(MonitorSend)
  /\ \A w \in Workers : WF_vars(Work(w))
  /\ WF_vars(Process) /\ WF_vars(Flush)
  /\ SF_vars(FlushBegin /\ flusher'.pc = "insert")
  /\ \A n \in 0 .. FlushMax - 1 : SF_vars(FlushInsert /\ flusher.i = n /\ flusher'.pc = "insert")
  /\ SF_vars(FlushCommit /\ flusher'.pc = "idle")

FairSpec == Spec /\ Fairness

-----------------------------------------------------------------------------
TypeOK ==
  /\ feeding \in Nat /\ waiting \in Nat
  /\ jobs \in Seq(Job) /\ results \in Seq(Job)
  /\ worker \in [Workers -> Nat]
  /\ processor \in Nat
  /\ buffer \in Seq(Job) /\ rows \in Seq(Job)
  /\ flusher \in Flusher /\ unheard \in BOOLEAN /\ expired \in BOOLEAN
  /\ born \in Nat /\ pushed \in Seq(Job) /\ missed \subseteq Job

-----------------------------------------------------------------------------
Checking(j) == {w \in Workers : worker[w] = j}

One(condition) == IF condition THEN 1 ELSE 0

Copies(j) ==
  Occurrences(jobs, j) + Cardinality(Checking(j)) + Occurrences(results, j)
    + One(processor = j /\ ~unheard)
    + Occurrences(pushed, j) + One(j \in missed \ Within(pushed))

(* A job that entered the channel is in one place only until its result is  *)
(* pushed, its push fails or a crash takes it: the two channels and the     *)
(* blocking sends neither drop nor double a check, however full they are    *)
(* (feeder.go:42, server.go:70, worker.go:37-52, main.go:53-57).            *)
CheckedOnce == \A j \in 1 .. born : Copies(j) = 1

(* What the flusher has popped and neither stored nor put back              *)
Held ==
  CASE flusher.pc = "idle" -> <<>>
    [] flusher.pc = "requeue" -> SubSeq(flusher.batch, 1, flusher.i)
    [] OTHER -> flusher.batch

Saved == rows \o Held \o buffer

(* However often a transaction fails and its batch is requeued, the rows,   *)
(* the batch in hand and the list are all results in the order in which     *)
(* they were pushed (flusher.go:32: reverse order preserves FIFO).          *)
StoredInOrder == Saved = pushed

Place(j) == CHOOSE k \in DOMAIN pushed : pushed[k] = j

(* Whatever is lost when Redis, the context or the process fails, nothing   *)
(* is stored twice and nothing overtakes an earlier result.                 *)
StoredOnceInOrder ==
  /\ Within(Saved) \subseteq Within(pushed)
  /\ \A a, b \in DOMAIN Saved : a < b => Place(Saved[a]) < Place(Saved[b])

(* Every job that entered the channel ends as a row of ping_results, if the *)
(* database does not fail for ever.                                         *)
EveryCheckIsStored == \A j \in 1 .. MaxJobs : born >= j ~> j \in Within(rows)

(* The first n of a sequence                                                *)
FirstOf(seq, n) == {seq[k] : k \in 1 .. n}

(* Also when PostgreSQL has committed without the flusher knowing, or Redis *)
(* has pushed without go-redis knowing, no result is lost or overtaken:     *)
(* what comes before the first copy of a result is what was pushed before   *)
(* it (flusher.go:32, :115, redis.go:57).                                   *)
DeliveredInOrder ==
  /\ Within(Saved) = Within(pushed)
  /\ \A n \in DOMAIN pushed : \E m \in DOMAIN Saved : FirstOf(Saved, m) = FirstOf(pushed, n)
=============================================================================
