--------------------------- MODULE PipelineQueueProofs ---------------------------
(***************************************************************************)
(* PingPipeline implements ResultQueue, and what follows from it for the   *)
(* order and the number of the rows: for any number of workers and jobs,   *)
(* any capacity of the channels and any size of a flush.                   *)
(***************************************************************************)
EXTENDS PipelineRefinement, PingPipelineProofs

-----------------------------------------------------------------------------
(* The invariant.  What was put back is the front of the list, in its old   *)
(* order, as long as the flusher is at it; a deadline or a repeated push    *)
(* only comes where the faults include it; no job is numbered above the     *)
(* bound.                                                                   *)

Returned == SubSeq(flusher.batch, flusher.i + 1, Len(flusher.batch))

PutBackFirst ==
  flusher.pc = "requeue" => \E n \in 0 .. Len(buffer) : SubSeq(buffer, 1, n) = Returned

QueueInv ==
  /\ OnceInv
  /\ PutBackFirst
  /\ unheard => "resend" \in Faults
  /\ expired => "timeout" \in Faults
  /\ born + feeding + waiting <= MaxJobs

-----------------------------------------------------------------------------
(* The batch that is put back stays the front of the list.                  *)

LEMMA FlusherType ==
  ASSUME TypeInv
  PROVE  /\ flusher \in Flusher /\ flusher.batch \in Seq(Job) /\ Len(flusher.batch) \in Nat
         /\ flusher.i \in 0 .. Len(flusher.batch)
         /\ buffer \in Seq(Job) /\ rows \in Seq(Job) /\ pushed \in Seq(Job)
  BY DEF TypeInv, TypeOK, InHand, Flusher

LEMMA ReturnedType ==
  ASSUME TypeInv
  PROVE  /\ Returned \in Seq(Job)
         /\ Len(Returned) = Len(flusher.batch) - flusher.i
         /\ SubSeq(flusher.batch, 1, flusher.i) \o Returned = flusher.batch
<1>1. PICK b, i : b = flusher.batch /\ i = flusher.i
  OBVIOUS
<1>2. b \in Seq(Job) /\ i \in 0 .. Len(b) /\ Len(b) \in Nat
  BY <1>1, FlusherType
<1>3. \A k \in i + 1 .. Len(b) : b[k] \in Job
  BY <1>2, ElementOfSeq
<1>4. Len(SubSeq(b, i + 1, Len(b))) = Len(b) - i
  BY <1>2, <1>3, SubSeqProperties
<1>5. QED
  BY <1>1, <1>2, <1>4, Cut DEF Returned

(* The list, when its front is what was put back                            *)
LEMMA FrontOfList ==
  ASSUME TypeInv, PutBackFirst, flusher.pc = "requeue"
  PROVE  \E rest \in Seq(Job) : buffer = Returned \o rest
<1>1. PICK n \in 0 .. Len(buffer) : SubSeq(buffer, 1, n) = Returned
  BY DEF PutBackFirst
<1>2. QED
  BY <1>1, FlusherType, Cut

LEMMA FrontIsKept ==
  ASSUME TypeInv', NEW rest \in Seq(Job), buffer' = Returned' \o rest
  PROVE  PutBackFirst'
<1>1. PICK r, b : r = Returned' /\ b = buffer'
  OBVIOUS
<1>2. r \in Seq(Job) /\ b = r \o rest
  <2>1. PICK s, i : s = flusher'.batch /\ i = flusher'.i
    OBVIOUS
  <2>2. s \in Seq(Job) /\ i \in 0 .. Len(s)
    BY <2>1 DEF TypeInv, TypeOK, InHand, Flusher
  <2>3. SubSeq(s, i + 1, Len(s)) \in Seq(Job)
    BY <2>2, Cut
  <2>4. QED
    BY <1>1, <2>1, <2>3 DEF Returned
<1>3. Len(r) \in 0 .. Len(b) /\ SubSeq(b, 1, Len(r)) = r
  BY <1>2, Split, LenProperties
<1>4. QED
  BY <1>1, <1>3 DEF PutBackFirst

LEMMA FrontWhenRequeued ==
  ASSUME TypeInv, TypeInv', ToRequeue
  PROVE  PutBackFirst'
<1>1. flusher'.batch = flusher.batch /\ flusher'.i = Len(flusher.batch)
  BY FlusherType DEF ToRequeue, Go, Flusher
<1>2. Returned' = <<>>
  BY <1>1, FlusherType, SubSeqEmpty DEF Returned
<1>3. buffer' = Returned' \o buffer'
  <2>1. buffer' \in Seq(Job)
    BY DEF TypeInv, TypeOK
  <2>2. QED
    BY <1>2, <2>1, ConcatEmptySeq
<1>4. buffer' \in Seq(Job)
  BY DEF TypeInv, TypeOK
<1>5. QED
  BY <1>3, <1>4, FrontIsKept

LEMMA FrontWhenPushed ==
  ASSUME TypeInv, TypeInv', PutBackFirst, processor \in Job,
         buffer' = Append(buffer, processor), flusher' = flusher
  PROVE  PutBackFirst'
<1>1. CASE flusher.pc = "requeue"
  <2>1. PICK rest \in Seq(Job) : buffer = Returned \o rest
    BY <1>1, FrontOfList
  <2>2. Append(rest, processor) \in Seq(Job)
    BY <2>1
  <2>3. buffer' = Returned \o Append(rest, processor)
    <3>1. PICK r : r = Returned
      OBVIOUS
    <3>2. r \in Seq(Job) /\ buffer = r \o rest
      BY <2>1, <3>1, ReturnedType
    <3>3. r \o Append(rest, processor) = Append(buffer, processor)
      BY <3>2, PushTail
    <3>4. QED
      BY <3>1, <3>3
  <2>4. Returned' = Returned
    BY DEF Returned
  <2>5. QED
    BY <2>2, <2>3, <2>4, FrontIsKept
<1>2. CASE flusher.pc # "requeue"
  BY <1>2 DEF PutBackFirst
<1>3. QED
  BY <1>1, <1>2

LEMMA FrontWhenPutBack ==
  ASSUME TypeInv, TypeInv', PutBackFirst, FlushRequeue
  PROVE  PutBackFirst'
<1>1. PICK b, i, back : b = flusher.batch /\ i = flusher.i /\ back = Returned
  OBVIOUS
<1>2. b \in Seq(Job) /\ i \in 1 .. Len(b) /\ Len(b) \in Nat /\ back \in Seq(Job)
  BY <1>1, FlusherType, ReturnedType DEF FlushRequeue
<1>3. PICK rest \in Seq(Job) : buffer = back \o rest
  BY <1>1, FrontOfList DEF FlushRequeue
<1>4. flusher'.batch = b /\ flusher'.i = i - 1
  BY <1>1, FlusherType DEF FlushRequeue, Go, Flusher
<1>5. Returned' = SubSeq(b, i, Len(b))
  BY <1>2, <1>4 DEF Returned
<1>6. SubSeq(b, i, Len(b)) = <<b[i]>> \o back
  <2>1. Len(b) \in i .. Len(b)
    BY <1>2
  <2>2. QED
    BY <1>1, <1>2, <2>1, SubSeqRecursiveFirst DEF Returned
<1>7. <<b[i]>> \in Seq(Job)
  BY <1>2, ElementOfSeq
<1>8. buffer' = <<b[i]>> \o (back \o rest)
  BY <1>1, <1>3 DEF FlushRequeue, NextToRequeue
<1>9. buffer' = Returned' \o rest
  <2>1. PICK last : last = <<b[i]>>
    OBVIOUS
  <2>2. (last \o back) \o rest = last \o (back \o rest)
    BY <1>2, <1>3, <1>7, <2>1, ConcatAssociative
  <2>3. QED
    BY <1>5, <1>6, <1>8, <2>1, <2>2
<1>10. QED
  BY <1>9, FrontIsKept

LEMMA FrontStep ==
  ASSUME TypeInv, TypeInv', PutBackFirst, [Next]_vars
  PROVE  PutBackFirst'
<1>1. CASE UNCHANGED <<flusher, buffer>>
  BY <1>1 DEF PutBackFirst, Returned
<1>2. CASE SaveResult \/ PushUnheard
  <2>1. processor \in Job /\ flusher' = flusher
    BY <1>2 DEF SaveResult, PushUnheard, TypeInv, TypeOK, Job, NULL
  <2>2. buffer' = Append(buffer, processor) \/ buffer' = buffer
    BY <1>2 DEF SaveResult, PushUnheard, Pushed
  <2>3. QED
    BY <1>1, <2>1, <2>2, FrontWhenPushed
<1>3. CASE FlushPop \/ FlushRequeueEnd \/ Crash
  <2>1. flusher'.pc # "requeue"
    BY <1>3 DEF FlushPop, FlushRequeueEnd, Crash, Resting
  <2>2. QED
    BY <2>1 DEF PutBackFirst
<1>4. CASE FlushBegin \/ FlushInsert \/ FlushCommit \/ RequeueAgain
  <2>1. ToRequeue \/ flusher'.pc # "requeue"
    <3>1. ASSUME NEW n, Go("insert", n)
          PROVE  flusher'.pc # "requeue"
      BY <3>1, FlusherType DEF Go, Flusher
    <3>2. ToRequeue \/ flusher' = Resting \/ \E n : Go("insert", n)
      BY <1>4 DEF FlushBegin, FlushInsert, FlushCommit, RequeueAgain
    <3>3. QED
      BY <3>1, <3>2 DEF Resting
  <2>2. QED
    BY <2>1, FrontWhenRequeued DEF PutBackFirst
<1>5. CASE FlushRequeue
  BY <1>5, FrontWhenPutBack
<1>6. CASE Produce \/ (\E w \in Workers : Work(w)) \/ TakeResult \/ Expire \/ BoundReached
             \/ UNCHANGED vars
  <2>1. UNCHANGED <<flusher, buffer>>
    BY <1>6
       DEF Produce, FeedRound, FeedSend, AddMonitor, MonitorSend, Enqueue, Work, TakeJob,
           SendResult, TakeResult, Expire, BoundReached, vars, storage
  <2>2. QED
    BY <1>1, <2>1
<1>7. QED
  BY <1>2, <1>3, <1>4, <1>5, <1>6 DEF Next, Process, Flush

LEMMA QueueInvInit ==
  ASSUME Init
  PROVE  QueueInv
<1>1. flusher.pc # "requeue"
  BY DEF Init, Resting
<1>2. born + feeding + waiting <= MaxJobs
  BY PipelineAssumption DEF Init, PipelineAssumption
<1>3. QED
  BY <1>1, <1>2, OnceInit DEF QueueInv, PutBackFirst, Init

(* The bound on the number of jobs holds                                    *)
LEMMA BoundStep ==
  ASSUME TypeInv, born + feeding + waiting <= MaxJobs, [Next]_vars
  PROVE  (born + feeding + waiting <= MaxJobs)'
<1>1. born \in Nat /\ feeding \in Nat /\ waiting \in Nat /\ MaxJobs \in Nat
  BY PipelineAssumption DEF PipelineAssumption, TypeInv, TypeOK
<1>2. CASE FeedRound
  <2>1. PICK n \in 1 .. Budget : feeding' = n
    BY <1>2 DEF FeedRound
  <2>2. n <= MaxJobs - born - waiting /\ n \in Int
    BY <1>1, <1>2, <2>1 DEF Budget, FeedRound
  <2>3. UNCHANGED <<born, waiting>>
    BY <1>2 DEF FeedRound, observers
  <2>4. QED
    BY <1>1, <2>1, <2>2, <2>3
<1>3. CASE FeedSend \/ MonitorSend
  BY <1>1, <1>3 DEF FeedSend, MonitorSend, Enqueue
<1>4. CASE AddMonitor
  BY <1>1, <1>4 DEF AddMonitor, Budget, observers
<1>5. CASE Crash
  BY <1>1, <1>5 DEF Crash
<1>6. CASE (\E w \in Workers : Work(w)) \/ Process \/ Flush \/ Expire \/ BoundReached
             \/ UNCHANGED vars
  <2>1. UNCHANGED <<born, feeding, waiting>>
    BY <1>6
       DEF Work, TakeJob, SendResult, Process, TakeResult, SaveResult, PushUnheard, Flush,
           FlushPop, FlushBegin, FlushInsert, FlushCommit, FlushRequeue, RequeueAgain,
           FlushRequeueEnd, Expire, BoundReached, flushOnly, sources, observers, vars
  <2>2. QED
    BY <2>1
<1>7. QED
  BY <1>2, <1>3, <1>4, <1>5, <1>6 DEF Next, Produce

LEMMA QueueInvStep ==
  ASSUME QueueInv, [Next]_vars
  PROVE  QueueInv'
<1>1. OnceInv /\ TypeInv
  BY DEF QueueInv, OnceInv
<1>2. OnceInv' /\ TypeInv'
  BY <1>1, OnceStep, TypeStep
<1>3. PutBackFirst'
  BY <1>1, <1>2, FrontStep DEF QueueInv
<1>4. (born + feeding + waiting <= MaxJobs)'
  BY <1>1, BoundStep DEF QueueInv
<1>5. unheard' = unheard \/ ~unheard' \/ "resend" \in Faults
  BY DEF Next, vars, Produce, FeedRound, FeedSend, AddMonitor, MonitorSend, Enqueue, Work,
         TakeJob, SendResult, Process, TakeResult, SaveResult, PushUnheard, Flush, FlushPop,
         FlushBegin, FlushInsert, FlushCommit, FlushRequeue, RequeueAgain, FlushRequeueEnd,
         Expire, Crash, BoundReached, flushOnly, storage
<1>6. expired' = expired \/ ~expired' \/ "timeout" \in Faults
  BY DEF Next, vars, Produce, FeedRound, FeedSend, AddMonitor, MonitorSend, Enqueue, Work,
         TakeJob, SendResult, Process, TakeResult, SaveResult, PushUnheard, Flush, FlushPop,
         FlushBegin, FlushInsert, FlushCommit, FlushRequeue, RequeueAgain, FlushRequeueEnd,
         Expire, Crash, BoundReached, flushOnly, storage
<1>7. QED
  BY <1>2, <1>3, <1>4, <1>5, <1>6 DEF QueueInv

LEMMA QueueInvAlways == Spec => []QueueInv
<1>1. QueueInv /\ [Next]_vars => QueueInv'
  BY QueueInvStep
<1>2. QED
  BY <1>1, QueueInvInit, PTL DEF Spec

-----------------------------------------------------------------------------
(* What the flusher holds.                                                  *)

LEMMA HeldType ==
  ASSUME TypeInv
  PROVE  Held \in Seq(Job)
<1>1. flusher.batch \in Seq(Job) /\ flusher.i \in 0 .. Len(flusher.batch)
  BY DEF TypeInv, TypeOK, InHand, Flusher
<1>2. QED
  BY <1>1, Cut DEF Held

(* A step that moves the batch back to the start of its requeueing keeps it *)
LEMMA HeldWhenRequeued ==
  ASSUME TypeInv, ToRequeue
  PROVE  Held' = flusher.batch
<1>1. flusher.batch \in Seq(Job)
  BY DEF TypeInv, TypeOK, Flusher
<1>2. flusher'.pc = "requeue" /\ flusher'.batch = flusher.batch
      /\ flusher'.i = Len(flusher.batch)
  BY DEF ToRequeue, Go, TypeInv, TypeOK, Flusher
<1>3. QED
  BY <1>1, <1>2, SubSeqFull DEF Held

-----------------------------------------------------------------------------
(* The steps of the queue, in terms of what its head is.                    *)

PushStep ==
  \E r \in 1 .. MaxJobs :
    /\ Queue!Accept(r)
    /\ pushed' = IF r \in Within(pushed) THEN pushed ELSE Append(pushed, r)

HeadStep ==
  \E n \in 1 .. Len(Held \o buffer) :
    Queue!Deliver(n) \/ Queue!Lose(n) \/ \E i \in 0 .. n - 1 : Queue!Repeat(i, n)

LEMMA QueueFront ==
  ASSUME NEW f \in Seq(Job), NEW t \in Seq(Job), Held \o buffer = f \o t
  PROVE  /\ Queue!First(Len(f)) = f /\ Queue!From(Len(f) + 1) = t
         /\ Len(f) \in 0 .. Len(Held \o buffer)
         /\ f # <<>> => Len(f) \in 1 .. Len(Held \o buffer)
<1>1. PICK q : q = Held \o buffer
  OBVIOUS
<1>2. /\ Len(q) = Len(f) + Len(t)
      /\ SubSeq(q, 1, Len(f)) = f /\ SubSeq(q, Len(f) + 1, Len(q)) = t
  BY <1>1, Split
<1>3. Len(f) \in Nat /\ Len(t) \in Nat /\ (f # <<>> => Len(f) # 0)
  BY EmptySeq
<1>4. QED
  BY <1>1, <1>2, <1>3 DEF Queue!First, Queue!From

LEMMA HeadDelivered ==
  ASSUME TypeInv, NEW f \in Seq(Job), NEW t \in Seq(Job), Held \o buffer = f \o t,
         rows' = rows \o f, pushed' = pushed,
         \/ (Held \o buffer)' = t
         \/ AnswerMayBeLost /\ (Held \o buffer)' = Held \o buffer
  PROVE  HeadStep \/ UNCHANGED Queue!vars
<1>1. CASE f = <<>>
  <2>1. rows' = rows /\ Held \o buffer = t
    BY <1>1, FlusherType, ConcatEmptySeq
  <2>2. (Held \o buffer)' = Held \o buffer
    BY <2>1
  <2>3. QED
    BY <2>1, <2>2 DEF Queue!vars
<1>2. CASE f # <<>>
  <2>1. PICK n \in 1 .. Len(Held \o buffer) : n = Len(f)
    BY <1>2, QueueFront
  <2>2. Queue!First(n) = f /\ Queue!From(n + 1) = t
    BY <2>1, QueueFront
  <2>3. Queue!Deliver(n)
    BY <2>2 DEF Queue!Deliver
  <2>4. QED
    BY <2>3 DEF HeadStep
<1>3. QED
  BY <1>1, <1>2

LEMMA HeadLost ==
  ASSUME TypeInv, NEW f \in Seq(Job), NEW t \in Seq(Job), Held \o buffer = f \o t,
         ResultMayBeLost, rows' = rows, pushed' = pushed, (Held \o buffer)' = t
  PROVE  HeadStep \/ UNCHANGED Queue!vars
<1>1. CASE f = <<>>
  <2>1. Held \o buffer = t
    BY <1>1, ConcatEmptySeq
  <2>2. QED
    BY <2>1 DEF Queue!vars
<1>2. CASE f # <<>>
  <2>1. PICK n \in 1 .. Len(Held \o buffer) : n = Len(f)
    BY <1>2, QueueFront
  <2>2. Queue!From(n + 1) = t
    BY <2>1, QueueFront
  <2>3. Queue!Lose(n)
    BY <2>2 DEF Queue!Lose
  <2>4. QED
    BY <2>3 DEF HeadStep
<1>3. QED
  BY <1>1, <1>2

(* f is still held, m was put back, and both are put back again.            *)
LEMMA HeadRepeated ==
  ASSUME NEW f \in Seq(Job), NEW m \in Seq(Job), NEW t \in Seq(Job), m # <<>>,
         Held \o buffer = f \o (m \o t), (Held \o buffer)' = (f \o m) \o (m \o t),
         AnswerMayBeLost, rows' = rows, pushed' = pushed
  PROVE  HeadStep
<1>1. m \o t \in Seq(Job) /\ f \o m \in Seq(Job) /\ Len(f \o m) = Len(f) + Len(m)
  BY ConcatProperties
<1>2. Held \o buffer = (f \o m) \o t
  <2>1. (f \o m) \o t = f \o (m \o t)
    BY ConcatAssociative
  <2>2. QED
    BY <2>1
<1>3. Len(f) \in Nat /\ Len(m) \in Nat \ {0}
  BY EmptySeq
<1>4. PICK i, n : i = Len(f) /\ n = Len(f \o m)
  OBVIOUS
<1>5. Queue!From(i + 1) = m \o t
  BY <1>1, <1>4, QueueFront
<1>6. Queue!First(n) = f \o m /\ n \in 0 .. Len(Held \o buffer)
  BY <1>1, <1>2, <1>4, QueueFront
<1>7. n \in 1 .. Len(Held \o buffer) /\ i \in 0 .. n - 1
  BY <1>1, <1>3, <1>4, <1>6
<1>8. Queue!Repeat(i, n)
  BY <1>5, <1>6 DEF Queue!Repeat
<1>9. QED
  BY <1>7, <1>8 DEF HeadStep

LEMMA QueueKeeps ==
  ASSUME rows' = rows, Held' = Held, buffer' = buffer, pushed' = pushed
  PROVE  UNCHANGED Queue!vars
  BY DEF Queue!vars

LEMMA ProcessorIsBorn ==
  ASSUME QueueInv, processor # NULL
  PROVE  processor \in 1 .. MaxJobs
<1>1. /\ TypeInv /\ processor \in Job /\ born \in Nat /\ feeding \in Nat /\ waiting \in Nat
      /\ MaxJobs \in Nat
  BY PipelineAssumption DEF PipelineAssumption, QueueInv, OnceInv, TypeInv, TypeOK, Job, NULL
<1>2. PICK j \in Job : j = processor
  BY <1>1
<1>3. Copies(j) = One(j <= born)
  BY DEF QueueInv, OnceInv, Once
<1>4. One(processor = j /\ ~unheard) \in {0, 1} /\ One(j \in missed \ Within(pushed)) \in {0, 1}
  BY DEF One
<1>5. One(processor = j /\ ~unheard) = 1 \/ Occurrences(pushed, j) # 0
  BY <1>1, <1>2, CopiesAreCounts DEF QueueInv, OnceInv, One
<1>6. Copies(j) # 0
  BY <1>1, <1>4, <1>5, CopiesAreCounts DEF Copies
<1>7. j <= born
  BY <1>3, <1>6 DEF One
<1>8. born <= MaxJobs
  BY <1>1 DEF QueueInv
<1>9. QED
  BY <1>1, <1>2, <1>7, <1>8 DEF Job

(* A push to Redis is an Accept; only one that nobody heard of is repeated. *)
LEMMA QueuePush ==
  ASSUME QueueInv, processor # NULL, Pushed, UNCHANGED <<rows, flusher>>
  PROVE  PushStep
<1>1. TypeInv /\ processor \in Job /\ processor \in 1 .. MaxJobs
  BY ProcessorIsBorn DEF QueueInv, OnceInv, TypeInv, TypeOK, Job, NULL
<1>2. unheard <=> processor \in Within(pushed)
  BY NotPushedBefore DEF QueueInv, OnceInv
<1>3. pushed' = IF processor \in Within(pushed) THEN pushed ELSE Append(pushed, processor)
  BY <1>2 DEF Pushed
<1>4. Within(pushed)' = Within(pushed) \cup {processor}
  <2>1. CASE processor \in Within(pushed)
    <3>1. pushed' = pushed
      BY <1>3, <2>1
    <3>2. QED
      BY <2>1, <3>1
  <2>2. CASE processor \notin Within(pushed)
    BY <1>1, <1>3, <2>2, FlusherType, WithinAppend
  <2>3. QED
    BY <2>1, <2>2
<1>5. (Held \o buffer)' = Append(Held \o buffer, processor)
  <2>1. (Held \o buffer)' = Held \o Append(buffer, processor)
    BY DEF Held, Pushed
  <2>2. QED
    BY <1>1, <2>1, HeldType, FlusherType, PushTail
<1>6. processor \in Within(pushed) => AnswerMayBeLost
  BY <1>2 DEF QueueInv, AnswerMayBeLost
<1>7. Queue!Accept(processor)
  BY <1>4, <1>5, <1>6 DEF Queue!Accept
<1>8. QED
  BY <1>1, <1>3, <1>7 DEF PushStep

LEMMA QueuePop ==
  ASSUME QueueInv, FlushPop
  PROVE  pushed' = pushed /\ (HeadStep \/ UNCHANGED Queue!vars)
<1>1. /\ TypeInv /\ flusher.pc = "idle" /\ UNCHANGED <<rows, pushed>>
      /\ buffer' = SubSeq(buffer, Popped + 1, Len(buffer))
  BY DEF QueueInv, OnceInv, FlushPop, Popped, flushOnly, observers
<1>2. PICK f, t : f = SubSeq(buffer, 1, Popped) /\ t = SubSeq(buffer, Popped + 1, Len(buffer))
  OBVIOUS
<1>3. f \in Seq(Job) /\ t \in Seq(Job) /\ f \o t = buffer
  BY <1>1, <1>2, PopCuts DEF TypeInv
<1>4. Held \o buffer = f \o t
  <2>1. Held = <<>> /\ <<>> \o buffer = buffer
    BY <1>1, FlusherType, ConcatEmptySeq DEF Held
  <2>2. QED
    BY <1>3, <2>1
<1>5. CASE flusher' = [pc |-> "begin", batch |-> f, i |-> 0]
  <2>1. Held' = f /\ buffer' = t
    BY <1>1, <1>2, <1>5 DEF Held
  <2>2. (Held \o buffer)' = Held \o buffer
    BY <1>4, <2>1
  <2>3. QED
    BY <1>1, <2>2 DEF Queue!vars
<1>6. CASE "redis" \in Faults /\ flusher' = flusher
  <2>1. (Held \o buffer)' = <<>> \o t
    BY <1>1, <1>2, <1>6 DEF Held
  <2>2. (Held \o buffer)' = t
    BY <1>3, <2>1, ConcatEmptySeq
  <2>3. ResultMayBeLost
    BY <1>6 DEF ResultMayBeLost
  <2>4. QED
    BY <1>1, <1>3, <1>4, <2>2, <2>3, HeadLost
<1>7. QED
  BY <1>2, <1>5, <1>6 DEF FlushPop, Popped

LEMMA QueueBeginInsert ==
  ASSUME QueueInv, FlushBegin \/ FlushInsert
  PROVE  pushed' = pushed /\ UNCHANGED Queue!vars
<1>1. TypeInv /\ flusher.pc \in {"begin", "insert"} /\ UNCHANGED <<rows, buffer, pushed>>
  BY DEF QueueInv, OnceInv, FlushBegin, FlushInsert, flushOnly, observers
<1>2. ToRequeue \/ \E n : Go("insert", n)
  BY DEF FlushBegin, FlushInsert
<1>3. Held' = Held
  <2>1. CASE ToRequeue
    BY <1>1, <2>1, HeldWhenRequeued DEF Held
  <2>2. ASSUME NEW n, Go("insert", n)
        PROVE  Held' = Held
    <3>1. flusher'.pc = "insert" /\ flusher'.batch = flusher.batch
      BY <1>1, <2>2, FlusherType DEF Go, Flusher
    <3>2. QED
      BY <1>1, <3>1 DEF Held
  <2>3. QED
    BY <1>2, <2>1, <2>2
<1>4. QED
  BY <1>1, <1>3, QueueKeeps

LEMMA QueueCommit ==
  ASSUME QueueInv, FlushCommit
  PROVE  pushed' = pushed /\ (HeadStep \/ UNCHANGED Queue!vars)
<1>1. /\ TypeInv /\ Held = flusher.batch /\ UNCHANGED <<buffer, pushed>>
      /\ flusher.batch \in Seq(Job) /\ buffer \in Seq(Job)
  BY FlusherType DEF QueueInv, OnceInv, FlushCommit, flushOnly, observers, Held
<1>2. CASE rows' = rows \o flusher.batch /\ flusher' = Resting
  <2>1. Held' = <<>>
    BY <1>2 DEF Held, Resting
  <2>2. (Held \o buffer)' = buffer
    BY <1>1, <2>1, ConcatEmptySeq
  <2>3. QED
    BY <1>1, <1>2, <2>2, HeadDelivered
<1>3. CASE ToRequeue /\ UNCHANGED rows
  BY <1>1, <1>3, HeldWhenRequeued, QueueKeeps
<1>4. CASE "ack" \in Faults /\ rows' = rows \o flusher.batch /\ ToRequeue
  <2>1. Held' = Held /\ AnswerMayBeLost
    BY <1>1, <1>4, HeldWhenRequeued DEF AnswerMayBeLost
  <2>2. (Held \o buffer)' = Held \o buffer
    BY <1>1, <2>1
  <2>3. QED
    BY <1>1, <1>4, <2>1, <2>2, HeadDelivered
<1>5. QED
  BY <1>2, <1>3, <1>4 DEF FlushCommit

LEMMA QueueRequeue ==
  ASSUME QueueInv, FlushRequeue
  PROVE  pushed' = pushed /\ UNCHANGED Queue!vars
<1>1. PICK b, i : b = flusher.batch /\ i = flusher.i
  OBVIOUS
<1>2. TypeInv /\ b \in Seq(Job) /\ i \in 1 .. Len(b) /\ buffer \in Seq(Job)
  BY <1>1, FlusherType DEF QueueInv, OnceInv, FlushRequeue
<1>3. /\ Held = SubSeq(b, 1, i) /\ UNCHANGED <<rows, pushed>> /\ buffer' = <<b[i]>> \o buffer
  BY <1>1 DEF FlushRequeue, NextToRequeue, Held, flushOnly, observers
<1>4. flusher'.pc = "requeue" /\ flusher'.batch = b /\ flusher'.i = i - 1
  BY <1>1, <1>2, FlusherType DEF FlushRequeue, Go, Flusher
<1>5. Held' = SubSeq(b, 1, i - 1)
  BY <1>4 DEF Held
<1>6. (Held \o buffer)' = Held \o buffer
  BY <1>2, <1>3, <1>5, PutBack
<1>7. QED
  BY <1>3, <1>6 DEF Queue!vars

LEMMA QueueRequeueAgain ==
  ASSUME QueueInv, RequeueAgain
  PROVE  pushed' = pushed /\ (HeadStep \/ UNCHANGED Queue!vars)
<1>1. /\ TypeInv /\ flusher.pc = "requeue" /\ UNCHANGED <<rows, buffer, pushed>>
      /\ ToRequeue /\ AnswerMayBeLost /\ flusher.i < Len(flusher.batch)
  BY DEF QueueInv, OnceInv, RequeueAgain, flushOnly, observers, AnswerMayBeLost
<1>2. PICK f, m : f = SubSeq(flusher.batch, 1, flusher.i) /\ m = Returned
  OBVIOUS
<1>3. PICK t \in Seq(Job) : buffer = m \o t
  BY <1>1, <1>2, FrontOfList DEF QueueInv
<1>4. f \in Seq(Job) /\ m \in Seq(Job) /\ f \o m = flusher.batch /\ m # <<>>
  <2>1. m \in Seq(Job) /\ f \o m = flusher.batch /\ Len(m) = Len(flusher.batch) - flusher.i
    BY <1>1, <1>2, ReturnedType
  <2>2. f \in Seq(Job)
    BY <1>1, <1>2, FlusherType, Cut
  <2>3. Len(m) # 0
    BY <1>1, <2>1, FlusherType
  <2>4. QED
    BY <2>1, <2>2, <2>3
<1>5. Held \o buffer = f \o (m \o t)
  BY <1>1, <1>2, <1>3 DEF Held
<1>6. (Held \o buffer)' = (f \o m) \o (m \o t)
  BY <1>1, <1>3, <1>4, HeldWhenRequeued
<1>7. HeadStep
  BY <1>1, <1>4, <1>5, <1>6, HeadRepeated
<1>8. QED
  BY <1>1, <1>7

(* What the flusher holds when it stops, or is stopped, is lost.            *)
LEMMA QueueDrop ==
  ASSUME QueueInv, FlushRequeueEnd \/ Crash
  PROVE  pushed' = pushed /\ (HeadStep \/ UNCHANGED Queue!vars)
<1>1. /\ TypeInv /\ UNCHANGED <<rows, buffer, pushed>> /\ Held \in Seq(Job) /\ buffer \in Seq(Job)
  BY HeldType, FlusherType DEF QueueInv, OnceInv, FlushRequeueEnd, Crash, flushOnly, observers
<1>2. Held' = <<>>
  BY DEF FlushRequeueEnd, Crash, Held, Resting
<1>3. (Held \o buffer)' = buffer
  BY <1>1, <1>2, ConcatEmptySeq
<1>4. CASE Held = <<>>
  BY <1>1, <1>2, <1>4, QueueKeeps
<1>5. CASE Held # <<>>
  <2>1. ResultMayBeLost
    <3>1. CASE Crash
      BY <3>1 DEF Crash, ResultMayBeLost
    <3>2. CASE FlushRequeueEnd
      <4>1. flusher.i # 0
        BY <1>5, <3>2, SubSeqEmpty DEF FlushRequeueEnd, Held
      <4>2. QED
        BY <3>2, <4>1 DEF FlushRequeueEnd, QueueInv, ResultMayBeLost
    <3>3. QED
      BY <3>1, <3>2
  <2>2. QED
    BY <1>1, <1>3, <2>1, HeadLost
<1>6. QED
  BY <1>4, <1>5

(* Every step of the pipeline is a push of a result, a step at the head of  *)
(* the queue, or none.                                                      *)
LEMMA QueueStep ==
  ASSUME QueueInv, [Next]_vars
  PROVE  PushStep \/ (pushed' = pushed /\ (HeadStep \/ UNCHANGED Queue!vars))
<1>1. CASE SaveResult \/ PushUnheard
  <2>1. CASE Pushed
    BY <1>1, <2>1, QueuePush DEF SaveResult, PushUnheard
  <2>2. CASE ~Pushed
    <3>1. UNCHANGED <<buffer, pushed, flusher, rows>>
      BY <1>1, <2>2 DEF SaveResult, PushUnheard
    <3>2. QED
      BY <3>1, QueueKeeps DEF Held
  <2>3. QED
    BY <2>1, <2>2
<1>2. CASE Produce \/ (\E w \in Workers : Work(w)) \/ TakeResult \/ Expire \/ BoundReached
             \/ UNCHANGED vars
  <2>1. UNCHANGED <<rows, buffer, pushed, flusher>>
    BY <1>2
       DEF Produce, FeedRound, FeedSend, AddMonitor, MonitorSend, Enqueue, Work, TakeJob,
           SendResult, TakeResult, Expire, BoundReached, vars, storage, observers, flushOnly
  <2>2. QED
    BY <2>1, QueueKeeps DEF Held
<1>3. QED
  BY <1>1, <1>2, QueuePop, QueueBeginInsert, QueueCommit, QueueRequeue, QueueRequeueAgain,
     QueueDrop DEF Next, Process, Flush

LEMMA QueueInit ==
  ASSUME Init
  PROVE  Queue!Init
<1>1. Held \o buffer = <<>> \o <<>> /\ <<>> \o <<>> = <<>>
  BY ConcatEmptySeq DEF Init, Held, Resting
<1>2. QED
  BY <1>1 DEF Init, Queue!Init, Within

(* The list and the flusher together are one queue, whatever fails: rows    *)
(* only come from its head, what is lost is lost from its head, and a batch *)
(* that is put back, twice or in part, keeps its place before what was      *)
(* pushed meanwhile (flusher.go:58-124, redis.go:57).                       *)
THEOREM PipelineIsAQueue == Spec => QueueKept
<1>1. QueueInv /\ [Next]_vars => [Queue!Next]_(Queue!vars)
  BY QueueStep DEF PushStep, HeadStep, Queue!Next
<1>2. Init => Queue!Init
  BY QueueInit
<1>3. QED
  BY <1>1, <1>2, QueueInvAlways, PTL DEF Spec, QueueKept, Queue!Spec

-----------------------------------------------------------------------------
(* What the queue means for ping_results: in which order its rows come, and *)
(* how often.  Which of the three theorems holds depends on the faults that *)
(* can happen.                                                              *)

(* A step of the pipeline, as one on the rows followed by the queue: a      *)
(* result is pushed to its end; a part is doubled in place; a part is lost. *)

Extended ==
  \E r \in Job :
    /\ Saved' = Append(Saved, r)
    /\ \/ r \in Within(pushed) /\ AnswerMayBeLost /\ pushed' = pushed
       \/ r \notin Within(pushed) /\ pushed' = Append(pushed, r)

PartTwice(s, s2) ==
  \E a, m, t \in Seq(Job) : s = a \o (m \o t) /\ s2 = (a \o m) \o (m \o t)

Doubled == AnswerMayBeLost /\ pushed' = pushed /\ PartTwice(Saved, Saved')

Shortened ==
  /\ ResultMayBeLost /\ pushed' = pushed
  /\ \E a, m, t \in Seq(Job) : Saved = a \o (m \o t) /\ Saved' = a \o t

Unmoved == Saved' = Saved /\ pushed' = pushed

LEMMA Associative == \A a, b, c \in Seq(Job) : (a \o b) \o c = a \o (b \o c)
  BY ConcatAssociative

LEMMA HeldTypeNext ==
  ASSUME TypeInv'
  PROVE  Held' \in Seq(Job) /\ buffer' \in Seq(Job) /\ rows' \in Seq(Job)
<1>1. PICK b, i : b = flusher'.batch /\ i = flusher'.i
  OBVIOUS
<1>2. b \in Seq(Job) /\ i \in 0 .. Len(b)
  BY <1>1 DEF TypeInv, TypeOK, InHand, Flusher
<1>3. SubSeq(b, 1, i) \in Seq(Job)
  BY <1>2, Cut
<1>4. QED
  BY <1>1, <1>2, <1>3 DEF Held, TypeInv, TypeOK

LEMMA SavedIsRowsAndQueue ==
  ASSUME TypeInv, TypeInv'
  PROVE  /\ Saved = rows \o (Held \o buffer) /\ Held \o buffer \in Seq(Job)
         /\ Saved' = rows' \o (Held \o buffer)' /\ (Held \o buffer)' \in Seq(Job)
         /\ Saved \in Seq(Job)
<1>1. PICK r, h, b, r2, h2, b2 :
        r = rows /\ h = Held /\ b = buffer /\ r2 = rows' /\ h2 = Held' /\ b2 = buffer'
  OBVIOUS
<1>2. /\ r \in Seq(Job) /\ h \in Seq(Job) /\ b \in Seq(Job)
      /\ r2 \in Seq(Job) /\ h2 \in Seq(Job) /\ b2 \in Seq(Job)
  BY <1>1, HeldType, HeldTypeNext, FlusherType
<1>3. (r \o h) \o b = r \o (h \o b) /\ (r2 \o h2) \o b2 = r2 \o (h2 \o b2)
  <2>1. r \in Seq(Job) /\ h \in Seq(Job) /\ b \in Seq(Job)
    BY <1>2
  <2>2. (r \o h) \o b = r \o (h \o b)
    BY <2>1, Associative
  <2>3. r2 \in Seq(Job) /\ h2 \in Seq(Job) /\ b2 \in Seq(Job)
    BY <1>2
  <2>4. (r2 \o h2) \o b2 = r2 \o (h2 \o b2)
    BY <2>3, Associative
  <2>5. QED
    BY <2>2, <2>4
<1>4. h \o b \in Seq(Job) /\ h2 \o b2 \in Seq(Job) /\ r \o (h \o b) \in Seq(Job)
  BY <1>2, ConcatProperties
<1>5. Saved = (r \o h) \o b /\ Saved' = (r2 \o h2) \o b2
  BY <1>1 DEF Saved
<1>6. QED
  BY <1>1, <1>3, <1>4, <1>5

LEMMA SavedPush ==
  ASSUME TypeInv, TypeInv', PushStep
  PROVE  Extended
<1>1. PICK r \in 1 .. MaxJobs :
        /\ Queue!Accept(r)
        /\ pushed' = IF r \in Within(pushed) THEN pushed ELSE Append(pushed, r)
  BY DEF PushStep
<1>2. r \in Job
  BY <1>1 DEF Job
<1>3. PICK q, q2 : q = Held \o buffer /\ q2 = (Held \o buffer)'
  OBVIOUS
<1>4. q \in Seq(Job) /\ q2 = Append(q, r) /\ rows' = rows /\ rows \in Seq(Job)
  BY <1>1, <1>3, SavedIsRowsAndQueue, FlusherType DEF Queue!Accept
<1>5. Saved' = Append(Saved, r)
  <2>1. rows \o Append(q, r) = Append(rows \o q, r)
    BY <1>2, <1>4, PushTail
  <2>2. Saved = rows \o q /\ Saved' = rows' \o q2
    BY <1>3, SavedIsRowsAndQueue
  <2>3. QED
    BY <1>4, <2>1, <2>2
<1>6. QED
  BY <1>1, <1>2, <1>5 DEF Extended, Queue!Accept

LEMMA SavedHead ==
  ASSUME TypeInv, TypeInv', pushed' = pushed, HeadStep
  PROVE  Unmoved \/ Doubled \/ Shortened
<1>1. PICK q, q2 : q = Held \o buffer /\ q2 = (Held \o buffer)'
  OBVIOUS
<1>2. /\ q \in Seq(Job) /\ q2 \in Seq(Job) /\ rows \in Seq(Job)
      /\ Saved = rows \o q /\ Saved' = rows' \o q2
  BY <1>1, SavedIsRowsAndQueue, FlusherType
<1>3. PICK n \in 1 .. Len(q) :
        Queue!Deliver(n) \/ Queue!Lose(n) \/ \E i \in 0 .. n - 1 : Queue!Repeat(i, n)
  BY <1>1 DEF HeadStep
<1>4. PICK f, t : f = SubSeq(q, 1, n) /\ t = SubSeq(q, n + 1, Len(q))
  OBVIOUS
<1>5. /\ f \in Seq(Job) /\ t \in Seq(Job) /\ q = f \o t
      /\ Queue!First(n) = f /\ Queue!From(n + 1) = t
  <2>1. n \in 0 .. Len(q)
    BY <1>2
  <2>2. f \in Seq(Job) /\ t \in Seq(Job) /\ q = f \o t
    BY <1>2, <1>4, <2>1, Cut
  <2>3. QED
    BY <1>1, <1>4, <2>2 DEF Queue!First, Queue!From
<1>6. (rows \o f) \o t = rows \o (f \o t)
  <2>1. rows \in Seq(Job) /\ f \in Seq(Job) /\ t \in Seq(Job)
    BY <1>2, <1>5
  <2>2. QED
    BY <2>1, Associative
<1>7. CASE Queue!Deliver(n)
  <2>1. rows' = rows \o f /\ (q2 = t \/ (AnswerMayBeLost /\ q2 = q))
    <3>1. \/ (Held \o buffer)' = Queue!From(n + 1)
          \/ AnswerMayBeLost /\ (Held \o buffer)' = Held \o buffer
      BY <1>7 DEF Queue!Deliver
    <3>2. rows' = rows \o Queue!First(n)
      BY <1>7 DEF Queue!Deliver
    <3>3. Queue!First(n) = f /\ Queue!From(n + 1) = t
      BY <1>5
    <3>4. QED
      BY <1>1, <3>1, <3>2, <3>3
  <2>2. CASE q2 = t
    <3>1. Saved' = Saved
      BY <1>2, <1>5, <1>6, <2>1, <2>2
    <3>2. QED
      BY <3>1 DEF Unmoved
  <2>3. CASE AnswerMayBeLost /\ q2 = q
    <3>1. Saved = rows \o (f \o t) /\ Saved' = (rows \o f) \o (f \o t)
      BY <1>2, <1>5, <2>1, <2>3
    <3>2. QED
      BY <1>2, <1>5, <2>3, <3>1 DEF Doubled, PartTwice
  <2>4. QED
    BY <2>1, <2>2, <2>3
<1>8. CASE Queue!Lose(n)
  <2>1. ResultMayBeLost /\ q2 = t /\ rows' = rows
    BY <1>1, <1>5, <1>8 DEF Queue!Lose
  <2>2. Saved = rows \o (f \o t) /\ Saved' = rows \o t
    BY <1>2, <1>5, <2>1
  <2>3. QED
    BY <1>2, <1>5, <2>1, <2>2 DEF Shortened
<1>9. ASSUME NEW i \in 0 .. n - 1, Queue!Repeat(i, n)
      PROVE  Doubled
  <2>1. PICK h, m, back : /\ h = SubSeq(q, 1, i) /\ back = SubSeq(q, i + 1, Len(q))
                          /\ m = SubSeq(q, i + 1, n)
    OBVIOUS
  <2>2. i \in 0 .. Len(q) /\ n \in i .. Len(q) /\ Len(q) \in n .. Len(q) /\ Len(q) \in Nat
    BY <1>2, <1>3
  <2>3. h \in Seq(Job) /\ back \in Seq(Job)
    BY <1>2, <2>1, <2>2, Cut
  <2>4. m \in Seq(Job)
    <3>1. \A k \in i + 1 .. n : q[k] \in Job
      BY <1>2, <2>2, ElementOfSeq
    <3>2. QED
      BY <2>1, <2>2, <3>1, SubSeqProperties
  <2>5. h \o m = f /\ m \o t = back
    <3>1. 1 \in 1 .. Len(q) + 1 /\ i \in 1 - 1 .. Len(q) /\ n \in i .. Len(q)
      BY <2>2
    <3>2. h \o m = f
      BY <1>2, <1>4, <2>1, <3>1, ConcatAdjacentSubSeq
    <3>3. i + 1 \in 1 .. Len(q) + 1 /\ n \in (i + 1) - 1 .. Len(q)
      BY <2>2
    <3>4. m \o t = back
      BY <1>2, <1>4, <2>1, <2>2, <3>3, ConcatAdjacentSubSeq
    <3>5. QED
      BY <3>2, <3>4
  <2>6. AnswerMayBeLost /\ q2 = f \o back /\ rows' = rows
    BY <1>1, <1>5, <1>9, <2>1 DEF Queue!Repeat, Queue!From
  <2>7. PICK a : a = rows \o h
    OBVIOUS
  <2>8. a \in Seq(Job) /\ rows \o f = a \o m
    <3>1. (rows \o h) \o m = rows \o (h \o m)
      BY <1>2, <2>3, <2>4, Associative
    <3>2. QED
      BY <1>2, <2>3, <2>5, <2>7, <3>1, ConcatProperties
  <2>9. q = h \o back
    BY <1>2, <2>1, <2>2, Cut
  <2>10. Saved = a \o (m \o t)
    <3>1. (rows \o h) \o back = rows \o (h \o back)
      BY <1>2, <2>3, Associative
    <3>2. QED
      BY <1>2, <2>5, <2>7, <2>9, <3>1
  <2>11. Saved' = (a \o m) \o (m \o t)
    <3>1. (rows \o f) \o back = rows \o (f \o back)
      <4>1. rows \in Seq(Job) /\ f \in Seq(Job) /\ back \in Seq(Job)
        BY <1>2, <1>5, <2>3
      <4>2. QED
        BY <4>1, Associative
    <3>2. QED
      BY <1>2, <2>5, <2>6, <2>8, <3>1
  <2>12. QED
    BY <1>5, <2>4, <2>6, <2>8, <2>10, <2>11 DEF Doubled, PartTwice
<1>10. QED
  BY <1>3, <1>7, <1>8, <1>9

LEMMA SavedStep ==
  ASSUME QueueInv, [Next]_vars
  PROVE  Unmoved \/ Extended \/ Doubled \/ Shortened
<1>1. TypeInv /\ TypeInv'
  BY QueueInvStep DEF QueueInv, OnceInv
<1>2. CASE PushStep
  BY <1>1, <1>2, SavedPush
<1>3. CASE pushed' = pushed /\ HeadStep
  BY <1>1, <1>3, SavedHead
<1>4. CASE pushed' = pushed /\ UNCHANGED Queue!vars
  <2>1. Saved' = Saved
    BY <1>1, <1>4, SavedIsRowsAndQueue DEF Queue!vars
  <2>2. QED
    BY <1>4, <2>1 DEF Unmoved
<1>5. QED
  BY <1>2, <1>3, <1>4, QueueStep

-----------------------------------------------------------------------------
(* No answer is lost: a result is stored once, in its place.                *)

Placed ==
  /\ \A k, l \in DOMAIN pushed : pushed[k] = pushed[l] => k = l
  /\ Within(Saved) \subseteq Within(pushed)
  /\ \A a, b \in DOMAIN Saved : \A k, l \in DOMAIN pushed :
       a < b /\ Saved[a] = pushed[k] /\ Saved[b] = pushed[l] => k < l

LEMMA PlacedMeansOrder ==
  ASSUME Placed
  PROVE  StoredOnceInOrder
<1>1. ASSUME NEW k \in DOMAIN pushed
      PROVE  Place(pushed[k]) = k
  BY <1>1 DEF Place, Placed
<1>2. ASSUME NEW a \in DOMAIN Saved
      PROVE  \E k \in DOMAIN pushed : Saved[a] = pushed[k] /\ Place(Saved[a]) = k
  BY <1>1, <1>2 DEF Placed, Within
<1>3. ASSUME NEW a \in DOMAIN Saved, NEW b \in DOMAIN Saved, a < b
      PROVE  Place(Saved[a]) < Place(Saved[b])
  BY <1>2, <1>3 DEF Placed
<1>4. QED
  BY <1>3 DEF StoredOnceInOrder, Placed

(* What is appended to a sequence comes last, and only there.               *)
LEMMA AppendLast ==
  ASSUME NEW s \in Seq(Job), NEW e \in Job
  PROVE  /\ Len(s) \in Nat
         /\ DOMAIN s = 1 .. Len(s) /\ DOMAIN Append(s, e) = 1 .. Len(s) + 1
         /\ \A k \in 1 .. Len(s) : Append(s, e)[k] = s[k]
         /\ Append(s, e)[Len(s) + 1] = e
  BY LenProperties, AppendProperties

LEMMA PlacedExtended ==
  ASSUME Placed, Extended, ~AnswerMayBeLost, Saved \in Seq(Job), pushed \in Seq(Job)
  PROVE  Placed'
<1>1. PICK r \in Job : /\ Saved' = Append(Saved, r) /\ r \notin Within(pushed)
                       /\ pushed' = Append(pushed, r)
  BY DEF Extended
<1>2. PICK s, p, s2, p2, m, n :
        /\ s = Saved /\ p = pushed /\ s2 = Saved' /\ p2 = pushed'
        /\ m = Len(Saved) /\ n = Len(pushed)
  OBVIOUS
<1>3. /\ m \in Nat /\ DOMAIN s = 1 .. m /\ DOMAIN s2 = 1 .. m + 1
      /\ \A k \in 1 .. m : s2[k] = s[k]
      /\ s2[m + 1] = r
  BY <1>1, <1>2, AppendLast
<1>4. /\ n \in Nat /\ DOMAIN p = 1 .. n /\ DOMAIN p2 = 1 .. n + 1
      /\ \A k \in 1 .. n : p2[k] = p[k]
      /\ p2[n + 1] = r
  BY <1>1, <1>2, AppendLast
<1>5. /\ \A k \in 1 .. n : p[k] # r
      /\ \A a \in 1 .. m : s[a] # r
  BY <1>1, <1>2, <1>3, <1>4 DEF Placed, Within
<1>6. \A k, l \in 1 .. n + 1 : p2[k] = p2[l] => k = l
  <2>1. \A k, l \in 1 .. n : p[k] = p[l] => k = l
    BY <1>2, <1>4 DEF Placed
  <2>2. QED
    BY <1>4, <1>5, <2>1
<1>7. \A a, b \in 1 .. m + 1 : \A k, l \in 1 .. n + 1 :
        a < b /\ s2[a] = p2[k] /\ s2[b] = p2[l] => k < l
  <2>1. \A a, b \in 1 .. m : \A k, l \in 1 .. n : a < b /\ s[a] = p[k] /\ s[b] = p[l] => k < l
    <3>1. \A a, b \in DOMAIN s : \A k, l \in DOMAIN p :
            a < b /\ s[a] = p[k] /\ s[b] = p[l] => k < l
      BY <1>2 DEF Placed
    <3>2. QED
      BY <1>3, <1>4, <3>1
  <2>2. ASSUME NEW a \in 1 .. m + 1, NEW b \in 1 .. m + 1, NEW k \in 1 .. n + 1,
               NEW l \in 1 .. n + 1, a < b, s2[a] = p2[k], s2[b] = p2[l]
        PROVE  k < l
    <3>1. a \in 1 .. m /\ s2[a] = s[a]
      BY <1>3, <2>2
    <3>2. k \in 1 .. n /\ p2[k] = p[k]
      <4>1. s[a] # r
        BY <1>5, <3>1
      <4>2. k # n + 1
        BY <1>4, <2>2, <3>1, <4>1
      <4>3. QED
        BY <1>4, <2>2, <4>2
    <3>3. CASE l = n + 1
      BY <1>4, <3>2, <3>3
    <3>4. CASE l # n + 1
      <4>1. l \in 1 .. n /\ p2[l] = p[l]
        BY <1>4, <2>2, <3>4
      <4>2. b # m + 1
        BY <1>3, <1>5, <2>2, <4>1
      <4>3. b \in 1 .. m /\ s2[b] = s[b]
        BY <1>3, <2>2, <4>2
      <4>4. QED
        BY <2>1, <2>2, <3>1, <3>2, <4>1, <4>3
    <3>5. QED
      BY <3>3, <3>4
  <2>3. QED
    BY <2>2
<1>8. Within(s2) \subseteq Within(p2)
  <2>1. Within(s2) = Within(s) \cup {r} /\ Within(p2) = Within(p) \cup {r}
    BY <1>1, <1>2, WithinAppend
  <2>2. QED
    BY <1>2, <2>1 DEF Placed
<1>9. QED
  BY <1>2, <1>3, <1>4, <1>6, <1>7, <1>8 DEF Placed

(* Leaving a part out keeps the order of what is left.                      *)
LEMMA PlacedShortened ==
  ASSUME Placed, Shortened
  PROVE  Placed'
<1>1. PICK a, c, t \in Seq(Job) : Saved = a \o (c \o t) /\ Saved' = a \o t
  BY DEF Shortened
<1>2. PICK x, y, z : x = Len(a) /\ y = Len(c) /\ z = Len(t)
  OBVIOUS
<1>3. PICK s, s2, p : s = Saved /\ s2 = Saved' /\ p = pushed
  OBVIOUS
<1>4. x \in Nat /\ y \in Nat /\ z \in Nat
  BY <1>2, LenProperties
<1>5. /\ c \o t \in Seq(Job) /\ Len(c \o t) = y + z
      /\ \A k \in 1 .. y + z : (c \o t)[k] = IF k <= y THEN c[k] ELSE t[k - y]
  BY <1>2, ConcatProperties
<1>6. /\ s \in Seq(Job) /\ Len(s) = x + (y + z)
      /\ \A k \in 1 .. x + (y + z) : s[k] = IF k <= x THEN a[k] ELSE (c \o t)[k - x]
  BY <1>1, <1>2, <1>3, <1>5, ConcatProperties
<1>7. /\ s2 \in Seq(Job) /\ Len(s2) = x + z
      /\ \A k \in 1 .. x + z : s2[k] = IF k <= x THEN a[k] ELSE t[k - x]
  BY <1>1, <1>2, <1>3, ConcatProperties
<1>8. DOMAIN s = 1 .. x + (y + z) /\ DOMAIN s2 = 1 .. x + z
  BY <1>6, <1>7, LenProperties
<1> DEFINE from(k) == IF k <= x THEN k ELSE k + y
<1>9. \A k \in 1 .. x + z : from(k) \in 1 .. x + (y + z) /\ s2[k] = s[from(k)]
  <2>1. ASSUME NEW k \in 1 .. x + z, k <= x
        PROVE  k \in 1 .. x + (y + z) /\ s2[k] = s[k]
    BY <1>4, <1>6, <1>7, <2>1
  <2>2. ASSUME NEW k \in 1 .. x + z, ~(k <= x)
        PROVE  k + y \in 1 .. x + (y + z) /\ s2[k] = s[k + y]
    <3>1. /\ k + y \in 1 .. x + (y + z) /\ ~(k + y <= x) /\ (k + y) - x \in 1 .. y + z
          /\ ~((k + y) - x <= y) /\ ((k + y) - x) - y = k - x
      BY <1>4, <2>2
    <3>2. s[k + y] = t[k - x]
      BY <1>5, <1>6, <3>1
    <3>3. QED
      BY <1>7, <2>2, <3>1, <3>2
  <2>3. QED
    BY <2>1, <2>2
<1>10. \A k, l \in 1 .. x + z : k < l => from(k) < from(l)
  BY <1>4
<1>11. p' = p /\ pushed' = pushed
  BY <1>3 DEF Shortened
<1> HIDE DEF from
<1>12. Within(s2) \subseteq Within(s)
  BY <1>8, <1>9 DEF Within
<1>13. \A i, j \in 1 .. x + z : \A k, l \in DOMAIN p :
         i < j /\ s2[i] = p[k] /\ s2[j] = p[l] => k < l
  <2>1. \A i, j \in 1 .. x + (y + z) : \A k, l \in DOMAIN p :
         i < j /\ s[i] = p[k] /\ s[j] = p[l] => k < l
    BY <1>3, <1>8 DEF Placed
  <2>2. QED
    BY <1>9, <1>10, <2>1
<1>14. QED
  BY <1>3, <1>8, <1>11, <1>12, <1>13 DEF Placed

LEMMA NothingSavedInit ==
  ASSUME Init
  PROVE  Saved = <<>> /\ pushed = <<>>
<1>1. Saved = <<>> \o <<>> \o <<>> /\ <<>> \o <<>> \o <<>> = <<>>
  BY ConcatEmptySeq DEF Init, Saved, Held, Resting
<1>2. QED
  BY <1>1 DEF Init

LEMMA PlacedInit ==
  ASSUME Init
  PROVE  Placed
  BY NothingSavedInit DEF Placed, Within

(* Whatever Redis, the context or the process lose, and however many        *)
(* workers and flushes there are: as long as no answer is lost, a result is *)
(* stored at most once, and never before one that was pushed earlier        *)
(* (flusher.go:32-44, 58-124).                                              *)
THEOREM NoResultIsDoubledOrOvertaken ==
  ASSUME Faults \cap {"ack", "resend"} = {}
  PROVE  Spec => []StoredOnceInOrder
<1> DEFINE Inv == QueueInv /\ Placed
<1>1. Init => Inv
  BY QueueInvInit, PlacedInit
<1>2. Inv /\ [Next]_vars => Inv'
  <2> SUFFICES ASSUME Inv, [Next]_vars
               PROVE  Inv'
    OBVIOUS
  <2>1. ~AnswerMayBeLost
    BY DEF AnswerMayBeLost
  <2>2. QueueInv' /\ TypeInv /\ TypeInv'
    BY QueueInvStep DEF QueueInv, OnceInv
  <2>3. Saved \in Seq(Job) /\ pushed \in Seq(Job)
    BY <2>2, SavedIsRowsAndQueue, FlusherType
  <2>4. Unmoved \/ Extended \/ Shortened
    BY <2>1, SavedStep DEF Doubled
  <2>5. Unmoved => Placed'
    BY DEF Unmoved, Placed
  <2>6. QED
    BY <2>1, <2>2, <2>3, <2>4, <2>5, PlacedExtended, PlacedShortened
<1>3. Inv => StoredOnceInOrder
  BY PlacedMeansOrder
<1>4. QED
  BY <1>1, <1>2, <1>3, PTL DEF Spec

-----------------------------------------------------------------------------
(* Nothing is lost: each result is first stored in its place.               *)

LEMMA FirstOfAppend ==
  ASSUME NEW s \in Seq(Job), NEW e \in Job, NEW n \in 1 .. Len(s)
  PROVE  FirstOf(Append(s, e), n) = FirstOf(s, n)
<1>1. /\ Len(s) \in Nat /\ \A k \in 1 .. Len(s) : Append(s, e)[k] = s[k]
  BY AppendLast
<1>2. \A k \in 1 .. n : Append(s, e)[k] = s[k]
  BY <1>1
<1>3. QED
  BY <1>2 DEF FirstOf

LEMMA FirstOfWhole ==
  ASSUME NEW s \in Seq(Job)
  PROVE  FirstOf(s, Len(s)) = Within(s)
  BY LenProperties DEF FirstOf, Within

LEMMA DeliveredExtended ==
  ASSUME DeliveredInOrder, Extended, Saved \in Seq(Job), pushed \in Seq(Job)
  PROVE  DeliveredInOrder'
<1>1. PICK r \in Job :
        /\ Saved' = Append(Saved, r)
        /\ \/ r \in Within(pushed) /\ pushed' = pushed
           \/ r \notin Within(pushed) /\ pushed' = Append(pushed, r)
  BY DEF Extended
<1>2. PICK s, p, s2, p2, len, old :
        /\ s = Saved /\ p = pushed /\ s2 = Saved' /\ p2 = pushed'
        /\ len = Len(Saved) /\ old = Len(pushed)
  OBVIOUS
<1>3. /\ s \in Seq(Job) /\ p \in Seq(Job) /\ len \in Nat /\ old \in Nat
      /\ DOMAIN s = 1 .. len /\ DOMAIN s2 = 1 .. len + 1 /\ DOMAIN p = 1 .. old
      /\ s2 = Append(s, r) /\ Len(s2) = len + 1 /\ s2 \in Seq(Job)
  BY <1>1, <1>2, AppendLast, LenProperties, AppendProperties
<1>4. Within(s) = Within(p) /\ \A n \in 1 .. old : \E m \in 1 .. len : FirstOf(s, m) = FirstOf(p, n)
  BY <1>2, <1>3 DEF DeliveredInOrder
<1>5. Within(s2) = Within(s) \cup {r}
  BY <1>3, WithinAppend
<1>6. \A m \in 1 .. len : FirstOf(s2, m) = FirstOf(s, m) /\ m \in 1 .. len + 1
  <2>1. len = Len(s)
    BY <1>2
  <2>2. QED
    BY <1>3, <2>1, FirstOfAppend
<1>7. CASE r \in Within(pushed) /\ pushed' = pushed
  <2>1. Within(s2) = Within(p)
    BY <1>2, <1>4, <1>5, <1>7
  <2>2. \A n \in 1 .. old : \E m \in 1 .. len + 1 : FirstOf(s2, m) = FirstOf(p, n)
    BY <1>4, <1>6
  <2>3. p2 = p /\ \A n \in DOMAIN p : \E m \in DOMAIN s2 : FirstOf(s2, m) = FirstOf(p, n)
    BY <1>2, <1>3, <1>7, <2>2
  <2>4. QED
    BY <1>2, <2>1, <2>3 DEF DeliveredInOrder
<1>8. CASE r \notin Within(pushed) /\ pushed' = Append(pushed, r)
  <2>1. /\ p2 = Append(p, r) /\ DOMAIN p2 = 1 .. old + 1 /\ Len(p2) = old + 1 /\ p2 \in Seq(Job)
        /\ Within(p2) = Within(p) \cup {r}
    BY <1>2, <1>3, <1>8, AppendLast, AppendProperties, WithinAppend
  <2>2. Within(s2) = Within(p2)
    BY <1>4, <1>5, <2>1
  <2>3. ASSUME NEW n \in 1 .. old + 1
        PROVE  \E m \in 1 .. len + 1 : FirstOf(s2, m) = FirstOf(p2, n)
    <3>1. CASE n = old + 1
      <4>1. FirstOf(s2, len + 1) = FirstOf(p2, old + 1)
        BY <1>3, <2>1, <2>2, FirstOfWhole
      <4>2. len + 1 \in 1 .. len + 1
        BY <1>3
      <4>3. QED
        BY <3>1, <4>1, <4>2
    <3>2. CASE n # old + 1
      <4>1. n \in 1 .. old /\ old = Len(p)
        BY <1>2, <1>3, <3>2
      <4>2. FirstOf(p2, n) = FirstOf(p, n)
        BY <1>3, <2>1, <4>1, FirstOfAppend
      <4>3. QED
        BY <1>4, <1>6, <4>1, <4>2
    <3>3. QED
      BY <3>1, <3>2
  <2>4. QED
    BY <1>2, <1>3, <2>1, <2>2, <2>3 DEF DeliveredInOrder
<1>9. QED
  BY <1>1, <1>7, <1>8

(* Doubling a part in place adds nothing that was not reached before.       *)
LEMMA FirstOfDoubled ==
  ASSUME NEW s, NEW s2, PartTwice(s, s2)
  PROVE  /\ Within(s2) = Within(s)
         /\ \A m \in DOMAIN s : \E m2 \in DOMAIN s2 : FirstOf(s2, m2) = FirstOf(s, m)
<1> PICK a, c, t \in Seq(Job) : s = a \o (c \o t) /\ s2 = (a \o c) \o (c \o t)
  BY DEF PartTwice
<1>1. PICK x, y, z, u, v : x = Len(a) /\ y = Len(c) /\ z = Len(t) /\ u = a \o c /\ v = c \o t
  OBVIOUS
<1>2. x \in Nat /\ y \in Nat /\ z \in Nat
  BY <1>1, LenProperties
<1>3. /\ u \in Seq(Job) /\ Len(u) = x + y
      /\ \A k \in 1 .. x + y : u[k] = IF k <= x THEN a[k] ELSE c[k - x]
  BY <1>1, ConcatProperties
<1>4. /\ v \in Seq(Job) /\ Len(v) = y + z
      /\ \A k \in 1 .. y + z : v[k] = IF k <= y THEN c[k] ELSE t[k - y]
  BY <1>1, ConcatProperties
<1>5. /\ s \in Seq(Job) /\ Len(s) = x + (y + z)
      /\ \A k \in 1 .. x + (y + z) : s[k] = IF k <= x THEN a[k] ELSE v[k - x]
  BY <1>1, <1>4, ConcatProperties
<1>6. /\ s2 \in Seq(Job) /\ Len(s2) = (x + y) + (y + z)
      /\ \A k \in 1 .. (x + y) + (y + z) : s2[k] = IF k <= x + y THEN u[k] ELSE v[k - (x + y)]
  BY <1>1, <1>3, <1>4, ConcatProperties
<1>7. DOMAIN s = 1 .. x + (y + z) /\ DOMAIN s2 = 1 .. (x + y) + (y + z)
  BY <1>5, <1>6, LenProperties
<1>8. ASSUME NEW k \in 1 .. x + y
      PROVE  s2[k] = s[k]
  <2>1. k \in 1 .. (x + y) + (y + z) /\ k <= x + y /\ k \in 1 .. x + (y + z)
    BY <1>2
  <2>2. s2[k] = u[k]
    BY <1>6, <2>1
  <2>3. CASE k <= x
    BY <1>3, <1>5, <2>1, <2>2, <2>3
  <2>4. CASE ~(k <= x)
    <3>1. k - x \in 1 .. y + z /\ k - x <= y
      BY <1>2, <2>4
    <3>2. s[k] = c[k - x] /\ u[k] = c[k - x]
      BY <1>3, <1>4, <1>5, <2>1, <2>4, <3>1
    <3>3. QED
      BY <2>2, <3>2
  <2>5. QED
    BY <2>3, <2>4
<1>9. ASSUME NEW k \in x + 1 .. x + (y + z)
      PROVE  s2[k + y] = s[k]
  <2>1. /\ k + y \in 1 .. (x + y) + (y + z) /\ ~(k + y <= x + y) /\ (k + y) - (x + y) = k - x
        /\ k \in 1 .. x + (y + z) /\ ~(k <= x)
    BY <1>2
  <2>2. s2[k + y] = v[k - x]
    BY <1>6, <2>1
  <2>3. QED
    BY <1>5, <2>1, <2>2
<1>10. ASSUME NEW m \in 1 .. x + (y + z), x + y <= m
       PROVE  FirstOf(s2, m + y) = FirstOf(s, m)
  <2>1. ASSUME NEW k \in 1 .. m
        PROVE  s[k] \in FirstOf(s2, m + y)
    <3>1. CASE k <= x
      <4>1. k \in 1 .. x + y /\ k \in 1 .. m + y
        BY <1>2, <3>1
      <4>2. QED
        BY <1>8, <4>1 DEF FirstOf
    <3>2. CASE ~(k <= x)
      <4>1. k \in x + 1 .. x + (y + z) /\ k + y \in 1 .. m + y
        BY <1>2, <3>2
      <4>2. QED
        BY <1>9, <4>1 DEF FirstOf
    <3>3. QED
      BY <3>1, <3>2
  <2>2. ASSUME NEW k \in 1 .. m + y
        PROVE  s2[k] \in FirstOf(s, m)
    <3>1. CASE k <= x + y
      <4>1. k \in 1 .. x + y /\ k \in 1 .. m
        BY <1>2, <1>10, <3>1
      <4>2. QED
        BY <1>8, <4>1 DEF FirstOf
    <3>2. CASE ~(k <= x + y)
      <4>1. k - y \in x + 1 .. x + (y + z) /\ k - y \in 1 .. m /\ (k - y) + y = k
        BY <1>2, <3>2
      <4>2. QED
        BY <1>9, <4>1 DEF FirstOf
    <3>3. QED
      BY <3>1, <3>2
  <2>3. QED
    BY <2>1, <2>2 DEF FirstOf
<1>11. ASSUME NEW m \in 1 .. x + (y + z), ~(x + y <= m)
       PROVE  FirstOf(s2, m) = FirstOf(s, m)
  <2>1. \A k \in 1 .. m : k \in 1 .. x + y
    BY <1>2, <1>11
  <2>2. \A k \in 1 .. m : s2[k] = s[k]
    BY <1>8, <2>1
  <2>3. QED
    BY <2>2 DEF FirstOf
<1>12. ASSUME NEW m \in DOMAIN s
       PROVE  \E m2 \in DOMAIN s2 : FirstOf(s2, m2) = FirstOf(s, m)
  <2>1. m \in 1 .. x + (y + z) /\ m \in 1 .. (x + y) + (y + z)
        /\ (x + y <= m => m + y \in 1 .. (x + y) + (y + z))
    BY <1>2, <1>7
  <2>2. QED
    BY <1>7, <1>10, <1>11, <2>1
<1>13. Within(s2) = Within(s)
  <2>1. CASE x + (y + z) = 0
    <3>1. x + y + y + z = 0
      BY <1>2, <2>1
    <3>2. DOMAIN s2 = {} /\ DOMAIN s = {}
      BY <1>2, <1>7, <2>1, <3>1
    <3>3. QED
      BY <3>2 DEF Within
  <2>2. CASE x + (y + z) # 0
    <3>1. PICK m : m = x + (y + z)
      OBVIOUS
    <3>2. m \in 1 .. x + (y + z) /\ x + y <= m /\ m + y = (x + y) + (y + z)
      BY <1>2, <2>2, <3>1
    <3>3. FirstOf(s2, m + y) = FirstOf(s, m)
      BY <1>10, <3>2
    <3>4. FirstOf(s2, Len(s2)) = FirstOf(s, Len(s))
      BY <1>5, <1>6, <3>1, <3>2, <3>3
    <3>5. QED
      BY <1>5, <1>6, <3>4, FirstOfWhole
  <2>3. QED
    BY <2>1, <2>2
<1>14. QED
  BY <1>12, <1>13

LEMMA DeliveredDoubled ==
  ASSUME DeliveredInOrder, Doubled
  PROVE  DeliveredInOrder'
<1>1. PICK s, p, s2 : s = Saved /\ p = pushed /\ s2 = Saved'
  OBVIOUS
<1>2. PartTwice(s, s2) /\ pushed' = pushed
  BY <1>1 DEF Doubled
<1>3. /\ Within(s2) = Within(s)
      /\ \A m \in DOMAIN s : \E m2 \in DOMAIN s2 : FirstOf(s2, m2) = FirstOf(s, m)
  BY <1>2, FirstOfDoubled
<1>4. /\ Within(s) = Within(p)
      /\ \A n \in DOMAIN p : \E m \in DOMAIN s : FirstOf(s, m) = FirstOf(p, n)
  BY <1>1 DEF DeliveredInOrder
<1>5. \A n \in DOMAIN p : \E m \in DOMAIN s2 : FirstOf(s2, m) = FirstOf(p, n)
  BY <1>3, <1>4
<1>6. QED
  BY <1>1, <1>2, <1>3, <1>4, <1>5 DEF DeliveredInOrder

(* Whether PostgreSQL refuses a transaction, commits one without the        *)
(* flusher knowing, or Redis pushes without go-redis knowing, and however   *)
(* often: no result is lost, and the first copy of each is stored, or still *)
(* to be stored, in the order of the pushes (flusher.go:32, :115,           *)
(* redis.go:57).                                                            *)
THEOREM EveryPushIsDeliveredInOrder ==
  ASSUME Faults \cap {"redis", "timeout", "crash"} = {}
  PROVE  Spec => []DeliveredInOrder
<1> DEFINE Inv == QueueInv /\ DeliveredInOrder
<1>1. Init => Inv
  BY QueueInvInit, NothingSavedInit DEF DeliveredInOrder, Within
<1>2. Inv /\ [Next]_vars => Inv'
  <2> SUFFICES ASSUME Inv, [Next]_vars
               PROVE  Inv'
    OBVIOUS
  <2>1. ~ResultMayBeLost
    BY DEF ResultMayBeLost
  <2>2. QueueInv' /\ TypeInv /\ TypeInv'
    BY QueueInvStep DEF QueueInv, OnceInv
  <2>3. Saved \in Seq(Job) /\ pushed \in Seq(Job)
    BY <2>2, SavedIsRowsAndQueue, FlusherType
  <2>4. Unmoved \/ Extended \/ Doubled
    BY <2>1, SavedStep DEF Shortened
  <2>5. Unmoved => DeliveredInOrder'
    BY DEF Unmoved, DeliveredInOrder
  <2>6. QED
    BY <2>2, <2>3, <2>4, <2>5, DeliveredExtended, DeliveredDoubled
<1>3. QED
  BY <1>1, <1>2, PTL DEF Spec

(* However often the database refuses a transaction, and however the pushes *)
(* of new results come in between, the results reach ping_results in the    *)
(* order in which they were pushed, and none is missing or doubled: popping *)
(* from the head and pushing a failed batch back last item first            *)
(* (flusher.go:32-44, 59-123) amounts to a queue with transactional removal.*)
THEOREM ResultsKeepTheirOrder ==
  ASSUME Faults \subseteq {"db"}
  PROVE  Spec => []StoredInOrder
<1> DEFINE Inv == QueueInv /\ StoredInOrder
<1>1. Init => Inv
  BY QueueInvInit, NothingSavedInit DEF StoredInOrder
<1>2. Inv /\ [Next]_vars => Inv'
  <2>1. ~AnswerMayBeLost /\ ~ResultMayBeLost
    BY DEF AnswerMayBeLost, ResultMayBeLost
  <2>2. ASSUME Inv, [Next]_vars
        PROVE  Inv'
    <3>1. Unmoved \/ Extended
      BY <2>1, <2>2, SavedStep DEF Doubled, Shortened
    <3>2. StoredInOrder'
      BY <2>1, <2>2, <3>1 DEF Unmoved, Extended, StoredInOrder
    <3>3. QED
      BY <2>2, <3>2, QueueInvStep
  <2>3. QED
    BY <2>2
<1>3. QED
  BY <1>1, <1>2, PTL DEF Spec
=============================================================================
