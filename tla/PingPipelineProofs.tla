-------------------------- MODULE PingPipelineProofs --------------------------
(***************************************************************************)
(* Theorems about PingPipeline, for any number of workers and jobs, any    *)
(* capacity of the channels and any size of a flush.                       *)
(***************************************************************************)
EXTENDS PingPipeline, SequenceTheorems, FiniteSetTheorems, TLAPS

-----------------------------------------------------------------------------
(* Facts about a list that is cut at its head, put back and appended to.    *)

(* What LPopCount returns, followed by what it leaves, is the list.         *)
LEMMA Cut ==
  ASSUME NEW S, NEW s \in Seq(S), NEW n \in 0 .. Len(s)
  PROVE  /\ SubSeq(s, 1, n) \in Seq(S)
         /\ SubSeq(s, n + 1, Len(s)) \in Seq(S)
         /\ SubSeq(s, 1, n) \o SubSeq(s, n + 1, Len(s)) = s
<1>1. SubSeq(s, 1, n) \in Seq(S)
  BY SubSeqProperties
<1>2. SubSeq(s, n + 1, Len(s)) \in Seq(S)
  BY SubSeqProperties
<1>3. SubSeq(s, 1, n) \o SubSeq(s, n + 1, Len(s)) = SubSeq(s, 1, Len(s))
  <2>1. 1 \in 1 .. Len(s) + 1 /\ n \in 1 - 1 .. Len(s) /\ Len(s) \in n .. Len(s)
    OBVIOUS
  <2>2. QED
    BY <2>1, ConcatAdjacentSubSeq
<1>4. QED
  BY <1>1, <1>2, <1>3, SubSeqFull

(* Concatenation is associative, with a name for the inner one.             *)
LEMMA Regroup ==
  ASSUME NEW S, NEW f \in Seq(S), NEW h \in Seq(S), NEW t \in Seq(S), NEW g, g = f \o h
  PROVE  g \o t = f \o (h \o t)
  BY ConcatAssociative

(* Pushing the last item of a batch to the head of the list moves it there. *)
LEMMA PutBack ==
  ASSUME NEW S, NEW b \in Seq(S), NEW t \in Seq(S), NEW i \in 1 .. Len(b)
  PROVE  /\ <<b[i]>> \o t \in Seq(S)
         /\ SubSeq(b, 1, i - 1) \o (<<b[i]>> \o t) = SubSeq(b, 1, i) \o t
<1>1. SubSeq(b, 1, i - 1) \in Seq(S)
  BY Cut
<1>2. <<b[i]>> \in Seq(S)
  OBVIOUS
<1>3. SubSeq(b, 1, i) = SubSeq(b, 1, i - 1) \o <<b[i]>>
  <2>1. 1 \in 1 .. Len(b) /\ i \in 1 .. Len(b)
    OBVIOUS
  <2>2. QED
    BY <2>1, SubSeqRecursiveSecond
<1>4. <<b[i]>> \o t \in Seq(S)
  BY <1>2, ConcatProperties
<1>5. SubSeq(b, 1, i) \o t = SubSeq(b, 1, i - 1) \o (<<b[i]>> \o t)
  <2>1. PICK f, h, g : f = SubSeq(b, 1, i - 1) /\ h = <<b[i]>> /\ g = SubSeq(b, 1, i)
    OBVIOUS
  <2>2. f \in Seq(S) /\ h \in Seq(S) /\ g = f \o h
    BY <1>1, <1>2, <1>3, <2>1
  <2>3. g \o t = f \o (h \o t)
    BY <2>2, Regroup
  <2>4. QED
    BY <2>1, <2>3
<1>6. QED
  BY <1>4, <1>5

(* A push to the tail of the list is a push to the tail of the whole.       *)
LEMMA PushTail ==
  ASSUME NEW S, NEW s \in Seq(S), NEW t \in Seq(S), NEW e \in S
  PROVE  s \o Append(t, e) = Append(s \o t, e)
<1>1. <<e>> \in Seq(S)
  OBVIOUS
<1>2. s \o t \in Seq(S)
  BY ConcatProperties
<1>3. QED
  BY <1>1, <1>2, AppendIsConcat, ConcatAssociative

(* The two parts of a concatenation are its front and what follows it.      *)
LEMMA Split ==
  ASSUME NEW S, NEW f \in Seq(S), NEW t \in Seq(S), NEW q, q = f \o t
  PROVE  /\ q \in Seq(S) /\ Len(q) = Len(f) + Len(t)
         /\ SubSeq(q, 1, Len(f)) = f
         /\ SubSeq(q, Len(f) + 1, Len(q)) = t
<1>1. PICK m, n : m = Len(f) /\ n = Len(t)
  OBVIOUS
<1>2. /\ m \in Nat /\ n \in Nat
      /\ q \in Seq(S) /\ Len(q) = m + n
      /\ \A k \in 1 .. m + n : q[k] = IF k <= m THEN f[k] ELSE t[k - m]
  BY <1>1, ConcatProperties, LenProperties
<1>3. SubSeq(q, 1, m) = f
  <2>1. SubSeq(q, 1, m) \in Seq(S)
    BY <1>2, Cut
  <2>2. \A k \in 1 .. m : q[k] = f[k]
    BY <1>2
  <2>3. \A k \in 1 .. m : q[k] \in S
    BY <1>1, <2>2, ElementOfSeq
  <2>4. Len(SubSeq(q, 1, m)) = m /\ \A k \in 1 .. m - 1 + 1 : SubSeq(q, 1, m)[k] = q[1 + k - 1]
    BY <1>2, <2>3, SubSeqProperties
  <2>5. \A k \in 1 .. m : SubSeq(q, 1, m)[k] = f[k]
    BY <1>2, <2>2, <2>4
  <2>6. QED
    BY <1>1, <2>1, <2>4, <2>5, SeqEqual
<1>4. ASSUME NEW a, NEW b, a = m + 1, b = m + n
      PROVE  SubSeq(q, a, b) = t
  <2>1. /\ a \in Int /\ b \in Int /\ b - a + 1 = n
        /\ (IF a <= b THEN b - a + 1 ELSE 0) = n
    BY <1>2, <1>4
  <2>2. \A k \in a .. b : q[k] \in S
    BY <1>2, <1>4, ElementOfSeq
  <2>3. /\ SubSeq(q, a, b) \in Seq(S)
        /\ Len(SubSeq(q, a, b)) = IF a <= b THEN b - a + 1 ELSE 0
        /\ \A k \in 1 .. b - a + 1 : SubSeq(q, a, b)[k] = q[a + k - 1]
    BY ONLY <2>1, <2>2, SubSeqProperties
  <2>4. Len(SubSeq(q, a, b)) = n
    BY <2>1, <2>3, Zenon
  <2>5. \A k \in 1 .. n : SubSeq(q, a, b)[k] = t[k]
    <3>1. ASSUME NEW k \in 1 .. n
          PROVE  SubSeq(q, a, b)[k] = t[k]
      <4>1. SubSeq(q, a, b)[k] = q[a + k - 1]
        BY <2>1, <2>3, Zenon
      <4>2. a + k - 1 = m + k /\ m + k \in 1 .. m + n /\ ~(m + k <= m) /\ (m + k) - m = k
        BY <1>2, <1>4
      <4>3. q[m + k] = t[(m + k) - m]
        BY <1>2, <4>2, Zenon
      <4>4. QED
        BY <4>1, <4>2, <4>3
    <3>2. QED
      BY <3>1
  <2>6. QED
    BY <1>1, <2>3, <2>4, <2>5, SeqEqual
<1>5. QED
  BY <1>1, <1>2, <1>3, <1>4

-----------------------------------------------------------------------------
(* Type correctness.  It needs that the flusher is never further than its   *)
(* batch is long: otherwise what it requeues would not be a result.         *)

InHand == flusher.i <= Len(flusher.batch)

TypeInv == TypeOK /\ InHand

LEMMA RestingType == Resting \in Flusher /\ Resting.i <= Len(Resting.batch)
  BY DEF Resting, Flusher

LEMMA TypeInit ==
  ASSUME Init
  PROVE  TypeInv
<1>1. flusher \in Flusher /\ InHand
  BY RestingType DEF Init, InHand
<1>2. worker \in [Workers -> Nat] /\ processor \in Nat
  BY DEF Init, NULL
<1>3. jobs \in Seq(Job) /\ results \in Seq(Job) /\ buffer \in Seq(Job)
  BY DEF Init
<1>4. rows \in Seq(Job) /\ pushed \in Seq(Job) /\ missed \subseteq Job
  BY DEF Init
<1>5. feeding \in Nat /\ waiting \in Nat /\ born \in Nat
      /\ expired \in BOOLEAN /\ unheard \in BOOLEAN
  BY DEF Init
<1>6. QED
  BY <1>1, <1>2, <1>3, <1>4, <1>5 DEF TypeInv, TypeOK

LEMMA GoType ==
  ASSUME TypeInv, NEW point \in {"begin", "insert", "requeue"},
         NEW n \in 0 .. Len(flusher.batch), Go(point, n)
  PROVE  flusher' \in Flusher /\ InHand'
<1>1. flusher' = [pc |-> point, batch |-> flusher.batch, i |-> n]
  BY DEF TypeInv, TypeOK, Go, Flusher
<1>2. flusher.batch \in Seq(Job)
  BY DEF TypeInv, TypeOK, Flusher
<1>3. QED
  BY <1>1, <1>2 DEF Flusher, InHand

LEMMA RestType ==
  ASSUME flusher' = Resting
  PROVE  flusher' \in Flusher /\ InHand'
  BY RestingType DEF InHand

LEMMA ToRequeueType ==
  ASSUME TypeInv, ToRequeue
  PROVE  flusher' \in Flusher /\ InHand'
<1>1. Len(flusher.batch) \in 0 .. Len(flusher.batch)
  BY DEF TypeInv, TypeOK, Flusher
<1>2. QED
  BY <1>1, GoType DEF ToRequeue

LEMMA TypeProduce ==
  ASSUME TypeInv, Produce
  PROVE  TypeInv'
<1>1. born + 1 \in Job
  BY DEF TypeInv, TypeOK, Job
<1>2. Enqueue => jobs' \in Seq(Job) /\ born' \in Nat
  BY <1>1 DEF Enqueue, TypeInv, TypeOK
<1>3. CASE FeedRound
  BY <1>3 DEF FeedRound, Budget, TypeInv, TypeOK, InHand, pool, storage, observers
<1>4. CASE AddMonitor
  BY <1>4 DEF AddMonitor, TypeInv, TypeOK, InHand, pool, storage, observers
<1>5. CASE FeedSend
  BY <1>2, <1>5 DEF FeedSend, Enqueue, TypeInv, TypeOK, InHand, storage
<1>6. CASE MonitorSend
  BY <1>2, <1>6 DEF MonitorSend, Enqueue, TypeInv, TypeOK, InHand, storage
<1>7. QED
  BY <1>3, <1>4, <1>5, <1>6 DEF Produce

LEMMA TypeWork ==
  ASSUME TypeInv, NEW w \in Workers, Work(w)
  PROVE  TypeInv'
<1>1. CASE TakeJob(w)
  <2>1. Head(jobs) \in Job /\ Tail(jobs) \in Seq(Job)
    BY <1>1, HeadTailProperties DEF TakeJob, TypeInv, TypeOK
  <2>2. worker' \in [Workers -> Nat]
    BY <1>1, <2>1 DEF TakeJob, TypeInv, TypeOK, Job
  <2>3. QED
    BY <1>1, <2>1, <2>2 DEF TakeJob, TypeInv, TypeOK, InHand, sources, storage, observers
<1>2. CASE SendResult(w)
  <2>1. worker[w] \in Job
    BY <1>2 DEF SendResult, TypeInv, TypeOK, Job, NULL
  <2>2. results' \in Seq(Job)
    BY <1>2, <2>1 DEF SendResult, TypeInv, TypeOK
  <2>3. worker' \in [Workers -> Nat]
    BY <1>2 DEF SendResult, TypeInv, TypeOK, NULL
  <2>4. QED
    BY <1>2, <2>2, <2>3 DEF SendResult, TypeInv, TypeOK, InHand, sources, storage, observers
<1>3. QED
  BY <1>1, <1>2 DEF Work

LEMMA TypeProcess ==
  ASSUME TypeInv, Process
  PROVE  TypeInv'
<1>1. CASE TakeResult
  <2>1. Head(results) \in Job /\ Tail(results) \in Seq(Job)
    BY <1>1, HeadTailProperties DEF TakeResult, TypeInv, TypeOK
  <2>2. QED
    BY <1>1, <2>1 DEF TakeResult, TypeInv, TypeOK, InHand, sources, storage, observers, Job
<1>2. CASE SaveResult
  <2>1. processor \in Job
    BY <1>2 DEF SaveResult, TypeInv, TypeOK, Job, NULL
  <2>2. Append(buffer, processor) \in Seq(Job) /\ Append(pushed, processor) \in Seq(Job)
    BY <2>1 DEF TypeInv, TypeOK
  <2>3. buffer' \in Seq(Job) /\ pushed' \in Seq(Job)
    BY <1>2, <2>2 DEF SaveResult, Pushed, TypeInv, TypeOK
  <2>4. missed' \subseteq Job
    BY <1>2, <2>1 DEF SaveResult, TypeInv, TypeOK
  <2>5. QED
    BY <1>2, <2>3, <2>4 DEF SaveResult, TypeInv, TypeOK, InHand, sources, NULL
<1>3. CASE PushUnheard
  <2>1. processor \in Job
    BY <1>3 DEF PushUnheard, TypeInv, TypeOK, Job, NULL
  <2>2. Append(buffer, processor) \in Seq(Job) /\ Append(pushed, processor) \in Seq(Job)
    BY <2>1 DEF TypeInv, TypeOK
  <2>3. buffer' \in Seq(Job) /\ pushed' \in Seq(Job)
    BY <1>3, <2>2 DEF PushUnheard, Pushed, TypeInv, TypeOK
  <2>4. QED
    BY <1>3, <2>3 DEF PushUnheard, TypeInv, TypeOK, InHand, sources, pool
<1>4. QED
  BY <1>1, <1>2, <1>3 DEF Process

(* How many items LPopCount takes, and what it leaves                       *)
Popped == Smaller(FlushMax, Len(buffer))

LEMMA PopCuts ==
  ASSUME TypeOK
  PROVE  /\ Popped \in 0 .. Len(buffer)
         /\ SubSeq(buffer, 1, Popped) \in Seq(Job)
         /\ SubSeq(buffer, Popped + 1, Len(buffer)) \in Seq(Job)
         /\ SubSeq(buffer, 1, Popped) \o SubSeq(buffer, Popped + 1, Len(buffer)) = buffer
<1>1. Popped \in 0 .. Len(buffer)
  <2>1. Len(buffer) \in Nat /\ FlushMax \in Nat
    BY PipelineAssumption DEF TypeOK
  <2>2. QED
    BY <2>1 DEF Popped, Smaller
<1>2. QED
  BY <1>1, Cut DEF TypeOK

LEMMA TypeFlush ==
  ASSUME TypeInv, Flush
  PROVE  TypeInv'
<1>1. flusher \in Flusher /\ flusher.batch \in Seq(Job)
  BY DEF TypeInv, TypeOK, Flusher
<1>2. CASE FlushPop
  <2>1. PICK n : n = Popped
    OBVIOUS
  <2>2. SubSeq(buffer, 1, n) \in Seq(Job) /\ SubSeq(buffer, n + 1, Len(buffer)) \in Seq(Job)
    BY <2>1, PopCuts DEF TypeInv
  <2>3. /\ buffer' = SubSeq(buffer, n + 1, Len(buffer))
        /\ \/ flusher' = [pc |-> "begin", batch |-> SubSeq(buffer, 1, n), i |-> 0]
           \/ flusher' = flusher
    BY <1>2, <2>1 DEF FlushPop, Popped
  <2>4. flusher' \in Flusher /\ InHand'
    <3>1. PICK b : b = SubSeq(buffer, 1, n)
      OBVIOUS
    <3>2. b \in Seq(Job) /\ Len(b) \in Nat
      BY <2>2, <3>1
    <3>3. [pc |-> "begin", batch |-> b, i |-> 0] \in Flusher
      BY <3>2 DEF Flusher
    <3>4. CASE flusher' = [pc |-> "begin", batch |-> b, i |-> 0]
      BY <3>2, <3>3, <3>4 DEF InHand
    <3>5. CASE flusher' = flusher
      BY <1>1, <3>5 DEF InHand, TypeInv
    <3>6. QED
      BY <2>3, <3>1, <3>4, <3>5
  <2>5. QED
    BY <1>2, <2>2, <2>3, <2>4
       DEF FlushPop, TypeInv, TypeOK, flushOnly, sources, pool, observers
<1>3. CASE FlushBegin
  <2>1. flusher' \in Flusher /\ InHand'
    BY <1>1, <1>3, GoType, ToRequeueType DEF FlushBegin
  <2>2. QED
    BY <1>3, <2>1 DEF FlushBegin, TypeInv, TypeOK, flushOnly, sources, pool, observers
<1>4. CASE FlushInsert
  <2>1. flusher.i + 1 \in 0 .. Len(flusher.batch)
    BY <1>1, <1>4 DEF FlushInsert, Flusher
  <2>2. flusher' \in Flusher /\ InHand'
    BY <1>1, <1>4, <2>1, GoType, ToRequeueType DEF FlushInsert
  <2>3. QED
    BY <1>4, <2>2 DEF FlushInsert, TypeInv, TypeOK, flushOnly, sources, pool, observers
<1>5. CASE FlushCommit
  <2>1. flusher' \in Flusher /\ InHand'
    BY <1>1, <1>5, RestType, ToRequeueType DEF FlushCommit
  <2>2. rows' \in Seq(Job)
    <3>1. rows' = rows \o flusher.batch \/ rows' = rows
      BY <1>5 DEF FlushCommit
    <3>2. rows \in Seq(Job) /\ rows \o flusher.batch \in Seq(Job)
      BY <1>1, ConcatProperties DEF TypeInv, TypeOK
    <3>3. QED
      BY <3>1, <3>2
  <2>3. QED
    BY <1>5, <2>1, <2>2 DEF FlushCommit, TypeInv, TypeOK, flushOnly, sources, pool, observers
<1>6. CASE FlushRequeue
  <2>1. flusher.i \in 1 .. Len(flusher.batch)
    BY <1>1, <1>6 DEF FlushRequeue, TypeInv, InHand, Flusher
  <2>2. flusher' \in Flusher /\ InHand'
    BY <1>1, <1>6, <2>1, GoType DEF FlushRequeue
  <2>3. buffer' \in Seq(Job)
    BY <1>1, <1>6, <2>1, PutBack DEF FlushRequeue, NextToRequeue, TypeInv, TypeOK
  <2>4. QED
    BY <1>6, <2>2, <2>3 DEF FlushRequeue, TypeInv, TypeOK, flushOnly, sources, pool, observers
<1>7. CASE FlushRequeueEnd
  <2>1. flusher' \in Flusher /\ InHand'
    BY <1>7, RestType DEF FlushRequeueEnd
  <2>2. QED
    BY <1>7, <2>1 DEF FlushRequeueEnd, TypeInv, TypeOK, flushOnly, sources, pool, observers
<1>8. CASE RequeueAgain
  <2>1. flusher' \in Flusher /\ InHand'
    BY <1>8, ToRequeueType DEF RequeueAgain
  <2>2. QED
    BY <1>8, <2>1 DEF RequeueAgain, TypeInv, TypeOK, flushOnly, sources, pool, observers
<1>9. QED
  BY <1>2, <1>3, <1>4, <1>5, <1>6, <1>7, <1>8 DEF Flush

LEMMA TypeEnvironment ==
  ASSUME TypeInv, Expire \/ Crash \/ BoundReached
  PROVE  TypeInv'
<1>1. CASE Expire
  BY <1>1 DEF Expire, TypeInv, TypeOK, InHand, flushOnly, sources, pool, observers
<1>2. CASE Crash
  <2>1. flusher' \in Flusher /\ InHand'
    BY <1>2, RestType DEF Crash
  <2>2. worker' \in [Workers -> Nat]
    BY <1>2 DEF Crash, NULL
  <2>3. InMemory \ {NULL} \subseteq Job
    BY DEF InMemory, Within, TypeInv, TypeOK, Job, NULL
  <2>4. missed' \subseteq Job
    BY <1>2, <2>3 DEF Crash, TypeInv, TypeOK
  <2>5. /\ feeding' \in Nat /\ waiting' \in Nat /\ processor' \in Nat
        /\ jobs' \in Seq(Job) /\ results' \in Seq(Job)
    BY <1>2 DEF Crash, NULL
  <2>6. /\ unheard' \in BOOLEAN
        /\ UNCHANGED <<buffer, expired, rows, born, pushed>>
    BY <1>2 DEF Crash
  <2>7. QED
    BY <2>1, <2>2, <2>4, <2>5, <2>6 DEF TypeInv, TypeOK
<1>3. CASE BoundReached
  BY <1>3 DEF BoundReached, TypeInv, TypeOK, InHand, vars, sources, pool, storage, observers
<1>4. QED
  BY <1>1, <1>2, <1>3

LEMMA TypeStutter ==
  ASSUME TypeInv, UNCHANGED vars
  PROVE  TypeInv'
  BY DEF TypeInv, TypeOK, InHand, vars, sources, pool, storage, observers

LEMMA TypeStep ==
  ASSUME TypeInv, [Next]_vars
  PROVE  TypeInv'
  BY TypeProduce, TypeWork, TypeProcess, TypeFlush, TypeEnvironment, TypeStutter DEF Next

LEMMA TypeAlways == Spec => []TypeInv
<1>1. TypeInv /\ [Next]_vars => TypeInv'
  BY TypeStep
<1>2. QED
  BY <1>1, TypeInit, PTL DEF Spec

(* Every variable keeps its type: only results of jobs reach the list and   *)
(* the table, whatever fails.                                               *)
THEOREM PipelineTypes == Spec => []TypeOK
<1>1. TypeInv => TypeOK
  BY DEF TypeInv
<1>2. QED
  BY <1>1, TypeAlways, PTL
-----------------------------------------------------------------------------
(* Counting the copies of a job.                                            *)

LEMMA FiniteWorkers == IsFiniteSet(Workers)
  BY PipelineAssumption DEF PipelineAssumption

LEMMA CountIsFinite ==
  ASSUME NEW s \in Seq(Job), NEW j
  PROVE  /\ IsFiniteSet({k \in DOMAIN s : s[k] = j})
         /\ Occurrences(s, j) \in Nat
         /\ Occurrences(s, j) = 0 <=> j \notin Within(s)
<1> DEFINE at == {k \in DOMAIN s : s[k] = j}
<1>1. IsFiniteSet(1 .. Len(s))
  BY FS_Interval, LenProperties
<1>2. at \in SUBSET (1 .. Len(s))
  BY LenProperties
<1>3. IsFiniteSet(at)
  BY <1>1, <1>2, FS_Subset
<1>4. Cardinality(at) \in Nat
  BY <1>3, FS_CardinalityType
<1>5. Cardinality(at) = 0 <=> at = {}
  BY <1>3, FS_EmptySet
<1>6. at = {} <=> j \notin Within(s)
  BY DEF Within
<1>7. QED
  BY <1>3, <1>4, <1>5, <1>6 DEF Occurrences

LEMMA CountAppend ==
  ASSUME NEW s \in Seq(Job), NEW e \in Job, NEW j
  PROVE  Occurrences(Append(s, e), j) = Occurrences(s, j) + One(e = j)
<1> DEFINE at == {k \in DOMAIN s : s[k] = j}
           new == {k \in DOMAIN Append(s, e) : Append(s, e)[k] = j}
<1>1. /\ IsFiniteSet(at) /\ Cardinality(at) \in Nat
  BY CountIsFinite DEF Occurrences
<1>2. PICK n \in Nat : n = Len(s)
  BY LenProperties
<1>3. /\ DOMAIN s = 1 .. n /\ DOMAIN Append(s, e) = 1 .. n + 1
      /\ \A k \in 1 .. n : Append(s, e)[k] = s[k]
      /\ Append(s, e)[n + 1] = e
  BY <1>2, LenProperties, AppendProperties
<1>4. n + 1 \notin at
  BY <1>2, <1>3
<1>5. CASE e = j
  <2>1. new = at \cup {n + 1}
    BY <1>2, <1>3, <1>5
  <2>2. Cardinality(at \cup {n + 1}) = Cardinality(at) + 1
    BY <1>1, <1>4, FS_AddElement
  <2>3. QED
    BY <1>5, <2>1, <2>2 DEF Occurrences, One
<1>6. CASE e # j
  <2>1. new = at
    BY <1>2, <1>3, <1>6
  <2>2. Cardinality(new) = Cardinality(at)
    BY <2>1, Zenon
  <2>3. One(e = j) = 0 /\ Occurrences(s, j) \in Nat
    BY <1>6, CountIsFinite DEF One
  <2>4. Occurrences(Append(s, e), j) = Occurrences(s, j)
    BY <2>2 DEF Occurrences
  <2>5. QED
    BY <2>3, <2>4
<1>7. QED
  BY <1>5, <1>6

LEMMA CountTail ==
  ASSUME NEW s \in Seq(Job), s # <<>>, NEW j
  PROVE  Occurrences(s, j) = Occurrences(Tail(s), j) + One(Head(s) = j)
<1> DEFINE rest == {k \in DOMAIN Tail(s) : Tail(s)[k] = j}
           later == {k \in DOMAIN s : k # 1 /\ s[k] = j}
           at == {k \in DOMAIN s : s[k] = j}
           up == [k \in rest |-> k + 1]
<1>1. PICK n \in Nat : n = Len(Tail(s))
  BY HeadTailProperties, LenProperties
<1>2. /\ DOMAIN Tail(s) = 1 .. n /\ DOMAIN s = 1 .. n + 1
      /\ \A k \in 1 .. n : Tail(s)[k] = s[k + 1]
      /\ Head(s) = s[1]
  <2>1. Tail(s) \in Seq(Job) /\ Len(Tail(s)) = Len(s) - 1 /\ Len(s) \in Nat
    BY HeadTailProperties, LenProperties
  <2>2. DOMAIN Tail(s) = 1 .. n /\ DOMAIN s = 1 .. n + 1
    BY <1>1, <2>1, LenProperties
  <2>3. QED
    BY <1>1, <2>2, HeadTailProperties
<1>3. IsFiniteSet(rest)
  <2>1. Tail(s) \in Seq(Job)
    BY HeadTailProperties
  <2>2. QED
    BY <2>1, CountIsFinite
<1>4. up \in Bijection(rest, later)
  <2>1. up \in [rest -> later]
    BY <1>1, <1>2
  <2>2. \A a, b \in rest : up[a] = up[b] => a = b
    BY <1>1, <1>2
  <2>3. \A t \in later : \E k \in rest : up[k] = t
    <3>1. ASSUME NEW t \in later
          PROVE  t - 1 \in rest /\ up[t - 1] = t
      BY <1>1, <1>2, <3>1
    <3>2. QED
      BY <3>1
  <2>4. QED
    BY <2>1, <2>2, <2>3 DEF Bijection, Injection, Surjection, IsInjective
<1>5. IsFiniteSet(later) /\ Cardinality(later) = Cardinality(rest)
  BY <1>3, <1>4, FS_Bijection DEF ExistsBijection
<1>6. Cardinality(later) \in Nat /\ 1 \notin later
  BY <1>5, FS_CardinalityType
<1>7. CASE Head(s) = j
  <2>1. at = later \cup {1}
    BY <1>1, <1>2, <1>7
  <2>2. Cardinality(later \cup {1}) = Cardinality(later) + 1
    BY <1>5, <1>6, FS_AddElement
  <2>3. QED
    BY <1>5, <1>7, <2>1, <2>2 DEF Occurrences, One
<1>8. CASE Head(s) # j
  <2>1. at = later
    BY <1>1, <1>2, <1>8
  <2>2. Cardinality(at) = Cardinality(rest)
    BY <1>5, <2>1, Zenon
  <2>3. One(Head(s) = j) = 0 /\ Occurrences(s, j) \in Nat
    BY <1>8, CountIsFinite DEF One
  <2>4. Occurrences(s, j) = Occurrences(Tail(s), j)
    BY <2>2 DEF Occurrences
  <2>5. QED
    BY <2>3, <2>4
<1>9. QED
  BY <1>7, <1>8

(* The workers that f gives job j                                           *)
Holding(f, j) == {v \in Workers : f[v] = j}

(* A worker that had nothing and takes a job                                *)
LEMMA CountHands ==
  ASSUME NEW f \in [Workers -> Nat], NEW w \in Workers, f[w] = NULL,
         NEW e \in Job, NEW j \in Job,
         NEW g \in [Workers -> Nat], g[w] = e, \A v \in Workers \ {w} : g[v] = f[v]
  PROVE  /\ Cardinality(Holding(f, j)) \in Nat
         /\ Cardinality(Holding(g, j)) = Cardinality(Holding(f, j)) + One(e = j)
<1> DEFINE before == Holding(f, j)
           after == Holding(g, j)
<1>1. IsFiniteSet(before) /\ Cardinality(before) \in Nat
  BY FiniteWorkers, FS_Subset, FS_CardinalityType DEF Holding
<1>2. w \notin before
  BY DEF NULL, Job, Holding
<1>3. CASE e = j
  <2>1. after = before \cup {w}
    BY <1>3 DEF Holding
  <2>2. Cardinality(before \cup {w}) = Cardinality(before) + 1
    BY <1>1, <1>2, FS_AddElement
  <2>3. QED
    BY <1>1, <1>3, <2>1, <2>2 DEF One
<1>4. CASE e # j
  <2>1. after = before
    BY <1>2, <1>4 DEF Holding
  <2>2. Cardinality(after) = Cardinality(before)
    BY <2>1, Zenon
  <2>3. One(e = j) = 0
    BY <1>4 DEF One
  <2>4. QED
    BY <1>1, <2>2, <2>3
<1>5. QED
  BY <1>3, <1>4

LEMMA CountChecking ==
  ASSUME NEW j
  PROVE  /\ Cardinality(Checking(j)) \in Nat
         /\ Cardinality(Checking(j)) = 0 <=> \A w \in Workers : worker[w] # j
<1>1. IsFiniteSet(Checking(j))
  BY FiniteWorkers, FS_Subset DEF Checking
<1>2. Cardinality(Checking(j)) \in Nat
  BY <1>1, FS_CardinalityType
<1>3. Cardinality(Checking(j)) = 0 <=> Checking(j) = {}
  BY <1>1, FS_EmptySet
<1>4. Checking(j) = {} <=> \A w \in Workers : worker[w] # j
  BY DEF Checking
<1>5. QED
  BY <1>2, <1>3, <1>4

LEMMA CopiesAreCounts ==
  ASSUME TypeInv, NEW j
  PROVE  /\ Occurrences(jobs, j) \in Nat /\ Occurrences(results, j) \in Nat
         /\ Occurrences(pushed, j) \in Nat /\ Cardinality(Checking(j)) \in Nat
         /\ Occurrences(pushed, j) = 0 <=> j \notin Within(pushed)
         /\ Occurrences(jobs, j) = 0 <=> j \notin Within(jobs)
         /\ Occurrences(results, j) = 0 <=> j \notin Within(results)
  BY CountIsFinite, CountChecking DEF TypeInv, TypeOK

-----------------------------------------------------------------------------
(* One copy.  A job that never entered has none; the push that go-redis     *)
(* repeats was already counted among those that were pushed.                *)

Once == \A j \in Job : Copies(j) = One(j <= born)

OnceInv ==
  /\ TypeInv
  /\ Once
  /\ unheard => processor \in Within(pushed)

LEMMA OnceInit ==
  ASSUME Init
  PROVE  OnceInv
<1>1. TypeInv
  BY TypeInit
<1>2. ASSUME NEW j \in Job
      PROVE  Copies(j) = One(j <= born)
  <2>1. Occurrences(<<>>, j) = 0
    <3>1. <<>> \in Seq(Job) /\ Within(<<>>) = {}
      BY DEF Within
    <3>2. QED
      BY <3>1, CountIsFinite
  <2>2. Cardinality(Checking(j)) = 0
    BY CountChecking DEF Init, NULL, Job
  <2>3. One(processor = j /\ ~unheard) = 0 /\ One(j \in missed \ Within(pushed)) = 0
    BY DEF Init, NULL, Job, One
  <2>4. One(j <= born) = 0
    BY DEF Init, One, Job
  <2>5. jobs = <<>> /\ results = <<>> /\ pushed = <<>>
    BY DEF Init
  <2>6. QED
    BY <2>1, <2>2, <2>3, <2>4, <2>5 DEF Copies
<1>3. QED
  BY <1>1, <1>2 DEF OnceInv, Once, Init

LEMMA CopiesKept ==
  ASSUME UNCHANGED <<jobs, worker, results, processor, unheard, pushed, missed>>, NEW j
  PROVE  Copies(j)' = Copies(j)
  BY DEF Copies, Checking

LEMMA WithinAppend ==
  ASSUME NEW s \in Seq(Job), NEW e \in Job
  PROVE  Within(Append(s, e)) = Within(s) \cup {e}
<1>1. PICK n \in Nat : n = Len(s)
  BY LenProperties
<1>2. /\ DOMAIN s = 1 .. n /\ DOMAIN Append(s, e) = 1 .. n + 1
      /\ \A k \in 1 .. n : Append(s, e)[k] = s[k]
      /\ Append(s, e)[n + 1] = e
  BY <1>1, LenProperties, AppendProperties
<1>3. n + 1 \in 1 .. n + 1 /\ \A k \in 1 .. n + 1 : k = n + 1 \/ k \in 1 .. n
  OBVIOUS
<1>4. 1 .. n \subseteq 1 .. n + 1
  OBVIOUS
<1>5. QED
  BY <1>2, <1>3, <1>4 DEF Within

LEMMA OnceEnqueue ==
  ASSUME OnceInv, Enqueue, NEW j \in Job
  PROVE  Copies(j)' = One(j <= born')
<1>1. TypeInv /\ Copies(j) = One(j <= born)
  BY DEF OnceInv, Once
<1>2. jobs \in Seq(Job) /\ born \in Nat /\ born + 1 \in Job
  BY <1>1 DEF TypeInv, TypeOK, Job
<1>3. Occurrences(jobs', j) = Occurrences(jobs, j) + One(born + 1 = j)
  BY <1>2, CountAppend DEF Enqueue
<1>4. One(j <= born') = One(j <= born) + One(born + 1 = j)
  BY <1>2 DEF Enqueue, One, Job
<1>5. Checking(j)' = Checking(j)
      /\ UNCHANGED <<results, processor, unheard, pushed, missed>>
  BY DEF Enqueue, Checking, storage
<1>6. /\ One(processor = j /\ ~unheard) \in {0, 1}
      /\ One(j \in missed \ Within(pushed)) \in {0, 1} /\ One(born + 1 = j) \in {0, 1}
  BY DEF One
<1>7. QED
  BY <1>1, <1>3, <1>4, <1>5, <1>6, CopiesAreCounts DEF Copies

LEMMA OnceWork ==
  ASSUME OnceInv, NEW w \in Workers, Work(w), NEW j \in Job
  PROVE  Copies(j)' = Copies(j)
<1>1. /\ TypeInv /\ jobs \in Seq(Job) /\ results \in Seq(Job)
      /\ worker \in [Workers -> Nat]
  BY DEF OnceInv, TypeInv, TypeOK
<1>2. One(processor = j /\ ~unheard) \in {0, 1} /\ One(j \in missed \ Within(pushed)) \in {0, 1}
  BY DEF One
<1>3. CASE TakeJob(w)
  <2>1. PICK e : e = Head(jobs)
    OBVIOUS
  <2>2. e \in Job /\ jobs # <<>>
    BY <1>1, <1>3, <2>1, HeadTailProperties DEF TakeJob
  <2>3. worker[w] = NULL /\ worker' = [worker EXCEPT ![w] = e] /\ jobs' = Tail(jobs)
    BY <1>3, <2>1 DEF TakeJob
  <2>4. Cardinality(Checking(j))' = Cardinality(Checking(j)) + One(e = j)
    <3>1. PICK f, g : f = worker /\ g = worker'
      OBVIOUS
    <3>2. /\ f \in [Workers -> Nat] /\ f[w] = NULL
          /\ g \in [Workers -> Nat] /\ g[w] = e /\ \A v \in Workers \ {w} : g[v] = f[v]
      BY <1>1, <2>2, <2>3, <3>1 DEF Job
    <3>3. Cardinality(Holding(g, j)) = Cardinality(Holding(f, j)) + One(e = j)
      BY <2>2, <3>2, CountHands
    <3>4. /\ Cardinality(Checking(j)) = Cardinality(Holding(f, j))
          /\ Cardinality(Checking(j))' = Cardinality(Holding(g, j))
      BY <3>1 DEF Checking, Holding
    <3>5. QED
      BY <3>3, <3>4
  <2>5. Occurrences(jobs, j) = Occurrences(jobs', j) + One(e = j)
    BY <1>1, <2>1, <2>2, <2>3, CountTail
  <2>6. UNCHANGED <<results, processor, unheard, pushed, missed>>
    BY <1>3 DEF TakeJob, storage, observers
  <2>7. Occurrences(jobs', j) \in Nat
    <3>1. jobs' \in Seq(Job)
      BY <1>1, <2>2, <2>3, HeadTailProperties
    <3>2. QED
      BY <3>1, CountIsFinite
  <2>8. One(e = j) \in {0, 1}
    BY DEF One
  <2>9. QED
    BY <1>1, <1>2, <2>4, <2>5, <2>6, <2>7, <2>8, CopiesAreCounts DEF Copies
<1>4. CASE SendResult(w)
  <2>1. PICK e, after : e = worker[w] /\ after = worker'
    OBVIOUS
  <2>2. e \in Job
    BY <1>1, <1>4, <2>1 DEF SendResult, Job, NULL
  <2>3. after \in [Workers -> Nat] /\ after[w] = NULL
    BY <1>1, <1>4, <2>1 DEF SendResult, NULL
  <2>4. /\ Cardinality(Checking(j))' \in Nat
        /\ Cardinality(Checking(j)) = Cardinality(Checking(j))' + One(e = j)
    <3>1. PICK f : f = worker
      OBVIOUS
    <3>2. f \in [Workers -> Nat] /\ f[w] = e /\ \A v \in Workers \ {w} : f[v] = after[v]
      BY <1>1, <1>4, <2>1, <3>1 DEF SendResult
    <3>3. /\ Cardinality(Holding(after, j)) \in Nat
          /\ Cardinality(Holding(f, j)) = Cardinality(Holding(after, j)) + One(e = j)
      BY <2>2, <2>3, <3>2, CountHands
    <3>4. /\ Cardinality(Checking(j)) = Cardinality(Holding(f, j))
          /\ Cardinality(Checking(j))' = Cardinality(Holding(after, j))
      BY <2>1, <3>1 DEF Checking, Holding
    <3>5. QED
      BY <3>3, <3>4
  <2>5. Occurrences(results', j) = Occurrences(results, j) + One(e = j)
    BY <1>1, <1>4, <2>1, <2>2, CountAppend DEF SendResult
  <2>6. UNCHANGED <<jobs, processor, unheard, pushed, missed>>
    BY <1>4 DEF SendResult, storage, observers
  <2>7. One(e = j) \in {0, 1}
    BY DEF One
  <2>8. QED
    BY <1>1, <1>2, <2>4, <2>5, <2>6, <2>7, CopiesAreCounts DEF Copies
<1>5. QED
  BY <1>3, <1>4 DEF Work

(* A push that reaches Redis for the first time                             *)
LEMMA NotPushedBefore ==
  ASSUME OnceInv, processor # NULL, ~unheard
  PROVE  processor \in Job /\ processor \notin Within(pushed) /\ processor \notin missed
<1>1. TypeInv /\ processor \in Job
  BY DEF OnceInv, TypeInv, TypeOK, Job, NULL
<1> PICK j \in Job : j = processor
  BY <1>1
<1>2. Copies(j) \in {0, 1}
  BY <1>1 DEF OnceInv, Once, One
<1>3. One(processor = j /\ ~unheard) = 1
  BY DEF One
<1>4. One(j \in missed \ Within(pushed)) \in {0, 1}
  BY DEF One
<1>5. Occurrences(pushed, j) = 0 /\ One(j \in missed \ Within(pushed)) = 0
  BY <1>1, <1>2, <1>3, <1>4, CopiesAreCounts DEF Copies
<1>6. j \notin Within(pushed)
  BY <1>1, <1>5, CopiesAreCounts
<1>7. QED
  BY <1>1, <1>5, <1>6 DEF One

LEMMA OnceTakeResult ==
  ASSUME OnceInv, TakeResult, NEW j \in Job
  PROVE  Copies(j)' = Copies(j) /\ ~unheard'
<1>1. /\ TypeInv /\ results \in Seq(Job) /\ pushed \in Seq(Job) /\ results # <<>>
      /\ processor = NULL
  BY DEF OnceInv, TypeInv, TypeOK, TakeResult
<1>2. NULL \notin Within(pushed)
  BY <1>1 DEF Within, Job, NULL
<1>3. ~unheard /\ ~unheard'
  BY <1>1, <1>2 DEF OnceInv, TakeResult, storage
<1>4. PICK e \in Job : e = Head(results)
  BY <1>1, HeadTailProperties
<1>5. Occurrences(results, j) = Occurrences(results', j) + One(e = j)
  BY <1>1, <1>4, CountTail DEF TakeResult
<1>6. Occurrences(results', j) \in Nat
  <2>1. results' \in Seq(Job)
    BY <1>1, HeadTailProperties DEF TakeResult
  <2>2. QED
    BY <2>1, CountIsFinite
<1>7. One(processor = j /\ ~unheard) = 0 /\ One(processor' = j /\ ~unheard') = One(e = j)
  BY <1>1, <1>3, <1>4 DEF TakeResult, One, Job, NULL
<1>8. Checking(j)' = Checking(j) /\ UNCHANGED <<jobs, pushed, missed>>
  BY DEF TakeResult, Checking, observers
<1>9. One(e = j) \in {0, 1} /\ One(j \in missed \ Within(pushed)) \in {0, 1}
  BY DEF One
<1>10. QED
  BY <1>1, <1>3, <1>5, <1>6, <1>7, <1>8, <1>9, CopiesAreCounts DEF Copies

(* The push moves the count from the processor to the list; a push that     *)
(* fails, to what was missed.                                               *)
LEMMA OnceSave ==
  ASSUME OnceInv, SaveResult \/ PushUnheard, NEW j \in Job
  PROVE  Copies(j)' = Copies(j) /\ (unheard' => processor' \in Within(pushed'))
<1>1. /\ TypeInv /\ pushed \in Seq(Job) /\ processor \in Job /\ processor # NULL
      /\ Checking(j)' = Checking(j) /\ UNCHANGED <<jobs, results>>
  BY DEF OnceInv, TypeInv, TypeOK, SaveResult, PushUnheard, Job, NULL, Checking, pool
<1>2. PICK before, after, rest, rest2 :
        /\ before = One(processor = j /\ ~unheard)
        /\ after = One(processor' = j /\ ~unheard')
        /\ rest = One(j \in missed \ Within(pushed))
        /\ rest2 = One(j \in missed' \ Within(pushed'))
  OBVIOUS
<1>3. before \in {0, 1} /\ after \in {0, 1} /\ rest \in {0, 1} /\ rest2 \in {0, 1}
  BY <1>2 DEF One
<1>4. after = 0
  BY <1>2 DEF SaveResult, PushUnheard, One, NULL, Job
<1>5. Copies(j)' = Copies(j)
        <=> Occurrences(pushed', j) + rest2 = before + Occurrences(pushed, j) + rest
  <2>1. Occurrences(pushed', j) \in Nat
    <3>1. pushed' = pushed \/ pushed' = Append(pushed, processor)
      BY DEF SaveResult, PushUnheard, Pushed
    <3>2. Append(pushed, processor) \in Seq(Job)
      BY <1>1
    <3>3. pushed' \in Seq(Job)
      BY <1>1, <3>1, <3>2
    <3>4. QED
      BY <3>3, CountIsFinite
  <2>2. PICK others : others = Occurrences(jobs, j) + Cardinality(Checking(j)) + Occurrences(results, j)
    OBVIOUS
  <2>3. Copies(j) = others + before + Occurrences(pushed, j) + rest
    BY <1>2, <2>2 DEF Copies
  <2>4. Copies(j)' = others + after + Occurrences(pushed', j) + rest2
    BY <1>1, <1>2, <2>2 DEF Copies
  <2>5. others \in Nat /\ Occurrences(pushed, j) \in Nat
    BY <1>1, <2>2, CopiesAreCounts
  <2>6. QED
    BY <1>3, <1>4, <2>1, <2>3, <2>4, <2>5
<1>6. CASE unheard
  <2>1. processor \in Within(pushed) /\ SaveResult /\ pushed' = pushed
    BY <1>6 DEF OnceInv, SaveResult, PushUnheard, Pushed
  <2>2. missed' = missed \/ missed' = missed \cup {processor}
    BY <2>1 DEF SaveResult
  <2>3. before = 0 /\ rest2 = rest
    BY <1>2, <1>6, <2>1, <2>2 DEF One
  <2>4. QED
    BY <1>1, <1>3, <1>5, <2>1, <2>3, CopiesAreCounts DEF SaveResult
<1>7. CASE ~unheard
  <2>1. processor \notin Within(pushed) /\ processor \notin missed
    BY <1>1, <1>7, NotPushedBefore
  <2>2. before = One(processor = j)
    BY <1>2, <1>7 DEF One
  <2>3. CASE pushed' = Append(pushed, processor)
    <3>1. Occurrences(pushed', j) = Occurrences(pushed, j) + before
      BY <1>1, <2>2, <2>3, CountAppend
    <3>2. Within(pushed') = Within(pushed) \cup {processor}
      BY <1>1, <2>3, WithinAppend
    <3>3. missed' = missed \/ missed' = missed \cup {processor}
      BY DEF SaveResult, PushUnheard
    <3>4. rest2 = rest
      BY <1>2, <2>1, <3>2, <3>3 DEF One
    <3>5. unheard' => processor' = processor
      BY DEF SaveResult, PushUnheard, pool
    <3>6. QED
      BY <1>1, <1>3, <1>5, <3>1, <3>2, <3>4, <3>5, CopiesAreCounts
  <2>4. CASE pushed' # Append(pushed, processor)
    <3>1. SaveResult /\ pushed' = pushed /\ missed' = missed \cup {processor} /\ ~unheard'
      BY <1>7, <2>4 DEF SaveResult, PushUnheard, Pushed
    <3>2. rest2 = before + rest
      BY <1>2, <2>1, <2>2, <3>1 DEF One
    <3>3. QED
      BY <1>1, <1>3, <1>5, <3>1, <3>2, CopiesAreCounts
  <2>5. QED
    BY <2>3, <2>4
<1>8. QED
  BY <1>6, <1>7

(* What the process had in memory is missed, unless it was pushed.          *)
LEMMA OnceCrash ==
  ASSUME OnceInv, Crash, NEW j \in Job
  PROVE  Copies(j)' = Copies(j)
<1>1. TypeInv /\ pushed' = pushed /\ unheard' = FALSE /\ processor' = NULL
  BY DEF OnceInv, Crash
<1>2. PICK inHand, lost, lost2 :
        /\ inHand = One(processor = j /\ ~unheard)
        /\ lost = One(j \in missed \ Within(pushed))
        /\ lost2 = One(j \in missed' \ Within(pushed))
  OBVIOUS
<1>3. inHand \in {0, 1} /\ lost \in {0, 1} /\ lost2 \in {0, 1}
  BY <1>2 DEF One
<1>4. Copies(j)' = Occurrences(pushed, j) + lost2
  <2>1. Occurrences(jobs', j) = 0 /\ Occurrences(results', j) = 0
    <3>1. <<>> \in Seq(Job) /\ Within(<<>>) = {}
      BY DEF Within
    <3>2. QED
      BY <3>1, CountIsFinite DEF Crash
  <2>2. Cardinality(Checking(j))' = 0
    <3>1. Checking(j)' = {}
      BY DEF Checking, Crash, NULL, Job
    <3>2. QED
      BY <3>1, FS_EmptySet
  <2>3. One(processor' = j /\ ~unheard') = 0
    BY <1>1 DEF One, Job, NULL
  <2>4. QED
    BY <1>1, <1>2, <1>3, <2>1, <2>2, <2>3, CopiesAreCounts DEF Copies
<1>5. Copies(j) \in {0, 1}
  BY DEF OnceInv, Once, One
<1>6. Copies(j) = Occurrences(jobs, j) + Cardinality(Checking(j)) + Occurrences(results, j)
                    + inHand + Occurrences(pushed, j) + lost
  BY <1>2 DEF Copies
<1>7. missed' = missed \cup (InMemory \ {NULL}) /\ j # NULL
  BY DEF Crash, Job, NULL
<1>8. CASE j \in Within(pushed)
  <2>1. lost = 0 /\ lost2 = 0
    BY <1>2, <1>8 DEF One
  <2>2. Occurrences(pushed, j) # 0
    BY <1>1, <1>8, CopiesAreCounts
  <2>3. QED
    BY <1>1, <1>3, <1>4, <1>5, <1>6, <2>1, <2>2, CopiesAreCounts
<1>9. CASE j \notin Within(pushed) /\ j \in missed'
  <2>1. Occurrences(pushed, j) = 0 /\ lost2 = 1
    BY <1>1, <1>2, <1>9, CopiesAreCounts DEF One
  <2>2. CASE j \in missed
    BY <1>1, <1>2, <1>3, <1>4, <1>5, <1>6, <1>9, <2>1, <2>2, CopiesAreCounts DEF One
  <2>3. CASE j \in Within(jobs) \/ j \in Within(results)
    BY <1>1, <1>3, <1>4, <1>5, <1>6, <2>1, <2>3, CopiesAreCounts
  <2>4. CASE \E w \in Workers : worker[w] = j
    <3>1. Cardinality(Checking(j)) \in Nat \ {0}
      BY <2>4, CountChecking
    <3>2. QED
      BY <1>1, <1>3, <1>4, <1>5, <1>6, <2>1, <3>1, CopiesAreCounts
  <2>5. CASE processor = j
    <3>1. ~unheard
      BY <1>9, <2>5 DEF OnceInv
    <3>2. inHand = 1
      BY <1>2, <2>5, <3>1 DEF One
    <3>3. QED
      BY <1>1, <1>3, <1>4, <1>5, <1>6, <2>1, <3>2, CopiesAreCounts
  <2>6. QED
    BY <1>7, <1>9, <2>2, <2>3, <2>4, <2>5 DEF InMemory
<1>10. CASE j \notin Within(pushed) /\ j \notin missed'
  <2>1. /\ Occurrences(jobs, j) = 0 /\ Occurrences(results, j) = 0
        /\ Occurrences(pushed, j) = 0 /\ Cardinality(Checking(j)) = 0
    BY <1>1, <1>7, <1>10, CopiesAreCounts, CountChecking DEF InMemory
  <2>2. inHand = 0 /\ lost = 0 /\ lost2 = 0
    BY <1>2, <1>7, <1>10 DEF InMemory, One
  <2>3. QED
    BY <1>4, <1>6, <2>1, <2>2
<1>11. QED
  BY <1>8, <1>9, <1>10

LEMMA OnceStep ==
  ASSUME OnceInv, [Next]_vars
  PROVE  OnceInv'
<1>1. TypeInv'
  BY TypeStep DEF OnceInv
<1>2. CASE FeedSend \/ MonitorSend
  <2>1. Enqueue
    BY <1>2 DEF FeedSend, MonitorSend
  <2>2. Once'
    BY <2>1, OnceEnqueue DEF Once
  <2>3. QED
    BY <1>1, <2>1, <2>2 DEF OnceInv, Enqueue, storage
<1>3. ASSUME \A j \in Job : Copies(j)' = Copies(j), born' = born
      PROVE  Once'
  BY <1>3 DEF OnceInv, Once
<1>4. CASE \E w \in Workers : Work(w)
  <2>1. \A j \in Job : Copies(j)' = Copies(j)
    BY <1>4, OnceWork
  <2>2. UNCHANGED <<born, unheard, processor, pushed>>
    BY <1>4 DEF Work, TakeJob, SendResult, storage, observers
  <2>3. QED
    BY <1>1, <1>3, <2>1, <2>2 DEF OnceInv
<1>5. CASE TakeResult
  <2>1. born' = born /\ 1 \in Job
    BY <1>5 DEF TakeResult, observers, Job
  <2>2. QED
    BY <1>1, <1>3, <1>5, <2>1, OnceTakeResult DEF OnceInv
<1>6. CASE SaveResult \/ PushUnheard
  <2>1. born' = born
    BY <1>6 DEF SaveResult, PushUnheard
  <2>2. 1 \in Job
    BY DEF Job
  <2>3. QED
    BY <1>1, <1>3, <1>6, <2>1, <2>2, OnceSave DEF OnceInv
<1>7. CASE Crash
  BY <1>1, <1>3, <1>7, OnceCrash DEF OnceInv, Crash
<1>8. CASE FeedRound \/ AddMonitor \/ Flush \/ Expire \/ BoundReached \/ UNCHANGED vars
  <2>1. UNCHANGED <<jobs, worker, results, processor, unheard, pushed, missed, born>>
    BY <1>8
       DEF FeedRound, AddMonitor, Flush, FlushPop, FlushBegin, FlushInsert, FlushCommit,
           FlushRequeue, RequeueAgain, FlushRequeueEnd, Expire, BoundReached, flushOnly,
           pool, storage, observers, vars
  <2>2. QED
    BY <1>1, <1>3, <2>1, CopiesKept DEF OnceInv
<1>9. QED
  BY <1>2, <1>4, <1>5, <1>6, <1>7, <1>8 DEF Next, Produce, Process

LEMMA OnceAlways == Spec => []OnceInv
<1>1. OnceInv /\ [Next]_vars => OnceInv'
  BY OnceStep
<1>2. QED
  BY <1>1, OnceInit, PTL DEF Spec

(* However many workers race for the jobs and the room in the channels, and *)
(* whatever fails, a check that was asked for is in exactly one place until *)
(* its result is pushed, its push has failed or a crash took it: none is    *)
(* dropped by a full channel and none is done twice (feeder.go:42,          *)
(* server.go:70, worker.go:37-52, main.go:53-57).                           *)
THEOREM NoCheckIsDroppedOrDoubled == Spec => []CheckedOnce
<1>1. OnceInv => CheckedOnce
  <2>1. ASSUME OnceInv, NEW j \in 1 .. born
        PROVE  Copies(j) = 1
    <3>1. j \in Job /\ j <= born
      BY <2>1 DEF OnceInv, TypeInv, TypeOK, Job
    <3>2. QED
      BY <2>1, <3>1 DEF OnceInv, Once, One
  <2>2. QED
    BY <2>1 DEF CheckedOnce
<1>2. QED
  BY <1>1, OnceAlways, PTL
=============================================================================
