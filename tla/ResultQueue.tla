------------------------------ MODULE ResultQueue ------------------------------
(***************************************************************************)
(* What the way of a result from main's loop to ping_results promises,     *)
(* without Redis, transactions or batches: a queue whose head is moved to  *)
(* the table.  Where an answer can be lost, a result may be accepted or    *)
(* delivered again; where Redis, the context or the process can fail, some *)
(* of the oldest results in the queue may be lost, never others.           *)
(***************************************************************************)
EXTENDS Integers, Sequences

CONSTANTS
  Results,
  MayRepeat,  \* an answer can be lost
  MayLose     \* Redis, the flusher's context or the process can fail

VARIABLES
  accepted,   \* the results that were pushed
  queue,      \* those still to be delivered, the oldest first
  delivered   \* the rows, in order

vars == <<accepted, queue, delivered>>

First(n) == SubSeq(queue, 1, n)

From(n) == SubSeq(queue, n, Len(queue))

Accept(r) ==
  /\ r \in accepted => MayRepeat
  /\ accepted' = accepted \cup {r}
  /\ queue' = Append(queue, r)
  /\ UNCHANGED delivered

(* The n oldest results become rows; they stay queued if nobody knows.      *)
Deliver(n) ==
  /\ delivered' = delivered \o First(n)
  /\ queue' = From(n + 1) \/ (MayRepeat /\ UNCHANGED queue)
  /\ UNCHANGED accepted

(* A part of the head that was put back already is put back again.          *)
Repeat(i, n) ==
  /\ MayRepeat
  /\ queue' = First(n) \o From(i + 1)
  /\ UNCHANGED <<accepted, delivered>>

Lose(n) ==
  /\ MayLose
  /\ queue' = From(n + 1)
  /\ UNCHANGED <<accepted, delivered>>

Init == accepted = {} /\ queue = <<>> /\ delivered = <<>>

Next ==
  \/ \E r \in Results : Accept(r)
  \/ \E n \in 1 .. Len(queue) : Deliver(n) \/ Lose(n) \/ \E i \in 0 .. n - 1 : Repeat(i, n)

Spec == Init /\ [][Next]_vars
=============================================================================
