--------------------------- MODULE PipelineRefinement ---------------------------
(***************************************************************************)
(* PingPipeline implements ResultQueue, whatever fails: the queue is the   *)
(* batch that the flusher holds and has neither stored nor put back,       *)
(* followed by ping_buffer.                                                *)
(***************************************************************************)
EXTENDS PingPipeline

AnswerMayBeLost == Faults \cap {"ack", "resend"} # {}

ResultMayBeLost == Faults \cap {"redis", "timeout", "crash"} # {}

Queue ==
  INSTANCE ResultQueue WITH
    Results <- 1 .. MaxJobs, MayRepeat <- AnswerMayBeLost, MayLose <- ResultMayBeLost,
    accepted <- Within(pushed), queue <- Held \o buffer, delivered <- rows

(* Whatever fails and wherever, the list and the flusher together are one   *)
(* queue (flusher.go:58-124, redis.go:57): rows only come from its head,    *)
(* what is lost is lost from its head, a batch that is put back, also twice *)
(* or in part, keeps its place before what was pushed meanwhile.            *)
QueueKept == Queue!Spec
=============================================================================
