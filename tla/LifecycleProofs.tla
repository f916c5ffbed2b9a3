---------------------------- MODULE LifecycleProofs ----------------------------
(***************************************************************************)
(* Theorems about MonitorLifecycle, for any hosts, requests, workers and   *)
(* capacity of the channels.                                               *)
(***************************************************************************)
EXTENDS MonitorLifecycle, SequenceTheorems, TLAPS

LEMMA Assumptions == LifecycleAssumption
  BY LifecycleAssumption

LEMMA NoneIsNoTarget == None \notin Target
<1>1. "" \notin Hosts
  BY Assumptions DEF LifecycleAssumption
<1>2. None.host = ""
  BY DEF None
<1>3. \A t \in Target : t.host \in Hosts
  BY DEF Target
<1>4. QED
  BY <1>1, <1>2, <1>3, Zenon

LEMMA NormalizeIsTarget ==
  ASSUME NEW job \in Posts
  PROVE  Normalize(job) \in Target
<1>1. PICK t \in Target : t = job.target
  BY Assumptions DEF LifecycleAssumption, MonitorJob
<1>2. [t EXCEPT !.scheme = "https://"] \in Target /\ [t EXCEPT !.scheme = "http://"] \in Target
  BY <1>1 DEF Target, Schemes
<1>3. QED
  BY <1>1, <1>2 DEF Normalize

-----------------------------------------------------------------------------
(* Type correctness.  It needs that a request which is under way has a      *)
(* target: AddMonitorHandler sends that to the channel.                     *)

HasTarget == \A c \in Clients : handler[c].pc # "idle" => handler[c].url \in Target

TypeInv == TypeOK /\ HasTarget

LEMMA NoRequestIs == NoRequest \in Handler /\ NoRequest.pc = "idle"
  BY DEF NoRequest, Handler

(* What a handler does next                                                 *)
LEMMA HandlerType ==
  ASSUME TypeInv, NEW c \in Clients, NEW r \in Handler, r.pc # "idle" => r.url \in Target,
         handler' = [handler EXCEPT ![c] = r]
  PROVE  handler' \in [Clients -> Handler] /\ HasTarget'
<1>1. handler \in [Clients -> Handler]
  BY DEF TypeInv, TypeOK
<1>2. handler' \in [Clients -> Handler]
  BY <1>1
<1>3. \A d \in Clients : handler'[d] = IF d = c THEN r ELSE handler[d]
  BY <1>1
<1>4. QED
  BY <1>2, <1>3 DEF TypeInv, HasTarget

LEMMA ResponseType ==
  ASSUME TypeInv, NEW c \in Clients, Respond(c)
  PROVE  handler' \in [Clients -> Handler] /\ HasTarget'
  BY HandlerType, NoRequestIs DEF Respond

(* A handler that begins or goes on with the url it has                     *)
LEMMA StageType ==
  ASSUME TypeInv, NEW c \in Clients, NEW url \in Target,
         NEW pc \in {"enqueue", "drop_monitors", "drop_metrics"},
         handler' = [handler EXCEPT ![c] = [pc |-> pc, url |-> url]]
  PROVE  handler' \in [Clients -> Handler] /\ HasTarget'
<1>1. PICK r : r = [pc |-> pc, url |-> url]
  OBVIOUS
<1>2. r \in Handler /\ r.url \in Target
  BY <1>1 DEF Handler
<1>3. QED
  BY <1>1, <1>2, HandlerType

LEMMA AddType ==
  ASSUME TypeInv, NEW c \in Clients, Add(c)
  PROVE  TypeInv'
<1>1. CASE AddTarget(c)
  <2>1. UNCHANGED <<rows, old, series, feeding, pool, flushing, crashes>> /\ asked' \in Nat
    BY <1>1 DEF AddTarget, Request, TypeInv, TypeOK
  <2>2. monitors' \subseteq Target /\ handler' \in [Clients -> Handler] /\ HasTarget'
    <3>1. CASE UNCHANGED <<monitors, handler>>
      BY <3>1 DEF TypeInv, TypeOK, HasTarget
    <3>2. ASSUME NEW job \in Posts, monitors' = monitors \cup {Normalize(job)},
                 handler' = [handler EXCEPT ![c] = [pc |-> "enqueue", url |-> Normalize(job)]]
          PROVE  monitors' \subseteq Target /\ handler' \in [Clients -> Handler] /\ HasTarget'
      <4>1. PICK t \in Target : t = Normalize(job)
        BY NormalizeIsTarget
      <4>2. monitors' \subseteq Target
        BY <3>2, <4>1 DEF TypeInv, TypeOK
      <4>3. QED
        BY <3>2, <4>1, <4>2, StageType
    <3>3. QED
      BY <1>1, <3>1, <3>2 DEF AddTarget
  <2>3. QED
    BY <2>1, <2>2 DEF TypeInv, TypeOK, pool, flushing
<1>2. CASE AddMonitorEnqueue(c)
  <2>1. /\ UNCHANGED <<tables, series, feeding, worker, results, recording, flushing, observers>>
        /\ handler' \in [Clients -> Handler] /\ HasTarget'
    BY <1>2, ResponseType DEF AddMonitorEnqueue
  <2>2. jobs' \in Seq(Target)
    <3>1. PICK t \in Target : jobs' = Append(jobs, t)
      BY <1>2 DEF AddMonitorEnqueue, Enqueue, TypeInv, HasTarget
    <3>2. QED
      BY <3>1 DEF TypeInv, TypeOK
  <2>3. QED
    BY <2>1, <2>2 DEF TypeInv, TypeOK, tables, flushing, observers
<1>3. QED
  BY <1>1, <1>2 DEF Add

LEMMA DeleteType ==
  ASSUME TypeInv, NEW c \in Clients, Delete(c)
  PROVE  TypeInv'
<1>1. CASE DropRows(c)
  <2>1. UNCHANGED <<monitors, series, feeding, pool, flushing, crashes>> /\ asked' \in Nat
    BY <1>1 DEF DropRows, Request, TypeInv, TypeOK
  <2>2. rows' \subseteq Target /\ old' \subseteq rows' /\ handler' \in [Clients -> Handler] /\ HasTarget'
    <3>1. CASE UNCHANGED <<rows, old, handler>>
      BY <3>1 DEF TypeInv, TypeOK, HasTarget
    <3>2. ASSUME NEW url \in Deletes,
                 rows' = rows \ Spellings(url) /\ old' = old \ Spellings(url),
                 handler' = [handler EXCEPT ![c] = [pc |-> "drop_monitors", url |-> url]]
          PROVE  /\ rows' \subseteq Target /\ old' \subseteq rows'
                 /\ handler' \in [Clients -> Handler] /\ HasTarget'
      <4>1. url \in Target
        BY Assumptions DEF LifecycleAssumption
      <4>2. rows' \subseteq Target /\ old' \subseteq rows'
        BY <3>2 DEF TypeInv, TypeOK
      <4>3. QED
        BY <3>2, <4>1, <4>2, StageType
    <3>3. QED
      BY <1>1, <3>1, <3>2 DEF DropRows
  <2>3. QED
    BY <2>1, <2>2 DEF TypeInv, TypeOK, pool, flushing
<1>2. CASE DropMonitors(c)
  <2>1. /\ UNCHANGED <<rows, old, series, feeding, pool, flushing, observers>>
        /\ handler[c].pc = "drop_monitors"
    BY <1>2 DEF DropMonitors
  <2>2. monitors' \subseteq Target
    BY <1>2 DEF DropMonitors, TypeInv, TypeOK
  <2>3. handler' \in [Clients -> Handler] /\ HasTarget'
    <3>1. CASE Respond(c)
      BY <3>1, ResponseType
    <3>2. CASE handler' = [handler EXCEPT ![c].pc = "drop_metrics"]
      <4>1. handler \in [Clients -> Handler] /\ handler[c].url \in Target
        BY <2>1 DEF TypeInv, TypeOK, HasTarget
      <4>2. PICK r \in Handler : r = handler[c]
        BY <4>1
      <4>3. [r EXCEPT !.pc = "drop_metrics"] = [pc |-> "drop_metrics", url |-> r.url]
        BY <4>2 DEF Handler
      <4>4. handler' = [handler EXCEPT ![c] = [pc |-> "drop_metrics", url |-> r.url]]
        BY <3>2, <4>2, <4>3
      <4>5. QED
        BY <4>1, <4>2, <4>4, StageType
    <3>3. QED
      BY <1>2, <3>1, <3>2 DEF DropMonitors
  <2>4. QED
    BY <2>1, <2>2, <2>3 DEF TypeInv, TypeOK, pool, flushing, observers
<1>3. CASE DropMetrics(c)
  <2>1. /\ UNCHANGED <<tables, feeding, pool, flushing, observers>>
        /\ series' \subseteq Target /\ Respond(c)
    BY <1>3 DEF DropMetrics, TypeInv, TypeOK
  <2>2. QED
    BY <2>1, ResponseType DEF TypeInv, TypeOK, tables, pool, flushing, observers
<1>4. QED
  BY <1>1, <1>2, <1>3 DEF Delete

(* A step that moves targets from one place to another                      *)
LEMMA CheckType ==
  ASSUME TypeInv, FeedRound \/ FeedSend \/ (\E w \in Workers : Work(w)) \/ SaveResult \/ RecordSiteCheck
  PROVE  TypeInv'
<1>1. CASE FeedRound
  BY <1>1 DEF FeedRound, TypeInv, TypeOK, HasTarget, tables, pool, flushing, observers
<1>2. CASE FeedSend
  <2>1. PICK t \in Target : jobs' = Append(jobs, t) /\ feeding' = feeding \ {t}
    BY <1>2 DEF FeedSend, Enqueue, TypeInv, TypeOK
  <2>2. jobs' \in Seq(Target) /\ feeding' \subseteq Target
    BY <2>1 DEF TypeInv, TypeOK
  <2>3. QED
    BY <1>2, <2>2 DEF FeedSend, TypeInv, TypeOK, HasTarget, tables, flushing, observers
<1>3. ASSUME NEW w \in Workers, TakeJob(w)
      PROVE  TypeInv'
  <2>1. jobs \in Seq(Target) /\ jobs # <<>>
    BY <1>3 DEF TakeJob, TypeInv, TypeOK
  <2>2. Head(jobs) \in Target /\ jobs' \in Seq(Target)
    BY <1>3, <2>1 DEF TakeJob
  <2>3. worker' \in [Workers -> Target \cup {None}]
    BY <1>3, <2>2 DEF TakeJob, TypeInv, TypeOK
  <2>4. QED
    BY <1>3, <2>2, <2>3 DEF TakeJob, TypeInv, TypeOK, HasTarget, tables, flushing, observers
<1>4. ASSUME NEW w \in Workers, SendResult(w)
      PROVE  TypeInv'
  <2>1. PICK t \in Target : t = worker[w]
    BY <1>4 DEF SendResult, TypeInv, TypeOK
  <2>2. results' \in Seq(Target)
    BY <1>4, <2>1 DEF SendResult, TypeInv, TypeOK
  <2>3. worker' \in [Workers -> Target \cup {None}]
    BY <1>4 DEF SendResult, TypeInv, TypeOK
  <2>4. QED
    BY <1>4, <2>2, <2>3 DEF SendResult, TypeInv, TypeOK, HasTarget, tables, flushing, observers
<1>5. CASE SaveResult
  <2>1. results \in Seq(Target) /\ results # <<>>
    BY <1>5 DEF SaveResult, TypeInv, TypeOK
  <2>2. Head(results) \in Target /\ results' \in Seq(Target)
    BY <1>5, <2>1 DEF SaveResult
  <2>3. recording' \in Target /\ buffer' \subseteq Target
    BY <1>5, <2>2 DEF SaveResult, TypeInv, TypeOK
  <2>4. QED
    BY <1>5, <2>2, <2>3 DEF SaveResult, TypeInv, TypeOK, HasTarget, tables, observers
<1>6. CASE RecordSiteCheck
  BY <1>6 DEF RecordSiteCheck, TypeInv, TypeOK, HasTarget, tables, flushing, observers
<1>7. QED
  BY <1>1, <1>2, <1>3, <1>4, <1>5, <1>6 DEF Work

LEMMA StoreType ==
  ASSUME TypeInv, FlushPop \/ FlushCommit \/ FlushRequeue \/ (\E t \in Target : Age(t)) \/ PruneOldPings
  PROVE  TypeInv'
<1>1. CASE FlushPop \/ FlushRequeue
  BY <1>1 DEF FlushPop, FlushRequeue, TypeInv, TypeOK, HasTarget, tables, pool, observers
<1>2. CASE FlushCommit
  BY <1>2 DEF FlushCommit, TypeInv, TypeOK, HasTarget, pool, observers
<1>3. ASSUME NEW t \in Target, Age(t)
      PROVE  TypeInv'
  BY <1>3 DEF Age, TypeInv, TypeOK, HasTarget, pool, flushing, observers
<1>4. CASE PruneOldPings
  BY <1>4 DEF PruneOldPings, TypeInv, TypeOK, HasTarget, pool, flushing, observers
<1>5. QED
  BY <1>1, <1>2, <1>3, <1>4

LEMMA CrashType ==
  ASSUME TypeInv, Crash
  PROVE  TypeInv'
<1>1. handler' \in [Clients -> Handler] /\ HasTarget'
  <2>1. handler' = [c \in Clients |-> NoRequest]
    BY DEF Crash
  <2>2. QED
    BY <2>1, NoRequestIs DEF HasTarget
<1>2. worker' \in [Workers -> Target \cup {None}]
  BY DEF Crash
<1>3. /\ jobs' \in Seq(Target) /\ results' \in Seq(Target)
      /\ series' \subseteq Target /\ feeding' \subseteq Target /\ batch' \subseteq Target
      /\ recording' \in Target \cup {None}
  BY DEF Crash
<1>4. UNCHANGED <<tables, buffer, asked>> /\ crashes' \in Nat
  BY DEF Crash, TypeInv, TypeOK
<1>5. QED
  BY <1>1, <1>2, <1>3, <1>4 DEF TypeInv, TypeOK, tables

LEMMA InitType ==
  ASSUME Init
  PROVE  TypeInv
<1>1. handler \in [Clients -> Handler] /\ HasTarget
  BY NoRequestIs DEF Init, HasTarget
<1>2. worker \in [Workers -> Target \cup {None}]
  BY DEF Init
<1>3. jobs \in Seq(Target) /\ results \in Seq(Target)
  BY DEF Init
<1>4. QED
  BY <1>1, <1>2, <1>3 DEF Init, TypeInv, TypeOK

LEMMA NextType ==
  ASSUME TypeInv, [Next]_vars
  PROVE  TypeInv'
<1>1. CASE UNCHANGED vars
  BY <1>1 DEF vars, TypeInv, TypeOK, HasTarget, tables, pool, flushing, observers
<1>2. CASE BoundReached
  BY <1>1, <1>2 DEF BoundReached
<1>3. QED
  BY <1>1, <1>2, AddType, DeleteType, CheckType, StoreType, CrashType DEF Next

LEMMA TypeAlways == Spec => []TypeInv
<1>1. Init => TypeInv
  BY InitType
<1>2. TypeInv /\ [Next]_vars => TypeInv'
  BY NextType
<1>3. QED
  BY <1>1, <1>2, PTL DEF Spec

(* Types are kept while targets are added and deleted in any spelling and   *)
(* their checks are on the way: channels, workers and buffers hold nothing  *)
(* but targets, a worker none at all or one, and rows that count as old are *)
(* rows (server.go:56-96, main.go:52-71, flusher.go:34-119).                *)
THEOREM LifecycleTypes == Spec => []TypeOK
<1>1. TypeInv => TypeOK
  BY DEF TypeInv
<1>2. QED
  BY <1>1, TypeAlways, PTL

-----------------------------------------------------------------------------
(* A target that has fallen silent stays so until it is added again.        *)

(* What a step may do to a target that is silent                            *)
Quiet(t) ==
  /\ Silent(t)' \/ t \in monitors'
  /\ t \in rows' => t \in rows
  /\ t \in series' => t \in series

LEMMA SilentParts ==
  ASSUME NEW t
  PROVE  Silent(t) <=>
           /\ t \notin monitors /\ t \notin feeding /\ t \notin buffer /\ t \notin batch
           /\ t # recording
           /\ \A k \in DOMAIN jobs : jobs[k] # t
           /\ \A k \in DOMAIN results : results[k] # t
           /\ \A w \in Workers : worker[w] # t
           /\ \A c \in Clients : handler[c].pc = "enqueue" => handler[c].url # t
  BY DEF Silent, InFlight

LEMMA SilentPartsNext ==
  ASSUME NEW t
  PROVE  Silent(t)' <=>
           /\ t \notin monitors' /\ t \notin feeding' /\ t \notin buffer' /\ t \notin batch'
           /\ t # recording'
           /\ \A k \in DOMAIN jobs' : jobs'[k] # t
           /\ \A k \in DOMAIN results' : results'[k] # t
           /\ \A w \in Workers : worker'[w] # t
           /\ \A c \in Clients : handler'[c].pc = "enqueue" => handler'[c].url # t
  BY DEF Silent, InFlight

(* A channel holds nothing but what it held and what is sent to it.         *)
LEMMA SentAndTaken ==
  ASSUME NEW S, NEW q \in Seq(S), NEW t, \A k \in DOMAIN q : q[k] # t
  PROVE  /\ \A e \in S : e # t => \A k \in DOMAIN Append(q, e) : Append(q, e)[k] # t
         /\ q # <<>> => Head(q) # t /\ \A k \in DOMAIN Tail(q) : Tail(q)[k] # t
<1>1. ASSUME NEW e \in S, e # t
      PROVE  \A k \in DOMAIN Append(q, e) : Append(q, e)[k] # t
  BY <1>1
<1>2. ASSUME q # <<>>
      PROVE  Head(q) # t /\ \A k \in DOMAIN Tail(q) : Tail(q)[k] # t
  <2>1. Head(q) = q[1] /\ 1 \in DOMAIN q
    BY <1>2
  <2>2. \A k \in DOMAIN Tail(q) : Tail(q)[k] = q[k + 1] /\ k + 1 \in DOMAIN q
    BY <1>2
  <2>3. QED
    BY <2>1, <2>2
<1>3. QED
  BY <1>1, <1>2

(* What a handler goes on to do does not matter unless it sends the target. *)
LEMMA OtherHandlers ==
  ASSUME TypeOK, NEW t, Silent(t), NEW c \in Clients, NEW r, handler' = [handler EXCEPT ![c] = r],
         r.pc = "enqueue" => r.url # t
  PROVE  \A d \in Clients : handler'[d].pc = "enqueue" => handler'[d].url # t
<1>1. \A d \in Clients : handler'[d] = IF d = c THEN r ELSE handler[d]
  BY DEF TypeOK
<1>2. QED
  BY <1>1, SilentParts

LEMMA RespondsQuietly ==
  ASSUME TypeOK, NEW t, Silent(t), NEW c \in Clients, Respond(c)
  PROVE  \A d \in Clients : handler'[d].pc = "enqueue" => handler'[d].url # t
  BY OtherHandlers, NoRequestIs DEF Respond

LEMMA RequestsAreQuiet ==
  ASSUME TypeInv, NEW t \in Target, Silent(t), NEW c \in Clients, Add(c) \/ Delete(c)
  PROVE  Quiet(t)
<1>1. TypeOK
  BY DEF TypeInv
<1>2. CASE AddTarget(c)
  <2>1. UNCHANGED <<rows, old, series, feeding, pool, flushing>>
    BY <1>2 DEF AddTarget
  <2>2. CASE UNCHANGED <<monitors, handler>>
    BY <2>1, <2>2, SilentParts, SilentPartsNext DEF Quiet, pool, flushing
  <2>3. ASSUME NEW job \in Posts, monitors' = monitors \cup {Normalize(job)},
               handler' = [handler EXCEPT ![c] = [pc |-> "enqueue", url |-> Normalize(job)]]
        PROVE  Quiet(t)
    <3>1. CASE t = Normalize(job)
      BY <2>1, <2>3, <3>1 DEF Quiet
    <3>2. CASE t # Normalize(job)
      <4>1. \A d \in Clients : handler'[d].pc = "enqueue" => handler'[d].url # t
        <5>1. PICK r : r = [pc |-> "enqueue", url |-> Normalize(job)]
          OBVIOUS
        <5>2. r.url # t /\ handler' = [handler EXCEPT ![c] = r]
          BY <2>3, <3>2, <5>1
        <5>3. QED
          BY <1>1, <5>2, OtherHandlers
      <4>2. QED
        BY <2>1, <2>3, <3>2, <4>1, SilentParts, SilentPartsNext DEF Quiet, pool, flushing
    <3>3. QED
      BY <3>1, <3>2
  <2>4. QED
    BY <1>2, <2>2, <2>3 DEF AddTarget
<1>3. CASE AddMonitorEnqueue(c)
  <2>1. /\ UNCHANGED <<tables, series, feeding, worker, results, recording, flushing>>
        /\ handler[c].pc = "enqueue" /\ jobs' = Append(jobs, handler[c].url) /\ Respond(c)
    BY <1>3 DEF AddMonitorEnqueue, Enqueue
  <2>2. handler[c].url \in Target /\ handler[c].url # t
    BY <2>1, SilentParts DEF TypeInv, HasTarget
  <2>3. \A k \in DOMAIN jobs' : jobs'[k] # t
    BY <1>1, <2>1, <2>2, SentAndTaken, SilentParts DEF TypeOK
  <2>4. QED
    BY <1>1, <2>1, <2>3, RespondsQuietly, SilentParts, SilentPartsNext DEF Quiet, tables, flushing
<1>4. CASE DropRows(c)
  <2>1. /\ UNCHANGED <<monitors, series, feeding, pool, flushing>> /\ rows' \subseteq rows
    BY <1>4 DEF DropRows
  <2>2. \A d \in Clients : handler'[d].pc = "enqueue" => handler'[d].url # t
    <3>1. CASE UNCHANGED handler
      BY <3>1, SilentParts
    <3>2. ASSUME NEW url, handler' = [handler EXCEPT ![c] = [pc |-> "drop_monitors", url |-> url]]
          PROVE  \A d \in Clients : handler'[d].pc = "enqueue" => handler'[d].url # t
      <4>1. PICK r : r = [pc |-> "drop_monitors", url |-> url]
        OBVIOUS
      <4>2. r.pc # "enqueue" /\ handler' = [handler EXCEPT ![c] = r]
        BY <3>2, <4>1
      <4>3. QED
        BY <1>1, <4>2, OtherHandlers
    <3>3. QED
      BY <1>4, <3>1, <3>2 DEF DropRows
  <2>3. QED
    BY <2>1, <2>2, SilentParts, SilentPartsNext DEF Quiet, pool, flushing
<1>5. CASE DropMonitors(c)
  <2>1. /\ UNCHANGED <<rows, series, feeding, pool, flushing>> /\ monitors' \subseteq monitors
    BY <1>5 DEF DropMonitors
  <2>2. \A d \in Clients : handler'[d].pc = "enqueue" => handler'[d].url # t
    <3>1. CASE Respond(c)
      BY <1>1, <3>1, RespondsQuietly
    <3>2. CASE handler' = [handler EXCEPT ![c].pc = "drop_metrics"]
      <4>1. PICK r : r = [handler[c] EXCEPT !.pc = "drop_metrics"]
        OBVIOUS
      <4>2. PICK h \in Handler : h = handler[c]
        BY <1>1 DEF TypeOK
      <4>3. r.pc # "enqueue"
        BY <4>1, <4>2 DEF Handler
      <4>4. handler' = [handler EXCEPT ![c] = r]
        BY <3>2, <4>1
      <4>5. QED
        BY <1>1, <4>3, <4>4, OtherHandlers
    <3>3. QED
      BY <1>5, <3>1, <3>2 DEF DropMonitors
  <2>3. QED
    BY <2>1, <2>2, SilentParts, SilentPartsNext DEF Quiet, pool, flushing
<1>6. CASE DropMetrics(c)
  <2>1. UNCHANGED <<tables, feeding, pool, flushing>> /\ series' \subseteq series /\ Respond(c)
    BY <1>6 DEF DropMetrics
  <2>2. QED
    BY <1>1, <2>1, RespondsQuietly, SilentParts, SilentPartsNext DEF Quiet, tables, pool, flushing
<1>7. QED
  BY <1>2, <1>3, <1>4, <1>5, <1>6 DEF Add, Delete

LEMMA ChecksAreQuiet ==
  ASSUME TypeInv, NEW t \in Target, Silent(t),
         FeedRound \/ FeedSend \/ (\E w \in Workers : Work(w)) \/ SaveResult \/ RecordSiteCheck
  PROVE  Quiet(t)
<1>1. TypeOK /\ t # None
  BY NoneIsNoTarget DEF TypeInv
<1>2. CASE FeedRound
  BY <1>2, SilentParts, SilentPartsNext DEF FeedRound, Quiet, tables, pool, flushing
<1>3. CASE FeedSend
  <2>1. PICK s \in feeding : jobs' = Append(jobs, s) /\ feeding' = feeding \ {s}
    BY <1>3 DEF FeedSend, Enqueue
  <2>2. s \in Target /\ s # t
    BY <1>1, <2>1, SilentParts DEF TypeOK
  <2>3. \A k \in DOMAIN jobs' : jobs'[k] # t
    BY <1>1, <2>1, <2>2, SentAndTaken, SilentParts DEF TypeOK
  <2>4. QED
    BY <1>3, <2>1, <2>3, SilentParts, SilentPartsNext DEF FeedSend, Quiet, tables, flushing
<1>4. ASSUME NEW w \in Workers, TakeJob(w)
      PROVE  Quiet(t)
  <2>1. Head(jobs) # t /\ \A k \in DOMAIN jobs' : jobs'[k] # t
    BY <1>1, <1>4, SentAndTaken, SilentParts DEF TakeJob, TypeOK
  <2>2. \A v \in Workers : worker'[v] # t
    BY <1>1, <1>4, <2>1, SilentParts DEF TakeJob, TypeOK
  <2>3. QED
    BY <1>4, <2>1, <2>2, SilentParts, SilentPartsNext DEF TakeJob, Quiet, tables, flushing
<1>5. ASSUME NEW w \in Workers, SendResult(w)
      PROVE  Quiet(t)
  <2>1. PICK s \in Target : s = worker[w] /\ results' = Append(results, s)
    BY <1>1, <1>5 DEF SendResult, TypeOK
  <2>2. s # t
    BY <2>1, SilentParts
  <2>3. \A k \in DOMAIN results' : results'[k] # t
    BY <1>1, <2>1, <2>2, SentAndTaken, SilentParts DEF TypeOK
  <2>4. \A v \in Workers : worker'[v] # t
    BY <1>1, <1>5, SilentParts DEF SendResult, TypeOK
  <2>5. QED
    BY <1>5, <2>3, <2>4, SilentParts, SilentPartsNext DEF SendResult, Quiet, tables, flushing
<1>6. CASE SaveResult
  <2>1. Head(results) # t /\ \A k \in DOMAIN results' : results'[k] # t
    BY <1>1, <1>6, SentAndTaken, SilentParts DEF SaveResult, TypeOK
  <2>2. QED
    BY <1>6, <2>1, SilentParts, SilentPartsNext DEF SaveResult, Quiet, tables
<1>7. CASE RecordSiteCheck
  BY <1>1, <1>7, SilentParts, SilentPartsNext DEF RecordSiteCheck, Quiet, tables, flushing
<1>8. QED
  BY <1>2, <1>3, <1>4, <1>5, <1>6, <1>7 DEF Work

LEMMA StoresAreQuiet ==
  ASSUME TypeInv, NEW t \in Target, Silent(t),
         FlushPop \/ FlushCommit \/ FlushRequeue \/ (\E s \in Target : Age(s)) \/ PruneOldPings \/ Crash
  PROVE  Quiet(t)
<1>1. CASE FlushPop \/ FlushRequeue
  BY <1>1, SilentParts, SilentPartsNext DEF FlushPop, FlushRequeue, Quiet, tables, pool
<1>2. CASE FlushCommit
  BY <1>2, SilentParts, SilentPartsNext DEF FlushCommit, Quiet, pool
<1>3. ASSUME NEW s \in Target, Age(s)
      PROVE  Quiet(t)
  BY <1>3, SilentParts, SilentPartsNext DEF Age, Quiet, pool, flushing
<1>4. CASE PruneOldPings
  BY <1>4, SilentParts, SilentPartsNext DEF PruneOldPings, Quiet, pool, flushing
<1>5. CASE Crash
  <2>1. t # None
    BY NoneIsNoTarget
  <2>2. /\ feeding' = {} /\ batch' = {} /\ recording' = None /\ series' = {}
        /\ DOMAIN jobs' = {} /\ DOMAIN results' = {} /\ UNCHANGED <<tables, buffer>>
    BY <1>5 DEF Crash
  <2>3. \A w \in Workers : worker'[w] = None
    BY <1>5 DEF Crash
  <2>4. \A c \in Clients : handler'[c].pc # "enqueue"
    BY <1>5, NoRequestIs DEF Crash
  <2>5. QED
    BY <2>1, <2>2, <2>3, <2>4, SilentParts, SilentPartsNext DEF Quiet, tables
<1>6. QED
  BY <1>1, <1>2, <1>3, <1>4, <1>5

LEMMA NextIsQuiet ==
  ASSUME TypeInv, [Next]_vars
  PROVE  \A t \in Target : Silent(t) => Quiet(t)
<1>1. ASSUME NEW t \in Target, Silent(t)
      PROVE  Quiet(t)
  <2>1. CASE UNCHANGED vars
    BY <1>1, <2>1, SilentParts, SilentPartsNext DEF vars, Quiet, tables, pool, flushing
  <2>2. CASE BoundReached
    BY <2>1, <2>2 DEF BoundReached
  <2>3. QED
    BY <1>1, <2>1, <2>2, RequestsAreQuiet, ChecksAreQuiet, StoresAreQuiet DEF Next
<1>2. QED
  BY <1>1

(* The half of DeletedFallsSilent and DeletedIsForgotten that is safety:    *)
(* however requests, workers, feeder and flusher interleave, and whatever   *)
(* fails or restarts, a target that has fallen silent is not checked, and   *)
(* no row or metrics of it are written, until it is added again.            *)
THEOREM SilenceLasts == Spec => SilentStaysSilent
<1>1. TypeInv /\ [Next]_vars
        => [\A t \in Target : Silent(t) =>
              /\ Silent(t)' \/ t \in monitors'
              /\ t \in rows' => t \in rows
              /\ t \in series' => t \in series]_vars
  BY NextIsQuiet DEF Quiet
<1>2. QED
  BY <1>1, TypeAlways, PTL DEF Spec, SilentStaysSilent
=============================================================================
