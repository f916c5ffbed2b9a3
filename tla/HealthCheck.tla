------------------------------ MODULE HealthCheck ------------------------------
(***************************************************************************)
(* A worker checks a site (httpCheck and tcpCheck of worker/worker.go),    *)
(* again and again, while the page asks for the certificate of the same    *)
(* site (CertificateCheck).  The site may be silent or slow at any stage,  *)
(* redirect, or close a connection; a connection that was used up to the   *)
(* end of an answer may be kept for the next check, which then sees no     *)
(* certificate.  A check takes seconds, which pass much faster than the    *)
(* hours of CertificateCheck.                                              *)
(***************************************************************************)
EXTENDS CertificateCheck

CONSTANTS
  Schemes,       \* of the targets: "http", "https", "tcp"
  Timeout,       \* of the request's context and of the TCP dial (5 s)
  MaxRedirects   \* that http.Client follows (it refuses the tenth)

ASSUME HealthAssumption ==
  /\ Schemes \subseteq {"http", "https", "tcp"}
  /\ Timeout \in Nat \ {0}
  /\ MaxRedirects \in Nat

VARIABLES
  probe,    \* the check under way
  kept,     \* the transport has an idle connection to the site
  up        \* the result of the latest check

healthVars == <<probe, kept, up>>
allVars == <<vars, healthVars>>

-----------------------------------------------------------------------------
(* elapsed: seconds since the check began; left: until its context ends     *)
Probe == [pc : {"idle", "connect", "handshake", "headers", "body"}, scheme : Schemes \cup {""},
          reused : BOOLEAN, ok : BOOLEAN, hops : 0 .. MaxRedirects,
          left : 0 .. Timeout, elapsed : 0 .. Timeout + 1]

NoProbe ==
  [pc |-> "idle", scheme |-> "", reused |-> FALSE, ok |-> FALSE, hops |-> 0,
   left |-> 0, elapsed |-> 0]

At(stage) == probe.pc = stage

(* RoundTrip begins with a connection that was kept, or a new one.          *)
Request(scheme, hops, left) ==
  \E reuse \in {kept /\ scheme # "tcp", FALSE} :
    probe' = [pc |-> IF reuse THEN "headers" ELSE "connect", scheme |-> scheme,
              reused |-> reuse, ok |-> FALSE, hops |-> hops,
              left |-> left, elapsed |-> probe.elapsed]

Conclude(result) == probe' = NoProbe /\ up' = result

(* A target that no request can be made for fails at once.                  *)
StartCheck ==
  /\ At("idle")
  /\ \E s \in Schemes :
       \/ Request(s, 0, Timeout) /\ UNCHANGED up
       \/ s # "tcp" /\ Conclude(FALSE)
  /\ UNCHANGED <<vars, kept>>

Connected ==
  /\ At("connect")
  /\ \/ probe.scheme = "tcp" /\ Conclude(TRUE)
     \/ /\ probe.scheme # "tcp"
        /\ probe' = [probe EXCEPT !.pc = IF probe.scheme = "https" THEN "handshake" ELSE "headers"]
        /\ UNCHANGED up
  /\ UNCHANGED <<vars, kept>>

Handshake ==
  /\ At("handshake") /\ cert.trusted /\ now <= cert.notAfter
  /\ probe' = [probe EXCEPT !.pc = "headers"]
  /\ UNCHANGED <<vars, kept, up>>

(* The status is a success (2xx) or not.                                    *)
Headers ==
  /\ At("headers")
  /\ \E success \in BOOLEAN : probe' = [probe EXCEPT !.pc = "body", !.ok = success]
  /\ UNCHANGED <<vars, kept, up>>

MutantRedirect ==
  /\ At("headers")
  /\ \/ /\ probe.hops < MaxRedirects
        /\ \E s \in Schemes \ {"tcp"} : Request(s, probe.hops + 1, Timeout)
        /\ UNCHANGED up
     \/ probe.hops = MaxRedirects /\ Conclude(FALSE)
  /\ UNCHANGED <<vars, kept>>

Redirect ==
  /\ At("headers")
  /\ \/ /\ probe.hops < MaxRedirects
        /\ \E s \in Schemes \ {"tcp"} : Request(s, probe.hops + 1, probe.left)
        /\ UNCHANGED up
     \/ probe.hops = MaxRedirects /\ Conclude(FALSE)
  /\ UNCHANGED <<vars, kept>>

(* The site had closed the connection: the transport makes a new one.       *)
Reconnect ==
  /\ At("headers") /\ probe.reused
  /\ probe' = [probe EXCEPT !.pc = "connect", !.reused = FALSE]
  /\ kept' = FALSE
  /\ UNCHANGED <<vars, up>>

(* io.Copy has read the whole body.                                         *)
BodyRead ==
  /\ At("body")
  /\ Conclude(probe.ok)
  /\ kept' \in BOOLEAN
  /\ UNCHANGED vars

(* Any stage can fail, and does when the context ends.                      *)
Fail ==
  /\ ~At("idle")
  /\ Conclude(FALSE)
  /\ kept' \in {kept, FALSE}
  /\ UNCHANGED vars

-----------------------------------------------------------------------------
MutantCountdown == IF At("body") THEN probe.left ELSE probe.left - 1

Countdown == probe.left - 1

(* elapsed stops one second past the timeout: that much is too much.        *)
Second ==
  /\ ~At("idle") /\ probe.left > 0
  /\ probe' = [probe EXCEPT !.left = Countdown, !.elapsed = IF @ > Timeout THEN @ ELSE @ + 1]
  /\ UNCHANGED <<vars, kept, up>>

(* Ninety seconds without a check, or the site closes the connection.       *)
ConnectionClosed ==
  /\ kept /\ kept' = FALSE
  /\ UNCHANGED <<vars, probe, up>>

HealthInit == Init /\ probe = NoProbe /\ kept = FALSE /\ up = FALSE

Check ==
  \/ StartCheck \/ Connected \/ Handshake \/ Headers \/ Redirect \/ Reconnect \/ BodyRead
  \/ Fail \/ Second \/ ConnectionClosed

HealthNext == Check \/ (Next /\ UNCHANGED healthVars)

HealthSpec == HealthInit /\ [][HealthNext]_allVars

(* Time passes, and what the context ends has ended; the site need not do   *)
(* anything.                                                                *)
FairHealthSpec ==
  HealthSpec /\ WF_allVars(Second) /\ WF_allVars(Fail /\ probe.left = 0)

-----------------------------------------------------------------------------
(* However often a site redirects, however it spreads its answer over time, *)
(* and whether or not a kept connection fails, the whole check takes no     *)
(* longer than one timeout (worker.go:78, :111): no site holds a worker.    *)
CheckIsBounded == probe.elapsed <= Timeout

(* And every check ends, also of a site that never answers: what            *)
(* PingPipeline assumes of its workers (worker.go:36-52).                   *)
CheckEnds == ~At("idle") ~> At("idle")
=============================================================================
