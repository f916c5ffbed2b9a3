--------------------------- MODULE HealthCheckProofs ---------------------------
(***************************************************************************)
(* Theorems about HealthCheck and CertificateCheck, for any timeout, any   *)
(* number of redirects, any certificates, length of a day and warning      *)
(* period, whether or not handshakes are verified.                         *)
(***************************************************************************)
EXTENDS HealthCheck, TLAPS

-----------------------------------------------------------------------------
(* What makes it inductive: nothing but the clock changes how much time is  *)
(* spent and how much is left, so that the two always add up.               *)

AddsUp ==
  /\ At("idle") => probe.elapsed = 0
  /\ ~At("idle") => probe.elapsed + probe.left = Timeout

BoundInv == probe \in Probe /\ AddsUp

LEMMA Limits == Timeout \in Nat \ {0} /\ MaxRedirects \in Nat
  BY HealthAssumption DEF HealthAssumption

LEMMA Fields ==
  ASSUME BoundInv
  PROVE  /\ probe.hops \in 0 .. MaxRedirects
         /\ probe.left \in 0 .. Timeout /\ probe.elapsed \in 0 .. Timeout + 1
  BY DEF BoundInv, Probe

LEMMA NoProbeTyped == NoProbe \in Probe /\ NoProbe.elapsed = 0 /\ NoProbe.pc = "idle"
  BY Limits DEF NoProbe, Probe

LEMMA NoProbeBounded ==
  ASSUME probe' = NoProbe
  PROVE  BoundInv'
  BY NoProbeTyped DEF BoundInv, AddsUp, At

(* A check that begins, and a redirect, which goes on with what is left     *)
LEMMA RequestBounded ==
  ASSUME BoundInv, NEW s \in Schemes, NEW n \in 0 .. MaxRedirects, NEW l \in 0 .. Timeout,
         probe.elapsed + l = Timeout, Request(s, n, l)
  PROVE  BoundInv'
<1>1. PICK reuse \in {kept /\ s # "tcp", FALSE} :
        probe' = [pc |-> IF reuse THEN "headers" ELSE "connect", scheme |-> s,
                  reused |-> reuse, ok |-> FALSE, hops |-> n,
                  left |-> l, elapsed |-> probe.elapsed]
  BY DEF Request
<1> DEFINE stage == IF reuse THEN "headers" ELSE "connect"
<1>2. stage \in {"headers", "connect"} /\ reuse \in BOOLEAN
  OBVIOUS
<1>3. probe.elapsed \in 0 .. Timeout + 1
  BY Fields
<1>4. probe' = [pc |-> stage, scheme |-> s, reused |-> reuse, ok |-> FALSE, hops |-> n,
                left |-> l, elapsed |-> probe.elapsed]
  BY <1>1
<1> HIDE DEF stage
<1>5. QED
  BY <1>2, <1>3, <1>4 DEF BoundInv, AddsUp, At, Probe

LEMMA BoundStep ==
  ASSUME BoundInv, [HealthNext]_allVars
  PROVE  BoundInv'
<1>1. CASE StartCheck
  <2>1. probe.elapsed = 0 /\ Timeout \in 0 .. Timeout /\ 0 \in 0 .. MaxRedirects
    BY <1>1, Limits DEF StartCheck, BoundInv, AddsUp
  <2>2. PICK s \in Schemes : Request(s, 0, Timeout) \/ Conclude(FALSE)
    BY <1>1 DEF StartCheck
  <2>3. CASE Request(s, 0, Timeout)
    BY <2>1, <2>3, RequestBounded, Limits
  <2>4. QED
    BY <2>2, <2>3, NoProbeBounded DEF Conclude
<1>2. CASE Connected
  <2>1. CASE Conclude(TRUE)
    BY <2>1, NoProbeBounded DEF Conclude
  <2>2. CASE probe' = [probe EXCEPT !.pc = IF probe.scheme = "https" THEN "handshake" ELSE "headers"]
    BY <1>2, <2>2 DEF Connected, BoundInv, AddsUp, At, Probe
  <2>3. QED
    BY <1>2, <2>1, <2>2 DEF Connected
<1>3. CASE Handshake
  BY <1>3 DEF Handshake, BoundInv, AddsUp, At, Probe
<1>4. CASE Headers
  BY <1>4 DEF Headers, BoundInv, AddsUp, At, Probe
<1>5. CASE Redirect
  <2>1. CASE Conclude(FALSE)
    BY <2>1, NoProbeBounded DEF Conclude
  <2>2. CASE probe.hops < MaxRedirects
             /\ \E s \in Schemes \ {"tcp"} : Request(s, probe.hops + 1, probe.left)
    <3>1. probe.elapsed + probe.left = Timeout /\ probe.left \in 0 .. Timeout
      BY <1>5 DEF Redirect, BoundInv, AddsUp, At, Probe
    <3>2. probe.hops + 1 \in 0 .. MaxRedirects
      BY <2>2, Limits, Fields
    <3>3. PICK s \in Schemes : Request(s, probe.hops + 1, probe.left)
      BY <2>2
    <3>4. QED
      BY <3>1, <3>2, <3>3, RequestBounded
  <2>3. QED
    BY <1>5, <2>1, <2>2 DEF Redirect
<1>6. CASE Reconnect
  BY <1>6 DEF Reconnect, BoundInv, AddsUp, At, Probe
<1>7. CASE BodyRead
  BY <1>7, NoProbeBounded DEF BodyRead, Conclude
<1>8. CASE Fail
  BY <1>8, NoProbeBounded DEF Fail, Conclude
<1>9. CASE Second
  <2>1. probe.left \in 1 .. Timeout /\ probe.elapsed + probe.left = Timeout
        /\ probe.elapsed \in 0 .. Timeout + 1
    BY <1>9, Limits, Fields DEF Second, BoundInv, AddsUp
  <2>2. probe' = [probe EXCEPT !.left = probe.left - 1, !.elapsed = probe.elapsed + 1]
    <3>1. ~(probe.elapsed > Timeout)
      BY <2>1, Limits
    <3>2. QED
      BY <1>9, <3>1 DEF Second, Countdown
  <2>3. probe.left - 1 \in 0 .. Timeout /\ probe.elapsed + 1 \in 0 .. Timeout + 1
    BY <2>1, Limits
  <2>4. probe' \in Probe
    BY <2>2, <2>3 DEF BoundInv, Probe
  <2>5. probe'.pc = probe.pc /\ probe'.left = probe.left - 1 /\ probe'.elapsed = probe.elapsed + 1
    BY <2>2 DEF BoundInv, Probe
  <2>6. ~At("idle") /\ ~At("idle")'
    BY <1>9, <2>5 DEF Second, At
  <2>7. probe'.elapsed + probe'.left = Timeout
    BY <2>1, <2>5, Limits
  <2>8. QED
    BY <2>4, <2>6, <2>7 DEF BoundInv, AddsUp
<1>10. CASE UNCHANGED probe
  BY <1>10 DEF BoundInv, AddsUp, At
<1>11. QED
  BY <1>1, <1>2, <1>3, <1>4, <1>5, <1>6, <1>7, <1>8, <1>9, <1>10
     DEF HealthNext, Check, ConnectionClosed, healthVars, allVars

-----------------------------------------------------------------------------
(* No check, however its site redirects, answers slowly, falls silent or    *)
(* drops a kept connection, takes longer than its timeout (worker.go:76-90, *)
(* :116).                                                                   *)
THEOREM ChecksAreBounded == HealthSpec => []CheckIsBounded
<1>1. HealthInit => BoundInv
  BY NoProbeTyped DEF HealthInit, BoundInv, AddsUp, At
<1>2. BoundInv /\ [HealthNext]_allVars => BoundInv'
  BY BoundStep
<1>3. BoundInv => CheckIsBounded
  BY Limits, Fields DEF BoundInv, AddsUp, CheckIsBounded
<1>4. QED
  BY <1>1, <1>2, <1>3, PTL DEF HealthSpec

-----------------------------------------------------------------------------
(* Whole days                                                               *)

LEMMA Divided ==
  ASSUME NEW n \in Nat, NEW d \in Nat \ {0}
  PROVE  n \div d \in Nat /\ (n \div d) * d <= n /\ n < (n \div d + 1) * d
<1>1. n \div d \in Nat
  OBVIOUS
<1>2. (n \div d) * d <= n /\ n < (n \div d + 1) * d
  OBVIOUS
<1>3. QED
  BY <1>1, <1>2

LEMMA Multiplied ==
  ASSUME NEW a \in Int, NEW b \in Int, NEW d \in Nat, a <= b
  PROVE  a * d <= b * d
  OBVIOUS

LEMMA ConfiguredDays ==
  /\ DayHours \in Nat \ {0} /\ WarningDays \in Nat \ {0} /\ Lifetimes \subseteq Nat
  /\ InsecureSkipVerify \in BOOLEAN /\ MaxTime \in Nat
  BY CertificateAssumption DEF CertificateAssumption

LEMMA WholeDaysType ==
  ASSUME NEW h \in Int
  PROVE  WholeDays(h) \in Int
<1>1. CASE h < 0
  <2>1. PICK n \in Nat : n = -h
    BY <1>1
  <2>2. n \div DayHours \in Nat
    BY Divided, ConfiguredDays
  <2>3. -(n \div DayHours) \in Int
    BY <2>2
  <2>4. QED
    BY <1>1, <2>1, <2>3 DEF WholeDays
<1>2. CASE ~(h < 0)
  <2>1. h \div DayHours \in Nat
    BY <1>2, Divided, ConfiguredDays
  <2>2. QED
    BY <1>2, <2>1 DEF WholeDays
<1>3. QED
  BY <1>1, <1>2

(* How many whole days are left decides between warning and valid exactly   *)
(* as the hours do.                                                         *)
LEMMA DaysTellHours ==
  ASSUME NEW h \in Nat
  PROVE  /\ WholeDays(h) * DayHours <= h /\ h < (WholeDays(h) + 1) * DayHours
         /\ WholeDays(h) < WarningDays <=> h < WarningDays * DayHours
<1>1. PICK d \in Nat \ {0} : d = DayHours
  BY ConfiguredDays
<1>2. PICK w \in Nat : w = WarningDays
  BY ConfiguredDays
<1>3. PICK days \in Nat : days = h \div d
  BY Divided
<1>4. WholeDays(h) = days
  BY <1>1, <1>3 DEF WholeDays
<1>5. days * d <= h /\ h < (days + 1) * d
  BY <1>3, Divided
<1>6. PICK hours \in Nat : hours = w * d
  OBVIOUS
<1>7. CASE days < w
  <2>1. (days + 1) * d <= w * d
    <3>1. days + 1 \in Int /\ w \in Int /\ d \in Nat /\ days + 1 <= w
      BY <1>7
    <3>2. QED
      BY <3>1, Multiplied
  <2>2. PICK m \in Nat : m = (days + 1) * d
    OBVIOUS
  <2>3. h < w * d
    BY <1>5, <1>6, <2>1, <2>2
  <2>4. QED
    BY <1>1, <1>2, <1>4, <1>5, <1>7, <2>3
<1>8. CASE ~(days < w)
  <2>1. w * d <= days * d
    <3>1. days \in Int /\ w \in Int /\ d \in Nat /\ w <= days
      BY <1>8
    <3>2. QED
      BY <3>1, Multiplied
  <2>2. PICK m \in Nat : m = days * d
    OBVIOUS
  <2>3. ~(h < w * d)
    BY <1>5, <1>6, <2>1, <2>2
  <2>4. QED
    BY <1>1, <1>2, <1>4, <1>5, <1>8, <2>3
<1>9. QED
  BY <1>7, <1>8

-----------------------------------------------------------------------------
(* A check past its handshake has seen a certificate that was accepted.     *)
SeenIsTrusted == check.pc = "judge" => check.seen.trusted \/ InsecureSkipVerify

LEMMA NoneIsACertificate ==
  None \in Certificate /\ Resting \in [pc : {"idle", "dial", "judge"}, seen : Certificate]
  BY DEF None, Certificate, Resting

LEMMA AnswerType ==
  ASSUME TypeOK, NEW s \in Status, NEW d \in Int, NEW c \in Certificate
  PROVE  Answer(s, d, c) \in Info
<1>1. now \in Nat /\ (s \in {"valid", "warning"}) \in BOOLEAN
  BY ConfiguredDays DEF TypeOK
<1>2. QED
  BY <1>1 DEF Answer, Info

LEMMA UnavailableIsRight ==
  ASSUME NEW c, info' = Unavailable(c)
  PROVE  VerdictIsRight'
  BY DEF Unavailable, Answer, VerdictIsRight

LEMMA InitCertificate == Init => TypeOK /\ SeenIsTrusted /\ VerdictIsRight
<1> SUFFICES ASSUME Init PROVE TypeOK /\ SeenIsTrusted /\ VerdictIsRight
  OBVIOUS
<1>1. cert \in Certificate
  <2>1. Lifetimes \subseteq Int
    BY ConfiguredDays
  <2>2. cert \in [notAfter : Lifetimes, trusted : BOOLEAN]
    BY DEF Init
  <2>3. QED
    BY <2>1, <2>2 DEF Certificate
<1>2. info \in Info
  <2>1. PICK n \in Certificate : n = None
    BY NoneIsACertificate
  <2>2. PICK s \in Status :
          info = [status |-> s, valid |-> FALSE, days |-> 0, about |-> n, at |-> 0]
    BY <2>1, Zenon DEF Init, Status
  <2>3. QED
    BY <2>2 DEF Info
<1>3. TypeOK
  <2>1. now \in 0 .. MaxTime
    <3>1. now = 0
      BY DEF Init
    <3>2. QED
      BY <3>1, ConfiguredDays
  <2>2. check \in [pc : {"idle", "dial", "judge"}, seen : Certificate] /\ check.seen = None
    BY NoneIsACertificate DEF Init, Resting
  <2>3. QED
    BY <1>1, <1>2, <2>1, <2>2 DEF TypeOK
<1>4. SeenIsTrusted /\ VerdictIsRight
  <2>1. check.pc = "idle" /\ info.status = "" /\ info.valid = FALSE
    BY DEF Init, Resting
  <2>2. QED
    BY <2>1 DEF SeenIsTrusted, VerdictIsRight
<1>5. QED
  BY <1>3, <1>4

LEMMA VerdictStays ==
  ASSUME UNCHANGED info, VerdictIsRight
  PROVE  VerdictIsRight'
  BY DEF VerdictIsRight

(* An answer that ends a check                                              *)
LEMMA FinishType ==
  ASSUME TypeOK, NEW answer \in Info, Finish(answer), UNCHANGED <<now, cert>>
  PROVE  TypeOK' /\ SeenIsTrusted'
<1>1. check' = Resting /\ info' = answer
  BY DEF Finish
<1>2. check'.pc = "idle" /\ check'.seen = None
  BY <1>1 DEF Resting
<1>3. check' \in [pc : {"idle", "dial", "judge"}, seen : Certificate]
  BY <1>1, NoneIsACertificate
<1>4. QED
  BY <1>1, <1>2, <1>3 DEF TypeOK, SeenIsTrusted

LEMMA DialStep ==
  ASSUME TypeOK, SeenIsTrusted, VerdictIsRight, Ask \/ DialRefused \/ DialUnverified \/ DialVerified
  PROVE  TypeOK' /\ SeenIsTrusted' /\ VerdictIsRight'
<1>1. UNCHANGED <<now, cert>> /\ cert \in Certificate
  BY DEF Ask, DialRefused, DialUnverified, DialVerified, TypeOK
<1>2. ASSUME NEW c \in Certificate, Finish(Unavailable(c))
      PROVE  TypeOK' /\ SeenIsTrusted' /\ VerdictIsRight'
  <2>1. Unavailable(c) \in Info
    <3>1. "unavailable" \in Status /\ 0 \in Int
      BY DEF Status
    <3>2. QED
      BY <1>2, <3>1, AnswerType DEF Unavailable
  <2>2. QED
    BY <1>1, <1>2, <2>1, FinishType, UnavailableIsRight DEF Finish
<1>3. CASE DialRefused \/ DialUnverified
  BY <1>1, <1>2, <1>3, NoneIsACertificate DEF DialRefused, DialUnverified
<1>4. CASE Ask
  <2>1. CASE Finish(Unavailable(None))
    BY <1>2, <2>1, NoneIsACertificate
  <2>2. CASE check' = [check EXCEPT !.pc = "dial"] /\ UNCHANGED info
    BY <1>1, <1>4, <2>2, VerdictStays DEF Ask, TypeOK, SeenIsTrusted
  <2>3. QED
    BY <1>4, <2>1, <2>2 DEF Ask
<1>5. CASE DialVerified
  <2>1. check' = [pc |-> "judge", seen |-> cert] /\ UNCHANGED info /\ Verified(cert)
    BY <1>5 DEF DialVerified
  <2>2. QED
    BY <1>1, <2>1, VerdictStays DEF TypeOK, SeenIsTrusted, Verified
<1>6. QED
  BY <1>3, <1>4, <1>5

LEMMA JudgeStep ==
  ASSUME TypeOK, SeenIsTrusted, Judge
  PROVE  TypeOK' /\ SeenIsTrusted' /\ VerdictIsRight'
<1>1. PICK seen \in Certificate : seen = check.seen
  BY DEF TypeOK
<1>2. PICK left \in Int : left = seen.notAfter - now /\ (left < 0 <=> now > seen.notAfter)
  <2>1. now \in Int /\ seen.notAfter \in Int
    BY ConfiguredDays DEF TypeOK, Certificate
  <2>2. QED
    BY <2>1
<1>3. PICK days \in Int : days = WholeDays(left)
  BY WholeDaysType
<1>4. PICK status \in Status :
        status = IF now > seen.notAfter THEN "expired"
                 ELSE IF days < WarningDays THEN "warning" ELSE "valid"
  BY DEF Status
<1>5. Finish(Answer(status, days, seen)) /\ UNCHANGED <<now, cert>> /\ check.pc = "judge"
  BY <1>1, <1>2, <1>3, <1>4 DEF Judge, DaysRemaining
<1>6. TypeOK' /\ SeenIsTrusted'
  BY <1>5, AnswerType, FinishType
<1>7. /\ info'.status = status /\ info'.days = days /\ info'.about = seen /\ info'.at = now
      /\ info'.valid <=> status \in {"valid", "warning"}
  BY <1>5 DEF Finish, Answer
<1>8. info'.about.notAfter - info'.at = left
  BY <1>2, <1>7
<1>9. seen.trusted \/ InsecureSkipVerify
  BY <1>1, <1>5 DEF SeenIsTrusted
<1>10. status = "expired" <=> (left < 0 /\ status \notin {"", "unavailable"})
  BY <1>2, <1>4
<1>11. ASSUME status \in {"valid", "warning"}
       PROVE  /\ days * DayHours <= left /\ left < (days + 1) * DayHours
              /\ status = "valid" <=> left >= WarningDays * DayHours
  <2>1. left \in Nat
    BY <1>2, <1>4, <1>11
  <2>2. /\ days * DayHours <= left /\ left < (days + 1) * DayHours
        /\ days < WarningDays <=> left < WarningDays * DayHours
    BY <1>3, <2>1, DaysTellHours
  <2>3. PICK hours \in Nat : hours = WarningDays * DayHours
    BY ConfiguredDays
  <2>4. status = "valid" <=> ~(days < WarningDays)
    BY <1>2, <1>4, <1>11
  <2>5. left >= hours <=> ~(left < hours)
    BY <2>1
  <2>6. QED
    BY <2>2, <2>3, <2>4, <2>5
<1>12. VerdictIsRight'
  BY <1>7, <1>8, <1>9, <1>10, <1>11 DEF VerdictIsRight
<1>13. QED
  BY <1>6, <1>12

LEMMA WorldStep ==
  ASSUME TypeOK, SeenIsTrusted, VerdictIsRight, Tick \/ Renew \/ UNCHANGED vars
  PROVE  TypeOK' /\ SeenIsTrusted' /\ VerdictIsRight'
<1>1. UNCHANGED <<check, info>>
  BY DEF Tick, Renew, vars
<1>2. now' \in 0 .. MaxTime
  BY ConfiguredDays DEF Tick, Renew, vars, TypeOK
<1>3. cert' \in Certificate
  <2>1. CASE Renew
    <3>1. PICK h \in Lifetimes, b \in BOOLEAN : cert' = [notAfter |-> now + h, trusted |-> b]
      BY <2>1 DEF Renew
    <3>2. now + h \in Int
      BY ConfiguredDays DEF TypeOK
    <3>3. QED
      BY <3>1, <3>2 DEF Certificate
  <2>2. CASE ~Renew
    BY <2>2 DEF Tick, vars, TypeOK
  <2>3. QED
    BY <2>1, <2>2
<1>4. QED
  BY <1>1, <1>2, <1>3, VerdictStays DEF TypeOK, SeenIsTrusted

LEMMA NextCertificate ==
  ASSUME TypeOK, SeenIsTrusted, VerdictIsRight, [Next]_vars
  PROVE  TypeOK' /\ SeenIsTrusted' /\ VerdictIsRight'
  BY DialStep, JudgeStep, WorldStep DEF Next

(* A worker's check of the site is no step of the certificate's.            *)
LEMMA HealthStepsAreCertificateSteps ==
  ASSUME [HealthNext]_allVars
  PROVE  [Next]_vars
  BY DEF HealthNext, Check, StartCheck, Connected, Handshake, Headers, Redirect, Reconnect,
         BodyRead, Fail, Second, ConnectionClosed, allVars

LEMMA CertificateAlways == HealthSpec => [](TypeOK /\ SeenIsTrusted /\ VerdictIsRight)
<1>1. TypeOK /\ SeenIsTrusted /\ VerdictIsRight /\ [HealthNext]_allVars
        => (TypeOK /\ SeenIsTrusted /\ VerdictIsRight)'
  BY NextCertificate, HealthStepsAreCertificateSteps
<1>2. HealthInit => TypeOK /\ SeenIsTrusted /\ VerdictIsRight
  BY InitCertificate DEF HealthInit
<1>3. QED
  BY <1>1, <1>2, PTL DEF HealthSpec

(* The certificates, the check under way and the answer keep their types,   *)
(* and no certificate outlives the check that has seen it.                  *)
THEOREM CertificateTypes == HealthSpec => []TypeOK
  BY CertificateAlways, PTL

(* Whenever the clock is read and the site renews its certificate, and for  *)
(* any length of a day and any warning period: an answer that says valid    *)
(* or warning is about a certificate that was accepted and has not run out, *)
(* its days are those that are left, and it warns exactly when they are too *)
(* few; expired is said exactly of certificates that have run out.          *)
THEOREM VerdictsAreRight == HealthSpec => []VerdictIsRight
  BY CertificateAlways, PTL
=============================================================================
