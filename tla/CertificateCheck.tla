--------------------------- MODULE CertificateCheck ---------------------------
(***************************************************************************)
(* GET /api/ssl (api/ssl.go, ssl/checker.go): the page asks again and again*)
(* for the certificate of the site it shows, while time passes and the site*)
(* renews its certificate.  Times are in hours; a check looks at the clock *)
(* twice, in the TLS handshake and after it.                               *)
(***************************************************************************)
EXTENDS Integers

CONSTANTS
  Targets,             \* kinds of targets: "invalid", "http", "https", "other"
  InsecureSkipVerify,  \* of TLSConfig: FALSE in the engine, TRUE in checker_test.go
  DayHours,            \* hours of a day (24)
  WarningDays,         \* warningDays (30)
  Lifetimes,           \* for how many hours a new certificate is valid
  MaxTime              \* bound on the clock

ASSUME CertificateAssumption ==
  /\ Targets \subseteq {"invalid", "http", "https", "other"}
  /\ InsecureSkipVerify \in BOOLEAN
  /\ {DayHours, WarningDays} \subseteq Nat \ {0}
  /\ Lifetimes \subseteq Nat \ {0}
  /\ MaxTime \in Nat

VARIABLES
  now,    \* the clock
  cert,   \* what the site presents: until when it is valid, and who signed it
  check,  \* the check under way: where it is, and the certificate it has seen
  info    \* the latest answer, with what it is about

vars == <<now, cert, check, info>>

-----------------------------------------------------------------------------
Certificate == [notAfter : Int, trusted : BOOLEAN]

None == [notAfter |-> 0, trusted |-> FALSE]

Resting == [pc |-> "idle", seen |-> None]

Status == {"", "valid", "warning", "expired", "unavailable"}

(* days_remaining is 0 and expires_at missing when nothing could be seen.   *)
(* about and at are no part of the answer: the certificate that the site    *)
(* presented when a handshake was tried, and the time of the verdict.       *)
Info == [status : Status, valid : BOOLEAN, days : Int, about : Certificate \cup {None}, at : Nat]

Answer(status, days, about) ==
  [status |-> status, valid |-> status \in {"valid", "warning"}, days |-> days,
   about |-> about, at |-> now]

Unavailable(about) == Answer("unavailable", 0, about)

(* Definitions named Mutant... are plausible bugs: each stands in for the   *)
(* definition below it in the run that shows a property can be broken.      *)
MutantFinish(answer) == info' = answer /\ check' = [check EXCEPT !.pc = "idle"]

Finish(answer) == info' = answer /\ check' = Resting

MutantWholeDays(h) == (h + DayHours - 1) \div DayHours

(* int(d.Hours() / 24) cuts towards zero                                    *)
WholeDays(h) == IF h < 0 THEN -((-h) \div DayHours) ELSE h \div DayHours

DaysRemaining(c) == WholeDays(c.notAfter - now)

(* What DialWithDialer makes of the certificate                             *)
Verified(c) == InsecureSkipVerify \/ (c.trusted /\ now <= c.notAfter)

-----------------------------------------------------------------------------
(* Check up to the dial: what does not parse to a host, or is http or has   *)
(* no scheme, is answered at once; any other scheme is dialled.             *)
Ask ==
  /\ check.pc = "idle"
  /\ \E t \in Targets :
       \/ t \in {"https", "other"} /\ check' = [check EXCEPT !.pc = "dial"] /\ UNCHANGED info
       \/ t \in {"invalid", "http"} /\ Finish(Unavailable(None))
  /\ UNCHANGED <<now, cert>>

(* The site does not answer, or presents no certificate.                    *)
DialRefused ==
  /\ check.pc = "dial"
  /\ Finish(Unavailable(None))
  /\ UNCHANGED <<now, cert>>

DialUnverified ==
  /\ check.pc = "dial" /\ ~Verified(cert)
  /\ Finish(Unavailable(cert))
  /\ UNCHANGED <<now, cert>>

DialVerified ==
  /\ check.pc = "dial" /\ Verified(cert)
  /\ check' = [pc |-> "judge", seen |-> cert]
  /\ UNCHANGED <<now, cert, info>>

Judge ==
  /\ check.pc = "judge"
  /\ LET days == DaysRemaining(check.seen) IN
     Finish(Answer(IF now > check.seen.notAfter THEN "expired"
                   ELSE IF days < WarningDays THEN "warning" ELSE "valid", days, check.seen))
  /\ UNCHANGED <<now, cert>>

-----------------------------------------------------------------------------
Tick ==
  /\ now < MaxTime
  /\ now' = now + 1
  /\ UNCHANGED <<cert, check, info>>

(* The site presents a new certificate from now on.                         *)
Renew ==
  /\ \E h \in Lifetimes, b \in BOOLEAN : cert' = [notAfter |-> now + h, trusted |-> b]
  /\ UNCHANGED <<now, check, info>>

Init ==
  /\ now = 0
  /\ cert \in [notAfter : Lifetimes, trusted : BOOLEAN]
  /\ check = Resting
  /\ info = [status |-> "", valid |-> FALSE, days |-> 0, about |-> None, at |-> 0]

Next ==
  Ask \/ DialRefused \/ DialUnverified \/ DialVerified \/ Judge \/ Tick \/ Renew

Spec == Init /\ [][Next]_vars

-----------------------------------------------------------------------------
(* The types, and: only a check past its handshake holds a certificate.     *)
TypeOK ==
  /\ now \in 0..MaxTime
  /\ cert \in Certificate
  /\ check \in [pc : {"idle", "dial", "judge"}, seen : Certificate]
  /\ info \in Info
  /\ check.pc # "judge" => check.seen = None

(* The verdict, the days next to it and the certificate agree, although the *)
(* clock is read twice and the site may renew in between: "valid" promises  *)
(* WarningDays whole days, "warning" at least that the certificate has not  *)
(* run out and is signed by somebody the engine trusts (checker.go:80-101). *)
VerdictIsRight ==
  LET left == info.about.notAfter - info.at IN
  /\ info.valid => info.about.trusted \/ InsecureSkipVerify
  /\ info.status = "expired" <=> (left < 0 /\ info.status \notin {"", "unavailable"})
  /\ info.valid => /\ info.days * DayHours <= left /\ left < (info.days + 1) * DayHours
                   /\ info.status = "valid" <=> left >= WarningDays * DayHours
=============================================================================
