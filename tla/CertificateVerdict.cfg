\* Days of two hours and a warning one day ahead, as the engine dials; checks
\* of the same site with a timeout of two seconds and one redirect.
SPECIFICATION FairHealthSpec
CONSTANTS
  Targets = {"invalid", "https"}
  InsecureSkipVerify = FALSE
  DayHours = 2
  WarningDays = 1
  Lifetimes = {3}
  MaxTime = 4
  Schemes = {"https", "tcp"}
  Timeout = 2
  MaxRedirects = 1
INVARIANTS
  TypeOK
  VerdictIsRight
  CheckIsBounded
PROPERTIES
  CheckEnds
