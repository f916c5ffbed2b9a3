\* Two sites and one panel; two events, each a click, a failed request or a
\* change by others; every answer may be late.
SPECIFICATION FairSpec
CONSTANTS
  Sites = {s1, s2}
  NoSite = NoSite
  Panels = {"ssl"}
  Connections = {k1, k2}
  Free = Free
  MaxEvents = 2
INVARIANTS
  TypeOK
PROPERTIES
  PageConverges
  TruthStays
