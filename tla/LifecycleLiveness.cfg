\* Two requests at a time, fair scheduling; the database and Redis refuse now
\* and then, and the process crashes once.
SPECIFICATION FairSpec
CONSTANTS
  h1 = h1
  Hosts = {h1}
  Clients = {c1, c2}
  Workers = {w1}
  Capacity = 1
  Posts <- HttpsPosts
  Deletes <- BareDeletes
  Retention = TRUE
  Faults = {"db", "redis", "crash"}
  MaxRequests = 4
  MaxCrashes = 1
INVARIANTS
  TypeOK
PROPERTIES
  MonitoredIsSeen
  DeletedFallsSilent
  SilentStaysSilent
  DeletedIsForgotten
