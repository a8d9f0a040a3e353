\* Start calls one after the other, more hosts than slots, slots reused and hosts
\* restarted; pipe, fork, malloc and pthread_create may fail.
SPECIFICATION Spec
CONSTANTS
  Requests = {r1, r2, r3}
  Hosts = {h1, h2, h3}
  ValidAliases = {h1, h2, h3}
  MaxTunnels = 2
  ProbeMaxChecks = 1
  SerialStarts = TRUE
  ResourcesFail = TRUE
  None = None
SYMMETRY Symmetry
INVARIANTS
  TypeOK
  OneChildPerHost
  NoOrphan
  MonitorOwnsEntry
  NoneSurvives
PROPERTIES
  ActiveIsAlive
