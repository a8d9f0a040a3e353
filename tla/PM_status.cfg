\* A slot is reused between Release and the last broadcast.
SPECIFICATION Spec
CONSTANTS
  Requests = {r1, r2}
  Hosts = {h1, h2}
  ValidAliases = {h1, h2}
  MaxTunnels = 2
  ProbeMaxChecks = 1
  SerialStarts = TRUE
  ResourcesFail = FALSE
  None = None

INVARIANTS
  EndIsReported
