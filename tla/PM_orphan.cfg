\* Two start calls overlap, then the application exits.
SPECIFICATION Spec
CONSTANTS
  Requests = {r1, r2}
  Hosts = {h1, h2}
  ValidAliases = {h1, h2}
  MaxTunnels = 2
  ProbeMaxChecks = 1
  SerialStarts = FALSE
  ResourcesFail = FALSE
  None = None

INVARIANTS
  NoneSurvives
