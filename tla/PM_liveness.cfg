\* Fairness, no failing resource.
SPECIFICATION FairSpec
CONSTANTS
  Requests = {r1, r2}
  Hosts = {h1, h2, bad}
  ValidAliases = {h1, h2}
  MaxTunnels = 2
  ProbeMaxChecks = 1
  SerialStarts = TRUE
  ResourcesFail = FALSE
  None = None

PROPERTIES
  TunnelEnds
  ImplementsRegistry
