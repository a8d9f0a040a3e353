\* One connection from its arrival to its end, with the proxy set up, stopped and
\* freed around it.
SPECIFICATION FairSpec
CONSTANTS
  Conns = {c1}
  Names = {"a", "b"}
  Hosts <- MCHosts
  MaxVhosts = 2
  Budget <- MCBudget
  Room = 1
  None = None
INVARIANTS
  TypeOK
  OwnBackend
  DescriptorsClosed
  NothingDropped
  FreedUse
PROPERTIES
  QuitEnds
  
CHECK_DEADLOCK FALSE
