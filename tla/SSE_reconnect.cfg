\* A browser reconnects when the table has been used up.
\* Nobody has to connect or to broadcast: the system may rest.
SPECIFICATION Spec
CONSTANTS
  Connections = {c1, c2}
  Broadcasts = {b1}
  MaxClients = 1
  PipeCapacity = 1
  None = None
CHECK_DEADLOCK FALSE
INVARIANTS
  ReconnectAllowed
SYMMETRY ConnSymmetry
