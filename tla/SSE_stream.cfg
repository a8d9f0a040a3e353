\* Fairness; two slots, pipes of one event; browsers may leave or stop reading.
\* Nobody has to connect or to broadcast: the system may rest.
SPECIFICATION FairSpec
CONSTANTS
  Connections = {c1, c2, c3}
  Broadcasts = {b1, b2}
  MaxClients = 2
  PipeCapacity = 1
  None = None
CHECK_DEADLOCK FALSE
INVARIANTS
  TypeOK
  OwnClient
  InOrder
PROPERTIES
  BroadcastEnds
  EventArrives
