\* Fairness; more askers than slots, as many deliveries, delayed at will.
SPECIFICATION FairSpec
CONSTANTS
  Askers = {a1, a2, a3}
  Deliveries = {d1, d2}
  MaxRequests = 1
  None = None
  Empty = Empty
INVARIANTS
  TypeOK
  OneOwner
  OwnPassword
  DeliveredIsReceived
  NoPasswordLeft
PROPERTIES
  EveryAskAnswered
  InTimeIsReceived
