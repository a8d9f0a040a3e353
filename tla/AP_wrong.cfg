\* A delivery is delayed until its slot has a new owner.
SPECIFICATION Spec
CONSTANTS
  Askers = {a1, a2}
  Deliveries = {d1}
  MaxRequests = 1
  None = None
  Empty = Empty
INVARIANTS
  OnlyOwnPassword
SYMMETRY AskSymmetry
