\* A setup and two saves that overlap.
SPECIFICATION Spec
CONSTANTS
  Calls = {c1, c2, c3}
  Names = {n1, n2}
  CloudValues = {v1}
  LocalValues = {w1}
  Passwords = {p1}
  LongPassword = None
  ItsStart = p1
  Kept <- MCKept
  Buckets = {b1}
  SerialCalls = FALSE
  None = None
INVARIANTS
  BothSaved
