\* Calls one after the other, restarts at any moment; the disk, the network and
\* the memory fail at will, noticed or not, answers are lost.
SPECIFICATION Spec
CONSTANTS
  Calls = {c1, c2, c3, c4}
  Names = {n1}
  CloudValues = {v1, v2}
  LocalValues = {w1}
  Passwords = {p1, p2, long}
  LongPassword = long
  ItsStart = p1
  Kept <- MCKept
  Buckets = {b1, b2}
  SerialCalls = TRUE
  None = None
INVARIANTS
  TypeOK
  StoreAgrees
  PasswordOpens
  R2FileAgrees
  NotMixed
  LockReleased
PROPERTIES
  OkIsStored
VIEW SerialView
