CONSTANTS
  Users = {u1}
  Tokens = {t1, t2, t3}
  Requests = {r1, r2}
  None = None
  MaxActive = 1
  LastInstant = 1
  Expiries = {None, 0}
  MaxFaults = 1

SPECIFICATION Spec

INVARIANT TypeOK
INVARIANT AcceptedWasValid
INVARIANT CapIsNearlyKept
PROPERTY RevocationIsFinal
