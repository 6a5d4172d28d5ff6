CONSTANTS
  Polls = {p1, p2}
  Undecodable = {p2}
  MaxIds = 4
  MaxPolls = 1
  Instances = {i1, i2}
  Admins = {a1, a2}
  Nobody = Nobody
  MaxAttempts = 2
  MaxFaults = 3

SPECIFICATION Spec

INVARIANT TypeOK
INVARIANT ToldOnceOrForAReason
INVARIANT RepeatsCostFailures
PROPERTY ResolutionStays
PROPERTY Settles
CHECK_DEADLOCK FALSE
