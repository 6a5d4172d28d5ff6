CONSTANTS
  Findings = {f1, f2}
  Polls = {p1, p2}
  Workers = {w1, w2}
  Thresholds = {1, 2}
  MaxAttempts = 2
  NoPoll = NoPoll

SPECIFICATION Spec

INVARIANT TypeOK
INVARIANT MissesAreAbsences
PROPERTY AppliedOnce
PROPERTY AloneIsSerial
PROPERTY TransactionsEnd

CHECK_DEADLOCK FALSE
