CONSTANTS
  Findings = {f1, f2}
  Polls = {p1, p2}
  Workers = {w1, w2}
  Thresholds = {2}
  MaxAttempts = 1
  NoPoll = NoPoll

SPECIFICATION Spec

PROPERTY ReportLeavesOpen

CHECK_DEADLOCK FALSE
