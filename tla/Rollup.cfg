CONSTANTS
  Findings = {f1}
  Teams = {order, retail}
  Slots = 3
  Window = 2
  LastDay = 2

SPECIFICATION Spec

INVARIANT ReplayIsHistory
PROPERTY TrendIsHistory

CHECK_DEADLOCK FALSE
