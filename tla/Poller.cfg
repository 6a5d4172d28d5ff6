SPECIFICATION Spec
CONSTANTS
  Issues = {1, 2, 3}
  QueryOf <- MCQueryOf
  QueryCount = 2
  Pollers = {"sonarcloud", "wiz"}
  PageSize = 1
  HardPageCap = 2
  Threshold = 2
  Slots = {s1, s2}
  MaxChanges = 2
  MaxFaults = 1
INVARIANT TypeOK
INVARIANT OmissionsExplained
INVARIANT OneBadPollIsTolerated
PROPERTY Converges
