CONSTANTS
  Findings = {sonar}
  Stamped = {}
  Assets <- MCAssets
  Teams <- MCTeams
  Stamp <- MCStamp
  Configs <- MCConfigs
  Workers = {w1, w2}

SPECIFICATION OwnersSpec

PROPERTY RunsRepair
PROPERTY OwnersConverge

CHECK_DEADLOCK FALSE
