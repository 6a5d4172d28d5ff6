CONSTANTS
  sonarcloud = sonarcloud
  wiz = wiz
  sonarcloud_trivy = sonarcloud_trivy
  s1 = s1
  w1 = w1
  c1 = c1
  a1 = a1
  t1 = t1
  NoTeam = NoTeam
  Never = Never
  Pollers <- MCPollers
  Sources <- MCSources
  Group <- MCGroup
  Natives <- MCNatives
  PollerOf <- MCPollerOf
  LegacySource <- MCLegacySource
  Contents = {c1}
  Assets = {a1}
  Teams = {t1}
  Stamps <- MCStamps
  OwnerMaps <- MCOwnerMaps
  Thresholds <- MCThresholds
  MaxAttempts = 2
  MaxPolls = 3

SPECIFICATION Spec

INVARIANT TypeOK
INVARIANT TrailExplainsStatus
INVARIANT NoOrphanEvents
INVARIANT ReconciliationPreventsCollision
PROPERTY TrailIsKept
PROPERTY PollSettles
PROPERTY ImplementsLifecycle

CHECK_DEADLOCK FALSE
