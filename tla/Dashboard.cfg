CONSTANTS
  None = None
  f1 = f1
  f2 = f2
  Findings = {f1, f2}
  PlatformNamed <- MCPlatformNamed
  Conventional <- MCConventional
  GithubOrg = "org"
  Profiles <- MCProfiles
  Reg <- MCReg
  Files <- MCFiles
  LastInstant = 3
  AdminOnly = {"sonarcloud_trivy"}
  IssuesOnlyTeams = {"product-platform", "platform-retail"}
  Window <- MCWindow
  Week = 1
  Month = 2
  Requests <- MCRequests

SPECIFICATION Spec

INVARIANT TypeOK
INVARIANT SectionsAlign
INVARIANT CardsAddUp
INVARIANT HeadlineDrillsDown
INVARIANT MomentumExplainsDelta
INVARIANT NothingHidden
INVARIANT AdminOnlyStaysHidden
