------------------------------ MODULE Registry ------------------------------
(***************************************************************************)
(* ownership.yaml, component_registry.yaml and wiz_service_team_map.yaml   *)
(* as the program reads them, and what it derives from them: the owner of  *)
(* a finding, the teams and assets a request is narrowed to, and the teams *)
(* of each tab.  The module has no variables: the files are arguments.     *)
(*                                                                         *)
(* An asset id is a tuple that starts with its namespace: <<"repo", org,   *)
(* name>>, <<"sonarproj", key>>, <<"wizservice", slug>>, <<"cloudres", x>>.*)
(* That look-ups ignore case is left out.                                  *)
(***************************************************************************)
EXTENDS Integers, FiniteSets

CONSTANTS
  None,          \* Python's None
  PlatformNamed, \* the teams with the word "platform" in their name
  Conventional,  \* Conventional[p]: the name "<p>-platform" of pillar p
  GithubOrg      \* settings.github_org

Unowned == "unowned"
Excluded == "excluded"
ThreatIntel == "threat-intel"

-----------------------------------------------------------------------------
(***************************************************************************)
(* An OwnershipMap: team is asset_to_team, sonar is sonar_key_to_asset_id, *)
(* excluded the excluded repositories and jira the Jira project of every   *)
(* team the file defines.                                                  *)
(***************************************************************************)
Lookup(f, x, default) == IF x \in DOMAIN f THEN f[x] ELSE default

TeamForAsset(own, asset) ==
  IF asset[1] = "repo" /\ asset[3] \in own.excluded
  THEN Excluded ELSE Lookup(own.team, asset, Unowned)

RepoMatches(own, name) ==
  {a \in DOMAIN own.team : a[1] = "repo" /\ a[3] = name}

\* The one repository of that name ownership.yaml lists, or the configured
\* organisation's.
RepoAsset(own, name) ==
  LET matches == RepoMatches(own, name)
  IN  IF Cardinality(matches) = 1 THEN CHOOSE a \in matches : TRUE
                                  ELSE <<"repo", GithubOrg, name>>

-----------------------------------------------------------------------------
(***************************************************************************)
(* A ComponentRegistry: a set of components and the team keys of every     *)
(* executive pillar, with wiz_service_team_map.yaml as supplement.  Of a   *)
(* component's teams, lead is the first.                                   *)
(***************************************************************************)
TeamsForPillar(reg, p) == Lookup(reg.pillars, p, {})

ServicesOf(reg, app) == {c \in reg.components : c.app = app}
TeamsForApplication(reg, app) == UNION {c.teams : c \in ServicesOf(reg, app)}

\* repo_asset_ids_for_application
AssetsOf(own, c) ==
  (IF c.repo = None THEN {} ELSE {RepoAsset(own, c.repo)})
    \cup {own.sonar[k] : k \in c.sonar \cap DOMAIN own.sonar}
    \cup {a \in {<<"sonarproj", k>> : k \in c.sonar} : a \in DOMAIN own.team}
AssetsForApplication(reg, own, app) ==
  UNION {AssetsOf(own, c) : c \in ServicesOf(reg, app)}

WithWiz(reg) == {c \in reg.components : c.wiz # None}

WizServiceToTeam(reg) ==
  [s \in {c.wiz : c \in WithWiz(reg)} \cup DOMAIN reg.supplement |->
     IF \E c \in WithWiz(reg) : c.wiz = s
     THEN (CHOOSE c \in WithWiz(reg) : c.wiz = s).lead
     ELSE reg.supplement[s]]

SupplementTeams(reg) == {reg.supplement[s] : s \in DOMAIN reg.supplement}

WizTeamsForPillar(reg, p) ==
  (UNION {c.teams : c \in {x \in WithWiz(reg) : x.pillar = p}})
    \cup (SupplementTeams(reg) \cap TeamsForPillar(reg, p))

DeveloperScope(reg) ==
  UNION {c.teams : c \in {x \in reg.components : "developer" \in x.views}}

\* platform_code_team_for_pillar
CodeTeam(reg, p) ==
  LET teams == TeamsForPillar(reg, p)
      named == teams \cap PlatformNamed
  IN  IF p = ThreatIntel THEN None
      ELSE IF Conventional[p] \in teams THEN Conventional[p]
      ELSE IF Cardinality(named) = 1 THEN CHOOSE t \in named : TRUE ELSE None

-----------------------------------------------------------------------------
(***************************************************************************)
(* resolve_finding_owner_team; pillar is the row's platform_pillar tag.    *)
(***************************************************************************)
\* owner_team_for_wiz_platform_tags
CloudOwner(reg, pillar) == IF pillar = None THEN None ELSE CodeTeam(reg, pillar)

OwnerOf(reg, own, src, asset, pillar) ==
  CASE src = "wiz" /\ asset[1] = "wizservice" ->
         Lookup(WizServiceToTeam(reg), asset[2], Unowned)
    [] src = "wiz" /\ asset[1] = "cloudres" ->
         IF CloudOwner(reg, pillar) = None THEN Unowned ELSE CloudOwner(reg, pillar)
    [] OTHER -> TeamForAsset(own, asset)

-----------------------------------------------------------------------------
(***************************************************************************)
(* resolve_scope.  A request names teams, and may name an executive        *)
(* pillar, a Jira project, an application, a service (a component's key)   *)
(* and a repository; the teams they stand for add up.  An ambiguous        *)
(* repository is an error, and one the file does not list an asset without *)
(* an organisation.                                                        *)
(***************************************************************************)
FilterAsset(own, name) ==
  LET matches == RepoMatches(own, name)
  IN  IF matches = {} THEN <<"repo", None, name>> ELSE CHOOSE a \in matches : TRUE

Services(reg, key) == {c \in reg.components : c.key = key}

Refused(reg, own, req) ==
  \E name \in {req.repo} \cup {c.repo : c \in Services(reg, req.service)} :
    name # None /\ Cardinality(RepoMatches(own, name)) > 1

ScopeTeams(reg, own, req) ==
  req.teams
    \cup (IF req.exec = None THEN {} ELSE TeamsForPillar(reg, req.exec))
    \cup (IF req.jira = None THEN {}
          ELSE {t \in DOMAIN own.jira : own.jira[t] = req.jira})
    \cup (IF req.app = None THEN {} ELSE TeamsForApplication(reg, req.app))
    \cup (UNION {c.teams : c \in Services(reg, req.service)})

ScopeAssets(reg, own, req) ==
  (IF req.app = None THEN {} ELSE AssetsForApplication(reg, own, req.app))
    \cup {FilterAsset(own, c.repo) :
            c \in {x \in Services(reg, req.service) : x.repo # None}}
    \cup (UNION {{<<"sonarproj", k>> : k \in c.sonar} :
                   c \in Services(reg, req.service)})
    \cup (IF req.repo = None THEN {} ELSE {FilterAsset(own, req.repo)})
=============================================================================
