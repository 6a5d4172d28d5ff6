---------------------------- MODULE MCDashboard ----------------------------
(* Two pillars.  Product has its conventional code team and a team with a   *)
(* repository and a Wiz service, retail a code team named differently and   *)
(* a Wiz service of the supplement.  One finding may be of any kind, the    *)
(* other is a critical of SonarCloud.                                       *)
EXTENDS Queries, Sequences

CONSTANTS f1, f2

MCPlatformNamed == {"product-platform", "platform-retail"}
MCConventional == [p \in {"product", "retail", "io"} |-> p \o "-platform"]

Component(key, app, team, views, pillar, repo, wiz) ==
  [key |-> key, app |-> app, teams |-> {team}, lead |-> team, views |-> views,
   pillar |-> pillar, repo |-> repo, sonar |-> {}, wiz |-> wiz]
MCReg ==
  [components |-> {Component("order-api", "commerce", "order", {"developer"},
                             "product", "order", "orders"),
                   Component("gateway", "commerce", "product-platform", {"platform"},
                             "product", None, None)},
   pillars |-> [p \in {"product", "retail"} |->
                  IF p = "product" THEN {"order", "product-platform"}
                                   ELSE {"retail", "platform-retail"}],
   supplement |-> [s \in {"shops"} |-> "retail"]]

Repo == <<"repo", "org", "order">>
OwnedBy(team) == [team |-> [a \in {Repo} |-> team], sonar |-> [k \in {} |-> k],
                  excluded |-> {}, jira |-> [t \in {"order"} |-> "ORD"]]

Pillar(default) == [s \in {"aws-1", "aws-2", None} |->
                      CASE s = "aws-1" -> "product" [] s = "aws-2" -> "io" [] OTHER -> default]
MCFiles ==
  {[own |-> OwnedBy("order"), subs |-> Pillar(None)],
   [own |-> [OwnedBy("order") EXCEPT !.team = [a \in {} |-> a]],
    subs |-> Pillar("retail")]}

Kind(src, asset, cat, sub, sev) ==
  [src |-> src, asset |-> asset, cat |-> cat, sub |-> sub, sev |-> sev, stamp |-> None]
Cloud == <<"cloudres", "vm">>
SonarCritical == Kind("sonarcloud", Repo, None, None, "critical")
MCProfiles ==
  [f \in {f1, f2} |->
     IF f = f2 THEN {SonarCritical} ELSE
       {Kind("sonarcloud_trivy", Repo, None, None, "high"),
        [Kind("pentest", <<"jira", "ORD">>, None, None, "high") EXCEPT !.stamp = "order"],
        Kind("wiz", Cloud, "issue", "aws-1", "critical"),
        Kind("wiz", Cloud, "cloud_config", "aws-2", "high"),
        Kind("wiz", <<"wizservice", "orders">>, "vulnerability", "aws-1", "critical"),
        Kind("wiz", <<"wizservice", "shops">>, "cloud_config", None, "high"),
        Kind("wiz", <<"wizservice", "threat-center">>, "threat_center", None, "high")}]

MCWindow == [s \in Severities |-> CASE s = "critical" -> 1 [] s = "high" -> 2 [] OTHER -> None]

MCRequests ==
  {NoQuery,
   [NoQuery EXCEPT !.teams = {"order", "product-platform"}, !.issues = TRUE],
   [NoQuery EXCEPT !.exec = "product"],
   [NoQuery EXCEPT !.app = "commerce"],
   [NoQuery EXCEPT !.service = "order-api"],
   [NoQuery EXCEPT !.jira = "ORD"],
   [NoQuery EXCEPT !.sources = {"sonarcloud", "sonarcloud_trivy"}],
   [NoQuery EXCEPT !.teams = {Unowned}],
   [NoQuery EXCEPT !.tab = ThreatIntel],
   [NoQuery EXCEPT !.tab = "retail"],
   [NoQuery EXCEPT !.tab = "product", !.issues = TRUE],
   [NoQuery EXCEPT !.tab = "product", !.sources = {"wiz", "sonarcloud"}]}
=============================================================================
