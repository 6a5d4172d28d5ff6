---------------------------- MODULE MCOwnership ----------------------------
(* SonarCloud findings of one project, and pentest findings if any.  The    *)
(* edits of ownership.yaml move the project to another asset id, or its     *)
(* asset to another team.                                                   *)
EXTENDS Ownership

MCAssets == {"repo", "sonarproj", "jira"}
MCTeams == {"order", "unowned"}
MCStamp == [f \in Stamped |-> "order"]

ConfigWith(asset, repo, sonarproj) ==
  [asset |-> [f \in Findings |-> IF f \in Stamped THEN "jira" ELSE asset],
   team |-> [a \in MCAssets |-> CASE a = "repo" -> repo
                                  [] a = "sonarproj" -> sonarproj
                                  [] OTHER -> "unowned"]]

MCConfigs == {ConfigWith("repo", "order", "unowned"),
              ConfigWith("sonarproj", "unowned", "order")}
=============================================================================
