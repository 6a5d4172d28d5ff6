--------------------------- MODULE MCConfiguration ---------------------------
(* A component whose Sonar project moves from one team to another, with its *)
(* registry entry; the third revision moves the project only, and does not  *)
(* pass.                                                                    *)
EXTENDS Configuration, TLC
Sym == Permutations(Instances)

MCConventional == [p \in {"product"} |-> "product-platform"]

Project == <<"sonarproj", "orders">>
Owned(team) == [team |-> [a \in {Project} |-> team], sonar |-> [k \in {} |-> k],
                excluded |-> {}, jira |-> [t \in {"order", "retail"} |-> "ORD"]]
Service(team) ==
  [components |-> {[key |-> "order-api", app |-> "commerce", teams |-> {team},
                    lead |-> team, views |-> {"developer"}, pillar |-> "product",
                    repo |-> None, sonar |-> {"orders"}, wiz |-> None]},
   pillars |-> [p \in {"product"} |-> {"order", "retail"}],
   supplement |-> [s \in {} |-> s]]

MCContents ==
  [r \in 0..2 |->
     CASE r = 0 -> [ownership |-> Owned("order"), registry |-> Service("order")]
       [] r = 1 -> [ownership |-> Owned("retail"), registry |-> Service("retail")]
       [] r = 2 -> [ownership |-> Owned("order"), registry |-> Service("retail")]]
=============================================================================
