------------------------------ MODULE MCIngest ------------------------------
(* Ingest with two pollers: SonarCloud, which produces two sources and may  *)
(* have legacy Trivy rows, and Wiz.                                         *)
EXTENDS Ingest

CONSTANTS sonarcloud, wiz, sonarcloud_trivy, s1, w1, c1, a1, t1

MCPollers == {sonarcloud, wiz}
MCSources == {sonarcloud, sonarcloud_trivy, wiz}
MCGroup == [p \in MCPollers |->
              IF p = sonarcloud THEN {sonarcloud, sonarcloud_trivy} ELSE {wiz}]
MCNatives == {s1, w1}
MCPollerOf == [n \in MCNatives |-> IF n = s1 THEN sonarcloud ELSE wiz]
MCLegacySource == [n \in {s1} |-> sonarcloud_trivy]
MCStamps == [p \in MCPollers |-> {NoTeam}]
MCOwnerMaps == {[a \in {a1} |-> t1]}
MCThresholds == [p \in MCPollers |-> IF p = sonarcloud THEN {2} ELSE {1, Never}]
=============================================================================
