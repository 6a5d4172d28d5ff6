------------------------------ MODULE Ratings ------------------------------
(***************************************************************************)
(* The grades of /metrics/security-posture: the ladder of a source's card  *)
(* and the score of the headline.  Grades are ranked from A = 0 to D = 3.  *)
(* pct is the SLA compliance in tenths of a percent; repaired says whether *)
(* the last 30 days have closures and days is the median of their days, a  *)
(* day that has begun counting as a day.                                   *)
(***************************************************************************)
EXTENDS Integers

SourceGrade(src, criticals, highs, mediums) ==
  IF src = "pentest"
  THEN IF criticals = 0 /\ highs = 0
       THEN IF mediums = 0 THEN 0 ELSE IF mediums <= 2 THEN 1 ELSE 2
       ELSE IF criticals >= 2 \/ highs >= 3 THEN 3 ELSE 2
  ELSE IF criticals = 0 /\ highs = 0 THEN 0
       ELSE IF criticals <= 2 /\ highs <= 10 THEN 1
       ELSE IF criticals <= 10 /\ highs <= 30 THEN 2 ELSE 3

AtLeastZero(n) == IF n < 0 THEN 0 ELSE n

RepairScore(repaired, days) ==
  IF ~repaired THEN 10
  ELSE IF days <= 7 THEN 15
  ELSE IF days <= 14 THEN 11 ELSE IF days <= 30 THEN 7 ELSE 3

\* The share of the open findings that are within their SLA, rounded to a tenth
\* of a percent; in the middle between two tenths the floats decide.
IsCompliance(pct, breached, open) ==
  IF open = 0 THEN pct = 1000
  ELSE /\ pct \in 0..1000
       /\ 2 * (1000 * (open - breached) - pct * open) <= open
       /\ 2 * (pct * open - 1000 * (open - breached)) <= open

\* round(pct * 0.35): to the nearest, and of the five ties 3.5 and 17.5 go up,
\* 10.5 and 24.5 down to the even neighbour; 90 * 0.35 is less than 31.5.
RoundedDown == {300, 700, 900}
SlaScore(pct) ==
  (pct * 35 + (IF pct \in RoundedDown THEN 499 ELSE 500)) \div 1000

Score(criticals, highs, pct, repaired, days) ==
  AtLeastZero(35 - criticals * 7) + SlaScore(pct)
    + RepairScore(repaired, days) + AtLeastZero(15 - highs)

Grade(score) ==
  IF score >= 85 THEN 0 ELSE IF score >= 65 THEN 1 ELSE IF score >= 45 THEN 2 ELSE 3
=============================================================================
