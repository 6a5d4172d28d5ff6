-------------------------- MODULE FindingLifecycle --------------------------
(***************************************************************************)
(* What ingest promises, without tables, messages or retries.  Each poll   *)
(* is taken at most once, whole, and against one poller's findings only.   *)
(* A finding the poll reports is open.  An open finding it does not report *)
(* is closed as soon as the polls taken since the last one that reported   *)
(* it number at least the threshold; nothing else closes a finding, and    *)
(* only a report opens one.                                                *)
(***************************************************************************)
EXTENDS Integers

CONSTANTS
  Findings,    \* identities of findings
  Reporters,   \* pollers
  ReporterOf,  \* ReporterOf[f]: the poller that reports f
  Polls,       \* identities of polls
  Thresholds,  \* Thresholds[p]: the thresholds a poll of p may be judged by
  Unlimited    \* the threshold of a poller whose findings never auto-close

VARIABLES
  taken,       \* polls already applied
  turn,        \* turn[p]: how many of them were p's
  standing,    \* standing[f]: "none", "open" or "auto_closed"
  seen         \* seen[f]: the turn that last reported f, 0 unless it is open

lifecycleVars == <<taken, turn, standing, seen>>

\* Findings present before the first poll were last reported at turn 0.
Init ==
  /\ taken = {}
  /\ turn = [p \in Reporters |-> 0]
  /\ standing \in [Findings -> {"none", "open"}]
  /\ seen = [f \in Findings |-> 0]

OfReporter(p) == {f \in Findings : ReporterOf[f] = p}

Overdue(f, now, t) ==
  standing[f] = "open" /\ t # Unlimited /\ now - seen[f] >= t

\* The poll taken at turn `now` of p reports S, and is judged by threshold t.
\* R are duplicates of findings in S, which it retires.
Judge(p, now, S, R, t) ==
  LET closed == {f \in OfReporter(p) : f \notin S \cup R /\ Overdue(f, now, t)}
  IN  /\ standing' = [f \in Findings |->
           IF f \in S THEN "open"
           ELSE IF f \in R THEN "none"
           ELSE IF f \in closed THEN "auto_closed"
           ELSE standing[f]]
      /\ seen' = [f \in Findings |->
           IF f \in S THEN now
           ELSE IF f \in R \cup closed THEN 0
           ELSE seen[f]]

\* Poll i, which is p's, is taken.
Take(i, p) ==
  /\ i \notin taken
  /\ taken' = taken \cup {i}
  /\ turn' = [turn EXCEPT ![p] = @ + 1]
  /\ \E S, R \in SUBSET OfReporter(p), t \in Thresholds[p] :
       R \cap S = {} /\ Judge(p, turn[p] + 1, S, R, t)

Next == \E i \in Polls, p \in Reporters : Take(i, p)

Spec == Init /\ [][Next]_lifecycleVars
=============================================================================
