------------------------------- MODULE Rollup -------------------------------
(***************************************************************************)
(* daily_metrics: the counts the trend charts read, which a nightly job    *)
(* computes from the findings and their open-and-close events.             *)
(*                                                                         *)
(* Time is counted in instants, Slots of them to a day.  The end of a day  *)
(* is 23:59:59: the last instant of a day comes after it.  The source and  *)
(* the severity of a bucket's key are left out: a finding moves between    *)
(* teams as it does between severities.  So are the breach count and the   *)
(* median age; the anchor both are computed from is kept.                  *)
(***************************************************************************)
EXTENDS Integers, FiniteSets
LOCAL INSTANCE FiniteSetsExt

CONSTANTS
  Findings,
  Teams,
  Slots,         \* instants of a day
  Window,        \* days of a backfill (30)
  LastDay        \* bound: the last day of a behaviour

ASSUME RollupAssumption ==
  /\ Slots \in Nat /\ Slots >= 2
  /\ Window \in Nat \ {0} /\ LastDay \in Nat
  /\ IsFiniteSet(Findings)

VARIABLES
  now,           \* the current instant
  rows,          \* findings: team, status, and created, the SLA anchor
                 \* coalesce(upstream_created_at, first_seen_at)
  trail,         \* trail[f]: the open-and-close events of f
  metrics,       \* table daily_metrics: a function from <<day, team>>
  job,           \* the nightly job
  was            \* was[d]: the findings open when day d ended (auxiliary)

vars == <<now, rows, trail, metrics, job, was>>

Days == 0..LastDay
Instants == 0..(Slots * (LastDay + 1) - 1)
DayOf(t) == t \div Slots
StartOfDay(d) == Slots * d

EndOfDay(d) == Slots * d + Slots - 2

Resting == [stage |-> "idle", moved |-> {}]

Init ==
  /\ now = 0
  /\ rows = [f \in {} |-> 0]
  /\ trail = [f \in Findings |-> {}]
  /\ metrics = [k \in {} |-> 0]
  /\ job = Resting
  /\ was = [d \in {} |-> {}]

-----------------------------------------------------------------------------
(***************************************************************************)
(* Ingest, as far as the rollup sees it.                                   *)
(***************************************************************************)
Quiet(f) == \A e \in trail[f] : e.at < now
Emit(f, type) == trail' = [trail EXCEPT ![f] = @ \cup {[at |-> now, type |-> type]}]

\* A finding is discovered; upstream created it now or earlier.
Discover(f) ==
  /\ f \notin DOMAIN rows
  /\ \E team \in Teams, t \in 0..now :
       rows' = [g \in DOMAIN rows \cup {f} |->
                  IF g = f THEN [team |-> team, status |-> "open", created |-> t]
                           ELSE rows[g]]
  /\ Emit(f, "discovered")
  /\ UNCHANGED <<now, metrics, job, was>>

Close(f) ==
  /\ f \in DOMAIN rows /\ rows[f].status = "open" /\ Quiet(f)
  /\ rows' = [rows EXCEPT ![f].status = "auto_closed"]
  /\ Emit(f, "auto_closed")
  /\ UNCHANGED <<now, metrics, job, was>>

Reopen(f) ==
  /\ f \in DOMAIN rows /\ rows[f].status = "auto_closed" /\ Quiet(f)
  /\ rows' = [rows EXCEPT ![f].status = "open"]
  /\ Emit(f, "reopened")
  /\ UNCHANGED <<now, metrics, job, was>>

\* A snapshot finds another team in the instance's ownership map.
Restamp(f, team) ==
  /\ f \in DOMAIN rows /\ rows[f].team # team
  /\ rows' = [rows EXCEPT ![f].team = team]
  /\ UNCHANGED <<now, trail, metrics, job, was>>

OpenNow == {f \in DOMAIN rows : rows[f].status = "open"}

Tick ==
  /\ now + 1 \in Instants
  /\ now' = now + 1
  /\ was' = IF now = EndOfDay(DayOf(now))
            THEN [d \in DOMAIN was \cup {DayOf(now)} |->
                    IF d = DayOf(now) THEN OpenNow ELSE was[d]]
            ELSE was
  /\ UNCHANGED <<rows, trail, metrics, job>>

-----------------------------------------------------------------------------
(***************************************************************************)
(* The replay: what was open at an instant, and since when.                *)
(***************************************************************************)
\* Mutant: auto_closed is not among the closing events.
ClosingFixedOnly == {"fixed", "suppressed"}
Closing == {"fixed", "auto_closed", "suppressed"}

\* The latest event of f at or before instant t, if there is one.
Latest(f, t) ==
  {e \in trail[f] : e.at <= t /\ \A x \in trail[f] : x.at <= t => x.at <= e.at}

OpenAt(f, t) ==
  /\ rows[f].created <= t
  /\ \A e \in Latest(f, t) : e.type \notin Closing

During(d, t) == StartOfDay(d) <= t /\ t <= EndOfDay(d)

\* The bucket of a day and a team.
Compute(d, team) ==
  LET mine == {f \in DOMAIN rows : rows[f].team = team}
  IN  [open |-> Cardinality({f \in mine : OpenAt(f, EndOfDay(d))}),
       new |-> Cardinality({f \in mine : During(d, rows[f].created)}),
       fixed |-> Cardinality({x \in UNION {{f} \X trail[f] : f \in mine} :
                                x[2].type \in Closing /\ During(d, x[2].at)})]

Nothing == [open |-> 0, new |-> 0, fixed |-> 0]

\* compute_rollup makes the buckets that are not empty, and upsert_rollup
\* writes them over those that are there.
Upserted(table, dates) ==
  LET keys == {k \in dates \X Teams : Compute(k[1], k[2]) # Nothing}
  IN  [k \in DOMAIN table \cup keys |->
         IF k \in keys THEN Compute(k[1], k[2]) ELSE table[k]]

-----------------------------------------------------------------------------
Yesterday == DayOf(now) - 1
Backfill == {d \in Days : Yesterday - Window < d /\ d <= Yesterday}

\* Mutant: ownership changes or not, only yesterday is rolled up.
OnlyYesterday(moved) == {Yesterday}

\* The days main() rolls up after its ownership pre-step.
DatesAfter(moved) == IF moved # {} THEN Backfill ELSE {Yesterday}

\* The job starts with core_reresolve, which moves the findings whose asset
\* ownership.yaml now gives another team, and commits.
Resolve(moved) ==
  /\ job.stage = "idle" /\ Yesterday >= 0
  /\ \E to \in [moved -> Teams] :
       /\ \A f \in moved : to[f] # rows[f].team
       /\ rows' = [f \in DOMAIN rows |->
                     IF f \in moved THEN [rows[f] EXCEPT !.team = to[f]] ELSE rows[f]]
  /\ job' = [stage |-> "resolved", moved |-> moved]
  /\ UNCHANGED <<now, trail, metrics, was>>

\* It rolls its days up in one transaction.
RollUp ==
  /\ job.stage = "resolved"
  /\ metrics' = Upserted(metrics, DatesAfter(job.moved))
  /\ job' = Resting
  /\ UNCHANGED <<now, rows, trail, was>>

\* The job dies between the two transactions.
Die ==
  /\ job.stage = "resolved"
  /\ job' = Resting
  /\ UNCHANGED <<now, rows, trail, metrics, was>>

Next ==
  \/ Tick
  \/ \E f \in Findings : Discover(f)
  \/ \E f \in Findings : Close(f)
  \/ \E f \in Findings : Reopen(f)
  \/ \E f \in Findings, team \in Teams : Restamp(f, team)
  \/ \E moved \in SUBSET DOMAIN rows : Resolve(moved)
  \/ RollUp
  \/ Die

Spec == Init /\ [][Next]_vars

-----------------------------------------------------------------------------
\* "The same 'what was open?' question as the KPI strip": replaying the events
\* up to the end of a past day tells which of the findings known by then were
\* open, however often they have been closed and reopened since, and replaying
\* them all which are open now.
ReplayIsHistory ==
  \A f \in DOMAIN rows :
    /\ (rows[f].status = "open") = OpenAt(f, now)
    /\ \A d \in DOMAIN was :
         (\E e \in trail[f] : e.type = "discovered" /\ e.at <= EndOfDay(d))
           => (OpenAt(f, EndOfDay(d)) <=> f \in was[d])

\* The trend tells the history: once a nightly run has rolled up, each of its
\* days (the whole window when its pre-step moved findings, else yesterday)
\* counts under every team, as the findings are owned now, those that were
\* open when that day ended; of a finding first seen only later, the day it
\* was created upstream decides.  A team with none of these is left out: its
\* bucket may be an old one.
Known(f, d) == \E e \in trail[f] : e.type = "discovered" /\ e.at <= EndOfDay(d)
ThenOpen(team, d) ==
  {f \in DOMAIN rows :
     /\ rows[f].team = team
     /\ IF Known(f, d) THEN f \in was[d] ELSE rows[f].created <= EndOfDay(d)}
TrendIsHistory ==
  [][RollUp =>
       \A d \in IF job.moved # {} THEN Backfill ELSE {Yesterday}, team \in Teams :
         ThenOpen(team, d) # {} =>
           /\ <<d, team>> \in DOMAIN metrics'
           /\ metrics'[<<d, team>>].open = Cardinality(ThenOpen(team, d))]_vars

\* "Refresh daily_metrics" (internal/ownership_reresolve.py): the open counts
\* of a day that was just rolled up, summed over teams, are the number of
\* findings that were open at its end.
OpenOn(table, d) ==
  LET counted == {k \in DOMAIN table : k[1] = d}
  IN  FoldSet(LAMBDA k, sum : sum + table[k].open, 0, counted)
TrendMatchesOpen ==
  [][metrics' # metrics => \A d \in DatesAfter(job.moved) :
       OpenOn(metrics', d) =
         Cardinality({f \in DOMAIN rows : OpenAt(f, EndOfDay(d))})]_vars
=============================================================================
