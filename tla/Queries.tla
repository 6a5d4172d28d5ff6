------------------------------ MODULE Queries ------------------------------
(***************************************************************************)
(* The read side: what /findings and /metrics answer about the state of    *)
(* Dashboard.  A request is a record; the values None, {} and FALSE stand  *)
(* for a parameter that is not given.  A query is the set of findings it   *)
(* selects; paging, ordering and the text of answers are left out.         *)
(***************************************************************************)
EXTENDS Dashboard

CONSTANTS
  AdminOnly,       \* ADMIN_ONLY_SOURCES
  IssuesOnlyTeams, \* _PLATFORM_WIZ_ISSUES_ONLY_TEAMS
  Window,          \* Window[sev]: the SLA window, or None
  Week, Month,     \* in instants
  Requests         \* requests the pages send: NoQuery with changes

\* The parameters of resolve_scope, and: source, platform_pillar (tab),
\* platform_wiz_issues_only, wiz_category and sla_breached.
NoQuery == [teams |-> {}, exec |-> None, jira |-> None, app |-> None,
            service |-> None, repo |-> None, sources |-> {}, tab |-> None,
            issues |-> FALSE, cat |-> None, breached |-> None]

Pillars == DOMAIN Reg.pillars
Tabs == Pillars \cup {ThreatIntel}

\* A Wiz source is for everybody, None is no other value, and no pillar has
\* the service the mapper gives to advisories of the Threat Center.
ASSUME QueriesAssumption ==
  /\ "wiz" \notin AdminOnly
  /\ Window \in [Severities -> Nat \cup {None}]
  /\ Week \in Nat /\ Month \in Nat /\ Week <= Month
  /\ None \notin Tabs /\ None \notin BOOLEAN /\ None \notin Int
  /\ \A c \in Reg.components : c.key # None
  /\ \A q \in Requests : DOMAIN q = DOMAIN NoQuery /\ q.tab \in Tabs \cup {None}
  /\ \A p \in Tabs : AdvisoryOwner \notin WizTeamsForPillar(Reg, p)

CodeSources == {"sonarcloud", "dependabot", "pentest"}

Teams(q) == ScopeTeams(Reg, own, q)
Assets(q) == ScopeAssets(Reg, own, q)

-----------------------------------------------------------------------------
(***************************************************************************)
(* Clauses on a row.                                                       *)
(***************************************************************************)
IsOpen(r) == r.status = "open"
Shown(r) == r.from.src \notin AdminOnly
InTeams(teams, r) == teams # {} => r.owner \in teams
InAssets(assets, r) == assets # {} => r.from.asset \in assets
InSources(q, r) == q.sources # {} => r.from.src \in q.sources
IsWiz(r) == r.from.src = "wiz"

\* _apply_wiz_issues_only_filter
IssuesOnly(q, tab, r) ==
  q.issues => \/ ~IsWiz(r)
              \/ r.from.cat = "issue"
              \/ tab \in {None, ThreatIntel} /\ r.owner \notin IssuesOnlyTeams

\* The code team of a tab, as a set, and the teams with Wiz services.
CodeTeamsOf == [p \in Tabs |-> {CodeTeam(Reg, p)} \ {None}]
CodeTeams(tab) == CodeTeamsOf[tab]
WizTeamsOf == [p \in Tabs |-> WizTeamsForPillar(Reg, p)]
WizTeams(tab) == WizTeamsOf[tab]

ThreatClause(r) ==
  /\ IsWiz(r) /\ r.owner = Unowned
  /\ r.tag = ThreatIntel /\ r.from.cat = "threat_center"

UnownedOn(tab, r) ==
  IF tab = ThreatIntel THEN ThreatClause(r)
  ELSE /\ IsWiz(r) /\ r.owner = Unowned
       /\ r.tag = tab /\ r.from.cat # "threat_center"

CodeOwnedOn(tab, r) ==
  /\ tab # ThreatIntel
  /\ IsWiz(r) /\ r.owner \in CodeTeams(tab)
  /\ r.tag = tab /\ r.from.cat # "threat_center"

\* The Wiz part of a tab, with the teams its registry entries give.
WizOn(tab, teams, r) ==
  \/ UnownedOn(tab, r)
  \/ IsWiz(r) /\ r.owner \in teams
  \/ CodeOwnedOn(tab, r)

\* platform_pillar_asymmetric_clause
OnTab(tab, r) ==
  IF tab = ThreatIntel THEN ThreatClause(r)
  ELSE \/ r.from.src \in CodeSources /\ r.owner \in CodeTeams(tab)
       \/ WizOn(tab, WizTeams(tab), r)

\* Mutant: a tab shows every source under its code team only.
OnTabOfCodeTeam(tab, src, r) ==
  r.from.src = src /\ r.owner \in CodeTeams(tab)

\* platform_pillar_source_clause
OnTabFrom(tab, src, r) ==
  /\ r.from.src = src
  /\ IF tab = ThreatIntel THEN ThreatClause(r)
     ELSE IF src = "wiz" THEN WizOn(tab, WizTeams(tab), r)
     ELSE src \in CodeSources /\ r.owner \in CodeTeams(tab)

\* apply_platform_pillar_finding_scope, and apply_finding_team_scope without
\* a tab.
InScope(q, teams, r) ==
  IF q.tab = None THEN InTeams(teams, r)
  ELSE IF q.sources = {} THEN OnTab(q.tab, r)
  ELSE \E src \in q.sources : OnTabFrom(q.tab, src, r)

-----------------------------------------------------------------------------
(***************************************************************************)
(* The admin's triage queue: ?team=unowned, without what /developer or     *)
(* /platform already shows.                                                *)
(***************************************************************************)
ConsumerTeams ==
  (DeveloperScope(Reg) \cup UNION {CodeTeams(p) \cup WizTeams(p) : p \in Pillars})
    \ {Unowned, Excluded}

ConsumerServices ==
  {<<"wizservice", s>> : s \in {x \in DOMAIN WizServiceToTeam(Reg) :
                                  WizServiceToTeam(Reg)[x] \in ConsumerTeams}}
ConsumerAssets ==
  {a \in DOMAIN own.team : own.team[a] \in ConsumerTeams} \cup ConsumerServices

\* Mutant: any tag of a pillar puts a row on a page.
TaggedIsShown(r) ==
  \/ IsWiz(r) /\ r.owner = Unowned /\ r.tag # None
  \/ r.from.asset \in ConsumerAssets

TriageExcludes(r) ==
  \/ \E tab \in Tabs : UnownedOn(tab, r)
  \/ r.from.asset \in ConsumerAssets

InTriage(q, r) == q.teams = {Unowned} => ~TriageExcludes(r)

-----------------------------------------------------------------------------
(***************************************************************************)
(* SLA: api/sla.py, and the predicate /findings filters by.                *)
(***************************************************************************)
Breached(r) ==
  /\ IsOpen(r) /\ Window[r.from.sev] # None
  /\ now - r.anchor > Window[r.from.sev]

\* Mutant: a window that ends now is over.
BreachedInclusive(r) ==
  \E sev \in {s \in Severities : Window[s] # None} :
    r.from.sev = sev /\ now - Window[sev] >= r.anchor

BreachPredicate(r) ==
  /\ IsOpen(r)
  /\ \E sev \in {s \in Severities : Window[s] # None} :
       r.from.sev = sev /\ now - Window[sev] > r.anchor

-----------------------------------------------------------------------------
(***************************************************************************)
(* GET /findings and /findings/wiz-by-category.                            *)
(***************************************************************************)
\* Mutant: only a request for nothing else is refused.
ForbiddenAlone(q, admin) ==
  q.sources # {} /\ q.sources \subseteq AdminOnly /\ ~admin

Forbidden(q, admin) == q.sources \cap AdminOnly # {} /\ ~admin

\* The open findings of a list; breached is TRUE, FALSE or None.
List(q, admin) ==
  IF Forbidden(q, admin) \/ Refused(Reg, own, q) THEN {}
  ELSE LET teams == Teams(q) assets == Assets(q) IN
       {f \in DOMAIN rows : LET r == rows[f] IN
          /\ q.sources \cap AdminOnly = {} => Shown(r)
          /\ IsOpen(r) /\ InSources(q, r) /\ InScope(q, teams, r)
          /\ InTriage(q, r) /\ InAssets(assets, r)
          /\ q.cat # None => r.from.cat = q.cat
          /\ q.breached # None => q.breached = BreachPredicate(r)}

\* Critical and high Wiz findings, grouped by category.  Of the parameters,
\* only team and platform_pillar are read.
WizOfTab(q) ==
  {f \in DOMAIN rows : LET r == rows[f] IN
     /\ IsOpen(r) /\ IsWiz(r) /\ r.from.sev \in {"critical", "high"}
     /\ IF q.tab = None THEN InTeams(q.teams, r)
        ELSE /\ OnTabFrom(q.tab, "wiz", r)
             /\ (r.from.cat = "threat_center") <=> (q.tab = ThreatIntel)}
\* The classes of fs under a key function.
GroupedBy(key, fs) == [k \in {key[f] : f \in fs} |-> {f \in fs : key[f] = k}]
WizByCategory(q) == GroupedBy([f \in DOMAIN rows |-> rows[f].from.cat], WizOfTab(q))

\* GET /findings/{id}
Detail(f, admin) == f \in DOMAIN rows /\ (admin \/ Shown(rows[f]))

-----------------------------------------------------------------------------
(***************************************************************************)
(* GET /metrics/summary.  Tabs and the triage queue do not narrow it.      *)
(***************************************************************************)
OfSeverity(fs, sev) == {f \in fs : rows[f].from.sev = sev}
CritHigh(fs) == OfSeverity(fs, "critical") \cup OfSeverity(fs, "high")

InSummary(q) ==
  LET teams == Teams(q) assets == Assets(q) IN
  {f \in DOMAIN rows : LET r == rows[f] IN
     /\ Shown(r) /\ InTeams(teams, r) /\ InAssets(assets, r) /\ InSources(q, r)
     /\ IssuesOnly(q, None, r)}

Closing == {"fixed", "auto_closed", "suppressed"}
Times(f, types, t) == {e.at : e \in {x \in trail[f] : x.type \in types /\ x.at <= t}}

OpenByReplay(f, t) ==
  LET closes  == Times(f, Closing, t)
      reopens == Times(f, {"reopened"}, t)
  IN  closes = {} \/ \E r \in reopens : \A c \in closes : r > c

OpenCriticalsAt(q, t) ==
  {f \in OfSeverity(InSummary(q), "critical") : rows[f].anchor <= t /\ OpenByReplay(f, t)}

\* The observation window: from the first time a finding in scope was seen.
\* (Not narrowed by platform_wiz_issues_only.)
Observed(q) ==
  {rows[f].seen : f \in InSummary([q EXCEPT !.issues = FALSE])}
HistoryOf(q, span) ==
  \E t \in Observed(q) : now - t >= span

\* open_criticals_wow_delta; None is "history < 7d".
WowDelta(q) ==
  IF HistoryOf(q, Week)
  THEN Cardinality(OpenCriticalsAt(q, now)) - Cardinality(OpenCriticalsAt(q, now - Week))
  ELSE None

Inflow == {"discovered", "reopened"}

\* Mutant: a reopened critical is not new.
DiscoveredOnly(q, types, span) ==
  {x \in UNION {{g} \X trail[g] : g \in OfSeverity(InSummary(q), "critical")} :
     x[2].type \in types \ {"reopened"} /\ x[2].at >= now - span}

Outflow == {"fixed", "auto_closed"}
CriticalEvents(q, types, span) ==
  {x \in UNION {{g} \X trail[g] : g \in OfSeverity(InSummary(q), "critical")} :
     x[2].type \in types /\ x[2].at >= now - span}

EventCount(q, types, span) ==
  IF HistoryOf(q, span) THEN Cardinality(CriticalEvents(q, types, span)) ELSE None

\* The closures mttr_critical_30d_seconds is the median of.
Repaired(q) ==
  {f \in OfSeverity(InSummary(q), "critical") :
     \E e \in trail[f] : e.type \in Outflow /\ e.at >= now - Month}

OpenInSummary(q) == {f \in InSummary(q) : IsOpen(rows[f])}

\* Age buckets: (low, high].  The first has no lower bound.
AgeBucket(q, low, high) ==
  {f \in CritHigh(OpenInSummary(q)) : LET age == now - rows[f].anchor
                                      IN  low < age /\ age <= high}
AgeBuckets(q) ==
  <<AgeBucket(q, -1, Week), AgeBucket(q, Week, Month), AgeBucket(q, Month, LastInstant)>>

OldestCritical(q) ==
  LET anchors == {rows[f].anchor : f \in OfSeverity(OpenInSummary(q), "critical")}
  IN  IF anchors = {} THEN None ELSE now - CHOOSE t \in anchors : \A u \in anchors : t <= u

-----------------------------------------------------------------------------
(***************************************************************************)
(* GET /metrics/security-posture, /top-teams, /top-services, /trend and    *)
(* /sla-breaches.                                                          *)
(***************************************************************************)
\* All open findings in scope: the headline.  A tab is narrowed by source
\* after the asymmetric clause here.
Posture(q) ==
  LET teams == Teams(q) assets == Assets(q) IN
  {f \in DOMAIN rows : LET r == rows[f] IN
     /\ Shown(r) /\ IsOpen(r)
     /\ IF q.tab = None THEN InTeams(teams, r) ELSE OnTab(q.tab, r)
     /\ InTriage(q, r) /\ InAssets(assets, r) /\ InSources(q, r)
     /\ IssuesOnly(q, q.tab, r)}

\* The findings a source's rating card counts.
Card(q, src) ==
  IF q.tab = None THEN {f \in Posture(q) : rows[f].from.src = src}
  ELSE {f \in DOMAIN rows : LET r == rows[f] IN
          /\ Shown(r) /\ IsOpen(r) /\ r.from.src = src
          /\ IF src = "wiz"
             THEN WizOn(q.tab, IF q.tab = ThreatIntel THEN {} ELSE WizTeams(q.tab), r)
             ELSE r.owner \in CodeTeams(q.tab)
          /\ src = "wiz" => IssuesOnly(q, q.tab, r)}

Cards(q) == IF q.tab = ThreatIntel THEN {"wiz"} ELSE CodeSources \cup {"wiz"}

\* The rows both leaderboards rank.
Ranked(q) ==
  LET teams == Teams(q) assets == Assets(q) IN
  {f \in DOMAIN rows : LET r == rows[f] IN
     /\ Shown(r) /\ IsOpen(r) /\ r.owner # Unowned
     /\ InTeams(teams, r) /\ InAssets(assets, r) /\ IssuesOnly(q, None, r)
     /\ r.from.sev \in {"critical", "high"}}
TopTeams(q) == GroupedBy([f \in DOMAIN rows |-> rows[f].owner], Ranked(q))
TopServices(q) ==
  GroupedBy([f \in DOMAIN rows |-> <<rows[f].from.asset, rows[f].owner>>], Ranked(q))

Breaches == {f \in DOMAIN rows : /\ Shown(rows[f]) /\ rows[f].owner # Unowned
                                 /\ Breached(rows[f])}

\* The latest point of the trend by event replay: the findings whose last
\* event up to the end of today is not a closing one.
TrendByReplay(q) ==
  LET teams == Teams(q) assets == Assets(q) IN
  {f \in DOMAIN rows : LET r == rows[f] IN
     /\ Shown(r)
     /\ IF q.tab = None THEN InTeams(teams, r) ELSE OnTab(q.tab, r)
     /\ InAssets(assets, r) /\ InSources(q, r) /\ IssuesOnly(q, q.tab, r)
     /\ \A e \in trail[f] : (\A x \in trail[f] : x.at <= e.at) => e.type \notin Closing}

\* The same point from daily_metrics, which today's live counts overlay.
TrendOverlay(q) ==
  LET teams == Teams(q) IN
  {f \in DOMAIN rows : LET r == rows[f] IN
     /\ Shown(r) /\ IsOpen(r) /\ InTeams(teams, r) /\ InSources(q, r)}

TrendToday(q) ==
  IF Assets(q) # {} \/ q.tab # None \/ q.issues THEN TrendByReplay(q) ELSE TrendOverlay(q)

-----------------------------------------------------------------------------
(***************************************************************************)
(* Properties.                                                             *)
(***************************************************************************)
Answered == {q \in Requests : ~Refused(Reg, own, q)}

\* Every member of whole is in one of the parts.
Splits(parts, whole) ==
  /\ whole = UNION {parts[k] : k \in DOMAIN parts}
  /\ \A j, k \in DOMAIN parts : j # k => parts[j] \cap parts[k] = {}

\* The sections of the executive page tell the same numbers of a pillar
\* (tests/exec_metrics_alignment.py), as they count the same findings: the
\* badge counts rows by their status, the KPI strip replays events up to now
\* and has the age of the oldest critical, the trend replays the last event
\* of a day or overlays the live counts, and the bars by age and the offender
\* lists count each of them once.
SectionsAlign ==
  \A q \in {x \in Answered : /\ x.tab = None /\ x.sources = {}
                            /\ Teams(x) # {} /\ Unowned \notin Teams(x)} :
    LET badge == Posture(q) IN
    /\ OfSeverity(badge, "critical") = OpenCriticalsAt(q, now)
    /\ OldestCritical(q) = None <=> OfSeverity(badge, "critical") = {}
    /\ CritHigh(badge) = CritHigh(TrendToday(q))
    /\ Splits(TopTeams(q), CritHigh(badge))
    /\ Splits(TopServices(q), CritHigh(badge))
    /\ Splits(AgeBuckets(q), CritHigh(badge))

\* The overview of a tab is the sum of its rating cards
\* (apply_platform_pillar_asymmetric_scope), and its Wiz card is what the
\* tab's Wiz page lists, whichever clauses select them.
CardsAddUp ==
  \A q \in {x \in Answered : /\ x.tab # None /\ x.sources = {}
                            /\ x.teams = {} /\ Assets(x) = {}} :
    /\ Posture(q) = UNION {Card(q, src) : src \in Cards(q)}
    /\ ~q.issues => LET page == WizByCategory(q)
                    IN  CritHigh(Card(q, "wiz")) = UNION {page[cat] : cat \in DOMAIN page}

\* Whoever clicks on a headline sees what it counted: the list with the
\* same parameters selects the posture's findings, on a tab, in a scope, for
\* a source or in the triage queue; and ?sla_breached=true keeps of them
\* those whose badge says so, although SQL compares anchors with cutoffs
\* where the badge compares ages with windows.
HeadlineDrillsDown ==
  \A q \in {x \in Answered : ~x.issues /\ x.cat = None /\ x.breached = None} :
    ~Forbidden(q, FALSE) =>
      LET headline == Posture(q)
      IN  /\ List(q, FALSE) = headline
          /\ List([q EXCEPT !.breached = TRUE], FALSE)
               = {f \in headline : Breached(rows[f])}

\* The momentum numbers explain each other: when every critical in scope was
\* anchored at its discovery and nothing happened just a week ago, the
\* week's change of the open criticals is its inflow without its outflow;
\* and an MTTR is given exactly when the month has closures.  One replays
\* states, the other counts events.
MomentumExplainsDelta ==
  \A q \in Answered :
    LET criticals == OfSeverity(InSummary(q), "critical")
        exact == \A f \in criticals : /\ rows[f].anchor = rows[f].seen
                                       /\ \A e \in trail[f] : e.at # now - Week
    IN  /\ (HistoryOf(q, Week) /\ exact) =>
             WowDelta(q) = EventCount(q, Inflow, Week) - EventCount(q, Outflow, Week)
        /\ HistoryOf(q, Month) => (Repaired(q) = {} <=> EventCount(q, Outflow, Month) = 0)

\* A row with the owner and tag the configuration of today gives it.
Fresh(r) == r.owner = Resolved(r) /\ (IsWiz(r) => r.tag = MappedTag(r.from))

\* No unowned finding falls between the pages (admin_triage.py): once the
\* stamps are those of today's configuration it is on a tab of /platform or
\* in the admin's triage queue.
NothingHidden ==
  \A f \in DOMAIN rows : LET r == rows[f] IN
    (IsOpen(r) /\ Shown(r) /\ r.owner = Unowned /\ Fresh(r)) =>
      \/ \E p \in Tabs : f \in List([NoQuery EXCEPT !.tab = p], FALSE)
      \/ f \in List([NoQuery EXCEPT !.teams = {Unowned}], FALSE)

\* Whatever the sources a caller combines, admin-only ones reach admins who
\* asked for them and nobody else: no list, page, count or trend has them.
AdminOnlyStaysHidden ==
  \A q \in Answered :
    LET selected == UNION {List(q, FALSE), WizOfTab(q), Posture(q), InSummary(q),
                           Ranked(q), Breaches, TrendToday(q)}
    IN  \A f \in selected \cup {g \in Findings : Detail(g, FALSE)} : Shown(rows[f])

\* Violated.  "Org-wide Wiz Threat Center advisories (30d) - not tied to a
\* product line" (platform_pillar.py): an open advisory is on the threat
\* intelligence tab.
AdvisoriesOnTheirTab ==
  \A f \in DOMAIN rows :
    (IsOpen(rows[f]) /\ rows[f].from.cat = "threat_center") =>
      f \in List([NoQuery EXCEPT !.tab = ThreatIntel], FALSE)
=============================================================================
