----------------------------- MODULE Dashboard -----------------------------
(***************************************************************************)
(* What the API's queries read: rows of `findings`, the events that open   *)
(* and close them, and the configuration; and everything that changes      *)
(* them.  Ingest, which other modules take apart, is one step per finding  *)
(* here, as is every run of an ownership job.                              *)
(*                                                                         *)
(* Time is counted in instants; one finding has at most one lifecycle      *)
(* event in an instant.                                                    *)
(***************************************************************************)
EXTENDS Registry

CONSTANTS
  Findings,
  Profiles,      \* Profiles[f]: what mappers may emit for f: src, asset,
                 \* cat (wiz_category), sub (the cloud subscription), sev,
                 \* and stamp, the owner of pentest findings
  Reg,           \* component_registry.yaml with its supplement
  Files,         \* contents the configuration may have: own, that of
                 \* ownership.yaml, and subs, that of wiz_subscription_
                 \* pillar.yaml: the pillar of every subscription and of None
  LastInstant    \* bound: the last instant of a behaviour

VARIABLES
  now,
  rows,          \* findings
  trail,         \* trail[f]: the events that opened and closed f
  own,           \* ownership.yaml
  subs           \* wiz_subscription_pillar.yaml

vars == <<now, rows, trail, own, subs>>

Instants == 0..LastInstant
Severities == {"critical", "high", "medium", "low", "info"}

\* Assets that only the Wiz mapper gives, and the owner of the service all
\* advisories of the Threat Center are on.
OfWiz(asset) == asset[1] \in {"wizservice", "cloudres"}
Advisories == <<"wizservice", "threat-center">>
AdvisoryOwner == Lookup(WizServiceToTeam(Reg), Advisories[2], Unowned)

ASSUME DashboardAssumption ==
  /\ LastInstant \in Nat /\ IsFiniteSet(Findings)
  /\ \A c \in Files : /\ c = [own |-> c.own, subs |-> c.subs]
                      /\ \A a \in DOMAIN c.own.team : ~OfWiz(a)
  /\ \A f \in Findings : \A x \in Profiles[f] :
       /\ x.sev \in Severities /\ (OfWiz(x.asset) => x.src = "wiz")
       /\ x.cat = "threat_center" =>
            x.src = "wiz" /\ x.asset = Advisories /\ x.stamp = None

LifecycleEvent == [at: Instants, type: {"discovered", "auto_closed", "reopened"}]

Init ==
  /\ now = 0
  /\ rows = [f \in {} |-> 0]
  /\ trail = [f \in Findings |-> {}]
  /\ \E c \in Files : own = c.own /\ subs = c.subs

-----------------------------------------------------------------------------
\* The platform_pillar tag a mapper gives a finding.
MappedTag(x) ==
  IF x.src # "wiz" THEN None
  ELSE IF x.cat = "threat_center" THEN ThreatIntel ELSE subs[x.sub]

\* The owner ingest gives it: stamped by the mapper or resolved.
MappedOwner(x) ==
  IF x.stamp # None THEN x.stamp
  ELSE OwnerOf(Reg, own, x.src, x.asset, MappedTag(x))

Stamped(x, row) ==
  [row EXCEPT !.tag = MappedTag(x), !.owner = MappedOwner(x), !.status = "open"]

Quiet(f) == \A e \in trail[f] : e.at < now
\* Mutant: the row changes without an event.
EmitNothing(f, type) == trail' = trail

Emit(f, type) == trail' = [trail EXCEPT ![f] = @ \cup {[at |-> now, type |-> type]}]

\* A finding is discovered.  Its anchor, coalesce(upstream_created_at,
\* first_seen_at), is now or earlier.
Discover(f, x) ==
  /\ f \notin DOMAIN rows
  /\ \E t \in {0, now} :
       rows' = [g \in DOMAIN rows \cup {f} |->
                  IF g = f THEN [from |-> x, owner |-> MappedOwner(x),
                                 tag |-> MappedTag(x), status |-> "open",
                                 seen |-> now, anchor |-> t]
                           ELSE rows[g]]
  /\ Emit(f, "discovered")
  /\ UNCHANGED <<now, own, subs>>

\* Mutant: an update leaves the event of a reopening out.
ReportQuietly(f) ==
  /\ f \in DOMAIN rows
  /\ rows' = [rows EXCEPT ![f] = Stamped(@.from, @)]
  /\ UNCHANGED <<now, trail, own, subs>>

\* A snapshot reports it again.
Report(f) ==
  /\ f \in DOMAIN rows
  /\ rows' = [rows EXCEPT ![f] = Stamped(@.from, @)]
  /\ IF rows[f].status = "open" THEN UNCHANGED trail
     ELSE Quiet(f) /\ Emit(f, "reopened")
  /\ UNCHANGED <<now, own, subs>>

Close(f) ==
  /\ f \in DOMAIN rows /\ rows[f].status = "open" /\ Quiet(f)
  /\ rows' = [rows EXCEPT ![f].status = "auto_closed"]
  /\ Emit(f, "auto_closed")
  /\ UNCHANGED <<now, own, subs>>

Resolved(row) == OwnerOf(Reg, own, row.from.src, row.from.asset, row.tag)

Reresolved(fs) ==
  /\ rows' = [f \in DOMAIN rows |->
                IF f \in fs THEN [rows[f] EXCEPT !.owner = Resolved(rows[f])]
                            ELSE rows[f]]
  /\ UNCHANGED <<now, trail, own, subs>>

OpenWiz == {f \in DOMAIN rows : rows[f].from.src = "wiz" /\ rows[f].status = "open"}

\* core_reresolve.
Reresolve == Reresolved(DOMAIN rows)

\* `wiz-map reresolve` in its two transactions, for the rows of services and for
\* those of cloud resources.  That the second one follows is left open.
ReresolveServices == Reresolved({f \in OpenWiz : rows[f].from.asset[1] = "wizservice"})
ReresolveClouds == Reresolved({f \in OpenWiz : rows[f].from.asset[1] = "cloudres"})

\* `wiz-map reresolve-pillar`: every open Wiz row gets the tag of its
\* cloud_account tag, which an advisory of the Threat Center does not have.
Retag ==
  /\ rows' = [f \in DOMAIN rows |->
                IF f \in OpenWiz THEN [rows[f] EXCEPT !.tag = subs[rows[f].from.sub]]
                                 ELSE rows[f]]
  /\ UNCHANGED <<now, trail, own, subs>>

Push ==
  /\ \E c \in Files : own' = c.own /\ subs' = c.subs
  /\ UNCHANGED <<now, rows, trail>>

Tick ==
  /\ now + 1 \in Instants
  /\ now' = now + 1
  /\ UNCHANGED <<rows, trail, own, subs>>

Next ==
  \/ \E f \in Findings : \E x \in Profiles[f] : Discover(f, x)
  \/ \E f \in Findings : Report(f)
  \/ \E f \in Findings : Close(f)
  \/ Reresolve \/ ReresolveServices \/ ReresolveClouds \/ Retag \/ Push \/ Tick

Spec == Init /\ [][Next]_vars

-----------------------------------------------------------------------------
\* Rows and events have their types, and a finding has events from when it is
\* first seen on.
TypeOK ==
  /\ now \in Instants /\ [own |-> own, subs |-> subs] \in Files
  /\ DOMAIN rows \subseteq Findings
  /\ \A f \in DOMAIN rows :
       /\ rows[f].from \in Profiles[f]
       /\ rows[f].status \in {"open", "auto_closed"}
       /\ rows[f].anchor <= rows[f].seen /\ rows[f].seen <= now
  /\ \A f \in Findings : /\ trail[f] \subseteq LifecycleEvent
                         /\ trail[f] = {} <=> f \notin DOMAIN rows
=============================================================================
