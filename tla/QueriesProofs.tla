--------------------------- MODULE QueriesProofs ---------------------------
(***************************************************************************)
(* The theorems of Dashboard, Queries and Ratings: what the answers of the *)
(* API have to do with one another, for any registry, ownership file,      *)
(* findings, requests and counts that the assumptions admit.               *)
(***************************************************************************)
EXTENDS Queries, Ratings, FiniteSetTheorems, TLAPS

-----------------------------------------------------------------------------
(***************************************************************************)
(* The rows.                                                               *)
(***************************************************************************)
\* The inductive invariant: TypeOK, and the owner of advisories.
AdvisoriesOwned ==
  \A f \in DOMAIN rows :
    rows[f].from.cat = "threat_center" => rows[f].owner = AdvisoryOwner

RowType(f) ==
  [from: Profiles[f], owner: {rows[f].owner}, tag: {rows[f].tag},
   status: {"open", "auto_closed"}, seen: Instants, anchor: Instants]

RowsOK ==
  /\ now \in Instants /\ [own |-> own, subs |-> subs] \in Files
  /\ DOMAIN rows \subseteq Findings
  /\ \A f \in DOMAIN rows :
       /\ rows[f] \in RowType(f)
       /\ rows[f].anchor <= rows[f].seen /\ rows[f].seen <= now
  /\ trail \in [Findings -> SUBSET LifecycleEvent]
  /\ \A f \in Findings : trail[f] = {} <=> f \notin DOMAIN rows

IInv == RowsOK /\ AdvisoriesOwned

LEMMA InitInv == Init => IInv
<1> SUFFICES ASSUME Init PROVE IInv
  OBVIOUS
<1>1. now \in Instants
  BY DashboardAssumption DEF Init, Instants
<1>2. [own |-> own, subs |-> subs] \in Files
  BY DashboardAssumption DEF Init
<1> QED
  BY <1>1, <1>2 DEF Init, IInv, RowsOK, AdvisoriesOwned

\* The configuration gives an advisory the owner of its service.
LEMMA AdvisoryIs ==
  ASSUME NEW f \in Findings, NEW x \in Profiles[f], x.cat = "threat_center"
  PROVE  /\ \A tag : OwnerOf(Reg, own, x.src, x.asset, tag) = AdvisoryOwner
         /\ MappedOwner(x) = AdvisoryOwner
<1>1. x.src = "wiz" /\ x.asset = Advisories /\ x.stamp = None
  BY DashboardAssumption
<1>2. Advisories[1] = "wizservice"
  BY DEF Advisories
<1>3. \A tag : OwnerOf(Reg, own, x.src, x.asset, tag) = AdvisoryOwner
  BY <1>1, <1>2 DEF OwnerOf, AdvisoryOwner
<1> QED
  BY <1>1, <1>3 DEF MappedOwner

\* Rows keep what the mapper gave, and get an owner, a tag and a status;
\* advisories keep their owner.
Restamped(row, o, t, s) == [row EXCEPT !.owner = o, !.tag = t, !.status = s]

LEMMA RowsStep ==
  ASSUME IInv, UNCHANGED <<now, own, subs>>, DOMAIN rows' = DOMAIN rows,
         trail' \in [Findings -> SUBSET LifecycleEvent],
         \A f \in Findings : trail'[f] = {} <=> trail[f] = {},
         \A f \in DOMAIN rows :
           rows'[f] = rows[f] \/
             \E o, t : \E s \in {"open", "auto_closed"} :
               /\ rows'[f] = Restamped(rows[f], o, t, s)
               /\ rows[f].from.cat = "threat_center" => o = AdvisoryOwner
  PROVE  IInv'
<1>1. ASSUME NEW f \in DOMAIN rows
      PROVE  /\ rows'[f] \in RowType(f)'
             /\ rows'[f].anchor <= rows'[f].seen /\ rows'[f].seen <= now
             /\ rows'[f].from.cat = "threat_center" => rows'[f].owner = AdvisoryOwner
  <2>1. /\ rows[f] \in RowType(f) /\ rows[f].anchor <= rows[f].seen /\ rows[f].seen <= now
        /\ rows[f].from.cat = "threat_center" => rows[f].owner = AdvisoryOwner
    BY DEF IInv, RowsOK, AdvisoriesOwned
  <2>2. CASE rows'[f] = rows[f]
    BY <2>1, <2>2 DEF RowType
  <2>3. ASSUME NEW o, NEW t, NEW s \in {"open", "auto_closed"},
               rows'[f] = Restamped(rows[f], o, t, s),
               rows[f].from.cat = "threat_center" => o = AdvisoryOwner
        PROVE  /\ rows'[f] \in RowType(f)'
               /\ rows'[f].anchor <= rows'[f].seen /\ rows'[f].seen <= now
               /\ rows'[f].from.cat = "threat_center" => rows'[f].owner = AdvisoryOwner
    BY <2>1, <2>3 DEF RowType, Restamped
  <2> QED
    BY <2>2, <2>3
<1>2. RowsOK'
  BY <1>1 DEF IInv, RowsOK
<1>3. AdvisoriesOwned'
  BY <1>1 DEF AdvisoriesOwned
<1> QED
  BY <1>2, <1>3 DEF IInv

\* A finding gets another event.
LEMMA EmitStep ==
  ASSUME IInv, NEW f \in Findings, NEW type \in {"discovered", "auto_closed", "reopened"},
         Emit(f, type)
  PROVE  /\ trail' \in [Findings -> SUBSET LifecycleEvent] /\ trail'[f] # {}
         /\ \A g \in Findings \ {f} : trail'[g] = trail[g]
<1> DEFINE e == [at |-> now, type |-> type]
<1>1. e \in LifecycleEvent /\ trail \in [Findings -> SUBSET LifecycleEvent]
  BY DEF IInv, RowsOK, LifecycleEvent
<1>2. trail' = [trail EXCEPT ![f] = @ \cup {e}]
  BY DEF Emit
<1> HIDE DEF e
<1> QED
  BY <1>1, <1>2

\* An ownership job, or a new tag, on some of the rows.
LEMMA OwnersStep ==
  ASSUME IInv, UNCHANGED <<now, trail, own, subs>>, DOMAIN rows' = DOMAIN rows,
         \A f \in DOMAIN rows : \/ rows'[f] = rows[f]
                                \/ rows'[f] = [rows[f] EXCEPT !.owner = Resolved(rows[f])]
                                \/ \E t : rows'[f] = [rows[f] EXCEPT !.tag = t]
  PROVE  IInv'
<1>1. ASSUME NEW f \in DOMAIN rows
      PROVE  rows'[f] = rows[f] \/
               \E o, t : \E s \in {"open", "auto_closed"} :
                 /\ rows'[f] = Restamped(rows[f], o, t, s)
                 /\ rows[f].from.cat = "threat_center" => o = AdvisoryOwner
  <2>1. f \in Findings /\ rows[f] \in RowType(f)
        /\ (rows[f].from.cat = "threat_center" => rows[f].owner = AdvisoryOwner)
    BY DEF IInv, RowsOK, AdvisoriesOwned
  <2>2. CASE rows'[f] = [rows[f] EXCEPT !.owner = Resolved(rows[f])]
    <3> DEFINE o == Resolved(rows[f])
    <3>1. rows[f].from.cat = "threat_center" => o = AdvisoryOwner
      BY <2>1, AdvisoryIs DEF Resolved, RowType
    <3> HIDE DEF o
    <3>2. [rows[f] EXCEPT !.owner = o]
            = Restamped(rows[f], o, rows[f].tag, rows[f].status)
      BY <2>1 DEF Restamped, RowType
    <3>3. rows'[f] = Restamped(rows[f], o, rows[f].tag, rows[f].status)
      BY <2>2, <3>2 DEF o
    <3>4. rows[f].status \in {"open", "auto_closed"}
      BY <2>1 DEF RowType
    <3> QED
      BY <3>1, <3>3, <3>4
  <2>3. ASSUME NEW t, rows'[f] = [rows[f] EXCEPT !.tag = t]
        PROVE  \E o : \E s \in {"open", "auto_closed"} :
                 /\ rows'[f] = Restamped(rows[f], o, t, s)
                 /\ rows[f].from.cat = "threat_center" => o = AdvisoryOwner
    <3>1. rows'[f] = Restamped(rows[f], rows[f].owner, t, rows[f].status)
      BY <2>1, <2>3 DEF Restamped, RowType
    <3>2. rows[f].status \in {"open", "auto_closed"}
      BY <2>1 DEF RowType
    <3> QED
      BY <2>1, <3>1, <3>2
  <2> QED
    BY <2>2, <2>3
<1>2. trail' \in [Findings -> SUBSET LifecycleEvent]
      /\ \A f \in Findings : trail'[f] = {} <=> trail[f] = {}
  BY DEF IInv, RowsOK
<1> QED
  BY <1>1, <1>2, RowsStep

LEMMA DiscoverStep ==
  ASSUME IInv, NEW f \in Findings, NEW x \in Profiles[f], Discover(f, x)
  PROVE  IInv'
<1>1. PICK t \in {0, now} :
        rows' = [g \in DOMAIN rows \cup {f} |->
                   IF g = f THEN [from |-> x, owner |-> MappedOwner(x),
                                  tag |-> MappedTag(x), status |-> "open",
                                  seen |-> now, anchor |-> t]
                            ELSE rows[g]]
  BY DEF Discover
<1> DEFINE owner == MappedOwner(x)
           tag == MappedTag(x)
           row == [from |-> x, owner |-> owner, tag |-> tag, status |-> "open",
                   seen |-> now, anchor |-> t]
<1>2. x.cat = "threat_center" => owner = AdvisoryOwner
  BY AdvisoryIs
<1> HIDE DEF owner, tag
<1>3. /\ now \in Instants /\ t \in Instants /\ t <= now /\ now <= now
      /\ f \notin DOMAIN rows /\ now' = now /\ own' = own /\ subs' = subs
  BY DashboardAssumption DEF Discover, IInv, RowsOK, Instants
<1>4. /\ DOMAIN rows' = DOMAIN rows \cup {f} /\ rows'[f] = row
      /\ \A g \in DOMAIN rows : rows'[g] = rows[g]
  BY <1>1, <1>3 DEF owner, tag
<1>5. /\ trail' \in [Findings -> SUBSET LifecycleEvent] /\ trail'[f] # {}
      /\ \A g \in Findings \ {f} : trail'[g] = trail[g]
  BY EmitStep DEF Discover
<1>6. RowsOK'
  <2>1. ASSUME NEW g \in DOMAIN rows'
        PROVE  /\ rows'[g] \in RowType(g)' /\ rows'[g].anchor <= rows'[g].seen
               /\ rows'[g].seen <= now
    <3>1. CASE g = f
      BY <1>3, <1>4, <3>1 DEF RowType
    <3>2. CASE g # f
      <4>1. g \in DOMAIN rows /\ rows'[g] = rows[g]
        BY <1>4, <2>1, <3>2
      <4> QED
        BY <4>1 DEF IInv, RowsOK, RowType
    <3> QED
      BY <3>1, <3>2
  <2> QED
    BY <1>3, <1>4, <1>5, <2>1 DEF IInv, RowsOK
<1>7. AdvisoriesOwned'
  BY <1>2, <1>4 DEF IInv, AdvisoriesOwned
<1> QED
  BY <1>6, <1>7 DEF IInv

LEMMA ReportStep ==
  ASSUME IInv, NEW f \in Findings, Report(f)
  PROVE  IInv'
<1> DEFINE o == MappedOwner(rows[f].from)
           t == MappedTag(rows[f].from)
<1>1. /\ f \in DOMAIN rows /\ rows[f] \in RowType(f)
  BY DEF Report, IInv, RowsOK
<1>2. rows[f].from.cat = "threat_center" => o = AdvisoryOwner
  BY <1>1, AdvisoryIs DEF RowType
<1>3. /\ DOMAIN rows' = DOMAIN rows /\ rows'[f] = Stamped(rows[f].from, rows[f])
      /\ \A g \in DOMAIN rows \ {f} : rows'[g] = rows[g]
      /\ UNCHANGED <<now, own, subs>>
  BY <1>1 DEF Report
<1>4. rows'[f] = Restamped(rows[f], o, t, "open")
  BY <1>1, <1>3 DEF Stamped, Restamped, RowType
<1> HIDE DEF o, t
<1>5. \A g \in DOMAIN rows : rows'[g] = rows[g] \/
        \E oo, tt : \E s \in {"open", "auto_closed"} :
          /\ rows'[g] = Restamped(rows[g], oo, tt, s)
          /\ rows[g].from.cat = "threat_center" => oo = AdvisoryOwner
  BY <1>2, <1>3, <1>4
<1>6. /\ trail' \in [Findings -> SUBSET LifecycleEvent]
      /\ \A g \in Findings : trail'[g] = {} <=> trail[g] = {}
  <2>1. CASE rows[f].status = "open"
    BY <2>1 DEF Report, IInv, RowsOK
  <2>2. CASE rows[f].status # "open"
    BY <1>1, <2>2, EmitStep DEF Report, IInv, RowsOK
  <2> QED
    BY <2>1, <2>2
<1> QED
  BY <1>3, <1>5, <1>6, RowsStep

LEMMA CloseStep ==
  ASSUME IInv, NEW f \in Findings, Close(f)
  PROVE  IInv'
<1>1. /\ f \in DOMAIN rows /\ rows[f] \in RowType(f)
      /\ (rows[f].from.cat = "threat_center" => rows[f].owner = AdvisoryOwner)
  BY DEF Close, IInv, RowsOK, AdvisoriesOwned
<1>2. /\ DOMAIN rows' = DOMAIN rows /\ rows'[f] = [rows[f] EXCEPT !.status = "auto_closed"]
      /\ \A g \in DOMAIN rows \ {f} : rows'[g] = rows[g]
      /\ UNCHANGED <<now, own, subs>>
  BY <1>1 DEF Close
<1>3. rows'[f] = Restamped(rows[f], rows[f].owner, rows[f].tag, "auto_closed")
  BY <1>1, <1>2 DEF Restamped, RowType
<1>4. \A g \in DOMAIN rows : rows'[g] = rows[g] \/
        \E o, t : \E s \in {"open", "auto_closed"} :
          /\ rows'[g] = Restamped(rows[g], o, t, s)
          /\ rows[g].from.cat = "threat_center" => o = AdvisoryOwner
  BY <1>1, <1>2, <1>3
<1>5. /\ trail' \in [Findings -> SUBSET LifecycleEvent]
      /\ \A g \in Findings : trail'[g] = {} <=> trail[g] = {}
  BY <1>1, EmitStep DEF Close, IInv, RowsOK
<1> QED
  BY <1>2, <1>4, <1>5, RowsStep

LEMMA ClockAndFiles ==
  ASSUME IInv, UNCHANGED <<rows, trail>>, now' \in Instants, now <= now',
         [own |-> own', subs |-> subs'] \in Files
  PROVE  IInv'
<1>1. \A f \in DOMAIN rows : rows[f].seen <= now'
  BY DEF IInv, RowsOK, RowType, Instants
<1>2. RowsOK'
  BY <1>1 DEF IInv, RowsOK, RowType
<1>3. AdvisoriesOwned'
  BY DEF IInv, AdvisoriesOwned
<1> QED
  BY <1>2, <1>3 DEF IInv

LEMMA Inductive == IInv /\ [Next]_vars => IInv'
<1> SUFFICES ASSUME IInv, [Next]_vars PROVE IInv'
  OBVIOUS
<1>1. ASSUME NEW f \in Findings, NEW x \in Profiles[f], Discover(f, x) PROVE IInv'
  BY <1>1, DiscoverStep
<1>2. ASSUME NEW f \in Findings, Report(f) \/ Close(f) PROVE IInv'
  BY <1>2, ReportStep, CloseStep
<1>3. CASE Reresolve \/ ReresolveServices \/ ReresolveClouds
  BY <1>3, OwnersStep DEF Reresolve, ReresolveServices, ReresolveClouds, Reresolved
<1>4. CASE Retag
  BY <1>4, OwnersStep DEF Retag
<1>5. now \in Int /\ [own |-> own, subs |-> subs] \in Files
  BY DEF IInv, RowsOK, Instants
<1>6. CASE Push
  <2>1. [own |-> own', subs |-> subs'] \in Files
    BY <1>6, DashboardAssumption DEF Push
  <2> QED
    BY <1>5, <1>6, <2>1, ClockAndFiles DEF Push, IInv, RowsOK
<1>7. CASE Tick
  BY <1>5, <1>7, ClockAndFiles DEF Tick
<1>8. CASE UNCHANGED vars
  BY <1>5, <1>8, ClockAndFiles DEF vars, IInv, RowsOK
<1> QED
  BY <1>1, <1>2, <1>3, <1>4, <1>6, <1>7, <1>8 DEF Next

LEMMA Invariance == Spec => []IInv
BY InitInv, Inductive, PTL DEF Spec

\* Rows and events keep their types, through ingest, the ownership jobs and
\* every new configuration, and a finding has events just when it has a row.
THEOREM TypeCorrect == Spec => []TypeOK
<1>1. IInv => TypeOK
  BY DEF IInv, RowsOK, RowType, TypeOK
<1> QED
  BY <1>1, Invariance, PTL

-----------------------------------------------------------------------------
(***************************************************************************)
(* The histories: what was open then, and what has happened since.         *)
(***************************************************************************)
\* Of a row: no two of its events are of one instant, the first one discovered
\* it, and the latest one tells its status.
Told(row, ev, t) ==
  /\ \A e \in ev : e.at <= t
  /\ \A e, x \in ev : e.at = x.at => e = x
  /\ \A e, x \in ev : e.type = "discovered" => e.at <= x.at
  /\ \E e \in ev : /\ \A x \in ev : x.at <= e.at
                   /\ row.status = "open" <=> e.type \notin Closing
TrailOK == \A f \in DOMAIN rows : Told(rows[f], trail[f], now)

\* open_at_instant: the last closing event up to t came before a reopening.
Replay(ev, t) ==
  LET closes == {c \in ev : c.type \in Closing /\ c.at <= t}
  IN  closes = {} \/ \E r \in ev : /\ r.type = "reopened" /\ r.at <= t
                                   /\ \A c \in closes : r.at > c.at

\* The findings of a set that are open, those that were open at t, and the
\* events of the set after t.
OpenOf(fs, rs) == {f \in fs : f \in DOMAIN rs /\ rs[f].status = "open"}
OpenThen(fs, rs, tr, t) ==
  {f \in fs : f \in DOMAIN rs /\ rs[f].seen <= t /\ Replay(tr[f], t)}
After(fs, tr, types, t) ==
  {x \in Findings \X LifecycleEvent :
     x[1] \in fs /\ x[2] \in tr[x[1]] /\ x[2].type \in types /\ x[2].at > t}

\* For every set of findings, whether or not a query selects it: as many more
\* are open now as events opened one and no other closed it again.
BalanceOK ==
  \A fs \in SUBSET Findings : \A t \in Int : t < now =>
    Cardinality(OpenOf(fs, rows)) - Cardinality(OpenThen(fs, rows, trail, t))
      = Cardinality(After(fs, trail, Inflow, t)) - Cardinality(After(fs, trail, Outflow, t))

HistoriesOK == TrailOK /\ BalanceOK

LEMMA ReplayIs ==
  ASSUME NEW f, NEW t
  PROVE  OpenByReplay(f, t) <=> Replay(trail[f], t)
<1> DEFINE closes == {c \in trail[f] : c.type \in Closing /\ c.at <= t}
<1>1. Times(f, Closing, t) = {} <=> closes = {}
  BY DEF Times
<1>2. ASSUME NEW n
      PROVE  (\A c \in Times(f, Closing, t) : n > c) <=> \A c \in closes : n > c.at
  BY DEF Times
<1>3. (\E r \in Times(f, {"reopened"}, t) : \A c \in Times(f, Closing, t) : r > c)
        <=> \E r \in trail[f] : /\ r.type = "reopened" /\ r.at <= t
                                /\ \A c \in closes : r.at > c.at
  BY <1>2 DEF Times
<1> QED
  BY <1>1, <1>3 DEF OpenByReplay, Replay

\* A replay of all events tells the status, and so does the last one alone.
LEMMA ToldReplay ==
  ASSUME NEW row, NEW ev \in SUBSET LifecycleEvent, NEW t \in Int, Told(row, ev, t)
  PROVE  /\ Replay(ev, t) <=> row.status = "open"
         /\ row.status = "open" <=>
              \A e \in ev : (\A x \in ev : x.at <= e.at) => e.type \notin Closing
<1> DEFINE closes == {c \in ev : c.type \in Closing /\ c.at <= t}
<1>1. \A e \in ev : e.at \in Int /\ e.at <= t
                    /\ e.type \in {"discovered", "auto_closed", "reopened"}
  BY DEF LifecycleEvent, Instants, Told
<1>2. PICK last \in ev : /\ \A x \in ev : x.at <= last.at
                         /\ row.status = "open" <=> last.type \notin Closing
  BY DEF Told
<1>3. \A e \in ev : (\A x \in ev : x.at <= e.at) => e = last
  BY <1>1, <1>2 DEF Told
<1>4. \A e \in ev : e.at < last.at \/ e = last
  BY <1>1, <1>2 DEF Told
<1>5. "discovered" \notin Closing /\ "reopened" \notin Closing /\ "auto_closed" \in Closing
  BY DEF Closing
<1>6. ASSUME last.type = "auto_closed"
      PROVE  Replay(ev, t) <=> row.status = "open"
  <2>1. last \in closes
    BY <1>1, <1>5, <1>6
  <2>2. \A r \in ev : r.type = "reopened" => ~(r.at > last.at)
    BY <1>1, <1>2
  <2> QED
    BY <1>2, <1>5, <1>6, <2>1, <2>2 DEF Replay
<1>7. ASSUME last.type = "reopened"
      PROVE  Replay(ev, t) <=> row.status = "open"
  <2>1. \A c \in closes : last.at > c.at
    BY <1>1, <1>4, <1>5, <1>7
  <2> QED
    BY <1>1, <1>2, <1>5, <1>7, <2>1 DEF Replay
<1>8. ASSUME last.type = "discovered"
      PROVE  Replay(ev, t) <=> row.status = "open"
  <2>1. \A e \in ev : e = last
    BY <1>1, <1>4, <1>8 DEF Told
  <2>2. closes = {}
    BY <1>5, <1>8, <2>1
  <2> QED
    BY <1>2, <1>5, <1>8, <2>2 DEF Replay
<1>9. Replay(ev, t) <=> row.status = "open"
  BY <1>1, <1>6, <1>7, <1>8
<1>10. row.status = "open" <=>
         \A e \in ev : (\A x \in ev : x.at <= e.at) => e.type \notin Closing
  BY <1>2, <1>3
<1> QED
  BY <1>9, <1>10

\* Findings and events are finitely many.
LEMMA FewEvents ==
  /\ \A s \in SUBSET Findings : IsFiniteSet(s) /\ Cardinality(s) \in Nat
  /\ \A s \in SUBSET (Findings \X LifecycleEvent) : IsFiniteSet(s) /\ Cardinality(s) \in Nat
<1>1. IsFiniteSet(Findings)
  BY DashboardAssumption
<1>2. IsFiniteSet(LifecycleEvent)
  <2> DEFINE types == {"discovered", "auto_closed", "reopened"}
             pairs == Instants \X types
             f == [p \in pairs |-> [at |-> p[1], type |-> p[2]]]
  <2>1. IsFiniteSet(Instants)
    <3>1. 0 \in Int /\ LastInstant \in Int
      BY DashboardAssumption
    <3> QED
      BY <3>1, FS_Interval DEF Instants
  <2>2. IsFiniteSet(types)
    <3>1. IsFiniteSet({"discovered"}) /\ IsFiniteSet({"auto_closed"}) /\ IsFiniteSet({"reopened"})
      BY FS_Singleton
    <3>2. IsFiniteSet({"discovered"} \cup {"auto_closed"})
      BY <3>1, FS_Union
    <3>3. IsFiniteSet(({"discovered"} \cup {"auto_closed"}) \cup {"reopened"})
      BY <3>1, <3>2, FS_Union
    <3>4. types = ({"discovered"} \cup {"auto_closed"}) \cup {"reopened"}
      OBVIOUS
    <3> QED
      BY <3>3, <3>4
  <2>3. IsFiniteSet(pairs)
    BY <2>1, <2>2, FS_Product
  <2>4. f \in Surjection(pairs, LifecycleEvent)
    <3>1. f \in [pairs -> LifecycleEvent]
      BY DEF LifecycleEvent
    <3>2. ASSUME NEW e \in LifecycleEvent
          PROVE  \E p \in pairs : f[p] = e
      <4>1. <<e.at, e.type>> \in pairs /\ e = [at |-> e.at, type |-> e.type]
        BY DEF LifecycleEvent
      <4> QED
        BY <4>1
    <3> QED
      BY <3>1, <3>2 DEF Surjection
  <2> QED
    BY <2>3, <2>4, FS_Surjection
<1>3. IsFiniteSet(Findings \X LifecycleEvent)
  BY <1>1, <1>2, FS_Product
<1> QED
  BY <1>1, <1>3, FS_Subset, FS_CardinalityType

\* What a step does to the histories: nothing, or one event of one finding
\* that changes its status.
Same(f) == rows'[f].status = rows[f].status /\ rows'[f].seen = rows[f].seen
Silent ==
  /\ trail' = trail /\ DOMAIN rows' = DOMAIN rows
  /\ \A f \in DOMAIN rows : Same(f)
Marked(f, type) ==
  /\ now' = now /\ Emit(f, type) /\ Quiet(f)
  /\ DOMAIN rows' = DOMAIN rows \cup {f}
  /\ \A g \in DOMAIN rows \ {f} : Same(g)
  /\ \/ type = "discovered" /\ f \notin DOMAIN rows /\ rows'[f].seen = now
     \/ /\ f \in DOMAIN rows /\ rows'[f].seen = rows[f].seen
        /\ \/ type = "reopened" /\ rows[f].status # "open"
           \/ type = "auto_closed" /\ rows[f].status = "open"
  /\ rows'[f].status = IF type = "auto_closed" THEN "auto_closed" ELSE "open"

LEMMA Moves ==
  ASSUME IInv, [Next]_vars
  PROVE  \/ Silent /\ (now' = now \/ now' = now + 1)
         \/ \E f \in Findings : \E type \in {"discovered", "auto_closed", "reopened"} :
              Marked(f, type)
<1>1. ASSUME NEW f \in DOMAIN rows
      PROVE  rows[f] \in RowType(f)
  BY DEF IInv, RowsOK
<1>2. ASSUME NEW f \in Findings, NEW x \in Profiles[f], Discover(f, x)
      PROVE  Marked(f, "discovered")
  <2>1. trail[f] = {}
    BY <1>2 DEF Discover, IInv, RowsOK
  <2>2. PICK t \in {0, now} :
          rows' = [g \in DOMAIN rows \cup {f} |->
                     IF g = f THEN [from |-> x, owner |-> MappedOwner(x),
                                    tag |-> MappedTag(x), status |-> "open",
                                    seen |-> now, anchor |-> t]
                              ELSE rows[g]]
    BY <1>2 DEF Discover
  <2>3. /\ DOMAIN rows' = DOMAIN rows \cup {f} /\ rows'[f].status = "open"
        /\ rows'[f].seen = now /\ \A g \in DOMAIN rows \ {f} : rows'[g] = rows[g]
    BY <2>2
  <2> QED
    BY <1>2, <2>1, <2>3 DEF Discover, Marked, Same, Quiet
<1>3. ASSUME NEW f \in Findings, Report(f)
      PROVE  (Silent /\ now' = now) \/ Marked(f, "reopened")
  <2>1. /\ f \in DOMAIN rows /\ DOMAIN rows' = DOMAIN rows
        /\ rows'[f] = Stamped(rows[f].from, rows[f])
        /\ \A g \in DOMAIN rows \ {f} : rows'[g] = rows[g]
    BY <1>3 DEF Report
  <2>2. rows'[f].status = "open" /\ rows'[f].seen = rows[f].seen
    BY <1>1, <2>1 DEF Stamped, RowType
  <2> QED
    BY <1>3, <2>1, <2>2 DEF Report, Silent, Marked, Same
<1>4. ASSUME NEW f \in Findings, Close(f)
      PROVE  Marked(f, "auto_closed")
  <2>1. /\ f \in DOMAIN rows /\ DOMAIN rows' = DOMAIN rows
        /\ rows'[f] = [rows[f] EXCEPT !.status = "auto_closed"]
        /\ \A g \in DOMAIN rows \ {f} : rows'[g] = rows[g]
    BY <1>4 DEF Close
  <2>2. rows'[f].status = "auto_closed" /\ rows'[f].seen = rows[f].seen
    BY <1>1, <2>1 DEF RowType
  <2> QED
    BY <1>4, <2>1, <2>2 DEF Close, Marked, Same
<1>5. CASE Reresolve \/ ReresolveServices \/ ReresolveClouds \/ Retag
  <2>1. /\ DOMAIN rows' = DOMAIN rows /\ trail' = trail /\ now' = now
    BY <1>5 DEF Reresolve, ReresolveServices, ReresolveClouds, Reresolved, Retag
  <2>2. ASSUME NEW f \in DOMAIN rows
        PROVE  Same(f)
    <3>1. \/ rows'[f] = rows[f]
          \/ \E o : rows'[f] = [rows[f] EXCEPT !.owner = o]
          \/ \E t : rows'[f] = [rows[f] EXCEPT !.tag = t]
      BY <1>5 DEF Reresolve, ReresolveServices, ReresolveClouds, Reresolved, Retag
    <3> QED
      BY <1>1, <3>1 DEF Same, RowType
  <2> QED
    BY <2>1, <2>2 DEF Silent
<1>6. CASE Push \/ Tick \/ UNCHANGED vars
  BY <1>6 DEF Push, Tick, vars, Silent, Same
<1> QED
  BY <1>2, <1>3, <1>4, <1>5, <1>6 DEF Next

LEMMA MarkedIs ==
  ASSUME IInv, NEW f \in Findings, NEW type \in {"discovered", "auto_closed", "reopened"},
         Marked(f, type)
  PROVE  /\ [at |-> now, type |-> type] \in LifecycleEvent
         /\ trail'[f] = trail[f] \cup {[at |-> now, type |-> type]}
         /\ \A g \in Findings \ {f} : trail'[g] = trail[g]
         /\ \A e \in trail[f] : e.at < now
<1> DEFINE e == [at |-> now, type |-> type]
<1>1. e \in LifecycleEvent /\ trail \in [Findings -> SUBSET LifecycleEvent]
  BY DEF IInv, RowsOK, LifecycleEvent
<1>2. trail' = [trail EXCEPT ![f] = @ \cup {e}] /\ Quiet(f)
  BY DEF Marked, Emit
<1> HIDE DEF e
<1>3. trail'[f] = trail[f] \cup {e} /\ \A g \in Findings \ {f} : trail'[g] = trail[g]
  BY <1>1, <1>2
<1> QED
  BY <1>1, <1>2, <1>3 DEF Quiet, e

LEMMA TrailStep ==
  ASSUME IInv, TrailOK, [Next]_vars
  PROVE  TrailOK'
<1>1. /\ DOMAIN rows \subseteq Findings /\ now \in Int
      /\ \A f \in Findings : \A e \in trail[f] : e.at \in Int
      /\ \A f \in Findings : trail[f] = {} <=> f \notin DOMAIN rows
  BY DEF IInv, RowsOK, LifecycleEvent, Instants
<1>2. CASE Silent /\ (now' = now \/ now' = now + 1)
  <2>1. ASSUME NEW f \in DOMAIN rows
        PROVE  Told(rows'[f], trail[f], now')
    <3>1. Told(rows[f], trail[f], now) /\ rows'[f].status = rows[f].status
      BY <1>2 DEF TrailOK, Silent, Same
    <3>2. \A e \in trail[f] : e.at <= now'
      BY <1>1, <1>2, <3>1 DEF Told
    <3> QED
      BY <3>1, <3>2 DEF Told
  <2> QED
    BY <1>2, <2>1 DEF TrailOK, Silent
<1>3. ASSUME NEW f \in Findings, NEW type \in {"discovered", "auto_closed", "reopened"},
             Marked(f, type)
      PROVE  TrailOK'
  <2> DEFINE e == [at |-> now, type |-> type]
             ev == trail[f]
             row == rows'[f]
  <2>1. /\ trail'[f] = ev \cup {e} /\ \A x \in ev : x.at < now
        /\ \A g \in Findings \ {f} : trail'[g] = trail[g]
        /\ now' = now
    BY <1>3, MarkedIs DEF Marked
  <2>2. e.at = now /\ e.type = type
    OBVIOUS
  <2>3. row.status = "open" <=> type \notin Closing
    BY <1>3 DEF Marked, Closing
  <2>4. /\ \A x \in ev : x.at \in Int /\ x.at < e.at
        /\ type = "discovered" => ev = {}
    BY <1>1, <1>3, <2>1, <2>2 DEF Marked
  <2>5. \A x, y \in ev : /\ x.at = y.at => x = y
                         /\ x.type = "discovered" => x.at <= y.at
    <3>1. CASE f \in DOMAIN rows
      BY <3>1 DEF TrailOK, Told
    <3>2. CASE f \notin DOMAIN rows
      BY <1>1, <3>2
    <3> QED
      BY <3>1, <3>2
  <2> HIDE DEF e, ev, row
  <2> DEFINE evs == ev \cup {e}
  <2>6. \A x \in evs : x.at \in Int /\ x.at <= now
    BY <1>1, <2>2, <2>4
  <2>7. \A x, y \in evs : x.at = y.at => x = y
    BY <1>1, <2>2, <2>4, <2>5
  <2>8. \A x, y \in evs : x.type = "discovered" => x.at <= y.at
    BY <1>1, <2>2, <2>4, <2>5
  <2>9. e \in evs /\ (\A x \in evs : x.at <= e.at) /\ (row.status = "open" <=> e.type \notin Closing)
    BY <2>2, <2>3, <2>6
  <2>10. Told(row, evs, now)
    BY <2>6, <2>7, <2>8, <2>9 DEF Told
  <2>11. ASSUME NEW g \in DOMAIN rows', g # f
         PROVE  Told(rows'[g], trail'[g], now)
    <3>1. g \in DOMAIN rows \ {f}
      BY <1>3, <2>11 DEF Marked
    <3>2. Told(rows[g], trail[g], now) /\ rows'[g].status = rows[g].status
      BY <1>3, <3>1 DEF TrailOK, Marked, Same
    <3>3. trail'[g] = trail[g]
      BY <1>1, <2>1, <3>1
    <3> QED
      BY <3>2, <3>3 DEF Told
  <2> QED
    BY <2>1, <2>10, <2>11 DEF TrailOK, ev, row
<1> QED
  BY <1>2, <1>3, Moves

\* An event of f in a set of findings is one more after every earlier instant;
\* what had happened then stays as it was.
LEMMA OneMore ==
  ASSUME IInv, NEW f \in Findings, NEW type \in {"discovered", "auto_closed", "reopened"},
         Marked(f, type), NEW fs \in SUBSET Findings, NEW t \in Int, t < now
  PROVE  /\ OpenThen(fs, rows', trail', t) = OpenThen(fs, rows, trail, t)
         /\ \A types : Cardinality(After(fs, trail', types, t))
                         = Cardinality(After(fs, trail, types, t))
                             + (IF f \in fs /\ type \in types THEN 1 ELSE 0)
         /\ Cardinality(OpenOf(fs, rows'))
              = Cardinality(OpenOf(fs, rows))
                  + (IF f \notin fs THEN 0 ELSE IF type = "auto_closed" THEN -1 ELSE 1)
<1> DEFINE e == [at |-> now, type |-> type]
<1>1. /\ e \in LifecycleEvent /\ trail'[f] = trail[f] \cup {e}
      /\ \A g \in Findings \ {f} : trail'[g] = trail[g]
      /\ \A x \in trail[f] : x.at < now
  BY MarkedIs
<1>2. /\ now \in Int /\ DOMAIN rows \subseteq Findings
      /\ \A g \in Findings : trail[g] \subseteq LifecycleEvent
      /\ \A x \in LifecycleEvent : x.at \in Int
      /\ \A g \in DOMAIN rows : rows[g].seen \in Int
  BY DEF IInv, RowsOK, LifecycleEvent, Instants, RowType
<1>3. e.at = now /\ e.type = type
  OBVIOUS
<1>4. /\ DOMAIN rows' = DOMAIN rows \cup {f}
      /\ \A g \in DOMAIN rows \ {f} : Same(g)
      /\ f \in DOMAIN rows => rows'[f].seen = rows[f].seen
      /\ f \notin DOMAIN rows => rows'[f].seen = now
  BY DEF Marked
<1> HIDE DEF e
<1>5. ASSUME NEW ev \in SUBSET LifecycleEvent
      PROVE  Replay(ev \cup {e}, t) <=> Replay(ev, t)
  <2>1. ~(e.at <= t)
    BY <1>2, <1>3
  <2>2. {c \in ev \cup {e} : c.type \in Closing /\ c.at <= t}
          = {c \in ev : c.type \in Closing /\ c.at <= t}
    BY <2>1
  <2> DEFINE closes == {c \in ev : c.type \in Closing /\ c.at <= t}
  <2> HIDE DEF closes
  <2>3. (\E r \in ev \cup {e} : /\ r.type = "reopened" /\ r.at <= t
                                /\ \A c \in closes : r.at > c.at)
          <=> \E r \in ev : /\ r.type = "reopened" /\ r.at <= t
                            /\ \A c \in closes : r.at > c.at
    BY <2>1
  <2> QED
    BY <2>2, <2>3 DEF Replay, closes
<1>6. ASSUME NEW g \in fs
      PROVE  (g \in DOMAIN rows' /\ rows'[g].seen <= t /\ Replay(trail'[g], t))
               <=> (g \in DOMAIN rows /\ rows[g].seen <= t /\ Replay(trail[g], t))
  <2>1. CASE g # f
    BY <1>1, <1>4, <2>1 DEF Same
  <2>2. CASE g = f /\ f \in DOMAIN rows
    BY <1>1, <1>2, <1>4, <1>5, <2>2
  <2>3. CASE g = f /\ f \notin DOMAIN rows
    BY <1>2, <1>4, <2>3
  <2> QED
    BY <2>1, <2>2, <2>3
<1>7. OpenThen(fs, rows', trail', t) = OpenThen(fs, rows, trail, t)
  BY <1>6 DEF OpenThen
<1>8. ASSUME NEW types
      PROVE  Cardinality(After(fs, trail', types, t))
               = Cardinality(After(fs, trail, types, t))
                   + (IF f \in fs /\ type \in types THEN 1 ELSE 0)
  <2> DEFINE a == After(fs, trail, types, t)
             b == After(fs, trail', types, t)
             x == <<f, e>>
  <2>1. a \in SUBSET (Findings \X LifecycleEvent) /\ IsFiniteSet(a) /\ Cardinality(a) \in Nat
    <3>1. a \in SUBSET (Findings \X LifecycleEvent)
      BY DEF After
    <3> QED
      BY <3>1, FewEvents
  <2>2. x \in Findings \X LifecycleEvent /\ x[1] = f /\ x[2] = e
    BY <1>1
  <2>3. x \notin a
    <3>1. e \notin trail[f]
      BY <1>1, <1>2, <1>3
    <3> QED
      BY <2>2, <3>1 DEF After
  <2>4. ASSUME NEW y \in Findings \X LifecycleEvent
        PROVE  y[2] \in trail'[y[1]] <=> (y[2] \in trail[y[1]] \/ y = x)
    <3>1. y = <<y[1], y[2]>> /\ y[1] \in Findings
      OBVIOUS
    <3>2. CASE y[1] = f
      BY <1>1, <3>1, <3>2
    <3>3. CASE y[1] # f
      BY <1>1, <2>2, <3>1, <3>3
    <3> QED
      BY <3>2, <3>3
  <2>5. CASE f \in fs /\ type \in types
    <3>1. b = a \cup {x}
      <4>1. \A y \in Findings \X LifecycleEvent : y \in b <=> (y \in a \/ y = x)
        BY <1>2, <1>3, <2>2, <2>4, <2>5 DEF After
      <4> QED
        BY <2>1, <2>2, <4>1 DEF After
    <3> HIDE DEF a, b, x
    <3>2. Cardinality(b) = Cardinality(a) + 1
      BY <2>1, <2>3, <3>1, FS_AddElement
    <3> QED
      BY <2>5, <3>2 DEF a, b
  <2>6. CASE ~(f \in fs /\ type \in types)
    <3>1. \A y \in Findings \X LifecycleEvent : y \in b <=> y \in a
      BY <1>3, <2>2, <2>4, <2>6 DEF After
    <3>2. b = a
      BY <3>1 DEF After
    <3> HIDE DEF a, b, x
    <3> QED
      BY <2>1, <2>6, <3>2 DEF a, b
  <2> QED
    BY <2>5, <2>6
<1>9. Cardinality(OpenOf(fs, rows'))
        = Cardinality(OpenOf(fs, rows))
            + (IF f \notin fs THEN 0 ELSE IF type = "auto_closed" THEN -1 ELSE 1)
  <2> DEFINE a == OpenOf(fs, rows)
             b == OpenOf(fs, rows')
  <2>1. a \in SUBSET Findings /\ IsFiniteSet(a) /\ Cardinality(a) \in Nat
    <3>1. a \in SUBSET Findings
      BY DEF OpenOf
    <3> QED
      BY <3>1, FewEvents
  <2>2. \A g \in fs \ {f} : g \in b <=> g \in a
    BY <1>4 DEF OpenOf, Same
  <2>3. CASE f \notin fs
    <3>1. a = b
      BY <2>2, <2>3 DEF OpenOf
    <3> HIDE DEF a, b
    <3> QED
      BY <2>1, <2>3, <3>1 DEF a, b
  <2>4. CASE f \in fs /\ type = "auto_closed"
    <3>1. f \in a /\ b = a \ {f}
      <4>1. f \in a /\ f \notin b
        BY <2>4 DEF Marked, OpenOf
      <4> QED
        BY <2>2, <4>1 DEF OpenOf
    <3> HIDE DEF a, b
    <3>2. Cardinality(b) = Cardinality(a) - 1
      BY <2>1, <3>1, FS_RemoveElement
    <3> QED
      BY <2>1, <2>4, <3>2 DEF a, b
  <2>5. CASE f \in fs /\ type # "auto_closed"
    <3>1. f \notin a /\ b = a \cup {f}
      <4>1. f \notin a /\ f \in b
        BY <2>5 DEF Marked, OpenOf
      <4> QED
        BY <2>2, <2>5, <4>1 DEF OpenOf
    <3> HIDE DEF a, b
    <3>2. Cardinality(b) = Cardinality(a) + 1
      BY <2>1, <3>1, FS_AddElement
    <3> QED
      BY <2>1, <2>5, <3>2 DEF a, b
  <2> QED
    BY <2>3, <2>4, <2>5
<1> QED
  BY <1>7, <1>8, <1>9

LEMMA BalanceStep ==
  ASSUME IInv, TrailOK, BalanceOK, [Next]_vars
  PROVE  BalanceOK'
<1>1. now \in Int /\ DOMAIN rows \subseteq Findings
  BY DEF IInv, RowsOK, Instants
<1>2. ASSUME NEW fs \in SUBSET Findings, NEW t \in Int, NEW types
      PROVE  /\ Cardinality(OpenOf(fs, rows)) \in Nat
             /\ Cardinality(OpenThen(fs, rows, trail, t)) \in Nat
             /\ Cardinality(After(fs, trail, types, t)) \in Nat
  BY FewEvents DEF OpenOf, OpenThen, After
<1>3. CASE Silent /\ (now' = now \/ now' = now + 1)
  <2>1. ASSUME NEW fs \in SUBSET Findings, NEW t \in Int
        PROVE  /\ OpenOf(fs, rows') = OpenOf(fs, rows)
               /\ OpenThen(fs, rows', trail', t) = OpenThen(fs, rows, trail, t)
    BY <1>3 DEF Silent, Same, OpenOf, OpenThen
  \* At this very instant the replay tells what is open, and nothing comes
  \* after it.
  <2>2. ASSUME NEW fs \in SUBSET Findings
        PROVE  /\ OpenThen(fs, rows, trail, now) = OpenOf(fs, rows)
               /\ \A types : After(fs, trail, types, now) = {}
    <3>1. ASSUME NEW f \in DOMAIN rows
          PROVE  /\ rows[f].seen <= now /\ Replay(trail[f], now) <=> rows[f].status = "open"
      <4>1. Told(rows[f], trail[f], now) /\ trail[f] \in SUBSET LifecycleEvent
        BY <1>1 DEF TrailOK, IInv, RowsOK
      <4> QED
        BY <1>1, <4>1, ToldReplay DEF IInv, RowsOK
    <3>2. \A f \in Findings : \A e \in trail[f] : ~(e.at > now)
      BY <1>1 DEF TrailOK, Told, IInv, RowsOK, LifecycleEvent, Instants
    <3> QED
      BY <3>1, <3>2 DEF OpenOf, OpenThen, After
  <2>3. ASSUME NEW fs \in SUBSET Findings, NEW t \in Int, t < now'
        PROVE  Cardinality(OpenOf(fs, rows)) - Cardinality(OpenThen(fs, rows, trail, t))
                 = Cardinality(After(fs, trail, Inflow, t))
                     - Cardinality(After(fs, trail, Outflow, t))
    <3>1. CASE t < now
      BY <3>1 DEF BalanceOK
    <3>2. CASE t = now
      BY <1>2, <2>2, <3>2, FS_EmptySet
    <3> QED
      BY <1>1, <1>3, <2>3, <3>1, <3>2
  <2> QED
    BY <1>3, <2>1, <2>3 DEF BalanceOK, Silent
<1>4. ASSUME NEW f \in Findings, NEW type \in {"discovered", "auto_closed", "reopened"},
             Marked(f, type)
      PROVE  BalanceOK'
  <2>1. now' = now
    BY <1>4 DEF Marked
  <2>2. ASSUME NEW fs \in SUBSET Findings, NEW t \in Int, t < now
        PROVE  Cardinality(OpenOf(fs, rows')) - Cardinality(OpenThen(fs, rows', trail', t))
                 = Cardinality(After(fs, trail', Inflow, t))
                     - Cardinality(After(fs, trail', Outflow, t))
    <3> DEFINE open == Cardinality(OpenOf(fs, rows))
               then == Cardinality(OpenThen(fs, rows, trail, t))
               inflow == Cardinality(After(fs, trail, Inflow, t))
               outflow == Cardinality(After(fs, trail, Outflow, t))
    <3>1. open - then = inflow - outflow
      BY <2>2 DEF BalanceOK
    <3>2. open \in Int /\ then \in Int /\ inflow \in Int /\ outflow \in Int
      BY <1>2
    <3>3. /\ Cardinality(OpenThen(fs, rows', trail', t)) = then
          /\ Cardinality(After(fs, trail', Inflow, t))
               = inflow + (IF f \in fs /\ type \in Inflow THEN 1 ELSE 0)
          /\ Cardinality(After(fs, trail', Outflow, t))
               = outflow + (IF f \in fs /\ type \in Outflow THEN 1 ELSE 0)
          /\ Cardinality(OpenOf(fs, rows'))
               = open + (IF f \notin fs THEN 0 ELSE IF type = "auto_closed" THEN -1 ELSE 1)
      BY <1>4, <2>2, OneMore
    <3>4. type \in Inflow <=> type # "auto_closed"
      BY DEF Inflow
    <3>5. type \in Outflow <=> type = "auto_closed"
      BY DEF Outflow
    <3> HIDE DEF open, then, inflow, outflow
    <3> QED
      BY <3>1, <3>2, <3>3, <3>4, <3>5
  <2> QED
    BY <2>1, <2>2 DEF BalanceOK
<1> QED
  BY <1>3, <1>4, Moves

LEMMA HistoriesInvariance == Spec => [](IInv /\ HistoriesOK)
<1>1. Init => HistoriesOK
  <2> SUFFICES ASSUME Init PROVE HistoriesOK
    OBVIOUS
  <2>1. DOMAIN rows = {} /\ now = 0 /\ \A f \in Findings : trail[f] = {}
    BY DEF Init
  <2>2. ASSUME NEW fs \in SUBSET Findings, NEW t \in Int, NEW types
        PROVE  /\ OpenOf(fs, rows) = {} /\ OpenThen(fs, rows, trail, t) = {}
               /\ After(fs, trail, types, t) = {}
    BY <2>1 DEF OpenOf, OpenThen, After
  <2> QED
    BY <2>1, <2>2 DEF HistoriesOK, TrailOK, BalanceOK
<1>2. IInv /\ HistoriesOK /\ [Next]_vars => HistoriesOK'
  BY TrailStep, BalanceStep DEF HistoriesOK
<1> QED
  BY <1>1, <1>2, InitInv, Inductive, PTL DEF Spec

LEMMA ToldLatest ==
  ASSUME NEW row, NEW ev \in SUBSET LifecycleEvent, NEW t \in Int, Told(row, ev, t)
  PROVE  \E e \in ev : /\ \A x \in ev \ {e} : x.at < e.at
                       /\ row.status = "open" <=> e.type \notin Closing
<1>1. PICK last \in ev : /\ \A x \in ev : x.at <= last.at
                         /\ row.status = "open" <=> last.type \notin Closing
  BY DEF Told
<1>2. \A x \in ev : x.at \in Int
  BY DEF LifecycleEvent, Instants
<1>3. \A x \in ev : x.at < last.at \/ x = last
  BY <1>1, <1>2 DEF Told
<1> QED
  BY <1>1, <1>3

\* What the replays and the event counts of the pages rest on: an instant has at
\* most one of a finding's lifecycle events, and whatever ingest, reopenings and
\* ownership jobs did, the last of all is what the status column says.
StatusIsLatest ==
  \A f \in DOMAIN rows : \E e \in trail[f] :
    /\ \A x \in trail[f] \ {e} : x.at < e.at
    /\ rows[f].status = "open" <=> e.type \notin Closing

THEOREM LatestEventTells == Spec => []StatusIsLatest
<1>1. ASSUME IInv, TrailOK, NEW f \in DOMAIN rows
      PROVE  \E e \in trail[f] : /\ \A x \in trail[f] \ {e} : x.at < e.at
                                 /\ rows[f].status = "open" <=> e.type \notin Closing
  <2>1. Told(rows[f], trail[f], now) /\ trail[f] \in SUBSET LifecycleEvent /\ now \in Int
    BY <1>1 DEF TrailOK, IInv, RowsOK, Instants
  <2> QED
    BY <2>1, ToldLatest
<1>2. IInv /\ HistoriesOK => StatusIsLatest
  BY <1>1 DEF HistoriesOK, StatusIsLatest
<1> QED
  BY <1>2, HistoriesInvariance, PTL

-----------------------------------------------------------------------------
(***************************************************************************)
(* The answers.                                                            *)
(***************************************************************************)
\* platform_pillar_asymmetric_clause and platform_pillar_source_clause select
\* the same rows of a source.
LEMMA TabsAgree ==
  ASSUME NEW tab, NEW src, NEW r
  PROVE  OnTabFrom(tab, src, r) <=> OnTab(tab, r) /\ r.from.src = src
<1>1. /\ ThreatClause(r) \in BOOLEAN /\ WizOn(tab, WizTeams(tab), r) \in BOOLEAN
      /\ WizOn(tab, WizTeams(tab), r) => r.from.src = "wiz"
  BY DEF ThreatClause, WizOn, UnownedOn, CodeOwnedOn, IsWiz
<1>2. "wiz" \notin CodeSources
  BY DEF CodeSources
<1>3. CASE tab = ThreatIntel
  BY <1>1, <1>3 DEF OnTabFrom, OnTab
<1>4. CASE tab # ThreatIntel /\ src = "wiz"
  BY <1>1, <1>2, <1>4 DEF OnTabFrom, OnTab
<1>5. CASE tab # ThreatIntel /\ src # "wiz"
  <2>1. OnTab(tab, r) /\ r.from.src = src <=>
          r.from.src = src /\ src \in CodeSources /\ r.owner \in CodeTeams(tab)
    BY <1>1, <1>5 DEF OnTab
  <2>2. OnTabFrom(tab, src, r) <=>
          r.from.src = src /\ src \in CodeSources /\ r.owner \in CodeTeams(tab)
    BY <1>5 DEF OnTabFrom
  <2> QED
    BY <2>1, <2>2
<1> QED
  BY <1>3, <1>4, <1>5

\* A row's badge and the filter say the same of its SLA.
LEMMA BreachesAgree ==
  ASSUME IInv, NEW f \in DOMAIN rows
  PROVE  BreachPredicate(rows[f]) <=> Breached(rows[f])
<1> DEFINE r == rows[f]
           sev == r.from.sev
<1>1. /\ sev \in Severities /\ r.anchor \in Int /\ now \in Int
  BY DashboardAssumption DEF IInv, RowsOK, RowType, Instants
<1>2. Window[sev] \in Nat \cup {None}
  BY <1>1, QueriesAssumption
<1> HIDE DEF r
<1>3. BreachPredicate(r) <=> /\ IsOpen(r) /\ Window[sev] # None
                             /\ now - Window[sev] > r.anchor
  BY <1>1 DEF BreachPredicate
<1>4. Window[sev] # None =>
        (now - Window[sev] > r.anchor <=> now - r.anchor > Window[sev])
  BY <1>1, <1>2
<1>5. BreachPredicate(r) <=> Breached(r)
  BY <1>3, <1>4 DEF Breached
<1> QED
  BY <1>5 DEF r

\* What a parameter does not change.
LEMMA BreachedOnly ==
  ASSUME NEW q, DOMAIN q = DOMAIN NoQuery
  PROVE  LET x == [q EXCEPT !.breached = TRUE]
         IN  /\ Teams(x) = Teams(q) /\ Assets(x) = Assets(q)
             /\ Refused(Reg, own, x) <=> Refused(Reg, own, q)
             /\ x.sources = q.sources /\ x.tab = q.tab /\ x.teams = q.teams
             /\ x.cat = q.cat /\ x.breached = TRUE
<1> DEFINE x == [q EXCEPT !.breached = TRUE]
<1>1. /\ x.teams = q.teams /\ x.exec = q.exec /\ x.jira = q.jira /\ x.app = q.app
      /\ x.service = q.service /\ x.repo = q.repo /\ x.sources = q.sources
      /\ x.tab = q.tab /\ x.cat = q.cat /\ x.breached = TRUE
  BY DEF NoQuery
<1> HIDE DEF x
<1>2. Teams(x) = Teams(q) /\ Assets(x) = Assets(q)
  BY <1>1 DEF Teams, Assets, ScopeTeams, ScopeAssets
<1>3. Refused(Reg, own, x) <=> Refused(Reg, own, q)
  BY <1>1 DEF Refused
<1> QED
  BY <1>1, <1>2, <1>3 DEF x

\* list_findings selects what security_posture counts.
LEMMA ListIsPosture ==
  ASSUME NEW q, ~Refused(Reg, own, q), ~Forbidden(q, FALSE),
         ~q.issues, q.cat = None
  PROVE  List(q, FALSE) =
           {f \in Posture(q) : q.breached # None => q.breached = BreachPredicate(rows[f])}
<1>1. q.sources \cap AdminOnly = {}
  BY DEF Forbidden
<1>2. ASSUME NEW f \in DOMAIN rows
      PROVE  InSources(q, rows[f]) /\ InScope(q, Teams(q), rows[f])
               <=> /\ IF q.tab = None THEN InTeams(Teams(q), rows[f])
                                      ELSE OnTab(q.tab, rows[f])
                   /\ InSources(q, rows[f])
  <2>1. CASE q.tab = None
    <3>1. InTeams(Teams(q), rows[f]) \in BOOLEAN
      BY DEF InTeams
    <3> QED
      BY <2>1, <3>1 DEF InScope
  <2>2. CASE q.tab # None /\ q.sources = {}
    <3>1. OnTab(q.tab, rows[f]) \in BOOLEAN
      BY DEF OnTab, ThreatClause
    <3> QED
      BY <2>2, <3>1 DEF InScope
  <2>3. CASE q.tab # None /\ q.sources # {}
    <3>1. InScope(q, Teams(q), rows[f]) <=>
            \E src \in q.sources : OnTab(q.tab, rows[f]) /\ rows[f].from.src = src
      BY <2>3, TabsAgree DEF InScope
    <3> QED
      BY <2>3, <3>1 DEF InSources
  <2> QED
    BY <2>1, <2>2, <2>3
<1>3. \A f \in DOMAIN rows : IssuesOnly(q, q.tab, rows[f])
  BY DEF IssuesOnly
<1>4. List(q, FALSE) =
        {f \in DOMAIN rows :
           /\ Shown(rows[f]) /\ IsOpen(rows[f]) /\ InSources(q, rows[f])
           /\ InScope(q, Teams(q), rows[f])
           /\ InTriage(q, rows[f]) /\ InAssets(Assets(q), rows[f])
           /\ q.breached # None => q.breached = BreachPredicate(rows[f])}
  BY <1>1 DEF List
<1>5. Posture(q) =
        {f \in DOMAIN rows :
           /\ Shown(rows[f]) /\ IsOpen(rows[f])
           /\ IF q.tab = None THEN InTeams(Teams(q), rows[f]) ELSE OnTab(q.tab, rows[f])
           /\ InTriage(q, rows[f]) /\ InAssets(Assets(q), rows[f]) /\ InSources(q, rows[f])}
  BY <1>3 DEF Posture
<1> QED
  BY <1>2, <1>4, <1>5

\* /findings and /metrics/security-posture: whoever clicks on a headline sees
\* what it counted, and ?sla_breached=true keeps what is marked as breached.
THEOREM HeadlineIsList == Spec => []HeadlineDrillsDown
<1>1. ASSUME IInv,
             NEW q \in Requests, ~Refused(Reg, own, q),
             ~q.issues, q.cat = None, q.breached = None, ~Forbidden(q, FALSE)
      PROVE  /\ List(q, FALSE) = Posture(q)
             /\ List([q EXCEPT !.breached = TRUE], FALSE)
                  = {f \in Posture(q) : Breached(rows[f])}
  <2> DEFINE x == [q EXCEPT !.breached = TRUE]
  <2>1. List(q, FALSE) = Posture(q)
    BY <1>1, ListIsPosture
  <2>2. /\ Teams(x) = Teams(q) /\ Assets(x) = Assets(q)
        /\ Refused(Reg, own, x) <=> Refused(Reg, own, q)
        /\ x.sources = q.sources /\ x.tab = q.tab /\ x.teams = q.teams
        /\ x.cat = q.cat /\ x.breached = TRUE
    BY <1>1, QueriesAssumption, BreachedOnly
  <2>3. x.issues = q.issues
    BY <1>1, QueriesAssumption DEF NoQuery
  <2> HIDE DEF x
  <2>4. Posture(x) = Posture(q)
    BY <2>2, <2>3 DEF Posture, InTriage, InSources, IssuesOnly
  <2>5. ~Forbidden(x, FALSE)
    BY <1>1, <2>2 DEF Forbidden
  <2>6. List(x, FALSE) =
          {f \in Posture(x) : x.breached # None => x.breached = BreachPredicate(rows[f])}
    BY <1>1, <2>2, <2>3, <2>5, ListIsPosture
  <2>7. \A f \in Posture(q) : f \in DOMAIN rows
    BY DEF Posture
  <2>8. \A f \in Posture(q) :
          (x.breached # None => x.breached = BreachPredicate(rows[f])) <=> Breached(rows[f])
    <3> TAKE f \in Posture(q)
    <3>1. x.breached = TRUE /\ TRUE # None
      BY <2>2, QueriesAssumption
    <3>2. BreachPredicate(rows[f]) <=> Breached(rows[f])
      BY <1>1, <2>7, BreachesAgree
    <3>3. BreachPredicate(rows[f]) \in BOOLEAN
      BY DEF BreachPredicate
    <3> QED
      BY <3>1, <3>2, <3>3, Zenon
  <2>9. List(x, FALSE) = {f \in Posture(q) : Breached(rows[f])}
    BY <2>4, <2>6, <2>8
  <2> QED
    BY <2>1, <2>9 DEF x
<1>2. IInv => HeadlineDrillsDown
  BY <1>1 DEF HeadlineDrillsDown, Answered
<1> QED
  BY <1>2, Invariance, PTL

\* A rating card of a tab counts the findings of its source that the headline
\* counts.
LEMMA CardIs ==
  ASSUME NEW q, q.tab # None, q.sources = {}, q.teams = {}, Assets(q) = {},
         NEW src \in Cards(q)
  PROVE  Card(q, src) = {f \in Posture(q) : rows[f].from.src = src}
<1> DEFINE wizTeams == IF q.tab = ThreatIntel THEN {} ELSE WizTeams(q.tab)
<1>1. ASSUME NEW f \in DOMAIN rows, rows[f].from.src = src
      PROVE  /\ IF src = "wiz" THEN WizOn(q.tab, wizTeams, rows[f])
                               ELSE rows[f].owner \in CodeTeams(q.tab)
             /\ src = "wiz" => IssuesOnly(q, q.tab, rows[f])
             <=> OnTab(q.tab, rows[f]) /\ IssuesOnly(q, q.tab, rows[f])
  <2>1. /\ ThreatClause(rows[f]) \in BOOLEAN /\ WizOn(q.tab, wizTeams, rows[f]) \in BOOLEAN
        /\ "wiz" \notin CodeSources
    BY DEF ThreatClause, WizOn, CodeSources
  <2>2. CASE src = "wiz" /\ q.tab = ThreatIntel
    <3>1. WizOn(q.tab, {}, rows[f]) <=> ThreatClause(rows[f])
      BY <2>2 DEF WizOn, UnownedOn, CodeOwnedOn
    <3> QED
      BY <2>1, <2>2, <3>1 DEF OnTab
  <2>3. CASE src = "wiz" /\ q.tab # ThreatIntel
    BY <1>1, <2>1, <2>3 DEF OnTab
  <2>4. CASE src # "wiz"
    <3>1. src \in CodeSources /\ q.tab # ThreatIntel
      BY <2>4 DEF Cards
    <3>2. ~WizOn(q.tab, WizTeams(q.tab), rows[f]) /\ IssuesOnly(q, q.tab, rows[f])
      BY <1>1, <2>4, <3>1 DEF WizOn, UnownedOn, CodeOwnedOn, IsWiz, IssuesOnly
    <3> QED
      BY <1>1, <2>4, <3>1, <3>2 DEF OnTab
  <2> QED
    BY <2>2, <2>3, <2>4
<1>2. Card(q, src) =
        {f \in DOMAIN rows :
           /\ Shown(rows[f]) /\ IsOpen(rows[f]) /\ rows[f].from.src = src
           /\ IF src = "wiz" THEN WizOn(q.tab, wizTeams, rows[f])
                             ELSE rows[f].owner \in CodeTeams(q.tab)
           /\ src = "wiz" => IssuesOnly(q, q.tab, rows[f])}
  BY DEF Card
<1>3. Posture(q) = {f \in DOMAIN rows : /\ Shown(rows[f]) /\ IsOpen(rows[f])
                                        /\ OnTab(q.tab, rows[f])
                                        /\ IssuesOnly(q, q.tab, rows[f])}
  BY DEF Posture, InTriage, InAssets, InSources
<1> HIDE DEF wizTeams
<1> QED
  BY <1>1, <1>2, <1>3

\* What is on a tab has one of the tab's sources.
LEMMA TabSources ==
  ASSUME NEW q, q.tab # None, NEW f \in Posture(q)
  PROVE  rows[f].from.src \in Cards(q)
<1>1. OnTab(q.tab, rows[f])
  BY DEF Posture
<1> QED
  BY <1>1 DEF OnTab, ThreatClause, WizOn, UnownedOn, CodeOwnedOn, IsWiz, Cards

\* The classes of a grouping make up the set.
LEMMA GroupsAddUp ==
  ASSUME NEW key, NEW fs
  PROVE  UNION {GroupedBy(key, fs)[k] : k \in DOMAIN GroupedBy(key, fs)} = fs
<1> DEFINE groups == GroupedBy(key, fs)
<1>1. /\ DOMAIN groups = {key[f] : f \in fs}
      /\ \A k \in DOMAIN groups : groups[k] = {f \in fs : key[f] = k}
  BY DEF GroupedBy
<1>2. \A f \in fs : key[f] \in DOMAIN groups /\ f \in groups[key[f]]
  BY <1>1
<1>3. \A k \in DOMAIN groups : groups[k] \subseteq fs
  BY <1>1
<1> HIDE DEF groups
<1>4. UNION {groups[k] : k \in DOMAIN groups} = fs
  BY <1>2, <1>3
<1> QED
  BY <1>4 DEF groups

\* The Wiz page of a tab lists the critical and high findings its card counts:
\* an advisory is on the threat intelligence tab and nowhere else.
LEMMA WizPageIs ==
  ASSUME IInv, NEW q, q.tab \in Tabs, q.sources = {}, q.teams = {}, Assets(q) = {},
         ~q.issues
  PROVE  WizOfTab(q) = CritHigh(Card(q, "wiz"))
<1>1. q.tab # None
  BY QueriesAssumption
<1>2. ASSUME NEW f \in DOMAIN rows, OnTab(q.tab, rows[f]), IsWiz(rows[f])
      PROVE  (rows[f].from.cat = "threat_center") <=> (q.tab = ThreatIntel)
  <2>1. CASE q.tab = ThreatIntel
    BY <1>2, <2>1 DEF OnTab, ThreatClause
  <2>2. ASSUME q.tab # ThreatIntel, rows[f].from.cat = "threat_center"
        PROVE  FALSE
    <3>1. rows[f].owner = AdvisoryOwner
      BY <2>2 DEF IInv, AdvisoriesOwned
    <3>2. WizTeams(q.tab) = WizTeamsForPillar(Reg, q.tab)
      BY DEF WizTeams, WizTeamsOf
    <3>3. rows[f].owner \notin WizTeams(q.tab)
      BY <3>1, <3>2, QueriesAssumption
    <3>4. rows[f].from.src \notin CodeSources
      BY <1>2 DEF IsWiz, CodeSources
    <3> QED
      BY <1>2, <2>2, <3>3, <3>4 DEF OnTab, WizOn, UnownedOn, CodeOwnedOn
  <2> QED
    BY <2>1, <2>2
<1>3. Card(q, "wiz") = {f \in Posture(q) : rows[f].from.src = "wiz"}
  BY <1>1, CardIs DEF Cards
<1>4. Posture(q) = {f \in DOMAIN rows : /\ Shown(rows[f]) /\ IsOpen(rows[f])
                                        /\ OnTab(q.tab, rows[f])}
  BY <1>1 DEF Posture, InTriage, InAssets, InSources, IssuesOnly
<1>5. \A f \in DOMAIN rows : IsWiz(rows[f]) => Shown(rows[f])
  BY QueriesAssumption DEF IsWiz, Shown
<1>6. WizOfTab(q) = {f \in DOMAIN rows :
                       /\ IsOpen(rows[f]) /\ IsWiz(rows[f]) /\ OnTab(q.tab, rows[f])
                       /\ rows[f].from.sev \in {"critical", "high"}}
  <2>1. \A f \in DOMAIN rows :
          OnTabFrom(q.tab, "wiz", rows[f]) <=> OnTab(q.tab, rows[f]) /\ IsWiz(rows[f])
    BY TabsAgree DEF IsWiz
  <2>2. WizOfTab(q) =
          {f \in DOMAIN rows :
             /\ IsOpen(rows[f]) /\ IsWiz(rows[f])
             /\ rows[f].from.sev \in {"critical", "high"}
             /\ OnTabFrom(q.tab, "wiz", rows[f])
             /\ (rows[f].from.cat = "threat_center") <=> (q.tab = ThreatIntel)}
    BY <1>1 DEF WizOfTab
  <2> QED
    BY <1>2, <2>1, <2>2
<1>7. CritHigh(Card(q, "wiz")) =
        {f \in Card(q, "wiz") : rows[f].from.sev \in {"critical", "high"}}
  BY DEF CritHigh, OfSeverity
<1> QED
  BY <1>3, <1>4, <1>5, <1>6, <1>7 DEF IsWiz

\* The overview and the cards of a tab (security_posture) and its Wiz page
\* (list_wiz_findings_by_category): the cards add up to the headline, and the
\* page lists the card's critical and high findings.
THEOREM CardsAreWhole == Spec => []CardsAddUp
<1>1. ASSUME IInv, NEW q \in Requests, q.tab # None, q.sources = {}, q.teams = {},
             Assets(q) = {}
      PROVE  /\ Posture(q) = UNION {Card(q, src) : src \in Cards(q)}
             /\ ~q.issues =>
                  LET page == WizByCategory(q)
                  IN  CritHigh(Card(q, "wiz")) = UNION {page[cat] : cat \in DOMAIN page}
  <2>1. \A src \in Cards(q) : Card(q, src) = {f \in Posture(q) : rows[f].from.src = src}
    BY <1>1, CardIs
  <2>2. \A f \in Posture(q) : rows[f].from.src \in Cards(q)
    BY <1>1, TabSources
  <2>3. Posture(q) = UNION {Card(q, src) : src \in Cards(q)}
    BY <2>1, <2>2
  <2>4. q.tab \in Tabs
    BY <1>1, QueriesAssumption
  <2>5. ASSUME ~q.issues
        PROVE  LET page == WizByCategory(q)
               IN  CritHigh(Card(q, "wiz")) = UNION {page[cat] : cat \in DOMAIN page}
    <3> DEFINE key == [f \in DOMAIN rows |-> rows[f].from.cat]
               page == GroupedBy(key, WizOfTab(q))
    <3> HIDE DEF key
    <3>1. UNION {page[cat] : cat \in DOMAIN page} = WizOfTab(q)
      BY GroupsAddUp
    <3>2. WizOfTab(q) = CritHigh(Card(q, "wiz"))
      BY <1>1, <2>4, <2>5, WizPageIs
    <3>3. WizByCategory(q) = page
      BY DEF WizByCategory, key
    <3> HIDE DEF page
    <3> QED
      BY <3>1, <3>2, <3>3
  <2> QED
    BY <2>3, <2>5
<1>2. IInv => CardsAddUp
  BY <1>1 DEF CardsAddUp, Answered
<1> QED
  BY <1>2, Invariance, PTL

LEMMA UnionOfSeven ==
  ASSUME NEW s1, NEW s2, NEW s3, NEW s4, NEW s5, NEW s6, NEW s7
  PROVE  UNION {s1, s2, s3, s4, s5, s6, s7}
           = s1 \cup s2 \cup s3 \cup s4 \cup s5 \cup s6 \cup s7
BY Zenon

\* ADMIN_ONLY_SOURCES, which each route excludes on its own: whatever sources a
\* caller combines, no list, page, count or trend has them without an admin.
THEOREM AdminOnlyHidden == Spec => []AdminOnlyStaysHidden
<1>1. ASSUME NEW q \in Answered
      PROVE  /\ \A f \in List(q, FALSE) : Shown(rows[f])
             /\ \A f \in WizOfTab(q) : Shown(rows[f])
             /\ \A f \in Posture(q) \cup InSummary(q) \cup Ranked(q) \cup Breaches :
                  Shown(rows[f])
             /\ \A f \in TrendToday(q) : Shown(rows[f])
             /\ \A f \in Findings : Detail(f, FALSE) => Shown(rows[f])
  <2>1. \A f \in List(q, FALSE) : Shown(rows[f])
    BY DEF List, Forbidden
  <2>2. \A f \in WizOfTab(q) : Shown(rows[f])
    BY QueriesAssumption DEF WizOfTab, IsWiz, Shown
  <2>3. \A f \in Posture(q) \cup InSummary(q) \cup Ranked(q) \cup Breaches : Shown(rows[f])
    BY DEF Posture, InSummary, Ranked, Breaches
  <2>4. \A f \in TrendToday(q) : Shown(rows[f])
    BY DEF TrendToday, TrendByReplay, TrendOverlay
  <2> QED
    BY <2>1, <2>2, <2>3, <2>4 DEF Detail
<1>2. ASSUME NEW q \in Answered
      PROVE  LET selected == UNION {List(q, FALSE), WizOfTab(q), Posture(q), InSummary(q),
                                    Ranked(q), Breaches, TrendToday(q)}
             IN  \A f \in selected \cup {g \in Findings : Detail(g, FALSE)} :
                   Shown(rows[f])
  <2> DEFINE selected == UNION {List(q, FALSE), WizOfTab(q), Posture(q), InSummary(q),
                                Ranked(q), Breaches, TrendToday(q)}
  <2>1. selected = List(q, FALSE) \cup WizOfTab(q) \cup Posture(q) \cup InSummary(q)
                     \cup Ranked(q) \cup Breaches \cup TrendToday(q)
    BY UnionOfSeven
  <2> HIDE DEF selected
  <2>2. \A f \in selected \cup {g \in Findings : Detail(g, FALSE)} : Shown(rows[f])
    BY <1>1, <2>1
  <2> QED
    BY <2>2 DEF selected
<1>3. AdminOnlyStaysHidden
  BY <1>2 DEF AdminOnlyStaysHidden
<1> QED
  BY <1>3, PTL

-----------------------------------------------------------------------------
(***************************************************************************)
(* The sections of the executive page.                                     *)
(***************************************************************************)
\* A grouping splits the set it groups.
LEMMA GroupsSplit ==
  ASSUME NEW key, NEW fs
  PROVE  Splits(GroupedBy(key, fs), fs)
<1> DEFINE groups == GroupedBy(key, fs)
<1>1. fs = UNION {groups[k] : k \in DOMAIN groups}
  BY GroupsAddUp
<1>2. \A k \in DOMAIN groups : groups[k] = {f \in fs : key[f] = k}
  BY DEF GroupedBy
<1> HIDE DEF groups
<1>3. \A j, k \in DOMAIN groups : j # k => groups[j] \cap groups[k] = {}
  BY <1>2
<1>4. Splits(groups, fs)
  BY <1>1, <1>3 DEF Splits
<1> QED
  BY <1>4 DEF groups

LEMMA ThreeParts ==
  ASSUME NEW a, NEW b, NEW c
  PROVE  LET parts == <<a, b, c>>
         IN  /\ UNION {parts[k] : k \in DOMAIN parts} = a \cup b \cup c
             /\ (a \cap b = {} /\ a \cap c = {} /\ b \cap c = {}) =>
                  \A j, k \in DOMAIN parts : j # k => parts[j] \cap parts[k] = {}
<1> DEFINE parts == <<a, b, c>>
<1>1. DOMAIN parts = {1, 2, 3} /\ parts[1] = a /\ parts[2] = b /\ parts[3] = c
  OBVIOUS
<1> HIDE DEF parts
<1>2. UNION {parts[k] : k \in DOMAIN parts} = a \cup b \cup c
  BY <1>1
<1>3. (a \cap b = {} /\ a \cap c = {} /\ b \cap c = {}) =>
        \A j, k \in DOMAIN parts : j # k => parts[j] \cap parts[k] = {}
  BY <1>1
<1> QED
  BY <1>2, <1>3 DEF parts

\* Every age is in one of the bars: the last one ends at the last instant.
LEMMA BarsSplit ==
  ASSUME IInv, NEW q
  PROVE  Splits(AgeBuckets(q), CritHigh(OpenInSummary(q)))
<1> DEFINE whole == CritHigh(OpenInSummary(q))
           age(f) == now - rows[f].anchor
           a == AgeBucket(q, -1, Week)
           b == AgeBucket(q, Week, Month)
           c == AgeBucket(q, Month, LastInstant)
<1>1. \A f \in whole : f \in DOMAIN rows
  BY DEF CritHigh, OfSeverity, OpenInSummary, InSummary
<1>2. ASSUME NEW f \in whole
      PROVE  age(f) \in Int /\ -1 < age(f) /\ age(f) <= LastInstant
  <2>1. /\ rows[f] \in RowType(f) /\ now \in Instants
        /\ rows[f].anchor <= rows[f].seen /\ rows[f].seen <= now
    BY <1>1, <1>2 DEF IInv, RowsOK
  <2>2. /\ rows[f].anchor \in 0..LastInstant /\ rows[f].seen \in 0..LastInstant
        /\ now \in 0..LastInstant /\ LastInstant \in Nat
    BY <2>1, DashboardAssumption DEF RowType, Instants
  <2> QED
    BY <2>1, <2>2
<1>3. /\ a = {f \in whole : -1 < age(f) /\ age(f) <= Week}
      /\ b = {f \in whole : Week < age(f) /\ age(f) <= Month}
      /\ c = {f \in whole : Month < age(f) /\ age(f) <= LastInstant}
  BY DEF AgeBucket
<1> HIDE DEF a, b, c, whole, age
<1>4. whole = a \cup b \cup c /\ a \cap b = {} /\ a \cap c = {} /\ b \cap c = {}
  <2>1. Week \in Nat /\ Month \in Nat /\ Week <= Month
    BY QueriesAssumption
  <2> QED
    BY <1>2, <1>3, <2>1
<1>5. AgeBuckets(q) = <<a, b, c>>
  BY DEF AgeBuckets, a, b, c
<1>6. Splits(<<a, b, c>>, whole)
  BY <1>4, ThreeParts DEF Splits
<1> QED
  BY <1>5, <1>6 DEF whole

\* The three ways of telling what is open: by the status, by a replay of the
\* events up to now, and by the last event.
LEMMA OpenIs ==
  ASSUME IInv, TrailOK, NEW f \in DOMAIN rows
  PROVE  /\ IsOpen(rows[f]) <=> OpenByReplay(f, now)
         /\ IsOpen(rows[f]) <=>
              \A e \in trail[f] : (\A x \in trail[f] : x.at <= e.at) => e.type \notin Closing
         /\ rows[f].anchor <= now
<1>1. /\ f \in Findings /\ trail[f] \in SUBSET LifecycleEvent
      /\ rows[f] \in RowType(f) /\ rows[f].anchor <= rows[f].seen /\ rows[f].seen <= now
      /\ now \in Int
  BY DEF IInv, RowsOK, Instants
<1>2. Told(rows[f], trail[f], now)
  BY DEF TrailOK
<1>3. rows[f].anchor \in Int /\ rows[f].seen \in Int
  BY <1>1 DEF RowType, Instants
<1>4. rows[f].anchor <= now
  BY <1>1, <1>3
<1> QED
  BY <1>1, <1>2, <1>4, ToldReplay, ReplayIs DEF IsOpen

\* A set of instants has a first one.
LEMMA LeastInstant ==
  ASSUME NEW s \in SUBSET Instants, s # {}
  PROVE  \E t \in s : \A u \in s : t <= u
<1> DEFINE less == OpToRel(<, Nat)
<1>1. s \subseteq Nat
  BY DashboardAssumption DEF Instants
<1>2. IsWellFoundedOn(less, Nat)
  BY NatLessThanWellFounded
<1>3. \A t, u \in Nat : t < u => <<t, u>> \in less
  BY DEF OpToRel
<1> HIDE DEF less
<1>4. PICK t \in s : \A u \in s : <<u, t>> \notin less
  BY <1>1, <1>2, WFMin
<1>5. ASSUME NEW u \in s
      PROVE  t <= u
  <2>1. t \in Nat /\ u \in Nat
    BY <1>1
  <2>2. ~(u < t)
    BY <1>3, <1>4, <2>1
  <2> QED
    BY <2>1, <2>2
<1> QED
  BY <1>5

\* What the sections of the executive page count (security_posture, summary,
\* trend, top_teams and top_services), each by a query of its own, are the same
\* findings.
THEOREM SectionsAreAligned == Spec => []SectionsAlign
<1>1. ASSUME IInv, TrailOK,
             NEW q, q.tab = None, q.sources = {}, Teams(q) # {}, Unowned \notin Teams(q)
      PROVE  LET badge == Posture(q) IN
             /\ OfSeverity(badge, "critical") = OpenCriticalsAt(q, now)
             /\ OldestCritical(q) = None <=> OfSeverity(badge, "critical") = {}
             /\ CritHigh(badge) = CritHigh(TrendToday(q))
             /\ Splits(TopTeams(q), CritHigh(badge))
             /\ Splits(TopServices(q), CritHigh(badge))
             /\ Splits(AgeBuckets(q), CritHigh(badge))
  <2> DEFINE badge == Posture(q)
  <2>1. \A f \in DOMAIN rows : InTriage(q, rows[f]) /\ InSources(q, rows[f])
    <3>1. Unowned \notin q.teams
      BY <1>1 DEF Teams, ScopeTeams
    <3> QED
      BY <1>1, <3>1 DEF InTriage, InSources
  <2>2. badge = OpenInSummary(q)
    BY <1>1, <2>1 DEF Posture, OpenInSummary, InSummary
  <2>3. /\ badge \subseteq DOMAIN rows /\ InSummary(q) \subseteq DOMAIN rows
        /\ badge = {f \in InSummary(q) : IsOpen(rows[f])}
    BY <2>2 DEF OpenInSummary, InSummary
  <2>4. OfSeverity(badge, "critical") = OpenCriticalsAt(q, now)
    <3>1. \A f \in InSummary(q) : /\ IsOpen(rows[f]) <=> OpenByReplay(f, now)
                                  /\ rows[f].anchor <= now
      BY <1>1, <2>3, OpenIs
    <3> QED
      BY <2>3, <3>1 DEF OfSeverity, OpenCriticalsAt
  <2>5. OldestCritical(q) = None <=> OfSeverity(badge, "critical") = {}
    <3> DEFINE anchors == {rows[f].anchor : f \in OfSeverity(badge, "critical")}
               first == CHOOSE t \in anchors : \A u \in anchors : t <= u
    <3>1. anchors = {} <=> OfSeverity(badge, "critical") = {}
      OBVIOUS
    <3>2. OldestCritical(q) = IF anchors = {} THEN None ELSE now - first
      BY <2>2 DEF OldestCritical
    <3>3. ASSUME anchors # {}
          PROVE  now - first # None
      <4>1. anchors \in SUBSET Instants
        BY <1>1, <2>3 DEF OfSeverity, IInv, RowsOK, RowType
      <4>2. \A t \in anchors : t \in Int
        BY <4>1 DEF Instants
      <4>3. \E t \in anchors : \A u \in anchors : t <= u
        BY <3>3, <4>1, LeastInstant
      <4> HIDE DEF anchors
      <4>4. first \in Int
        BY <4>2, <4>3
      <4>5. now \in Int
        BY <1>1 DEF IInv, RowsOK, Instants
      <4> HIDE DEF first
      <4>6. now - first \in Int
        BY <4>4, <4>5
      <4> QED
        BY <4>6, QueriesAssumption
    <3> HIDE DEF anchors, first
    <3> QED
      BY <3>1, <3>2, <3>3
  <2>6. CritHigh(badge) = CritHigh(TrendToday(q))
    <3>1. TrendByReplay(q) = badge
      <4>1. \A f \in DOMAIN rows :
              IsOpen(rows[f]) <=>
                \A e \in trail[f] :
                  (\A x \in trail[f] : x.at <= e.at) => e.type \notin Closing
        BY <1>1, OpenIs
      <4> QED
        BY <1>1, <2>1, <4>1 DEF TrendByReplay, Posture
    <3>2. ASSUME Assets(q) = {}, ~q.issues
          PROVE  TrendOverlay(q) = badge
      BY <1>1, <2>1, <3>2 DEF TrendOverlay, Posture, InAssets, IssuesOnly
    <3> HIDE DEF badge
    <3>3. TrendToday(q) = badge
      BY <1>1, <3>1, <3>2 DEF TrendToday
    <3> QED
      BY <3>3
  <2>7. Ranked(q) = CritHigh(badge)
    <3>1. \A f \in DOMAIN rows : InTeams(Teams(q), rows[f]) => rows[f].owner # Unowned
      BY <1>1 DEF InTeams
    <3>2. CritHigh(badge) = {f \in badge : rows[f].from.sev \in {"critical", "high"}}
      BY DEF CritHigh, OfSeverity
    <3> QED
      BY <1>1, <2>1, <3>1, <3>2 DEF Ranked, Posture
  <2>8. Splits(TopTeams(q), CritHigh(badge)) /\ Splits(TopServices(q), CritHigh(badge))
    BY <2>7, GroupsSplit DEF TopTeams, TopServices
  <2>9. Splits(AgeBuckets(q), CritHigh(badge))
    BY <1>1, <2>2, BarsSplit
  <2> QED
    BY <2>4, <2>5, <2>6, <2>8, <2>9
<1>2. IInv /\ HistoriesOK => SectionsAlign
  BY <1>1 DEF SectionsAlign, HistoriesOK
<1> QED
  BY <1>2, HistoriesInvariance, PTL

-----------------------------------------------------------------------------
(***************************************************************************)
(* The momentum of the executive page.                                     *)
(***************************************************************************)
\* What two requests to /metrics/summary count, as sets that BalanceOK knows.
LEMMA CriticalsAre ==
  ASSUME IInv, TrailOK, NEW q, NEW t \in Int,
         \A f \in OfSeverity(InSummary(q), "critical") : rows[f].anchor = rows[f].seen
  PROVE  LET fs == OfSeverity(InSummary(q), "critical") IN
         /\ fs \in SUBSET Findings /\ fs \subseteq DOMAIN rows
         /\ OpenCriticalsAt(q, now) = OpenOf(fs, rows)
         /\ OpenCriticalsAt(q, t) = OpenThen(fs, rows, trail, t)
<1> DEFINE fs == OfSeverity(InSummary(q), "critical")
<1>1. fs \subseteq DOMAIN rows /\ fs \in SUBSET Findings
  BY DEF OfSeverity, InSummary, IInv, RowsOK
<1>2. OpenCriticalsAt(q, now) = OpenOf(fs, rows)
  <2>1. \A f \in fs : /\ rows[f].status = "open" <=> OpenByReplay(f, now)
                      /\ rows[f].anchor <= now
    BY <1>1, OpenIs DEF IsOpen
  <2> HIDE DEF fs
  <2>2. OpenCriticalsAt(q, now) = {f \in fs : rows[f].anchor <= now /\ OpenByReplay(f, now)}
    BY DEF OpenCriticalsAt, fs
  <2> QED
    BY <1>1, <2>1, <2>2 DEF OpenOf
<1>3. OpenCriticalsAt(q, t) = OpenThen(fs, rows, trail, t)
  <2>1. OpenCriticalsAt(q, t) = {f \in fs : rows[f].anchor <= t /\ OpenByReplay(f, t)}
    BY DEF OpenCriticalsAt
  <2>2. \A f \in fs : rows[f].anchor = rows[f].seen
    OBVIOUS
  <2>3. \A f : OpenByReplay(f, t) <=> Replay(trail[f], t)
    BY ReplayIs
  <2> HIDE DEF fs
  <2> QED
    BY <1>1, <2>1, <2>2, <2>3 DEF OpenThen
<1> QED
  BY <1>1, <1>2, <1>3

\* The pairs of a critical and one of its events, counted from an instant on.
LEMMA PairsAre ==
  ASSUME IInv, NEW q, NEW types, NEW span \in Int
  PROVE  LET fs == OfSeverity(InSummary(q), "critical") IN
         CriticalEvents(q, types, span) =
           {x \in Findings \X LifecycleEvent :
              /\ x[1] \in fs /\ x[2] \in trail[x[1]]
              /\ x[2].type \in types /\ x[2].at >= now - span}
<1> DEFINE fs == OfSeverity(InSummary(q), "critical")
           pairs == UNION {{g} \X trail[g] : g \in fs}
<1>1. \A g \in fs : g \in Findings /\ trail[g] \in SUBSET LifecycleEvent
  BY DEF OfSeverity, InSummary, IInv, RowsOK
<1>2. CriticalEvents(q, types, span) =
        {x \in pairs : x[2].type \in types /\ x[2].at >= now - span}
  BY DEF CriticalEvents
<1> HIDE DEF fs
<1>3. \A x : x \in pairs <=> \E g \in fs : x \in {g} \X trail[g]
  OBVIOUS
<1> HIDE DEF pairs
<1>4. \A x \in pairs : /\ x \in Findings \X LifecycleEvent
                       /\ x[1] \in fs /\ x[2] \in trail[x[1]]
  BY <1>1, <1>3
<1>5. ASSUME NEW x \in Findings \X LifecycleEvent, x[1] \in fs, x[2] \in trail[x[1]]
      PROVE  x \in pairs
  <2>1. x \in {x[1]} \X trail[x[1]]
    BY <1>5
  <2> QED
    BY <1>3, <1>5, <2>1
<1> QED
  BY <1>2, <1>4, <1>5 DEF fs

\* The week's change of the open criticals is their inflow without their
\* outflow when no event is on the edge of the week.
LEMMA WeekBalances ==
  ASSUME IInv, HistoriesOK, NEW q,
         \A f \in OfSeverity(InSummary(q), "critical") :
           /\ rows[f].anchor = rows[f].seen
           /\ \A e \in trail[f] : e.at # now - Week
  PROVE  Cardinality(OpenCriticalsAt(q, now)) - Cardinality(OpenCriticalsAt(q, now - Week))
           = Cardinality(CriticalEvents(q, Inflow, Week))
               - Cardinality(CriticalEvents(q, Outflow, Week))
<1> DEFINE fs == OfSeverity(InSummary(q), "critical")
           t == now - Week
<1>1. now \in Int /\ Week \in Nat /\ t \in Int
  BY QueriesAssumption DEF IInv, RowsOK, Instants
<1>2. /\ fs \in SUBSET Findings /\ fs \subseteq DOMAIN rows
      /\ OpenCriticalsAt(q, now) = OpenOf(fs, rows)
      /\ OpenCriticalsAt(q, t) = OpenThen(fs, rows, trail, t)
  <2> HIDE DEF t
  <2> QED
    BY <1>1, CriticalsAre DEF HistoriesOK
<1>3. \A f \in fs : \A e \in trail[f] : e.at # t
  OBVIOUS
<1>4. ASSUME NEW types
      PROVE  CriticalEvents(q, types, Week) = After(fs, trail, types, t)
  <2>1. CriticalEvents(q, types, Week) =
          {x \in Findings \X LifecycleEvent :
             /\ x[1] \in fs /\ x[2] \in trail[x[1]]
             /\ x[2].type \in types /\ x[2].at >= t}
    BY <1>1, PairsAre
  <2> HIDE DEF fs, t
  <2>2. \A x \in Findings \X LifecycleEvent : x[2].at \in Int
    BY DEF LifecycleEvent, Instants
  <2>3. \A x \in Findings \X LifecycleEvent :
          (x[1] \in fs /\ x[2] \in trail[x[1]]) => (x[2].at >= t <=> x[2].at > t)
    BY <1>1, <1>3, <2>2
  <2> QED
    BY <2>1, <2>3 DEF After
<1>5. CASE Week = 0
  <2>1. t = now
    BY <1>1, <1>5
  <2>2. \A f \in fs : Told(rows[f], trail[f], now)
    BY <1>2 DEF HistoriesOK, TrailOK
  <2>3. ASSUME NEW types PROVE CriticalEvents(q, types, Week) = {}
    <3>1. \A x \in Findings \X LifecycleEvent : x[2].at \in Int
      BY DEF LifecycleEvent, Instants
    <3> HIDE DEF fs, t
    <3>2. After(fs, trail, types, t) = {}
      BY <1>1, <2>1, <2>2, <3>1 DEF After, Told
    <3> QED
      BY <1>4, <3>2
  <2>4. Cardinality(OpenOf(fs, rows)) \in Nat
    BY <1>2, FewEvents DEF OpenOf
  <2>5. Cardinality({}) = 0
    BY FS_EmptySet
  <2> QED
    BY <1>2, <2>1, <2>3, <2>4, <2>5
<1>6. CASE Week # 0
  <2>1. t < now
    BY <1>1, <1>6
  <2>2. Cardinality(OpenOf(fs, rows)) - Cardinality(OpenThen(fs, rows, trail, t))
          = Cardinality(After(fs, trail, Inflow, t)) - Cardinality(After(fs, trail, Outflow, t))
    <3> HIDE DEF fs, t
    <3> QED
      BY <1>1, <1>2, <2>1 DEF HistoriesOK, BalanceOK
  <2>3. /\ CriticalEvents(q, Inflow, Week) = After(fs, trail, Inflow, t)
        /\ CriticalEvents(q, Outflow, Week) = After(fs, trail, Outflow, t)
    BY <1>4
  <2> QED
    BY <1>2, <2>2, <2>3
<1> QED
  BY <1>5, <1>6

\* Closures are counted exactly when there is a critical they closed.
LEMMA ClosuresAre ==
  ASSUME IInv, NEW q
  PROVE  Repaired(q) = {} <=> Cardinality(CriticalEvents(q, Outflow, Month)) = 0
<1> DEFINE fs == OfSeverity(InSummary(q), "critical")
           events == CriticalEvents(q, Outflow, Month)
<1>1. Month \in Int /\ now \in Int
  BY QueriesAssumption DEF IInv, RowsOK, Instants
<1>2. events = {x \in Findings \X LifecycleEvent :
                  /\ x[1] \in fs /\ x[2] \in trail[x[1]]
                  /\ x[2].type \in Outflow /\ x[2].at >= now - Month}
  BY <1>1, PairsAre
<1>3. Repaired(q) = {f \in fs : \E e \in trail[f] : e.type \in Outflow /\ e.at >= now - Month}
  BY DEF Repaired
<1>4. \A f \in fs : f \in Findings /\ trail[f] \in SUBSET LifecycleEvent
  BY DEF OfSeverity, InSummary, IInv, RowsOK
<1> HIDE DEF fs, events
<1>5. Repaired(q) = {} <=> events = {}
  <2>1. ASSUME NEW f \in fs, NEW e \in trail[f], e.type \in Outflow, e.at >= now - Month
        PROVE  <<f, e>> \in events
    BY <1>2, <1>4, <2>1
  <2>2. \A x \in events : x[1] \in Repaired(q)
    BY <1>2, <1>3
  <2> QED
    BY <1>3, <2>1, <2>2
<1>6. IsFiniteSet(events)
  BY <1>2, FewEvents
<1>7. Cardinality(events) = 0 <=> events = {}
  BY <1>6, FS_EmptySet
<1> QED
  BY <1>5, <1>7 DEF events

\* open_criticals_wow_delta, the inflow, the outflow and the MTTR of
\* /metrics/summary: a replay of states and a count of events agree on what a
\* week changed.
THEOREM MomentumExplained == Spec => []MomentumExplainsDelta
<1>1. ASSUME IInv, HistoriesOK, NEW q,
             HistoryOf(q, Week),
             \A f \in OfSeverity(InSummary(q), "critical") :
               /\ rows[f].anchor = rows[f].seen
               /\ \A e \in trail[f] : e.at # now - Week
      PROVE  WowDelta(q) = EventCount(q, Inflow, Week) - EventCount(q, Outflow, Week)
  BY <1>1, WeekBalances DEF WowDelta, EventCount
<1>2. ASSUME IInv, NEW q, HistoryOf(q, Month)
      PROVE  Repaired(q) = {} <=> EventCount(q, Outflow, Month) = 0
  BY <1>2, ClosuresAre DEF EventCount
<1>3. IInv /\ HistoriesOK => MomentumExplainsDelta
  BY <1>1, <1>2 DEF MomentumExplainsDelta
<1> QED
  BY <1>3, HistoriesInvariance, PTL

-----------------------------------------------------------------------------
\* A request with one parameter, for a tab or for the triage queue.
LEMMA PlainRequest ==
  ASSUME NEW q, q = [NoQuery EXCEPT !.tab = q.tab, !.teams = q.teams]
  PROVE  /\ ~Refused(Reg, own, q) /\ ~Forbidden(q, FALSE)
         /\ Teams(q) = q.teams /\ Assets(q) = {}
         /\ q.sources = {} /\ q.cat = None /\ q.breached = None
<1>1. /\ q.exec = None /\ q.jira = None /\ q.app = None /\ q.service = None
      /\ q.repo = None /\ q.sources = {} /\ q.cat = None /\ q.breached = None
  BY DEF NoQuery
<1>2. Services(Reg, q.service) = {}
  BY <1>1, QueriesAssumption DEF Services
<1>3. Teams(q) = q.teams
  BY <1>1, <1>2 DEF Teams, ScopeTeams
<1>4. Assets(q) = {}
  BY <1>1, <1>2 DEF Assets, ScopeAssets
<1>5. ~Refused(Reg, own, q) /\ ~Forbidden(q, FALSE)
  BY <1>1, <1>2 DEF Refused, Forbidden
<1> QED
  BY <1>1, <1>3, <1>4, <1>5

\* Today's configuration leaves an asset unowned only if no team that has a
\* page has it.
LEMMA UnownedIsNobodys ==
  ASSUME IInv, NEW f \in DOMAIN rows, Resolved(rows[f]) = Unowned
  PROVE  rows[f].from.asset \notin ConsumerAssets
<1> DEFINE x == rows[f].from
           asset == x.asset
<1>1. /\ OfWiz(asset) => x.src = "wiz"
      /\ \A a \in DOMAIN own.team : ~OfWiz(a)
  <2>1. x \in Profiles[f] /\ f \in Findings /\ [own |-> own, subs |-> subs] \in Files
    BY DEF IInv, RowsOK, RowType
  <2> QED
    BY <2>1, DashboardAssumption
<1>2. OwnerOf(Reg, own, x.src, asset, rows[f].tag) = Unowned
  BY DEF Resolved
<1> HIDE DEF x
<1>3. ASSUME asset \in DOMAIN own.team, own.team[asset] \in ConsumerTeams
      PROVE  FALSE
  <2>1. ~(x.src = "wiz" /\ asset[1] = "wizservice") /\ ~(x.src = "wiz" /\ asset[1] = "cloudres")
    BY <1>1, <1>3 DEF OfWiz
  <2>2. TeamForAsset(own, asset) = Unowned
    BY <1>2, <2>1 DEF OwnerOf
  <2>3. own.team[asset] = Unowned
    BY <1>3, <2>2 DEF TeamForAsset, Lookup, Unowned, Excluded
  <2> QED
    BY <1>3, <2>3 DEF ConsumerTeams
<1>4. ASSUME NEW s \in DOMAIN WizServiceToTeam(Reg), asset = <<"wizservice", s>>,
             WizServiceToTeam(Reg)[s] \in ConsumerTeams
      PROVE  FALSE
  <2>1. asset[1] = "wizservice" /\ asset[2] = s /\ x.src = "wiz"
    BY <1>1, <1>4 DEF OfWiz
  <2>2. Lookup(WizServiceToTeam(Reg), s, Unowned) = Unowned
    BY <1>2, <2>1 DEF OwnerOf
  <2>3. WizServiceToTeam(Reg)[s] = Unowned
    BY <2>2 DEF Lookup
  <2> QED
    BY <1>4, <2>3 DEF ConsumerTeams
<1> QED
  BY <1>3, <1>4 DEF ConsumerAssets, ConsumerServices, x

\* admin_triage_unowned_exclusion_clause: what today's configuration leaves
\* unowned is on a tab of /platform or in the admin's triage queue.
THEOREM NothingFallsBetween == Spec => []NothingHidden
<1>1. ASSUME IInv, NEW f \in DOMAIN rows, IsOpen(rows[f]), Shown(rows[f]),
             rows[f].owner = Unowned, Fresh(rows[f])
      PROVE  \/ \E p \in Tabs : f \in List([NoQuery EXCEPT !.tab = p], FALSE)
             \/ f \in List([NoQuery EXCEPT !.teams = {Unowned}], FALSE)
  <2>1. ASSUME NEW p \in Tabs, UnownedOn(p, rows[f])
        PROVE  f \in List([NoQuery EXCEPT !.tab = p], FALSE)
    <3> DEFINE q == [NoQuery EXCEPT !.tab = p]
    <3>1. q.tab = p /\ q.teams = {} /\ q = [NoQuery EXCEPT !.tab = q.tab, !.teams = q.teams]
      BY DEF NoQuery
    <3> HIDE DEF q
    <3>2. /\ ~Refused(Reg, own, q) /\ ~Forbidden(q, FALSE) /\ Assets(q) = {}
          /\ q.sources = {} /\ q.cat = None /\ q.breached = None
      BY <3>1, PlainRequest
    <3>3. p # None
      BY QueriesAssumption
    <3>4. OnTab(p, rows[f])
      BY <2>1 DEF OnTab, UnownedOn, WizOn
    <3>5. InScope(q, Teams(q), rows[f]) /\ InTriage(q, rows[f]) /\ InAssets({}, rows[f])
      BY <3>1, <3>2, <3>3, <3>4 DEF InScope, InTriage, InAssets
    <3>6. f \in List(q, FALSE)
      BY <1>1, <3>2, <3>5 DEF List, InSources
    <3> QED
      BY <3>6 DEF q
  <2>2. ASSUME \A p \in Tabs : ~UnownedOn(p, rows[f])
        PROVE  f \in List([NoQuery EXCEPT !.teams = {Unowned}], FALSE)
    <3> DEFINE q == [NoQuery EXCEPT !.teams = {Unowned}]
    <3>1. /\ q.tab = None /\ q.teams = {Unowned}
          /\ q = [NoQuery EXCEPT !.tab = q.tab, !.teams = q.teams]
      BY DEF NoQuery
    <3> HIDE DEF q
    <3>2. /\ ~Refused(Reg, own, q) /\ ~Forbidden(q, FALSE) /\ Assets(q) = {}
          /\ Teams(q) = {Unowned}
          /\ q.sources = {} /\ q.cat = None /\ q.breached = None
      BY <3>1, PlainRequest
    <3>3. ~TriageExcludes(rows[f])
      BY <1>1, <2>2, UnownedIsNobodys DEF TriageExcludes, Fresh
    <3>4. InScope(q, Teams(q), rows[f]) /\ InTriage(q, rows[f]) /\ InAssets({}, rows[f])
      BY <1>1, <3>1, <3>2, <3>3 DEF InScope, InTeams, InTriage, InAssets
    <3>5. f \in List(q, FALSE)
      BY <1>1, <3>2, <3>4 DEF List, InSources
    <3> QED
      BY <3>5 DEF q
  <2> QED
    BY <2>1, <2>2
<1>2. IInv => NothingHidden
  BY <1>1 DEF NothingHidden
<1> QED
  BY <1>2, Invariance, PTL

-----------------------------------------------------------------------------
\* The ladder of a card (_compute_source_rating) keeps the order of the
\* queues it grades, although each rung tests two or three counts with its
\* own thresholds: whoever has no more findings of any severity has no worse
\* a grade.
THEOREM LadderKeepsOrder ==
  ASSUME NEW src,
         NEW c \in Nat, NEW h \in Nat, NEW m \in Nat,
         NEW c2 \in Nat, NEW h2 \in Nat, NEW m2 \in Nat,
         c <= c2, h <= h2, m <= m2
  PROVE  SourceGrade(src, c, h, m) <= SourceGrade(src, c2, h2, m2)
<1>1. CASE src = "pentest"
  BY <1>1, SMT DEF SourceGrade
<1>2. CASE src # "pentest"
  BY <1>2, SMT DEF SourceGrade
<1> QED BY <1>1, <1>2

\* Two percentages and the points they give, up to rounding.
LEMMA SlaScoreGrows ==
  ASSUME NEW p \in Nat, NEW q \in Nat, p <= q
  PROVE  SlaScore(p) \in Int /\ SlaScore(q) \in Int /\ SlaScore(p) <= SlaScore(q)
BY SMT DEF SlaScore, RoundedDown

LEMMA ThirdOfSlaScore ==
  ASSUME NEW p \in Nat, NEW q \in Nat, p <= q + 334
  PROVE  SlaScore(p) \in Int /\ SlaScore(q) \in Int /\ SlaScore(p) <= SlaScore(q) + 12
BY SMT DEF SlaScore, RoundedDown

LEMMA GradeFalls ==
  ASSUME NEW s \in Int, NEW t \in Int, s <= t
  PROVE  Grade(t) <= Grade(s)
BY SMT DEF Grade

\* Fewer open criticals and highs, more of the open findings in time and faster
\* repairs never cost the headline a point, and so no grade, as long as
\* both periods have closures or neither has (_compute_rating).
THEOREM HeadlineKeepsOrder ==
  ASSUME NEW c \in Nat, NEW h \in Nat, NEW p \in 0..1000, NEW d \in Nat,
         NEW c2 \in Nat, NEW h2 \in Nat, NEW p2 \in 0..1000, NEW d2 \in Nat,
         c <= c2, h <= h2, p2 <= p, d <= d2,
         NEW repaired \in BOOLEAN
  PROVE  /\ Score(c2, h2, p2, repaired, d2) <= Score(c, h, p, repaired, d)
         /\ Grade(Score(c, h, p, repaired, d)) <= Grade(Score(c2, h2, p2, repaired, d2))
<1>1. SlaScore(p2) \in Int /\ SlaScore(p) \in Int /\ SlaScore(p2) <= SlaScore(p)
  <2>1. p \in Nat /\ p2 \in Nat
    OBVIOUS
  <2> QED
    BY <2>1, SlaScoreGrows
<1>2. /\ RepairScore(repaired, d) \in Int /\ RepairScore(repaired, d2) \in Int
      /\ RepairScore(repaired, d2) <= RepairScore(repaired, d)
  <2>1. CASE repaired
    BY <2>1, SMT DEF RepairScore
  <2>2. CASE ~repaired
    BY <2>2, SMT DEF RepairScore
  <2> QED BY <2>1, <2>2
<1>3. /\ AtLeastZero(35 - c * 7) \in Int /\ AtLeastZero(35 - c2 * 7) \in Int
      /\ AtLeastZero(35 - c2 * 7) <= AtLeastZero(35 - c * 7)
  BY SMT DEF AtLeastZero
<1>4. /\ AtLeastZero(15 - h) \in Int /\ AtLeastZero(15 - h2) \in Int
      /\ AtLeastZero(15 - h2) <= AtLeastZero(15 - h)
  BY SMT DEF AtLeastZero
<1> HIDE DEF SlaScore, RepairScore, AtLeastZero
<1>5. /\ Score(c, h, p, repaired, d) \in Int /\ Score(c2, h2, p2, repaired, d2) \in Int
      /\ Score(c2, h2, p2, repaired, d2) <= Score(c, h, p, repaired, d)
  BY <1>1, <1>2, <1>3, <1>4, SMT DEF Score
<1> QED BY <1>5, GradeFalls

LEMMA ProductGrows ==
  ASSUME NEW p \in Nat, NEW q \in Nat, NEW k \in Nat, NEW n \in Nat, p >= q + k
  PROVE  p * (n + 1) >= q * n + q + k * n + k
<1>1. PICK j \in Nat : p = q + k + j
  <2>1. p - (q + k) \in Nat /\ p = q + k + (p - (q + k))
    OBVIOUS
  <2> QED
    BY <2>1
<1>2. (q + k + j) * (n + 1) = q * n + q + k * n + k + j * n + j
  BY SMT
<1>3. j * n >= 0
  BY SMT
<1> QED
  BY <1>1, <1>2, <1>3, SMT

\* What closing one critical does to the compliance of the open findings. One
\* past its SLA never lowers it; one within it lowers it by a third at most,
\* unless all that stays open is one finding in breach.
LEMMA LateOneRaises ==
  ASSUME NEW open \in Nat, NEW breached \in 0..open, NEW p, NEW p2,
         IsCompliance(p, breached + 1, open + 1), IsCompliance(p2, breached, open)
  PROVE  p \in Nat /\ p2 \in Nat /\ p <= p2
<1>1. /\ p \in 0..1000
      /\ 2 * (p * (open + 1) - 1000 * (open - breached)) <= open + 1
  <2>1. open + 1 # 0 /\ (open + 1) - (breached + 1) = open - breached
    OBVIOUS
  <2> QED
    BY <2>1 DEF IsCompliance
<1>2. CASE open = 0
  BY <1>1, <1>2 DEF IsCompliance
<1>3. CASE open # 0
  <2>1. p2 \in 0..1000 /\ 2 * (1000 * (open - breached) - p2 * open) <= open
    BY <1>3 DEF IsCompliance
  <2>2. ASSUME p >= p2 + 1 PROVE FALSE
    <3>1. p * (open + 1) >= p2 * open + p2 + open + 1
      <4>1. p \in Nat /\ p2 \in Nat /\ 1 * open = open
        BY <1>1, <2>1
      <4> QED
        BY <2>2, <4>1, ProductGrows
    <3> QED
      BY <1>1, <2>1, <3>1, SMT
  <2> QED
    BY <1>1, <2>1, <2>2
<1> QED
  BY <1>2, <1>3

LEMMA TimelyOneLowers ==
  ASSUME NEW open \in Nat, NEW breached \in 0..open, NEW p, NEW p2,
         IsCompliance(p, breached, open + 1), IsCompliance(p2, breached, open),
         open # 1 \/ breached = 0
  PROVE  p \in Nat /\ p2 \in Nat /\ p <= p2 + 334
<1>1. /\ p \in 0..1000
      /\ 2 * (p * (open + 1) - 1000 * (open + 1 - breached)) <= open + 1
  BY DEF IsCompliance
<1>2. CASE open = 0
  BY <1>1, <1>2 DEF IsCompliance
<1>3. CASE open # 0
  <2>1. p2 \in 0..1000 /\ 2 * (1000 * (open - breached) - p2 * open) <= open
    BY <1>3 DEF IsCompliance
  <2>2. CASE open = 1
    BY <1>1, <2>1, <2>2
  <2>3. CASE open >= 2
    <3>1. ASSUME p >= p2 + 335 PROVE FALSE
      <4>1. p * (open + 1) >= p2 * open + p2 + 335 * open + 335
        <5>1. p \in Nat /\ p2 \in Nat
          BY <1>1, <2>1
        <5> QED
          BY <3>1, <5>1, ProductGrows
      <4> QED
        BY <1>1, <2>1, <2>3, <4>1, SMT
    <3> QED
      BY <1>1, <2>1, <3>1
  <2> QED
    BY <1>3, <2>2, <2>3
<1> QED
  BY <1>2, <1>3

\* The neutral 10 points for "no closures yet" are not worth waiting for. With
\* at most five criticals open and no closure in the period, closing one of
\* them after d days costs no point and no grade, although a late repair
\* gets fewer points than none, and although the compliance, which is of the open
\* findings alone, drops when the one closed was within the critical SLA
\* (d <= 7, the first rung of the repair score). Excepted is the repair in time
\* that leaves a single finding open, and that one in breach.
THEOREM FirstRepairIsFair ==
  ASSUME NEW c \in 0..4, NEW h \in Nat, NEW d \in Nat, NEW none \in Nat,
         NEW open \in Nat, NEW breached \in 0..open,
         NEW late \in BOOLEAN, late <=> d > 7,
         NEW p, IsCompliance(p, breached + (IF late THEN 1 ELSE 0), open + 1),
         NEW p2, IsCompliance(p2, breached, open),
         late \/ open # 1 \/ breached = 0
  PROVE  /\ Score(c + 1, h, p, FALSE, none) <= Score(c, h, p2, TRUE, d)
         /\ Grade(Score(c, h, p2, TRUE, d)) <= Grade(Score(c + 1, h, p, FALSE, none))
<1> DEFINE Sums == \A a, b, r \in Int : /\ (a <= b /\ r >= 3) => a <= b + r - 3
                                        /\ (a <= b + 12 /\ r = 15) => a <= b + r - 3
<1>0. Sums
  OBVIOUS
<1> HIDE DEF Sums
<1>1. /\ SlaScore(p) \in Int /\ SlaScore(p2) \in Int
      /\ SlaScore(p) <= SlaScore(p2) + RepairScore(TRUE, d) - 3
      /\ RepairScore(TRUE, d) \in Int /\ RepairScore(FALSE, none) = 10
  <2>1. RepairScore(FALSE, none) = 10
    BY DEF RepairScore
  <2>2. CASE late
    <3>1. RepairScore(TRUE, d) \in Int /\ RepairScore(TRUE, d) >= 3
      BY DEF RepairScore
    <3>2. p \in Nat /\ p2 \in Nat /\ p <= p2
      BY <2>2, LateOneRaises
    <3>3. SlaScore(p) \in Int /\ SlaScore(p2) \in Int /\ SlaScore(p) <= SlaScore(p2)
      BY <3>2, SlaScoreGrows
    <3> QED
      BY <2>1, <3>1, <3>3, <1>0, Zenon DEF Sums
  <2>3. CASE ~late
    <3>1. RepairScore(TRUE, d) = 15 /\ RepairScore(TRUE, d) \in Int
      BY <2>3 DEF RepairScore
    <3>2. p \in Nat /\ p2 \in Nat /\ p <= p2 + 334
      <4>1. breached + (IF late THEN 1 ELSE 0) = breached
        BY <2>3
      <4>2. IsCompliance(p, breached, open + 1)
        BY <4>1
      <4> QED
        BY <2>3, <4>2, TimelyOneLowers
    <3>3. SlaScore(p) \in Int /\ SlaScore(p2) \in Int /\ SlaScore(p) <= SlaScore(p2) + 12
      BY <3>2, ThirdOfSlaScore
    <3> QED
      BY <2>1, <3>1, <3>3, <1>0, Zenon DEF Sums
  <2> QED
    BY <2>2, <2>3
<1>2. /\ AtLeastZero(35 - c * 7) = 35 - c * 7
      /\ AtLeastZero(35 - (c + 1) * 7) = 28 - c * 7
      /\ AtLeastZero(15 - h) \in Int
  BY SMT DEF AtLeastZero
<1>3. /\ Score(c, h, p2, TRUE, d)
           = 35 - c * 7 + SlaScore(p2) + RepairScore(TRUE, d) + AtLeastZero(15 - h)
      /\ Score(c + 1, h, p, FALSE, none)
           = 28 - c * 7 + SlaScore(p) + 10 + AtLeastZero(15 - h)
  BY <1>1, <1>2, Zenon DEF Score
<1>4. \A k, x, y, r, a \in Int : x <= y + r - 3 =>
        /\ 35 - k * 7 + y + r + a \in Int
        /\ 28 - k * 7 + x + 10 + a \in Int
        /\ 28 - k * 7 + x + 10 + a <= 35 - k * 7 + y + r + a
  OBVIOUS
<1>5. c \in Int
  OBVIOUS
<1> HIDE DEF SlaScore, RepairScore, AtLeastZero
<1>6. /\ Score(c, h, p2, TRUE, d) \in Int /\ Score(c + 1, h, p, FALSE, none) \in Int
      /\ Score(c + 1, h, p, FALSE, none) <= Score(c, h, p2, TRUE, d)
  <2>1. /\ 35 - c * 7 + SlaScore(p2) + RepairScore(TRUE, d) + AtLeastZero(15 - h) \in Int
        /\ 28 - c * 7 + SlaScore(p) + 10 + AtLeastZero(15 - h) \in Int
        /\ 28 - c * 7 + SlaScore(p) + 10 + AtLeastZero(15 - h)
             <= 35 - c * 7 + SlaScore(p2) + RepairScore(TRUE, d) + AtLeastZero(15 - h)
    BY <1>1, <1>2, <1>4, <1>5
  <2> QED
    BY <1>3, <2>1, Zenon
<1> QED BY <1>6, GradeFalls

\* And the exception is one: of two open findings, a high in breach and a
\* critical within its SLA, fixing the critical costs the headline a grade,
\* from B to C.  Nothing that is open got worse.
THEOREM QuickRepairMayCost ==
  ASSUME NEW d \in 0..7, NEW none \in Nat
  PROVE  /\ IsCompliance(500, 1, 2) /\ IsCompliance(0, 1, 1)
         /\ Grade(Score(1, 1, 500, FALSE, none)) = 1
         /\ Grade(Score(0, 1, 0, TRUE, d)) = 2
<1>1. IsCompliance(500, 1, 2) /\ IsCompliance(0, 1, 1)
  BY DEF IsCompliance
<1>2. SlaScore(500) = 18 /\ SlaScore(0) = 0
  BY SMT DEF SlaScore, RoundedDown
<1>3. RepairScore(FALSE, none) = 10 /\ RepairScore(TRUE, d) = 15
  BY DEF RepairScore
<1> HIDE DEF SlaScore, RepairScore
<1>4. /\ AtLeastZero(35 - 1 * 7) = 28 /\ AtLeastZero(35 - 0 * 7) = 35
      /\ AtLeastZero(15 - 1) = 14
  BY DEF AtLeastZero
<1>5. Score(1, 1, 500, FALSE, none) = 28 + 18 + 10 + 14
  BY <1>2, <1>3, <1>4, Zenon DEF Score
<1>6. Score(0, 1, 0, TRUE, d) = 35 + 0 + 15 + 14
  BY <1>2, <1>3, <1>4, Zenon DEF Score
<1>7. Grade(28 + 18 + 10 + 14) = 1 /\ Grade(35 + 0 + 15 + 14) = 2
  BY DEF Grade
<1> QED
  BY <1>1, <1>5, <1>6, <1>7, Zenon
=============================================================================
