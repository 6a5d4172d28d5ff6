---------------------------- MODULE IngestProofs ----------------------------
(***************************************************************************)
(* Proofs about FindingTable and Ingest for any pollers, sources,          *)
(* findings, ownership maps, thresholds, and any bound on polls and        *)
(* delivery attempts.                                                      *)
(***************************************************************************)
EXTENDS Ingest, FiniteSetTheorems, TLAPS

-----------------------------------------------------------------------------
(***************************************************************************)
(* What one process_snapshot transaction leaves in the tables, for any     *)
(* table, snapshot, ownership map and threshold.                           *)
(***************************************************************************)
\* A snapshot of poller p, as its mapper emits it.
SnapshotOf(p, nfs) ==
  DOMAIN nfs \subseteq NativesOf(p) /\ nfs \in [DOMAIN nfs -> NormalizedFinding(p)]

\* The threshold is null or at least one.
ThresholdType(t) == t = Never \/ t \in Nat \ {0}
Reached(misses, t) == t # Never /\ misses >= t

\* The ids a snapshot reports are ids of findings of its poller.
LEMMA IncomingIds ==
  ASSUME NEW p \in Pollers, NEW nfs, SnapshotOf(p, nfs)
  PROVE  /\ Incoming(nfs) \subseteq Ids
         /\ \A id \in Incoming(nfs) :
              /\ NativeOf(id) \in DOMAIN nfs
              /\ PollerOf[NativeOf(id)] = p
              /\ nfs[NativeOf(id)] \in NormalizedFinding(p)
BY DEF SnapshotOf, Incoming, NativesOf, Ids, StableId, NativeOf

\* A finding the snapshot reports ends open, with no misses and the source the
\* mapper gave it, whatever its row was before: this is process_snapshot's
\* insert and update paths, and the auto-close pass does not undo them.
LEMMA ReportedRow ==
  ASSUME NEW p \in Pollers, NEW nfs, SnapshotOf(p, nfs),
         NEW rows, TableType(rows),
         NEW owners \in [Assets -> Teams], NEW t, ThresholdType(t),
         NEW id \in Incoming(nfs)
  PROVE  LET row == SnapshotRows(rows, Group[p], nfs, owners, t)[id]
         IN  /\ id \in DOMAIN SnapshotRows(rows, Group[p], nfs, owners, t)
             /\ row \in Row
             /\ row.status = "open"
             /\ row.misses = 0
             /\ row.src = nfs[NativeOf(id)].src
             /\ row.src \in Group[p]
<1> DEFINE nf == nfs[NativeOf(id)]
           touched == Touched(rows, Group[p], nfs, owners)
           up == Upserted(rows, Group[p], nfs, owners, id)
<1>1. nf \in NormalizedFinding(p)
  BY IncomingIds
<1>2. OwnerFor(nf, owners) \in Teams
  BY <1>1, StampsAssumption DEF OwnerFor, NormalizedFinding
<1>3. Group[p] \subseteq Sources
  BY GroupAssumption
<1>4. /\ up \in Row
      /\ up.status = "open"
      /\ up.misses = 0
      /\ up.src = nf.src
      /\ nf.src \in Group[p]
  <2>1. CASE id \in DOMAIN rows
    <3>1. rows[id] \in Row
      BY <2>1 DEF TableType
    <3>2. up = Updated(rows[id], Group[p], nf, owners)
      BY <2>1 DEF Upserted
    <3>3. QED
      BY <1>1, <1>2, <1>3, <3>1, <3>2 DEF Updated, NormalizedFinding, Row
  <2>2. CASE id \notin DOMAIN rows
    <3>1. up = Inserted(nf, owners)
      BY <2>2 DEF Upserted
    <3>2. QED
      BY <1>1, <1>2, <1>3, <3>1 DEF Inserted, NormalizedFinding, Row
  <2>3. QED
    BY <2>1, <2>2
<1>5. id \in DOMAIN touched /\ touched[id] = up
  BY DEF Touched
<1>6. ~ Closes(up, Group[p], t)
  BY <1>4 DEF Closes, ThresholdType
<1>7. /\ id \in DOMAIN SnapshotRows(rows, Group[p], nfs, owners, t)
      /\ SnapshotRows(rows, Group[p], nfs, owners, t)[id] = up
  BY <1>5, <1>6 DEF SnapshotRows
<1>8. QED
  BY <1>4, <1>7

\* A finding the snapshot does not report keeps its row but for the count of
\* misses and the status: an open one of the poller's own group ages by one,
\* and closes when the aged count reaches the threshold; no other row changes.
LEMMA AbsentRow ==
  ASSUME NEW p \in Pollers, NEW nfs, SnapshotOf(p, nfs),
         NEW rows, TableType(rows),
         NEW owners, NEW t, ThresholdType(t),
         NEW id \in DOMAIN rows \ Stale(rows, Group[p], nfs),
         id \notin Incoming(nfs)
  PROVE  LET row == SnapshotRows(rows, Group[p], nfs, owners, t)[id]
         IN  /\ id \in DOMAIN SnapshotRows(rows, Group[p], nfs, owners, t)
             /\ row \in Row
             /\ row.src = rows[id].src
             /\ OpenInGroup(rows[id], Group[p]) =>
                  /\ row.misses = rows[id].misses + 1
                  /\ row.status = IF Reached(row.misses, t)
                                  THEN "auto_closed" ELSE "open"
             /\ ~ OpenInGroup(rows[id], Group[p]) => row = rows[id]
<1> DEFINE touched == Touched(rows, Group[p], nfs, owners)
           aged == Aged(rows[id], Group[p])
<1>1. rows[id] \in Row
  BY DEF TableType
<1>2. id \in DOMAIN touched /\ touched[id] = aged
  BY DEF Touched
<1>3. id \in DOMAIN SnapshotRows(rows, Group[p], nfs, owners, t)
  BY <1>2 DEF SnapshotRows
<1>4. SnapshotRows(rows, Group[p], nfs, owners, t)[id]
        = IF Closes(aged, Group[p], t) THEN [aged EXCEPT !.status = "auto_closed"]
                                       ELSE aged
  BY <1>2 DEF SnapshotRows
<1>5. CASE OpenInGroup(rows[id], Group[p])
  <2>1. aged = [rows[id] EXCEPT !.misses = @ + 1]
    BY <1>5 DEF Aged
  <2>2. /\ aged \in Row
        /\ aged.src = rows[id].src
        /\ aged.status = "open"
        /\ aged.misses = rows[id].misses + 1
        /\ OpenInGroup(aged, Group[p])
    BY <1>1, <1>5, <2>1 DEF OpenInGroup, Row
  <2>3. Closes(aged, Group[p], t) <=> Reached(aged.misses, t)
    BY <2>2 DEF Closes, Reached
  <2>4. QED
    BY <1>3, <1>4, <1>5, <2>2, <2>3 DEF Row
<1>6. CASE ~ OpenInGroup(rows[id], Group[p])
  <2>1. aged = rows[id]
    BY <1>6 DEF Aged
  <2>2. ~ Closes(aged, Group[p], t)
    BY <1>6, <2>1 DEF Closes
  <2>3. QED
    BY <1>1, <1>3, <1>4, <1>6, <2>1, <2>2
<1>7. QED
  BY <1>5, <1>6

\* The rows after the transaction: those before it, less the reconciled ones,
\* and those of the findings reported.
LEMMA SnapshotDomain ==
  ASSUME NEW g, NEW nfs, NEW rows, NEW owners, NEW t
  PROVE  DOMAIN SnapshotRows(rows, g, nfs, owners, t)
           = (DOMAIN rows \ Stale(rows, g, nfs)) \cup Incoming(nfs)
BY DEF SnapshotRows, Touched

\* The transaction leaves a well-typed table.
LEMMA SnapshotRowsType ==
  ASSUME NEW p \in Pollers, NEW nfs, SnapshotOf(p, nfs),
         NEW rows, TableType(rows),
         NEW owners \in [Assets -> Teams], NEW t, ThresholdType(t)
  PROVE  TableType(SnapshotRows(rows, Group[p], nfs, owners, t))
<1> DEFINE new == SnapshotRows(rows, Group[p], nfs, owners, t)
           kept == DOMAIN rows \ Stale(rows, Group[p], nfs)
<1>0. DOMAIN new = kept \cup Incoming(nfs)
  BY DEF SnapshotRows, Touched
<1>1. DOMAIN new \subseteq Ids
  <2>1. kept \subseteq Ids
    BY DEF TableType
  <2>2. QED
    BY <1>0, <2>1, IncomingIds, Zenon
<1>2. ASSUME NEW id \in DOMAIN new
      PROVE  new[id] \in Row /\ new[id].src \in Group[PollerOf[NativeOf(id)]]
  <2>1. CASE id \in Incoming(nfs)
    BY <2>1, ReportedRow, IncomingIds
  <2>2. CASE id \notin Incoming(nfs)
    <3>1. id \in kept
      <4> HIDE DEF new, kept
      <4>1. QED
        BY <1>0, <1>2, <2>2
    <3>2. rows[id].src \in Group[PollerOf[NativeOf(id)]]
      BY <3>1 DEF TableType
    <3>3. QED
      BY <2>2, <3>1, <3>2, AbsentRow
  <2>3. QED
    BY <2>1, <2>2
<1>3. QED
  BY <1>1, <1>2 DEF TableType

\* What the insert and update paths write are well-formed events.
LEMMA UpsertEventsType ==
  ASSUME NEW p \in Pollers, NEW nfs, SnapshotOf(p, nfs),
         NEW rows, TableType(rows),
         NEW owners \in [Assets -> Teams], NEW at \in Nat,
         NEW id \in Incoming(nfs)
  PROVE  UpsertEvents(rows, nfs, owners, at, id) \subseteq EventRow
<1> DEFINE nf == nfs[NativeOf(id)]
           own == OwnerFor(nf, owners)
<1>1. nf \in NormalizedFinding(p) /\ id \in Ids
  BY IncomingIds
<1>2. own \in Teams
  BY <1>1, StampsAssumption DEF OwnerFor, NormalizedFinding
<1>3. ASSUME NEW type \in EventTypes, NEW from \in EventValues, NEW to \in EventValues
      PROVE  Event(id, at, type, from, to) \in EventRow
  BY <1>1 DEF Event, EventRow
<1>4. CASE id \in DOMAIN rows
  <2>1. rows[id] \in Row
    BY <1>4 DEF TableType
  <2>2. /\ rows[id].status \in EventValues /\ "open" \in EventValues
        /\ rows[id].content \in EventValues /\ nf.content \in EventValues
        /\ rows[id].owner \in EventValues /\ own \in EventValues
    BY <1>1, <1>2, <2>1 DEF Row, NormalizedFinding, EventValues
  <2>3. {Event(id, at, "reopened", rows[id].status, "open"),
         Event(id, at, "content_changed", rows[id].content, nf.content),
         Event(id, at, "ownership_changed", rows[id].owner, own)} \subseteq EventRow
    <3> HIDE DEF nf, own
    <3>1. {"reopened", "content_changed", "ownership_changed"} \subseteq EventTypes
      BY DEF EventTypes
    <3>2. QED
      BY <1>3, <2>2, <3>1
  <2>4. QED
    BY <1>4, <2>3 DEF UpsertEvents
<1>5. CASE id \notin DOMAIN rows
  <2>1. "discovered" \in EventTypes /\ "none" \in EventValues /\ "open" \in EventValues
    BY DEF EventTypes, EventValues
  <2>2. QED
    BY <1>3, <1>5, <2>1 DEF UpsertEvents
<1>6. QED
  BY <1>4, <1>5

\* The three places an event of the new trail can come from: one that stays,
\* one moved to the row its own is merged into, one written now.
LEMMA EventOrigin ==
  ASSUME NEW g, NEW nfs, NEW rows, NEW trail, NEW owners, NEW t, NEW at,
         NEW e \in SnapshotEvents(rows, trail, g, nfs, owners, t, at)
  PROVE  \/ e \in trail /\ e.finding \notin Stale(rows, g, nfs)
         \/ \E f \in trail : /\ f.finding \in Stale(rows, g, nfs)
                              /\ Keeper(f.finding) \in DOMAIN rows
                              /\ e = [f EXCEPT !.finding = Keeper(f.finding)]
         \/ \E id \in Incoming(nfs) : e \in UpsertEvents(rows, nfs, owners, at, id)
         \/ \E id \in DOMAIN SnapshotRows(rows, g, nfs, owners, t) :
              e = Event(id, at, "auto_closed", "open", "auto_closed")
<1> DEFINE touched == Touched(rows, g, nfs, owners)
<1>1. CASE e \in ReconciledEvents(rows, trail, Stale(rows, g, nfs))
  BY <1>1 DEF ReconciledEvents
<1>2. CASE e \in CloseEvents(touched, g, t, at)
  <2>1. DOMAIN touched = DOMAIN SnapshotRows(rows, g, nfs, owners, t)
    BY DEF SnapshotRows
  <2>2. QED
    BY <1>2, <2>1 DEF CloseEvents
<1>3. QED
  BY <1>1, <1>2 DEF SnapshotEvents

\* An event of the new trail that a merge moved is still well formed, and
\* belongs to a finding the snapshot reports.
LEMMA MergeTarget ==
  ASSUME NEW p \in Pollers, NEW nfs, SnapshotOf(p, nfs),
         NEW rows, TableType(rows),
         NEW id \in Stale(rows, Group[p], nfs)
  PROVE  Keeper(id) \in Incoming(nfs) /\ Keeper(id) \in Ids /\ id \notin Incoming(nfs)
BY DEF Stale, Keeper, Incoming, StableId, NativeOf, SnapshotOf, NativesOf, Ids

\* The transaction leaves a well-formed trail.
LEMMA SnapshotEventsType ==
  ASSUME NEW p \in Pollers, NEW nfs, SnapshotOf(p, nfs),
         NEW rows, TableType(rows), NEW trail \in SUBSET EventRow,
         NEW owners \in [Assets -> Teams], NEW t, ThresholdType(t), NEW at \in Nat
  PROVE  SnapshotEvents(rows, trail, Group[p], nfs, owners, t, at) \subseteq EventRow
<1> SUFFICES ASSUME NEW e \in SnapshotEvents(rows, trail, Group[p], nfs, owners, t, at)
             PROVE  e \in EventRow
  OBVIOUS
<1>1. CASE e \in trail
  BY <1>1
<1>2. ASSUME NEW f \in trail, f.finding \in Stale(rows, Group[p], nfs),
             e = [f EXCEPT !.finding = Keeper(f.finding)]
      PROVE  e \in EventRow
  <2>1. Keeper(f.finding) \in Ids
    BY <1>2, MergeTarget
  <2>2. QED
    BY <1>2, <2>1 DEF EventRow
<1>3. CASE \E id \in Incoming(nfs) : e \in UpsertEvents(rows, nfs, owners, at, id)
  BY <1>3, UpsertEventsType
<1>4. ASSUME NEW id \in DOMAIN SnapshotRows(rows, Group[p], nfs, owners, t),
             e = Event(id, at, "auto_closed", "open", "auto_closed")
      PROVE  e \in EventRow
  <2>1. id \in Ids
    BY SnapshotRowsType DEF TableType
  <2>2. QED
    BY <1>4, <2>1 DEF Event, EventRow, EventTypes, EventValues
<1>5. QED
  BY <1>1, <1>2, <1>3, <1>4, EventOrigin

\* The transaction leaves no event without its row when it found none.
LEMMA NoOrphanLeft ==
  ASSUME NEW p \in Pollers, NEW nfs, SnapshotOf(p, nfs),
         NEW rows, TableType(rows), NEW trail \in SUBSET EventRow,
         NEW owners, NEW t, NEW at,
         \A e \in trail : e.finding \in DOMAIN rows,
         NEW e \in SnapshotEvents(rows, trail, Group[p], nfs, owners, t, at)
  PROVE  e.finding \in DOMAIN SnapshotRows(rows, Group[p], nfs, owners, t)
<1> DEFINE new == DOMAIN SnapshotRows(rows, Group[p], nfs, owners, t)
           stale == Stale(rows, Group[p], nfs)
<1>1. new = (DOMAIN rows \ stale) \cup Incoming(nfs)
  BY DEF SnapshotRows, Touched
<1> SUFFICES e.finding \in new
  OBVIOUS
<1> HIDE DEF new, stale
<1>2. CASE e \in trail /\ e.finding \notin stale
  BY <1>1, <1>2
<1>3. ASSUME NEW f \in trail, f.finding \in stale,
             e = [f EXCEPT !.finding = Keeper(f.finding)]
      PROVE  e.finding \in new
  <2>1. e.finding = Keeper(f.finding)
    BY <1>3 DEF EventRow
  <2>2. Keeper(f.finding) \in Incoming(nfs)
    BY <1>3, MergeTarget DEF stale
  <2>3. QED
    BY <1>1, <2>1, <2>2
<1>4. ASSUME NEW id \in Incoming(nfs), e \in UpsertEvents(rows, nfs, owners, at, id)
      PROVE  e.finding \in new
  BY <1>1, <1>4 DEF UpsertEvents, Event
<1>5. ASSUME NEW id \in new, e = Event(id, at, "auto_closed", "open", "auto_closed")
      PROVE  e.finding \in new
  BY <1>5 DEF Event
<1>6. QED
  BY <1>2, <1>3, <1>4, <1>5, EventOrigin DEF new, stale

\* Reconciliation keeps (source, native_id) unique: a row at another id that
\* would collide with an incoming finding is exactly a stale one.
LEMMA ReconciledIsUnique ==
  ASSUME NEW p \in Pollers, NEW nfs, SnapshotOf(p, nfs),
         NEW rows, TableType(rows), UniqueSourceNative(rows),
         NEW owners \in [Assets -> Teams], NEW t, ThresholdType(t)
  PROVE  UniqueSourceNative(SnapshotRows(rows, Group[p], nfs, owners, t))
<1> DEFINE new == SnapshotRows(rows, Group[p], nfs, owners, t)
           stale == Stale(rows, Group[p], nfs)
<1> SUFFICES ASSUME NEW x \in DOMAIN new, NEW y \in DOMAIN new,
                    NativeOf(x) = NativeOf(y), new[x].src = new[y].src
             PROVE  x = y
  BY DEF UniqueSourceNative
<1>1. DOMAIN new = (DOMAIN rows \ stale) \cup Incoming(nfs)
  BY DEF SnapshotRows, Touched
<1>2. ASSUME NEW id \in DOMAIN new, id \notin Incoming(nfs)
      PROVE  /\ id \in DOMAIN rows \ stale
             /\ new[id].src = rows[id].src
  <2>1. id \in DOMAIN rows \ stale
    <3> HIDE DEF new, stale
    <3>1. QED
      BY <1>1, <1>2
  <2>2. new[id] \in Row /\ new[id].src = rows[id].src
    BY <1>2, <2>1, AbsentRow
  <2>3. QED
    BY <2>1, <2>2
<1>3. ASSUME NEW id \in Incoming(nfs)
      PROVE  /\ id = StableId(NativeOf(id)) /\ NativeOf(id) \in DOMAIN nfs
             /\ new[id].src = nfs[NativeOf(id)].src
             /\ new[id].src \in Group[p]
  <2>1. id = StableId(NativeOf(id)) /\ NativeOf(id) \in DOMAIN nfs
    BY DEF Incoming, StableId, NativeOf
  <2>2. QED
    BY <2>1, ReportedRow
<1>4. ASSUME NEW a \in Incoming(nfs), NEW b \in DOMAIN new, b \notin Incoming(nfs),
             NativeOf(a) = NativeOf(b), new[a].src = new[b].src
      PROVE  FALSE
  <2>1. b \in DOMAIN rows \ stale /\ new[b].src = rows[b].src
    BY <1>2, <1>4
  <2>2. /\ NativeOf(b) \in DOMAIN nfs
        /\ rows[b].src = nfs[NativeOf(b)].src
        /\ rows[b].src \in Group[p]
    BY <1>3, <1>4, <2>1
  <2>3. QED
    BY <1>4, <2>1, <2>2 DEF Stale
<1>5. CASE x \in Incoming(nfs) /\ y \in Incoming(nfs)
  BY <1>3, <1>5
<1>6. CASE x \notin Incoming(nfs) /\ y \notin Incoming(nfs)
  BY <1>2, <1>6 DEF UniqueSourceNative
<1>7. QED
  BY <1>4, <1>5, <1>6

\* Away from merges, the open-or-close events of a finding after the
\* transaction are those before it, and one more exactly when its status
\* changes or its row is new: that event is dated now and says the new status.
LEMMA LifecycleAfter ==
  ASSUME NEW p \in Pollers, NEW nfs, SnapshotOf(p, nfs),
         NEW rows, TableType(rows), NEW trail \in SUBSET EventRow,
         NEW owners \in [Assets -> Teams], NEW t, ThresholdType(t), NEW at \in Nat,
         NEW id \in DOMAIN SnapshotRows(rows, Group[p], nfs, owners, t),
         \A x \in Stale(rows, Group[p], nfs) : Keeper(x) \in DOMAIN rows => Keeper(x) # id
  PROVE  LET new == SnapshotRows(rows, Group[p], nfs, owners, t)
             after == Lifecycle(SnapshotEvents(rows, trail, Group[p], nfs, owners, t, at), id)
         IN  \/ /\ id \in DOMAIN rows
                /\ new[id].status = rows[id].status
                /\ after = Lifecycle(trail, id)
             \/ \E e : /\ e.at = at /\ e.to = new[id].status
                       /\ after = Lifecycle(trail, id) \cup {e}
<1> DEFINE new == SnapshotRows(rows, Group[p], nfs, owners, t)
           touched == Touched(rows, Group[p], nfs, owners)
           stale == Stale(rows, Group[p], nfs)
           all == SnapshotEvents(rows, trail, Group[p], nfs, owners, t, at)
           kept == ReconciledEvents(rows, trail, stale)
           closing == Event(id, at, "auto_closed", "open", "auto_closed")
<1>1. id \in DOMAIN touched /\ id \notin stale
  <2>1. DOMAIN new = (DOMAIN rows \ stale) \cup Incoming(nfs) /\ DOMAIN new = DOMAIN touched
    BY DEF SnapshotRows, Touched
  <2>2. \A x \in stale : x \notin Incoming(nfs)
    BY DEF Stale
  <2> HIDE DEF touched, stale
  <2>3. id \in DOMAIN new
    OBVIOUS
  <2> HIDE DEF new
  <2>4. QED
    BY <2>1, <2>2, <2>3
<1>2. Lifecycle(kept, id) = Lifecycle(trail, id)
  <2>1. ASSUME NEW f \in trail, f.finding \in stale, Keeper(f.finding) \in DOMAIN rows
        PROVE  [f EXCEPT !.finding = Keeper(f.finding)].finding # id
    <3>1. [f EXCEPT !.finding = Keeper(f.finding)].finding = Keeper(f.finding)
      BY DEF EventRow
    <3>2. QED
      BY <2>1, <3>1
  <2>2. \A e \in kept : e.finding = id => e \in trail
    BY <2>1 DEF ReconciledEvents
  <2>3. \A e \in trail : e.finding = id => e \in kept
    BY <1>1 DEF ReconciledEvents
  <2> HIDE DEF kept
  <2>4. QED
    BY <2>2, <2>3 DEF Lifecycle
<1>3. Lifecycle(CloseEvents(touched, Group[p], t, at), id)
        = IF Closes(touched[id], Group[p], t) THEN {closing} ELSE {}
  <2> HIDE DEF touched
  <2>1. QED
    BY <1>1 DEF Lifecycle, CloseEvents, Event, LifecycleTypes
<1>4. \A x \in Incoming(nfs) : \A e \in UpsertEvents(rows, nfs, owners, at, x) : e.finding = x
  BY DEF UpsertEvents, Event
<1>5. CASE id \in Incoming(nfs)
  <2> DEFINE ups == UpsertEvents(rows, nfs, owners, at, id)
  <2>1. new[id].status = "open" /\ ~ Closes(touched[id], Group[p], t)
    <3>1. new[id].status = "open"
      BY <1>5, ReportedRow
    <3>2. Closes(touched[id], Group[p], t) => new[id].status = "auto_closed"
      <4>1. touched[id] = Upserted(rows, Group[p], nfs, owners, id)
        BY <1>5 DEF Touched
      <4>2. "status" \in DOMAIN touched[id]
        BY <4>1 DEF Upserted, Updated, Inserted
      <4>3. Closes(touched[id], Group[p], t)
              => new[id] = [touched[id] EXCEPT !.status = "auto_closed"]
        BY <1>1 DEF SnapshotRows
      <4> HIDE DEF touched, new
      <4>4. QED
        BY <4>2, <4>3
    <3>3. QED
      BY <3>1, <3>2
  <2>2. Lifecycle(all, id) = Lifecycle(trail, id) \cup Lifecycle(ups, id)
    <3>1. \A e : e \in Lifecycle(all, id)
                   <=> e \in Lifecycle(kept, id) \cup Lifecycle(ups, id)
                             \cup Lifecycle(CloseEvents(touched, Group[p], t, at), id)
      <4>1. \A e : e \in all /\ e.finding = id
                     <=> /\ e.finding = id
                         /\ e \in kept \cup ups \cup CloseEvents(touched, Group[p], t, at)
        BY <1>4, <1>5 DEF SnapshotEvents
      <4> HIDE DEF all, kept, ups, touched
      <4>2. QED
        BY <4>1 DEF Lifecycle
    <3> HIDE DEF all, kept, ups, touched
    <3>2. QED
      BY <1>2, <1>3, <2>1, <3>1
  <2>3. CASE id \notin DOMAIN rows
    <3>1. Lifecycle(ups, id) = {Event(id, at, "discovered", "none", "open")}
      BY <2>3 DEF UpsertEvents, Lifecycle, LifecycleTypes, Event
    <3>2. QED
      BY <2>1, <2>2, <3>1 DEF Event
  <2>4. CASE id \in DOMAIN rows /\ rows[id].status = "open"
    <3>1. Lifecycle(ups, id) = {}
      BY <2>4 DEF UpsertEvents, Lifecycle, LifecycleTypes, Event
    <3>2. QED
      BY <2>1, <2>2, <2>4, <3>1
  <2>5. CASE id \in DOMAIN rows /\ rows[id].status # "open"
    <3>1. Lifecycle(ups, id) = {Event(id, at, "reopened", rows[id].status, "open")}
      BY <2>5 DEF UpsertEvents, Lifecycle, LifecycleTypes, Event
    <3>2. QED
      BY <2>1, <2>2, <3>1 DEF Event
  <2>6. QED
    BY <2>3, <2>4, <2>5
<1>6. CASE id \notin Incoming(nfs)
  <2>1. id \in DOMAIN rows /\ touched[id] = Aged(rows[id], Group[p])
    BY <1>1, <1>6 DEF Touched
  <2>2. rows[id] \in Row
    BY <2>1 DEF TableType
  <2>3. Lifecycle(all, id)
          = Lifecycle(trail, id) \cup Lifecycle(CloseEvents(touched, Group[p], t, at), id)
    <3>1. \A e : e \in Lifecycle(all, id)
                   <=> e \in Lifecycle(kept, id)
                             \cup Lifecycle(CloseEvents(touched, Group[p], t, at), id)
      <4>1. \A e : e \in all /\ e.finding = id
                     <=> /\ e.finding = id
                         /\ e \in kept \cup CloseEvents(touched, Group[p], t, at)
        BY <1>4, <1>6 DEF SnapshotEvents
      <4> HIDE DEF all, kept, touched
      <4>2. QED
        BY <4>1 DEF Lifecycle
    <3> HIDE DEF all, kept, touched
    <3>2. QED
      BY <1>2, <3>1
  <2>4. /\ touched[id] \in Row /\ touched[id].status = rows[id].status
    <3> HIDE DEF touched
    <3>1. QED
      BY <2>1, <2>2 DEF Aged, Row
  <2>5. new[id] = IF Closes(touched[id], Group[p], t)
                  THEN [touched[id] EXCEPT !.status = "auto_closed"] ELSE touched[id]
    BY <1>1 DEF SnapshotRows
  <2>6. CASE Closes(touched[id], Group[p], t)
    <3>1. new[id].status = "auto_closed"
      <4> HIDE DEF touched, new
      <4>1. QED
        BY <2>4, <2>5, <2>6 DEF Row
    <3>2. Lifecycle(all, id) = Lifecycle(trail, id) \cup {closing}
      BY <1>3, <2>3, <2>6
    <3>3. QED
      BY <3>1, <3>2 DEF Event
  <2>7. CASE ~ Closes(touched[id], Group[p], t)
    <3>1. Lifecycle(all, id) = Lifecycle(trail, id)
      BY <1>3, <2>3, <2>7
    <3>2. new[id].status = rows[id].status
      BY <2>4, <2>5, <2>7
    <3>3. QED
      BY <2>1, <3>1, <3>2
  <2>8. QED
    BY <2>6, <2>7
<1>7. QED
  BY <1>5, <1>6

-----------------------------------------------------------------------------
(***************************************************************************)
(* The ingest path.                                                        *)
(***************************************************************************)
\* What the raw store holds is a snapshot of one of the pollers.
LEMMA StoredSnapshot ==
  ASSUME raw \in Seq(Payloads), NEW i \in DOMAIN raw
  PROVE  raw[i].poller \in Pollers /\ SnapshotOf(raw[i].poller, raw[i].nfs)
<1>1. raw[i] \in Payloads
  OBVIOUS
<1>2. PICK p \in Pollers : raw[i] \in Snapshots(p)
  BY <1>1 DEF Payloads
<1>3. PICK S \in SUBSET NativesOf(p) :
        raw[i] \in [poller: {p}, nfs: [S -> NormalizedFinding(p)], twice: SUBSET S]
  BY <1>2 DEF Snapshots
<1>4. raw[i].poller = p /\ raw[i].nfs \in [S -> NormalizedFinding(p)]
  BY <1>3
<1>5. QED
  BY <1>4 DEF SnapshotOf

\* The transactions so far are finitely many.
LEMMA ProcessedFinite ==
  ASSUME TypeOK
  PROVE  IsFiniteSet(processed) /\ Cardinality(processed) \in Nat
<1>1. processed \subseteq 1..Len(raw) /\ Len(raw) \in Nat
  BY DEF TypeOK
<1>2. IsFiniteSet(1..Len(raw))
  BY <1>1, FS_Interval
<1>3. QED
  BY <1>1, <1>2, FS_Subset, FS_CardinalityType

LEMMA ThresholdsType ==
  ASSUME NEW p \in Pollers, NEW t \in Thresholds[p]
  PROVE  ThresholdType(t)
BY IngestAssumption DEF ThresholdType

-----------------------------------------------------------------------------
\* Sending, acknowledging and refusing keep the messages well formed.
LEMMA MessagesType ==
  ASSUME TypeOK, NEW i \in DOMAIN msg, UNCHANGED raw,
         \/ msg' = [msg EXCEPT ![i] = [state |-> "acked", attempts |-> 0]]
         \/ msg[i].state = "pending" /\ Nack(i)
  PROVE  msg' \in Seq(MessageType) /\ Len(msg') = Len(raw')
<1>1. msg \in Seq(MessageType) /\ Len(msg) = Len(raw) /\ MaxAttempts \in Nat \ {0}
  BY IngestAssumption DEF TypeOK
<1>2. CASE msg' = [msg EXCEPT ![i] = [state |-> "acked", attempts |-> 0]]
  <2>1. [state |-> "acked", attempts |-> 0] \in MessageType
    BY <1>1 DEF MessageType, MessageStates
  <2>2. QED
    BY <1>1, <1>2, <2>1
<1>3. CASE msg[i].state = "pending" /\ Nack(i)
  <2> DEFINE attempts == msg[i].attempts + 1
             next == [state |-> IF attempts = MaxAttempts THEN "dead" ELSE "pending",
                      attempts |-> attempts]
  <2>1. attempts \in 1..MaxAttempts
    BY <1>1, <1>3 DEF MessageType
  <2>2. next \in MessageType
    BY <1>1, <2>1 DEF MessageType, MessageStates
  <2>3. msg' = [msg EXCEPT ![i] = next]
    BY <1>3 DEF Nack
  <2> HIDE DEF next
  <2>4. QED
    BY <1>1, <2>2, <2>3
<1>4. QED
  BY <1>2, <1>3

LEMMA InitType == Init => TypeOK
<1> SUFFICES ASSUME Init PROVE TypeOK
  OBVIOUS
<1>1. PICK old \in SUBSET DOMAIN LegacySource :
        findings \in [{LegacyId(n) : n \in old} -> LegacyRow]
  BY DEF Init
<1>2. TableType(findings)
  <2>1. ASSUME NEW id \in DOMAIN findings
        PROVE  /\ id \in Ids /\ findings[id] \in Row
               /\ findings[id].src \in Group[PollerOf[NativeOf(id)]]
    <3>1. PICK n \in DOMAIN LegacySource : id = LegacyId(n)
      BY <1>1, <2>1
    <3>2. id \in Ids /\ NativeOf(id) = n
      BY <3>1, NativesAssumption DEF LegacyId, Ids, NativeOf
    <3>3. findings[id].src = LegacySource[n]
      BY <2>1, <3>2 DEF Init
    <3>4. findings[id] \in LegacyRow
      BY <1>1, <2>1
    <3>5. findings[id] \in Row
      BY <3>4 DEF LegacyRow, Row
    <3>6. QED
      BY <3>2, <3>3, <3>5, NativesAssumption
  <2>2. QED
    BY <2>1 DEF TableType
<1>3. events \subseteq EventRow
  <2>1. ASSUME NEW id \in DOMAIN findings
        PROVE  Event(id, 0, "discovered", "none", "open") \in EventRow
    BY <1>2 DEF TableType, Event, EventRow, EventTypes, EventValues
  <2>2. QED
    BY <2>1 DEF Init
<1>4. QED
  BY <1>2, <1>3, IngestAssumption DEF Init, TypeOK

LEMMA CommitType ==
  ASSUME TypeOK, NEW i \in DOMAIN raw, Commit(i)
  PROVE  /\ TableType(findings')
         /\ events' \subseteq EventRow
         /\ processed' \subseteq DOMAIN raw
<1> DEFINE p == raw[i].poller
           nfs == raw[i].nfs
           at == Cardinality(processed) + 1
<1>1. p \in Pollers /\ SnapshotOf(p, nfs)
  BY StoredSnapshot DEF TypeOK
<1>2. at \in Nat
  BY ProcessedFinite
<1>3. TableType(findings) /\ events \in SUBSET EventRow /\ processed \subseteq DOMAIN raw
  BY DEF TypeOK
<1>4. PICK t \in Thresholds[p], owners \in OwnerMaps :
        /\ findings' = SnapshotRows(findings, Group[p], nfs, owners, t)
        /\ events' = SnapshotEvents(findings, events, Group[p], nfs, owners, t, at)
        /\ processed' = processed \cup {i}
  BY DEF Commit
<1>5. ThresholdType(t) /\ owners \in [Assets -> Teams]
  BY <1>1, ThresholdsType, IngestAssumption
<1> HIDE DEF p, nfs, at
<1>6. TableType(findings')
  BY <1>1, <1>3, <1>4, <1>5, SnapshotRowsType
<1>7. events' \subseteq EventRow
  BY <1>1, <1>2, <1>3, <1>4, <1>5, SnapshotEventsType
<1>8. QED
  BY <1>3, <1>4, <1>6, <1>7

LEMMA PollType ==
  ASSUME TypeOK, NEW p \in Pollers, Poll(p)
  PROVE  TypeOK'
<1>1. PICK snapshot \in Snapshots(p) : raw' = Append(raw, snapshot)
  BY DEF Poll
<1>2. raw' \in Seq(Payloads) /\ Len(raw') = Len(raw) + 1 /\ Len(raw') <= MaxPolls
  BY <1>1, IngestAssumption DEF Poll, TypeOK, Payloads
<1>3. msg' \in Seq(MessageType) /\ Len(msg') = Len(raw')
  <2>1. [state |-> "pending", attempts |-> 0] \in MessageType
    BY IngestAssumption DEF MessageType, MessageStates
  <2>2. QED
    BY <1>2, <2>1 DEF Poll, TypeOK
<1>4. processed' \subseteq DOMAIN raw'
  BY <1>1 DEF Poll, TypeOK, tables
<1>5. QED
  BY <1>2, <1>3, <1>4 DEF Poll, TypeOK, tables

\* Every push, whatever became of it, keeps the types.
LEMMA PushType ==
  ASSUME TypeOK, NEW i \in DOMAIN msg, Push(i)
  PROVE  TypeOK'
<1>1. i \in DOMAIN raw /\ UNCHANGED raw
  BY DEF TypeOK, Push, Deliver, DeliverUnacked, DeliverFails
<1>2. msg' \in Seq(MessageType) /\ Len(msg') = Len(raw')
  BY <1>1, MessagesType DEF Push, Deliver, DeliverUnacked, DeliverFails
<1>3. CASE UNCHANGED tables
  BY <1>1, <1>2, <1>3 DEF TypeOK, tables
<1>4. CASE Commit(i)
  BY <1>1, <1>2, <1>4, CommitType DEF TypeOK
<1>5. QED
  BY <1>3, <1>4 DEF Push, Deliver, DeliverUnacked, DeliverFails, Normalize, tables

\* A step leaves the tables alone or is one transaction on a poll that no
\* transaction was on before.
LEMMA TableSteps ==
  ASSUME [Next]_vars
  PROVE  \/ UNCHANGED tables
         \/ \E i \in DOMAIN msg : i \notin processed /\ UNCHANGED raw /\ Commit(i)
BY DEF Next, vars, tables, Poll, Deliver, DeliverUnacked, DeliverFails, Normalize

LEMMA NextType == TypeOK /\ [Next]_vars => TypeOK'
<1> SUFFICES ASSUME TypeOK, [Next]_vars PROVE TypeOK'
  OBVIOUS
<1>1. CASE \E p \in Pollers : Poll(p)
  BY <1>1, PollType
<1>2. CASE \E i \in DOMAIN msg : Push(i)
  BY <1>2, PushType
<1>3. CASE UNCHANGED vars
  BY <1>3 DEF vars, TypeOK
<1>4. QED
  BY <1>1, <1>2, <1>3 DEF Next, Push

\* The tables, the raw store and the messages keep their types through every
\* poll, push, retry and transaction.
THEOREM TypeCorrect == Spec => []TypeOK
BY InitType, NextType, PTL DEF Spec

-----------------------------------------------------------------------------
(***************************************************************************)
(* The reconciliation keeps (source, native_id) unique in the table, which *)
(* is the premise under which its own promise holds; and it leaves no      *)
(* event behind.                                                           *)
(***************************************************************************)
Reconciled == TypeOK /\ UniqueSourceNative(findings) /\ NoOrphanEvents

LEMMA InitReconciled == Init => Reconciled
<1> SUFFICES ASSUME Init PROVE Reconciled
  OBVIOUS
<1>1. PICK old \in SUBSET DOMAIN LegacySource :
        findings \in [{LegacyId(n) : n \in old} -> LegacyRow]
  BY DEF Init
<1>2. UniqueSourceNative(findings)
  BY <1>1 DEF UniqueSourceNative, LegacyId, NativeOf
<1>3. NoOrphanEvents
  BY DEF Init, NoOrphanEvents, Event
<1>4. QED
  BY <1>2, <1>3, InitType DEF Reconciled

LEMMA CommitReconciled ==
  ASSUME Reconciled, NEW i \in DOMAIN raw, Commit(i)
  PROVE  UniqueSourceNative(findings') /\ NoOrphanEvents'
<1> DEFINE p == raw[i].poller
           nfs == raw[i].nfs
           at == Cardinality(processed) + 1
<1>1. p \in Pollers /\ SnapshotOf(p, nfs)
  BY StoredSnapshot DEF TypeOK, Reconciled
<1>2. TableType(findings) /\ events \in SUBSET EventRow
  BY DEF TypeOK, Reconciled
<1>3. PICK t, owners :
        /\ findings' = SnapshotRows(findings, Group[p], nfs, owners, t)
        /\ events' = SnapshotEvents(findings, events, Group[p], nfs, owners, t, at)
  BY DEF Commit
<1> HIDE DEF p, nfs, at
<1>4. NoOrphanEvents'
  <2>1. \A e \in events : e.finding \in DOMAIN findings
    BY DEF Reconciled, NoOrphanEvents
  <2>2. ASSUME NEW e \in events'
        PROVE  e.finding \in DOMAIN findings'
    BY <1>1, <1>2, <1>3, <2>1, <2>2, NoOrphanLeft
  <2>3. QED
    BY <2>2 DEF NoOrphanEvents
<1>5. QED
  BY <1>4 DEF Commit

LEMMA NextReconciled == Reconciled /\ [Next]_vars => Reconciled'
<1> SUFFICES ASSUME Reconciled, [Next]_vars
             PROVE  UniqueSourceNative(findings') /\ NoOrphanEvents' /\ TypeOK'
  BY DEF Reconciled
<1>1. TypeOK'
  BY NextType DEF Reconciled
<1>2. CASE UNCHANGED tables
  <2>1. UNCHANGED <<findings, events>>
    BY <1>2 DEF tables
  <2>2. UniqueSourceNative(findings) /\ NoOrphanEvents
    BY DEF Reconciled
  <2>3. NoOrphanEvents'
    BY <2>1, <2>2 DEF NoOrphanEvents
  <2>4. UniqueSourceNative(findings')
    BY <2>1, <2>2
  <2>5. QED
    BY <1>1, <2>3, <2>4
<1>3. ASSUME NEW i \in DOMAIN msg, Commit(i)
      PROVE  UniqueSourceNative(findings') /\ NoOrphanEvents'
  BY <1>3, CommitReconciled DEF Reconciled, TypeOK
<1>4. QED
  BY <1>1, <1>2, <1>3, TableSteps

\* Hence in every reachable state.
THEOREM ReconciledInvariant == Spec => []Reconciled
BY InitReconciled, NextReconciled, PTL DEF Spec

\* Every event belongs to a row that is there, whatever was reconciled.
THEOREM NoOrphans == Spec => []NoOrphanEvents
<1>1. Reconciled => NoOrphanEvents
  BY DEF Reconciled
<1>2. QED
  BY <1>1, ReconciledInvariant, PTL

\* No snapshot still to be applied, however old, can collide on
\* (source, native_id) with the rows of the table.
THEOREM NoCollision == Spec => []ReconciliationPreventsCollision
<1>1. Reconciled => ReconciliationPreventsCollision
  <2> SUFFICES ASSUME Reconciled, NEW i \in DOMAIN raw,
                      NEW owners \in OwnerMaps, NEW t \in Thresholds[raw[i].poller]
               PROVE  UniqueSourceNative(SnapshotRows(findings, Group[raw[i].poller],
                                                      raw[i].nfs, owners, t))
    BY DEF ReconciliationPreventsCollision
  <2>1. raw[i].poller \in Pollers /\ SnapshotOf(raw[i].poller, raw[i].nfs)
    BY StoredSnapshot DEF TypeOK, Reconciled
  <2>2. ThresholdType(t) /\ owners \in [Assets -> Teams]
    BY <2>1, ThresholdsType, IngestAssumption
  <2>3. QED
    BY <2>1, <2>2, ReconciledIsUnique DEF Reconciled, TypeOK
<1>2. QED
  BY <1>1, ReconciledInvariant, PTL

-----------------------------------------------------------------------------
(***************************************************************************)
(* The refinement.  Turn counts the polls of a poller that were applied,   *)
(* so one more transaction moves one turn by one; and the counter of       *)
(* misses of an open row is the distance to the turn that last reported    *)
(* it, which is why both sides close it at the same transaction.           *)
(***************************************************************************)
Applied(p) == {i \in processed : raw[i].poller = p}

LEMMA TurnSteps ==
  ASSUME TypeOK, NEW i \in DOMAIN raw, i \notin processed, UNCHANGED raw,
         processed' = processed \cup {i}
  PROVE  /\ Turn' = [Turn EXCEPT ![raw[i].poller] = @ + 1]
         /\ Turn \in [Pollers -> Nat]
<1>1. ASSUME NEW p \in Pollers
      PROVE  /\ IsFiniteSet(Applied(p))
             /\ Cardinality(Applied(p)) \in Nat
  BY ProcessedFinite, FS_Subset, FS_CardinalityType, Applied(p) \subseteq processed
     DEF Applied
<1>2. ASSUME NEW p \in Pollers
      PROVE  Turn'[p] = IF p = raw[i].poller THEN Turn[p] + 1 ELSE Turn[p]
  <2>1. CASE p = raw[i].poller
    <3>1. Applied(p)' = Applied(p) \cup {i} /\ i \notin Applied(p)
      BY <2>1 DEF Applied
    <3>2. Cardinality(Applied(p)') = Cardinality(Applied(p)) + 1
      BY <1>1, <3>1, FS_AddElement
    <3>3. QED
      BY <2>1, <3>2 DEF Turn, Applied
  <2>2. CASE p # raw[i].poller
    <3>1. Applied(p)' = Applied(p)
      BY <2>2 DEF Applied
    <3>2. QED
      BY <2>2, <3>1 DEF Turn, Applied
  <2>3. QED
    BY <2>1, <2>2
<1>3. Turn \in [Pollers -> Nat]
  BY <1>1 DEF Turn, Applied
<1>4. Turn' = [p \in Pollers |-> Turn'[p]] /\ Turn = [p \in Pollers |-> Turn[p]]
  BY DEF Turn
<1> QED
  BY <1>2, <1>3, <1>4

LEMMA RefinesInit == Init => Promise!Init
<1> SUFFICES ASSUME Init PROVE Promise!Init
  OBVIOUS
<1>1. TypeOK
  BY InitType
<1>2. Turn = [p \in Pollers |-> 0]
  BY FS_EmptySet DEF Init, Turn
<1>3. ASSUME NEW id \in DOMAIN findings
      PROVE  findings[id].status = "open" /\ findings[id].misses = 0
  BY <1>3 DEF Init, LegacyRow
<1>4. Standing \in [Ids -> {"none", "open"}]
  BY <1>3 DEF Standing
<1>5. ASSUME NEW id \in Ids
      PROVE  Seen[id] = 0
  <2>1. PollerOfId[id] \in Pollers
    BY NativesAssumption DEF PollerOfId, Ids, NativeOf
  <2>2. QED
    BY <1>2, <1>3, <2>1 DEF Seen, Standing
<1>6. Seen = [id \in Ids |-> 0]
  BY <1>5 DEF Seen
<1>7. QED
  BY <1>2, <1>4, <1>6 DEF Init, Promise!Init

\* What one transaction does to the standing of one finding, and to the turn
\* that last reported it.
LEMMA RefinesJudgement ==
  ASSUME TypeOK, NEW i \in DOMAIN raw, i \notin processed, UNCHANGED raw, Commit(i),
         NEW nfs, nfs = raw[i].nfs, NEW p, p = raw[i].poller, NEW t \in Thresholds[p],
         NEW owners \in OwnerMaps,
         findings' = SnapshotRows(findings, Group[p], nfs, owners, t),
         NEW id \in Ids
  PROVE  LET S == Incoming(nfs)
             R == Stale(findings, Group[p], nfs)
             now == Turn[p] + 1
             closed == PollerOfId[id] = p /\ id \notin S \cup R
                         /\ Promise!Overdue(id, now, t)
         IN  /\ Standing'[id] = IF id \in S THEN "open"
                                ELSE IF id \in R THEN "none"
                                ELSE IF closed THEN "auto_closed"
                                ELSE Standing[id]
             /\ Seen'[id] = IF id \in S THEN now
                            ELSE IF id \in R \/ closed THEN 0
                            ELSE Seen[id]
<1> DEFINE S == Incoming(nfs)
           R == Stale(findings, Group[p], nfs)
           now == Turn[p] + 1
           q == PollerOfId[id]
           closed == q = p /\ id \notin S \cup R /\ Promise!Overdue(id, now, t)
<1>1. p \in Pollers /\ SnapshotOf(p, nfs)
  BY StoredSnapshot DEF TypeOK
<1>2. TableType(findings) /\ ThresholdType(t) /\ owners \in [Assets -> Teams]
  BY <1>1, ThresholdsType, IngestAssumption DEF TypeOK
<1>3. q \in Pollers /\ q = PollerOf[NativeOf(id)]
  BY NativesAssumption DEF PollerOfId, Ids, NativeOf
<1>4. /\ Turn \in [Pollers -> Nat]
      /\ Turn'[q] = IF q = p THEN Turn[q] + 1 ELSE Turn[q]
  <2>1. processed' = processed \cup {i}
    BY DEF Commit
  <2>2. Turn' = [Turn EXCEPT ![p] = @ + 1] /\ Turn \in [Pollers -> Nat]
    BY <2>1, TurnSteps
  <2>3. QED
    BY <1>1, <1>3, <2>2
<1>5. /\ Standing[id] = IF id \in DOMAIN findings THEN findings[id].status ELSE "none"
      /\ Standing'[id] = IF id \in DOMAIN findings' THEN findings'[id].status ELSE "none"
      /\ Seen[id] = IF Standing[id] = "open" THEN Turn[q] - findings[id].misses ELSE 0
      /\ Seen'[id] = IF Standing'[id] = "open" THEN Turn'[q] - findings'[id].misses ELSE 0
  BY DEF Standing, Seen
<1>6. DOMAIN findings' = (DOMAIN findings \ R) \cup S
  BY DEF SnapshotRows, Touched
<1>7. CASE id \in S
  <2>1. q = p
    BY <1>1, <1>3, <1>7, IncomingIds
  <2>2. id \in DOMAIN findings' /\ findings'[id].status = "open" /\ findings'[id].misses = 0
    BY <1>1, <1>2, <1>7, ReportedRow
  <2>3. Standing'[id] = "open"
    BY <1>5, <2>2
  <2>4. Seen'[id] = now
    BY <1>1, <1>4, <1>5, <2>1, <2>2, <2>3
  <2>5. QED
    BY <1>7, <2>3, <2>4
<1>8. CASE id \in R
  <2>1. id \notin S
    BY <1>8 DEF Stale
  <2>2. id \notin DOMAIN findings'
    <3> HIDE DEF S, R
    <3>1. QED
      BY <1>6, <1>8, <2>1
  <2>3. Standing'[id] = "none" /\ Seen'[id] = 0
    BY <1>5, <2>2
  <2>4. QED
    BY <1>8, <2>1, <2>3
<1>9. CASE id \notin DOMAIN findings /\ id \notin S
  <2>1. id \notin R
    BY <1>9 DEF Stale
  <2>2. id \notin DOMAIN findings'
    <3> HIDE DEF S, R
    <3>1. QED
      BY <1>6, <1>9
  <2>3. Standing[id] = "none" /\ Standing'[id] = "none" /\ Seen[id] = 0 /\ Seen'[id] = 0
    BY <1>5, <1>9, <2>2
  <2>4. ~ closed
    BY <2>3 DEF Promise!Overdue
  <2>5. QED
    BY <1>9, <2>1, <2>3, <2>4
<1>10. CASE id \in DOMAIN findings /\ id \notin S /\ id \notin R
  <2> DEFINE old == findings[id]
             new == findings'[id]
             open == OpenInGroup(old, Group[p])
  <2>1. /\ id \in DOMAIN findings' /\ new \in Row
        /\ open => /\ new.misses = old.misses + 1
                   /\ new.status = IF Reached(new.misses, t)
                                   THEN "auto_closed" ELSE "open"
        /\ ~ open => new = old
    <3>1. id \in DOMAIN findings \ Stale(findings, Group[p], nfs)
      BY <1>10
    <3>2. id \notin Incoming(nfs)
      BY <1>10
    <3>3. QED
      BY <1>1, <1>2, <3>1, <3>2, AbsentRow
  <2>2. old \in Row /\ old.src \in Group[q]
    BY <1>2, <1>3, <1>10 DEF TableType
  <2>3. open <=> old.status = "open" /\ q = p
    BY <1>1, <1>3, <2>2, GroupAssumption DEF OpenInGroup
  <2>4. Standing[id] = old.status /\ Standing'[id] = new.status
    BY <1>5, <1>10, <2>1
  <2>5. old.misses \in Nat /\ new.misses \in Nat /\ Turn[q] \in Nat
    BY <1>3, <1>4, <2>1, <2>2 DEF Row
  <2>6. CASE open
    <3>1. Seen[id] = Turn[p] - old.misses /\ q = p
      BY <1>5, <2>3, <2>4, <2>6
    <3>2. now - Seen[id] = old.misses + 1
      BY <2>5, <3>1
    <3>3. closed <=> Reached(new.misses, t)
      BY <1>10, <2>1, <2>3, <2>4, <2>6, <3>1, <3>2 DEF Promise!Overdue, Reached
    <3>4. Standing'[id] = IF closed THEN "auto_closed" ELSE Standing[id]
      BY <2>1, <2>3, <2>4, <2>6, <3>3
    <3>5. Turn'[q] - new.misses = Turn[q] - old.misses
      <4>1. \A a, b, c, d \in Nat : c = a + 1 /\ d = b + 1 => c - d = a - b
        OBVIOUS
      <4>2. Turn'[q] = Turn[q] + 1 /\ new.misses = old.misses + 1 /\ Turn'[q] \in Nat
        BY <1>4, <2>1, <2>5, <2>6, <3>1
      <4>3. QED
        BY <2>5, <4>1, <4>2
    <3>6. CASE closed
      <4>1. Standing'[id] = "auto_closed"
        BY <3>4, <3>6
      <4>2. Seen'[id] = 0
        BY <1>5, <4>1
      <4>3. QED
        BY <1>10, <3>4, <3>6, <4>2
    <3>7. CASE ~ closed
      <4>1. Standing[id] = "open" /\ Standing'[id] = "open"
        BY <2>3, <2>4, <2>6, <3>4, <3>7
      <4>2. Seen'[id] = Turn'[q] - new.misses /\ Seen[id] = Turn[q] - old.misses
        BY <1>5, <4>1
      <4>3. Seen'[id] = Seen[id]
        BY <3>5, <4>2
      <4>4. QED
        BY <1>10, <3>4, <3>7, <4>3
    <3>8. QED
      BY <3>6, <3>7
  <2>7. CASE ~ open
    <3>1. ~ closed
      BY <2>3, <2>4, <2>7 DEF Promise!Overdue
    <3>2. Standing'[id] = Standing[id]
      BY <2>1, <2>4, <2>7
    <3>3. Standing[id] = "open" => q # p
      BY <2>3, <2>4, <2>7
    <3>4. Seen'[id] = Seen[id]
      BY <1>4, <1>5, <2>1, <2>7, <3>2, <3>3
    <3>5. QED
      BY <1>10, <3>1, <3>2, <3>4
  <2>8. QED
    BY <2>6, <2>7
<1>11. QED
  BY <1>7, <1>8, <1>9, <1>10

\* One transaction is one poll taken.
LEMMA RefinesCommit ==
  ASSUME TypeOK, NEW i \in DOMAIN raw, i \notin processed, UNCHANGED raw, Commit(i)
  PROVE  Promise!Next
<1> DEFINE p == raw[i].poller
           nfs == raw[i].nfs
           S == Incoming(nfs)
           R == Stale(findings, Group[p], nfs)
<1>1. p \in Pollers /\ SnapshotOf(p, nfs)
  BY StoredSnapshot DEF TypeOK
<1>2. PICK t \in Thresholds[p], owners \in OwnerMaps :
        findings' = SnapshotRows(findings, Group[p], nfs, owners, t)
  BY DEF Commit
<1>3. TableType(findings) /\ raw \in Seq(Payloads) /\ Len(raw) <= MaxPolls
  BY DEF TypeOK
<1>4. S \in SUBSET Promise!OfReporter(p) /\ R \in SUBSET Promise!OfReporter(p)
      /\ R \cap S = {}
  <2>1. ASSUME NEW id \in S PROVE id \in Promise!OfReporter(p)
    BY <1>1, IncomingIds DEF Promise!OfReporter, PollerOfId
  <2>2. ASSUME NEW id \in R
        PROVE  id \in Ids /\ id \notin S /\ PollerOf[NativeOf(id)] = p
    BY <1>1, <1>3 DEF Stale, TableType, SnapshotOf, NativesOf
  <2>3. ASSUME NEW id \in R PROVE id \in Promise!OfReporter(p)
    BY <2>2 DEF Promise!OfReporter, PollerOfId
  <2> HIDE DEF S, R
  <2>4. QED
    BY <2>1, <2>2, <2>3
<1>5. Promise!Judge(p, Turn[p] + 1, S, R, t)
  <2> DEFINE now == Turn[p] + 1
             closed == {f \in Promise!OfReporter(p) :
                          f \notin S \cup R /\ Promise!Overdue(f, now, t)}
  <2>1. ASSUME NEW id \in Ids
        PROVE  /\ id \in closed <=> /\ PollerOfId[id] = p /\ id \notin S \cup R
                                    /\ Promise!Overdue(id, now, t)
               /\ Standing'[id] = IF id \in S THEN "open"
                                  ELSE IF id \in R THEN "none"
                                  ELSE IF id \in closed THEN "auto_closed"
                                  ELSE Standing[id]
               /\ Seen'[id] = IF id \in S THEN now
                              ELSE IF id \in R \cup closed THEN 0
                              ELSE Seen[id]
    <3>1. id \in closed <=> /\ PollerOfId[id] = p /\ id \notin S \cup R
                            /\ Promise!Overdue(id, now, t)
      BY DEF Promise!OfReporter
    <3>2. /\ Standing'[id] = IF id \in S THEN "open"
                             ELSE IF id \in R THEN "none"
                             ELSE IF /\ PollerOfId[id] = p /\ id \notin S \cup R
                                     /\ Promise!Overdue(id, now, t)
                             THEN "auto_closed" ELSE Standing[id]
          /\ Seen'[id] = IF id \in S THEN now
                         ELSE IF \/ id \in R
                                 \/ /\ PollerOfId[id] = p /\ id \notin S \cup R
                                    /\ Promise!Overdue(id, now, t)
                         THEN 0 ELSE Seen[id]
      BY <1>2, <2>1, RefinesJudgement
    <3> HIDE DEF S, R, now, closed
    <3>3. QED
      BY <3>1, <3>2
  <2>2. /\ Standing' = [id \in Ids |-> Standing'[id]]
        /\ Seen' = [id \in Ids |-> Seen'[id]]
    BY DEF Standing, Seen
  <2>3. /\ Standing' = [id \in Ids |->
             IF id \in S THEN "open"
             ELSE IF id \in R THEN "none"
             ELSE IF id \in closed THEN "auto_closed" ELSE Standing[id]]
        /\ Seen' = [id \in Ids |->
             IF id \in S THEN now
             ELSE IF id \in R \cup closed THEN 0 ELSE Seen[id]]
    <3> HIDE DEF S, R, now, closed
    <3>1. QED
      BY <2>1, <2>2
  <2>4. QED
    BY <2>3 DEF Promise!Judge
<1>6. Promise!Take(i, p)
  <2>1. processed' = processed \cup {i}
    BY DEF Commit
  <2>2. Turn' = [Turn EXCEPT ![p] = @ + 1]
    BY <2>1, TurnSteps
  <2> HIDE DEF p, S, R
  <2>3. QED
    BY <1>2, <1>4, <1>5, <2>1, <2>2 DEF Promise!Take
<1>7. i \in 1..MaxPolls
  BY <1>3, IngestAssumption
<1>8. QED
  BY <1>1, <1>6, <1>7 DEF Promise!Next

LEMMA RefinesStutter ==
  ASSUME TypeOK, UNCHANGED tables,
         \A i \in DOMAIN raw : raw'[i] = raw[i]
  PROVE  UNCHANGED <<processed, Turn, Standing, Seen>>
<1>1. UNCHANGED <<findings, processed>>
  BY DEF tables
<1>2. \A p : Applied(p)' = Applied(p)
  BY <1>1 DEF Applied, TypeOK
<1>3. Turn' = Turn
  BY <1>2 DEF Turn, Applied
<1>4. Standing' = Standing
  BY <1>1 DEF Standing
<1>5. Seen' = Seen
  BY <1>1, <1>3, <1>4 DEF Seen
<1>6. QED
  BY <1>1, <1>3, <1>4, <1>5

\* Under any delivery order, retries and duplicates, each poll is one step of
\* FindingLifecycle: taken at most once, whole, and closing exactly the findings
\* of its own poller that have been absent for the threshold.
THEOREM Refinement == Spec => ImplementsLifecycle
<1>1. TypeOK /\ [Next]_vars => [Promise!Next]_<<processed, Turn, Standing, Seen>>
  <2> SUFFICES ASSUME TypeOK, [Next]_vars
               PROVE  Promise!Next \/ UNCHANGED <<processed, Turn, Standing, Seen>>
    OBVIOUS
  <2>1. ASSUME NEW i \in DOMAIN msg, i \notin processed, UNCHANGED raw, Commit(i)
        PROVE  Promise!Next
    BY <2>1, RefinesCommit DEF TypeOK
  <2>2. CASE UNCHANGED tables
    <3>1. \A i \in DOMAIN raw : raw'[i] = raw[i]
      BY DEF Next, vars, Poll, Deliver, DeliverUnacked, DeliverFails, TypeOK
    <3>2. QED
      BY <2>2, <3>1, RefinesStutter
  <2>3. QED
    BY <2>1, <2>2, TableSteps
<1>2. QED
  BY <1>1, RefinesInit, TypeCorrect, PTL
     DEF Spec, ImplementsLifecycle, Promise!Spec, Promise!lifecycleVars

-----------------------------------------------------------------------------
(***************************************************************************)
(* The trail.  To know the latest event of a finding one needs that events *)
(* are never dated ahead of the transactions made, so that a new one is    *)
(* the latest; and to know that a merge leaves a finding with two          *)
(* "discovered" events one needs that every row still has its own, dated 0 *)
(* for legacy rows and later for the others.                               *)
(***************************************************************************)
IsLegacy(id) == id = LegacyId(NativeOf(id))
Dated == \A e \in events : e.at <= Cardinality(processed)
Founding(id) ==
  {e \in events : e.finding = id /\ e.type = "discovered" /\ (e.at = 0 <=> IsLegacy(id))}
Trailed ==
  /\ Reconciled
  /\ Dated
  /\ \A id \in DOMAIN findings : Founding(id) # {}
  /\ TrailExplainsStatus

LEMMA InitTrailed == Init => Trailed
<1> SUFFICES ASSUME Init PROVE Trailed
  OBVIOUS
<1>1. PICK old \in SUBSET DOMAIN LegacySource :
        findings \in [{LegacyId(n) : n \in old} -> LegacyRow]
  BY DEF Init
<1>2. Dated
  <2>1. \A e \in events : e.at = 0
    BY DEF Init, Event
  <2>2. Cardinality(processed) = 0
    BY FS_EmptySet DEF Init
  <2>3. QED
    BY <2>1, <2>2 DEF Dated
<1>3. ASSUME NEW id \in DOMAIN findings
      PROVE  Event(id, 0, "discovered", "none", "open") \in Founding(id)
  BY <1>1 DEF Init, Founding, Event, IsLegacy, LegacyId, NativeOf
<1>4. TrailExplainsStatus
  <2> SUFFICES ASSUME NEW id \in DOMAIN findings
               PROVE  \E e \in Lifecycle(events, id) :
                        /\ e.to = findings[id].status
                        /\ \A f \in Lifecycle(events, id) : f = e \/ f.at < e.at
    BY DEF TrailExplainsStatus
  <2>1. findings[id].status = "open"
    BY <1>1 DEF LegacyRow
  <2>2. Lifecycle(events, id) = {Event(id, 0, "discovered", "none", "open")}
    BY DEF Init, Lifecycle, LifecycleTypes, Event
  <2>3. QED
    BY <2>1, <2>2 DEF Event
<1>5. QED
  BY <1>2, <1>3, <1>4, InitReconciled DEF Trailed

\* A row the reconciliation deletes is a legacy row.
LEMMA StaleIsLegacy ==
  ASSUME NEW g, NEW nfs, NEW rows, TableType(rows), NEW id \in Stale(rows, g, nfs)
  PROVE  id \in DOMAIN rows /\ IsLegacy(id) /\ Keeper(id) # id /\ ~ IsLegacy(Keeper(id))
<1>1. id \in Ids /\ id \notin Incoming(nfs) /\ NativeOf(id) \in DOMAIN nfs /\ id \in DOMAIN rows
  BY DEF Stale, TableType
<1>2. PICK n \in Natives, k \in {"stable", "legacy"} : id = <<n, k>>
  BY <1>1 DEF Ids
<1>3. k = "legacy"
  BY <1>1, <1>2 DEF Incoming, StableId, NativeOf
<1>4. QED
  BY <1>1, <1>2, <1>3 DEF IsLegacy, Keeper, StableId, LegacyId, NativeOf

LEMMA CommitTrailed ==
  ASSUME Trailed, NEW i \in DOMAIN raw, i \notin processed, UNCHANGED raw, Commit(i)
  PROVE  /\ Dated'
         /\ \A id \in DOMAIN findings' : Founding(id)' # {}
         /\ TrailExplainsStatus'
<1> DEFINE p == raw[i].poller
           nfs == raw[i].nfs
           at == Cardinality(processed) + 1
           stale == Stale(findings, Group[p], nfs)
<1>1. p \in Pollers /\ SnapshotOf(p, nfs)
  BY StoredSnapshot DEF TypeOK, Reconciled, Trailed
<1>2. TableType(findings) /\ events \in SUBSET EventRow /\ TypeOK
  BY DEF TypeOK, Reconciled, Trailed
<1>3. PICK t \in Thresholds[p], owners \in OwnerMaps :
        /\ findings' = SnapshotRows(findings, Group[p], nfs, owners, t)
        /\ events' = SnapshotEvents(findings, events, Group[p], nfs, owners, t, at)
        /\ processed' = processed \cup {i}
  BY DEF Commit
<1>4. ThresholdType(t) /\ owners \in [Assets -> Teams]
  BY <1>1, ThresholdsType, IngestAssumption
<1>5. Cardinality(processed) \in Nat /\ Cardinality(processed') = at /\ at \in Nat
  <2>1. IsFiniteSet(processed) /\ Cardinality(processed) \in Nat
    BY <1>2, ProcessedFinite
  <2>2. Cardinality(processed \cup {i}) = at
    BY <2>1, FS_AddElement
  <2>3. QED
    BY <1>3, <2>1, <2>2
<1>6. \A e \in events : e.at \in Nat /\ e.at < at
  BY <1>2, <1>5 DEF EventRow, Trailed, Dated
<1>7. \A e \in events : e.finding \notin stale => e \in events'
  BY <1>3 DEF SnapshotEvents, ReconciledEvents
<1>8. DOMAIN findings' = (DOMAIN findings \ stale) \cup Incoming(nfs)
  BY <1>3 DEF SnapshotRows, Touched
<1>9. ASSUME NEW id \in Incoming(nfs), id \notin DOMAIN findings
      PROVE  Event(id, at, "discovered", "none", "open") \in events' /\ ~ IsLegacy(id)
  <2>1. ~ IsLegacy(id)
    BY DEF Incoming, IsLegacy, StableId, LegacyId, NativeOf
  <2>2. QED
    BY <1>3, <1>9, <2>1 DEF SnapshotEvents, UpsertEvents
<1>10. ASSUME NEW id \in DOMAIN findings, id \notin stale
       PROVE  Founding(id) \subseteq Founding(id)'
  BY <1>7, <1>10 DEF Founding
<1>11. Dated'
  <2> SUFFICES ASSUME NEW e \in events' PROVE e.at <= at
    BY <1>5 DEF Dated
  <2>1. CASE e \in events
    BY <1>5, <1>6, <2>1
  <2>2. ASSUME NEW f \in events, e = [f EXCEPT !.finding = Keeper(f.finding)]
        PROVE  e.at <= at
    <3>1. e.at = f.at
      BY <1>2, <2>2 DEF EventRow
    <3>2. QED
      BY <1>5, <1>6, <3>1
  <2>3. CASE e.at = at
    BY <1>5, <2>3
  <2>4. \A id \in Incoming(nfs) : e \in UpsertEvents(findings, nfs, owners, at, id) => e.at = at
    BY DEF UpsertEvents, Event
  <2>5. \A id : e = Event(id, at, "auto_closed", "open", "auto_closed") => e.at = at
    BY DEF Event
  <2> HIDE DEF at
  <2>6. QED
    BY <1>3, <2>1, <2>2, <2>3, <2>4, <2>5, EventOrigin
<1> HIDE DEF p, nfs, at, stale
<1>12. ASSUME NEW id \in DOMAIN findings'
       PROVE  Founding(id)' # {}
  <2>1. CASE id \in DOMAIN findings /\ id \notin stale
    BY <1>10, <2>1 DEF Trailed
  <2>2. CASE id \in Incoming(nfs) /\ id \notin DOMAIN findings
    <3>1. at # 0
      BY <1>5 DEF at
    <3>2. Event(id, at, "discovered", "none", "open") \in Founding(id)'
      BY <1>9, <2>2, <3>1 DEF Founding, Event, IsLegacy
    <3>3. QED
      BY <3>2
  <2>3. \A x \in stale : x \notin Incoming(nfs)
    BY DEF stale, Stale
  <2>4. QED
    BY <1>8, <1>12, <2>1, <2>2, <2>3
<1>13. ASSUME NEW id \in DOMAIN findings', Unmerged(id)'
       PROVE  \A x \in stale : Keeper(x) \in DOMAIN findings => Keeper(x) # id
  <2> SUFFICES ASSUME NEW x \in stale, Keeper(x) \in DOMAIN findings, Keeper(x) = id
               PROVE  FALSE
    OBVIOUS
  <2>1. x \in DOMAIN findings /\ IsLegacy(x) /\ ~ IsLegacy(id)
    BY <1>2, StaleIsLegacy DEF stale
  <2>2. PICK e \in events : e.finding = x /\ e.type = "discovered" /\ e.at = 0
    BY <2>1 DEF Trailed, Founding
  <2>3. PICK f \in events : f.finding = id /\ f.type = "discovered" /\ f.at # 0
    BY <2>1 DEF Trailed, Founding
  <2>4. f \in events'
    <3>1. id \notin stale
      BY <1>2, <2>1, StaleIsLegacy DEF stale
    <3>2. QED
      BY <1>7, <2>3, <3>1
  <2> DEFINE moved == [e EXCEPT !.finding = Keeper(e.finding)]
  <2>5. moved \in events'
    BY <1>3, <2>2 DEF SnapshotEvents, ReconciledEvents, stale
  <2>6. moved.finding = id /\ moved.type = "discovered" /\ moved.at = 0
    BY <1>2, <2>2 DEF EventRow
  <2> HIDE DEF moved
  <2>7. moved = f
    BY <1>13, <2>3, <2>4, <2>5, <2>6 DEF Unmerged
  <2>8. QED
    BY <2>3, <2>6, <2>7
<1>14. ASSUME NEW id \in DOMAIN findings', Unmerged(id)'
       PROVE  \E e \in Lifecycle(events', id) :
                /\ e.to = findings'[id].status
                /\ \A f \in Lifecycle(events', id) : f = e \/ f.at < e.at
  <2>1. \A x \in Stale(findings, Group[p], nfs) : Keeper(x) \in DOMAIN findings => Keeper(x) # id
    BY <1>13, <1>14 DEF stale
  <2>2. \/ /\ id \in DOMAIN findings
           /\ findings'[id].status = findings[id].status
           /\ Lifecycle(events', id) = Lifecycle(events, id)
        \/ \E e : /\ e.at = at /\ e.to = findings'[id].status
                  /\ Lifecycle(events', id) = Lifecycle(events, id) \cup {e}
    BY <1>1, <1>2, <1>3, <1>4, <1>5, <2>1, LifecycleAfter
  <2>3. CASE /\ id \in DOMAIN findings
             /\ findings'[id].status = findings[id].status
             /\ Lifecycle(events', id) = Lifecycle(events, id)
    <3>1. id \notin stale
      <4>1. \A x \in stale : x \notin Incoming(nfs)
        BY DEF stale, Stale
      <4>2. QED
        BY <1>8, <4>1
    <3>2. Unmerged(id)
      BY <1>7, <1>14, <3>1 DEF Unmerged
    <3>3. QED
      BY <2>3, <3>2 DEF Trailed, TrailExplainsStatus
  <2>4. ASSUME NEW e, e.at = at, e.to = findings'[id].status,
               Lifecycle(events', id) = Lifecycle(events, id) \cup {e}
        PROVE  \A f \in Lifecycle(events', id) : f = e \/ f.at < e.at
    BY <1>6, <2>4 DEF Lifecycle
  <2>5. QED
    BY <2>2, <2>3, <2>4
<1>15. TrailExplainsStatus'
  BY <1>14 DEF TrailExplainsStatus
<1>16. QED
  BY <1>11, <1>12, <1>15

\* The trail of a finding that was not merged always tells its status.
THEOREM TrailTellsStatus == Spec => []TrailExplainsStatus
<1>1. Trailed /\ [Next]_vars => Trailed'
  <2> SUFFICES ASSUME Trailed, [Next]_vars PROVE Trailed'
    OBVIOUS
  <2>1. Reconciled'
    BY NextReconciled DEF Trailed
  <2>2. CASE UNCHANGED tables
    <3>1. UNCHANGED <<findings, events, processed>>
      BY <2>2 DEF tables
    <3>2. Dated' /\ (\A id \in DOMAIN findings' : Founding(id)' # {})
      BY <3>1 DEF Trailed, Dated, Founding
    <3>3. TrailExplainsStatus'
      BY <3>1 DEF Trailed, TrailExplainsStatus, Unmerged
    <3>4. QED
      BY <2>1, <3>2, <3>3 DEF Trailed
  <2>3. ASSUME NEW i \in DOMAIN msg, i \notin processed, UNCHANGED raw, Commit(i)
        PROVE  Trailed'
    <3>1. i \in DOMAIN raw
      BY DEF Trailed, Reconciled, TypeOK
    <3>2. QED
      BY <2>1, <2>3, <3>1, CommitTrailed DEF Trailed
  <2>4. QED
    BY <2>2, <2>3, TableSteps
<1>2. Trailed => TrailExplainsStatus
  BY DEF Trailed
<1>3. QED
  BY InitTrailed, <1>1, <1>2, PTL DEF Spec

\* No event is lost but those of a legacy row deleted without a row to take them.
THEOREM TrailKept == Spec => TrailIsKept
<1> DEFINE Kept(e) ==
      e.finding \in DOMAIN findings' \/ Keeper(e.finding) \in DOMAIN findings
        => \E f \in events' : [f EXCEPT !.finding = e.finding] = e
<1>1. ASSUME TypeOK, [Next]_vars, NEW e \in events
      PROVE  Kept(e)
  <2>1. e \in EventRow /\ [e EXCEPT !.finding = e.finding] = e
    BY <1>1 DEF TypeOK, EventRow
  <2>2. CASE UNCHANGED tables
    BY <2>1, <2>2 DEF tables
  <2>3. ASSUME NEW i \in DOMAIN msg, i \notin processed, Commit(i)
        PROVE  Kept(e)
    <3> DEFINE p == raw[i].poller
               nfs == raw[i].nfs
               stale == Stale(findings, Group[p], nfs)
    <3>1. /\ ReconciledEvents(findings, events, stale) \subseteq events'
          /\ DOMAIN findings' = (DOMAIN findings \ stale) \cup Incoming(nfs)
      BY <2>3 DEF Commit, SnapshotEvents, SnapshotRows, Touched
    <3>2. \A x \in stale : x \notin Incoming(nfs)
      BY DEF Stale
    <3> HIDE DEF p, nfs, stale
    <3>3. CASE e.finding \notin stale
      <4>1. e \in events'
        BY <1>1, <3>1, <3>3 DEF ReconciledEvents
      <4>2. QED
        BY <2>1, <4>1
    <3>4. CASE e.finding \in stale /\ Keeper(e.finding) \in DOMAIN findings
      <4> DEFINE moved == [e EXCEPT !.finding = Keeper(e.finding)]
      <4>1. moved \in events'
        BY <1>1, <3>1, <3>4 DEF ReconciledEvents
      <4>2. [moved EXCEPT !.finding = e.finding] = e
        BY <2>1 DEF EventRow
      <4> HIDE DEF moved
      <4>3. QED
        BY <4>1, <4>2
    <3>5. CASE e.finding \in stale /\ Keeper(e.finding) \notin DOMAIN findings
      <4>1. e.finding \notin DOMAIN findings'
        BY <3>1, <3>2, <3>5
      <4>2. QED
        BY <3>5, <4>1
    <3>6. QED
      BY <3>3, <3>4, <3>5
  <2>4. QED
    BY <1>1, <2>2, <2>3, TableSteps
<1>2. TypeOK /\ [Next]_vars => [\A e \in events : Kept(e)]_vars
  BY <1>1
<1>3. QED
  BY <1>2, TypeCorrect, PTL DEF Spec, TrailIsKept

-----------------------------------------------------------------------------
(***************************************************************************)
(* Towards PollSettles: what Pub/Sub and the handler do with a message.    *)
(***************************************************************************)
\* A poll that is done with.
Settled(i) == i \in processed \/ Is(i, "dead")

\* A poll that was published is settled or will be pushed again.
NoPollIsLost ==
  \A i \in DOMAIN msg :
    Settled(i) \/ (Is(i, "pending") /\ msg[i].attempts < MaxAttempts)

\* Every push settles its poll or takes one of its attempts, no other step
\* touches the message, and what is settled stays so.
PushesTakeAttempts ==
  [][\A i \in DOMAIN msg :
       /\ Settled(i) => Settled(i)'
       /\ Push(i) => Settled(i)' \/ msg'[i] = [msg[i] EXCEPT !.attempts = @ + 1]
       /\ ~Push(i) => msg'[i] = msg[i]]_vars

\* What a push leaves of its message.
LEMMA PushedMessage ==
  ASSUME TypeOK, NEW i \in DOMAIN msg, Push(i)
  PROVE  /\ msg[i].state = "pending" /\ processed \subseteq processed'
         /\ \/ msg' = [msg EXCEPT ![i] = [state |-> "acked", attempts |-> 0]]
               /\ i \in processed'
            \/ Nack(i)
<1>1. Normalize(i) => i \in processed' /\ processed \subseteq processed'
  BY DEF Normalize, Commit, tables
<1> QED
  BY <1>1 DEF Push, Deliver, DeliverUnacked, DeliverFails

LEMMA NackedMessage ==
  ASSUME TypeOK, NEW i \in DOMAIN msg, msg[i].state = "pending", Nack(i)
  PROVE  /\ DOMAIN msg' = DOMAIN msg
         /\ msg'[i].state = "dead" \/ msg'[i] = [msg[i] EXCEPT !.attempts = @ + 1]
         /\ \A j \in DOMAIN msg : j # i => msg'[j] = msg[j]
<1>1. msg \in Seq(MessageType) /\ msg[i] \in [state: MessageStates, attempts: 0..MaxAttempts]
  BY DEF TypeOK, MessageType
<1> DEFINE attempts == msg[i].attempts + 1
           next == [state |-> IF attempts = MaxAttempts THEN "dead" ELSE "pending",
                    attempts |-> attempts]
<1>2. msg' = [msg EXCEPT ![i] = next]
  BY DEF Nack
<1>3. next.state = "dead" \/ next = [state |-> "pending", attempts |-> attempts]
  OBVIOUS
<1>4. [msg[i] EXCEPT !.attempts = @ + 1] = [state |-> "pending", attempts |-> attempts]
  BY <1>1
<1> HIDE DEF next, attempts
<1> QED
  BY <1>2, <1>3, <1>4

LEMMA PublishedMessage ==
  ASSUME TypeOK, NEW p \in Pollers, Poll(p)
  PROVE  /\ UNCHANGED tables /\ DOMAIN msg \subseteq DOMAIN msg'
         /\ \A i \in DOMAIN msg : msg'[i] = msg[i]
         /\ \A i \in DOMAIN msg' \ DOMAIN msg :
              msg'[i] = [state |-> "pending", attempts |-> 0]
<1> DEFINE new == [state |-> "pending", attempts |-> 0]
<1>1. msg \in Seq(MessageType) /\ msg' = Append(msg, new) /\ UNCHANGED tables
  BY DEF TypeOK, Poll
<1> HIDE DEF new
<1>2. /\ DOMAIN msg = 1..Len(msg) /\ Len(msg) \in Nat /\ Len(msg') = Len(msg) + 1
      /\ DOMAIN msg' = 1..Len(msg')
      /\ \A i \in 1..Len(msg) : msg'[i] = msg[i]
      /\ msg'[Len(msg) + 1] = new
  BY <1>1
<1>3. \A i \in 1..Len(msg') : i \in 1..Len(msg) \/ i = Len(msg) + 1
  BY <1>2
<1> QED
  BY <1>1, <1>2, <1>3 DEF new

LEMMA MessageStep ==
  ASSUME TypeOK, [Next]_vars, NEW i \in DOMAIN msg
  PROVE  /\ i \in DOMAIN msg'
         /\ Settled(i) => Settled(i)'
         /\ Push(i) => Settled(i)' \/ msg'[i] = [msg[i] EXCEPT !.attempts = @ + 1]
         /\ ~Push(i) => msg'[i] = msg[i]
<1>1. ASSUME NEW p \in Pollers, Poll(p)
      PROVE  i \in DOMAIN msg' /\ msg'[i] = msg[i] /\ processed' = processed
  BY <1>1, PublishedMessage DEF tables
<1>2. ASSUME NEW j \in DOMAIN msg, Push(j)
      PROVE  /\ processed \subseteq processed' /\ DOMAIN msg' = DOMAIN msg
             /\ msg[j].state = "pending" /\ (j # i => msg'[i] = msg[i])
             /\ \/ j \in processed' \/ msg'[j].state = "dead"
                \/ msg'[j] = [msg[j] EXCEPT !.attempts = @ + 1]
  <2>1. /\ processed \subseteq processed' /\ msg[j].state = "pending"
        /\ \/ msg' = [msg EXCEPT ![j] = [state |-> "acked", attempts |-> 0]]
              /\ j \in processed'
           \/ Nack(j)
    BY <1>2, PushedMessage
  <2>2. CASE msg' = [msg EXCEPT ![j] = [state |-> "acked", attempts |-> 0]] /\ j \in processed'
    BY <2>1, <2>2
  <2>3. CASE Nack(j)
    BY <2>1, <2>3, NackedMessage
  <2> QED
    BY <2>1, <2>2, <2>3
<1>3. CASE Push(i)
  BY <1>2, <1>3 DEF Settled, Is
<1>4. CASE ~Push(i)
  <2>1. i \in DOMAIN msg' /\ msg'[i] = msg[i] /\ processed \subseteq processed'
    <3>1. CASE UNCHANGED vars
      BY <3>1 DEF vars
    <3>2. CASE Next
      BY <1>1, <1>2, <1>4, <3>2 DEF Next, Push
    <3> QED
      BY <3>1, <3>2
  <2> QED
    BY <1>4, <2>1 DEF Settled, Is
<1> QED
  BY <1>3, <1>4

\* A message is acknowledged only after its snapshot was committed, and given
\* up only with its last attempt: the transaction of /internal/normalize ends
\* before its answer is sent.
THEOREM NothingLost == Spec => []NoPollIsLost
<1>1. Init => NoPollIsLost
  BY DEF Init, NoPollIsLost
<1>2. TypeOK /\ NoPollIsLost /\ [Next]_vars => NoPollIsLost'
  <2> SUFFICES ASSUME TypeOK, NoPollIsLost, [Next]_vars, NEW i \in DOMAIN msg'
               PROVE  Settled(i)' \/ (Is(i, "pending")' /\ msg'[i].attempts < MaxAttempts)
    BY DEF NoPollIsLost
  <2>1. TypeOK'
    BY NextType
  <2>2. msg'[i] \in MessageType
    BY <2>1 DEF TypeOK
  <2>3. msg'[i].state \in MessageStates /\ (msg'[i].state = "pending" => msg'[i].attempts < MaxAttempts)
    BY <2>2 DEF MessageType
  <2>4. CASE i \notin DOMAIN msg
    <3>1. ASSUME NEW p \in Pollers, Poll(p) PROVE msg'[i].state = "pending"
      BY <2>4, <3>1, PublishedMessage
    <3>2. ASSUME NEW j \in DOMAIN msg, Push(j) PROVE DOMAIN msg' = DOMAIN msg
      BY <3>2, PushedMessage, NackedMessage
    <3>3. ~(UNCHANGED vars)
      BY <2>4 DEF vars
    <3>4. msg'[i].state = "pending"
      BY <2>4, <3>1, <3>2, <3>3 DEF Next, Push
    <3> QED
      BY <2>3, <3>4 DEF Is
  <2>5. CASE i \in DOMAIN msg
    <3>1. CASE Settled(i)
      BY <2>5, <3>1, MessageStep
    <3>2. CASE ~Settled(i)
      <4>1. Is(i, "pending")
        BY <2>5, <3>2 DEF NoPollIsLost
      <4>2. Settled(i)' \/ msg'[i].state = "pending"
        <5>1. [msg[i] EXCEPT !.attempts = @ + 1].state = msg[i].state
          <6>1. msg[i] \in [state: MessageStates, attempts: 0..MaxAttempts]
            BY <2>5 DEF TypeOK, MessageType
          <6> QED
            BY <6>1
        <5> QED
          BY <2>5, <4>1, <5>1, MessageStep DEF Is
      <4> QED
        BY <2>3, <4>2 DEF Is
    <3> QED
      BY <3>1, <3>2
  <2> QED
    BY <2>4, <2>5
<1> QED
  BY <1>1, <1>2, TypeCorrect, PTL DEF Spec

\* Pub/Sub's max_delivery_attempts bounds how often a poll can fail: with
\* NothingLost, what PollSettles says but for the fairness of Pub/Sub.
THEOREM PushesDoTakeAttempts == Spec => PushesTakeAttempts
<1>1. ASSUME TypeOK, [Next]_vars
      PROVE  \A i \in DOMAIN msg :
               /\ Settled(i) => Settled(i)'
               /\ Push(i) => Settled(i)' \/ msg'[i] = [msg[i] EXCEPT !.attempts = @ + 1]
               /\ ~Push(i) => msg'[i] = msg[i]
  BY <1>1, MessageStep
<1> QED
  BY <1>1, TypeCorrect, PTL DEF Spec, PushesTakeAttempts
=============================================================================
