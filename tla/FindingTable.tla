---------------------------- MODULE FindingTable ----------------------------
(***************************************************************************)
(* The tables `findings` and `finding_events`, and what one run of         *)
(* process_snapshot (normalizer/processor.py) does to them.  The module    *)
(* has no variables: it defines the rows and events and the values the     *)
(* transaction leaves behind, so that the modules that interleave it with  *)
(* other actors share one translation.                                     *)
(*                                                                         *)
(* `findings` is a partial function from ids to rows.  Finding.id is       *)
(* uuid5(poller name, native id), the "stable" id; the rows an older       *)
(* mapper left at uuid5(classified source, native id) have a "legacy" id.  *)
(* `finding_events` is a set of events; `at` orders them as occurred_at    *)
(* does, and is the number of the transaction that wrote the event.        *)
(***************************************************************************)
EXTENDS Integers, FiniteSets

CONSTANTS
  Pollers,       \* the ingest sources: names of pollers
  Sources,       \* values of Finding.source
  Group,         \* Group[p]: the Finding.source values poller p produces
  Natives,       \* upstream findings
  PollerOf,      \* PollerOf[n]: the poller that reports n
  LegacySource,  \* LegacySource[n]: the source of n's legacy row, for those
                 \* natives an older mapper may have left one of
  Contents,      \* severity, title and description, as one value
  Assets,        \* asset_id (and, for Wiz, the service tags)
  Teams,         \* owner_team values
  Stamps,        \* Stamps[p]: the owner_team values p's mapper stamps; all
                 \* mappers but the pentest one stamp NoTeam
  NoTeam,        \* None: the owner_team comes from the ownership map
  Never          \* a null threshold in auto_close.yaml

ASSUME GroupAssumption ==
  /\ Group \in [Pollers -> SUBSET Sources]
  /\ \A p, q \in Pollers : p # q => Group[p] \cap Group[q] = {}
ASSUME NativesAssumption ==
  /\ PollerOf \in [Natives -> Pollers]
  /\ DOMAIN LegacySource \subseteq Natives
  /\ \A n \in DOMAIN LegacySource : LegacySource[n] \in Group[PollerOf[n]]
ASSUME StampsAssumption == \A p \in Pollers : Stamps[p] \subseteq Teams \cup {NoTeam}
ASSUME MarkersAssumption == NoTeam \notin Teams /\ Never \notin Nat

Ids == Natives \X {"stable", "legacy"}
StableId(n) == <<n, "stable">>
LegacyId(n) == <<n, "legacy">>
NativeOf(id) == id[1]

\* Finding rows.  Nothing in the program sets a status other than these two.
Row == [src: Sources, status: {"open", "auto_closed"}, misses: Nat,
        content: Contents, asset: Assets, owner: Teams]

\* A NormalizedFinding as the mapper of poller p emits it.
NormalizedFinding(p) == [src: Group[p], content: Contents,
                         asset: Assets, stamp: Stamps[p]]

NativesOf(p) == {n \in Natives : PollerOf[n] = p}

\* A table of rows, each with a source its own poller produces.
TableType(rows) ==
  /\ DOMAIN rows \subseteq Ids
  /\ \A id \in DOMAIN rows :
       /\ rows[id] \in Row
       /\ rows[id].src \in Group[PollerOf[NativeOf(id)]]

EventTypes == {"discovered", "content_changed", "ownership_changed",
               "auto_closed", "reopened"}
Event(id, at, type, from, to) ==
  [finding |-> id, at |-> at, type |-> type, from |-> from, to |-> to]

EventValues == {"none", "open", "auto_closed"} \cup Contents \cup Teams
EventRow == [finding: Ids, at: Nat, type: EventTypes,
             from: EventValues, to: EventValues]

\* The events of a finding that open or close it.
LifecycleTypes == {"discovered", "auto_closed", "reopened"}
Lifecycle(events, id) ==
  {e \in events : e.finding = id /\ e.type \in LifecycleTypes}

-----------------------------------------------------------------------------
(***************************************************************************)
(* Stale-id reconciliation: rows of the group that match an incoming       *)
(* finding by (source, native_id) but sit at another id are deleted.       *)
(* Their events move to the row at the stable id when there is one, and    *)
(* go with the deleted row otherwise.                                      *)
(***************************************************************************)
Incoming(nfs) == {StableId(n) : n \in DOMAIN nfs}

\* Mutant: reconcile only the rows that have no sibling at the stable id.
StaleOrphansOnly(rows, g, nfs) ==
  {id \in DOMAIN rows :
     /\ id \notin Incoming(nfs)
     /\ NativeOf(id) \in DOMAIN nfs
     /\ StableId(NativeOf(id)) \notin DOMAIN rows
     /\ rows[id].src \in g
     /\ rows[id].src = nfs[NativeOf(id)].src}

Stale(rows, g, nfs) ==
  {id \in DOMAIN rows :
     /\ id \notin Incoming(nfs)
     /\ NativeOf(id) \in DOMAIN nfs
     /\ rows[id].src \in g
     /\ rows[id].src = nfs[NativeOf(id)].src}

Keeper(id) == StableId(NativeOf(id))

\* Mutant: the row is deleted and its events stay behind.
DeleteRowOnly(rows, events, stale) == events

\* Mutant: the merge forgets to move the events before it deletes the row.
DeleteWithEvents(rows, events, stale) ==
  {e \in events : e.finding \notin stale}

ReconciledEvents(rows, events, stale) ==
  {e \in events : e.finding \notin stale}
    \cup {[e EXCEPT !.finding = Keeper(e.finding)] :
            e \in {f \in events : /\ f.finding \in stale
                                  /\ Keeper(f.finding) \in DOMAIN rows}}

-----------------------------------------------------------------------------
(***************************************************************************)
(* The per-finding loop: insert or update, with the events it emits.       *)
(***************************************************************************)
OwnerFor(nf, owners) == IF nf.stamp # NoTeam THEN nf.stamp ELSE owners[nf.asset]

Inserted(nf, owners) ==
  [src |-> nf.src, status |-> "open", misses |-> 0, content |-> nf.content,
   asset |-> nf.asset, owner |-> OwnerFor(nf, owners)]

Updated(row, g, nf, owners) ==
  [src |-> IF nf.src \in g THEN nf.src ELSE row.src,
   status |-> IF row.status = "auto_closed" THEN "open" ELSE row.status,
   misses |-> 0, content |-> nf.content,
   asset |-> nf.asset, owner |-> OwnerFor(nf, owners)]

Upserted(rows, g, nfs, owners, id) ==
  LET nf == nfs[NativeOf(id)]
  IN  IF id \in DOMAIN rows THEN Updated(rows[id], g, nf, owners)
                            ELSE Inserted(nf, owners)

\* Mutant: a finding is reopened without its event.
UpsertEventsNoReopened(rows, nfs, owners, at, id) ==
  LET nf == nfs[NativeOf(id)]
  IN  IF id \in DOMAIN rows
      THEN {e \in {Event(id, at, "content_changed", rows[id].content, nf.content),
                   Event(id, at, "ownership_changed", rows[id].owner,
                         OwnerFor(nf, owners))} : e.from # e.to}
      ELSE {Event(id, at, "discovered", "none", "open")}

UpsertEvents(rows, nfs, owners, at, id) ==
  LET nf == nfs[NativeOf(id)]
  IN  IF id \in DOMAIN rows
      THEN {e \in {Event(id, at, "reopened", rows[id].status, "open"),
                   Event(id, at, "content_changed", rows[id].content, nf.content),
                   Event(id, at, "ownership_changed", rows[id].owner,
                         OwnerFor(nf, owners))} : e.from # e.to}
      ELSE {Event(id, at, "discovered", "none", "open")}

-----------------------------------------------------------------------------
(***************************************************************************)
(* Absence and auto-close, over every open row of the poller's group.      *)
(***************************************************************************)
OpenInGroup(row, g) == row.src \in g /\ row.status = "open"

Aged(row, g) ==
  IF OpenInGroup(row, g) THEN [row EXCEPT !.misses = @ + 1] ELSE row

Closes(row, g, t) == t # Never /\ OpenInGroup(row, g) /\ row.misses >= t

\* The rows before the auto-close pass.
Touched(rows, g, nfs, owners) ==
  [id \in (DOMAIN rows \ Stale(rows, g, nfs)) \cup Incoming(nfs) |->
     IF id \in Incoming(nfs) THEN Upserted(rows, g, nfs, owners, id)
                             ELSE Aged(rows[id], g)]

SnapshotRows(rows, g, nfs, owners, t) ==
  LET touched == Touched(rows, g, nfs, owners)
  IN  [id \in DOMAIN touched |->
         IF Closes(touched[id], g, t)
         THEN [touched[id] EXCEPT !.status = "auto_closed"]
         ELSE touched[id]]

CloseEvents(touched, g, t, at) ==
  {Event(id, at, "auto_closed", "open", "auto_closed") :
     id \in {x \in DOMAIN touched : Closes(touched[x], g, t)}}

SnapshotEvents(rows, events, g, nfs, owners, t, at) ==
  ReconciledEvents(rows, events, Stale(rows, g, nfs))
    \cup (UNION {UpsertEvents(rows, nfs, owners, at, id) : id \in Incoming(nfs)})
    \cup CloseEvents(Touched(rows, g, nfs, owners), g, t, at)

-----------------------------------------------------------------------------
(***************************************************************************)
(* What rolls the transaction back.  existing_by_id is loaded once, so a   *)
(* finding listed twice by the snapshot and not yet in the table is        *)
(* inserted twice (primary key); and no two rows may share                 *)
(* (source, native_id).                                                    *)
(***************************************************************************)
InsertedTwice(rows, twice) == \E n \in twice : StableId(n) \notin DOMAIN rows

UniqueSourceNative(rows) ==
  \A x, y \in DOMAIN rows :
    (NativeOf(x) = NativeOf(y) /\ rows[x].src = rows[y].src) => x = y
=============================================================================
