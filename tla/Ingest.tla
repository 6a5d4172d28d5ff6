------------------------------- MODULE Ingest -------------------------------
(***************************************************************************)
(* From a poller run to the findings table: the raw snapshot is stored,    *)
(* its envelope is published, Pub/Sub pushes it to /internal/normalize at  *)
(* least once and in any order, and the handler runs process_snapshot in   *)
(* one transaction.  A push that is not acknowledged is tried again, and   *)
(* after MaxAttempts goes to the dead-letter topic.                        *)
(*                                                                         *)
(* Transactions are atomic here.  A poll is identified by its place in     *)
(* `raw`, the order in which snapshots were taken; they may be applied in   *)
(* any other order.                                                        *)
(***************************************************************************)
EXTENDS FindingTable, Sequences

CONSTANTS
  OwnerMaps,     \* the ownership maps an instance's ConfigCache may hold
  Thresholds,    \* Thresholds[p]: the values its PolicyCache may hold for p
  MaxAttempts,   \* max_delivery_attempts of the ingest subscription
  MaxPolls       \* bound on poller runs

ASSUME IngestAssumption ==
  /\ OwnerMaps \subseteq [Assets -> Teams]
  /\ \A p \in Pollers : Thresholds[p] \subseteq (Nat \ {0}) \cup {Never}
  /\ MaxAttempts \in Nat \ {0}
  /\ MaxPolls \in Nat

VARIABLES
  findings,      \* table findings
  events,        \* table finding_events
  processed,     \* table processed_payloads
  raw,           \* raw store: raw[i] is the snapshot of poll i
  msg            \* msg[i]: where the envelope of poll i is

tables == <<findings, events, processed>>
vars == <<findings, events, processed, raw, msg>>

MessageStates == {"pending", "acked", "dead"}

\* What a run of poller p may store: any set of its findings, some of them
\* listed twice because upstream pages shifted under the poller.
Snapshots(p) ==
  UNION {[poller: {p}, nfs: [S -> NormalizedFinding(p)], twice: SUBSET S] :
           S \in SUBSET NativesOf(p)}
Payloads == UNION {Snapshots(p) : p \in Pollers}

-----------------------------------------------------------------------------
LegacyRow == [src: Sources, status: {"open"}, misses: {0},
              content: Contents, asset: Assets, owner: Teams]

\* Only rows left by the older mapper are there before the first poll.
Init ==
  /\ \E old \in SUBSET DOMAIN LegacySource :
       findings \in [{LegacyId(n) : n \in old} -> LegacyRow]
  /\ \A id \in DOMAIN findings : findings[id].src = LegacySource[NativeOf(id)]
  /\ events = {Event(id, 0, "discovered", "none", "open") :
                 id \in DOMAIN findings}
  /\ processed = {}
  /\ raw = <<>>
  /\ msg = <<>>

\* A run of poller p collects a snapshot, puts it in the raw store and then
\* publishes its envelope.  (A run that dies in between leaves an object that
\* no message names and nothing ever reads.)
Poll(p) ==
  /\ Len(raw) < MaxPolls
  /\ \E snapshot \in Snapshots(p) : raw' = Append(raw, snapshot)
  /\ msg' = Append(msg, [state |-> "pending", attempts |-> 0])
  /\ UNCHANGED tables

-----------------------------------------------------------------------------
\* The transaction of process_snapshot on poll i, when it commits.
Commit(i) ==
  LET p == raw[i].poller
      nfs == raw[i].nfs
      at == Cardinality(processed) + 1
  IN  \E t \in Thresholds[p], owners \in OwnerMaps :
        /\ ~InsertedTwice(findings, raw[i].twice)
        /\ findings' = SnapshotRows(findings, Group[p], nfs, owners, t)
        /\ UniqueSourceNative(findings')
        /\ events' = SnapshotEvents(findings, events, Group[p], nfs, owners, t, at)
        /\ processed' = processed \cup {i}

\* Mutant: no look at processed_payloads before the snapshot is applied.
NormalizeAgain(i) == Commit(i)

\* /internal/normalize on poll i, when it returns 200.
Normalize(i) ==
  \/ i \in processed /\ UNCHANGED tables
  \/ i \notin processed /\ Commit(i)

\* Mutant: a subscription without a dead-letter policy.
NackForEver(i) ==
  msg' = [msg EXCEPT ![i] = [state |-> "pending", attempts |-> @.attempts + 1]]

\* The push failed as far as Pub/Sub can tell.
Nack(i) ==
  LET attempts == msg[i].attempts + 1
  IN  msg' = [msg EXCEPT ![i] =
                [state |-> IF attempts = MaxAttempts THEN "dead" ELSE "pending",
                 attempts |-> attempts]]

\* The handler commits and its answer reaches Pub/Sub.
Deliver(i) ==
  /\ msg[i].state = "pending"
  /\ msg' = [msg EXCEPT ![i] = [state |-> "acked", attempts |-> 0]]
  /\ Normalize(i)
  /\ UNCHANGED raw

\* The handler commits but its answer is lost or too late.
DeliverUnacked(i) ==
  /\ msg[i].state = "pending"
  /\ Nack(i)
  /\ Normalize(i)
  /\ UNCHANGED raw

\* Mutant: the handler answers 200 to a snapshot it could not apply.
DeliverSwallowsError(i) ==
  /\ msg[i].state = "pending"
  /\ msg' = [msg EXCEPT ![i] = [state |-> "acked", attempts |-> 0]]
  /\ UNCHANGED <<findings, events, processed, raw>>

\* The handler raises (a transaction that cannot commit, an unreadable
\* snapshot, a store or database that is down) or the push never reaches it.
DeliverFails(i) ==
  /\ msg[i].state = "pending"
  /\ Nack(i)
  /\ UNCHANGED <<findings, events, processed, raw>>

Push(i) == DeliverFails(i) \/ Deliver(i) \/ DeliverUnacked(i)

Next ==
  \/ \E p \in Pollers : Poll(p)
  \/ \E i \in DOMAIN msg : Deliver(i)
  \/ \E i \in DOMAIN msg : DeliverUnacked(i)
  \/ \E i \in DOMAIN msg : DeliverFails(i)

\* Pub/Sub goes on pushing a pending message.  Pollers owe nothing.
Fairness ==
  \A i \in 1..MaxPolls : WF_vars(i \in DOMAIN msg /\ Push(i))

Spec == Init /\ [][Next]_vars /\ Fairness

-----------------------------------------------------------------------------
\* A pending message has an attempt left.
MessageType ==
  {m \in [state: MessageStates, attempts: 0..MaxAttempts] :
     m.state = "pending" => m.attempts < MaxAttempts}

\* The tables, the raw store and the messages hold what their columns allow;
\* a row's source is one its poller produces, and a legacy row keeps its own.
TypeOK ==
  /\ TableType(findings)
  /\ events \subseteq EventRow
  /\ processed \subseteq DOMAIN raw
  /\ raw \in Seq(Payloads) /\ Len(raw) <= MaxPolls
  /\ msg \in Seq(MessageType) /\ Len(msg) = Len(raw)

\* A finding that no legacy row has been merged into.
Unmerged(id) ==
  \A e, f \in events :
    (e.finding = id /\ f.finding = id /\ e.type = "discovered" /\ f.type = "discovered")
      => e = f

\* The status of a finding is the one its latest open-or-close event left,
\* however its polls were retried, repeated or reordered: the trend charts
\* replay these events and the dashboard reads the status.  Findings into
\* which a legacy row was merged are left out: the events they took over may
\* be later than their own.
TrailExplainsStatus ==
  \A id \in DOMAIN findings : Unmerged(id) =>
    \E e \in Lifecycle(events, id) :
      /\ e.to = findings[id].status
      /\ \A f \in Lifecycle(events, id) : f = e \/ f.at < e.at

\* Every event belongs to a row that is there: what the reconciliation
\* deletes takes its events along or hands them to the row that stays.
NoOrphanEvents == \A e \in events : e.finding \in DOMAIN findings

\* A snapshot that lists nothing twice never fails on the uniqueness of
\* (source, native_id), whatever older rows the table holds: that is what the
\* reconciliation before the upserts is for.
ReconciliationPreventsCollision ==
  \A i \in DOMAIN raw \ processed :
    LET p == raw[i].poller
    IN  \A owners \in OwnerMaps, t \in Thresholds[p] :
          UniqueSourceNative(SnapshotRows(findings, Group[p], raw[i].nfs, owners, t))

\* No push loses history: an event stays, under the same finding or under the
\* one its row is merged into, unless the reconciliation deletes a legacy row
\* that has no row at the stable id to hand its events to.
TrailIsKept ==
  [][\A e \in events :
       e.finding \in DOMAIN findings' \/ Keeper(e.finding) \in DOMAIN findings
         => \E f \in events' : [f EXCEPT !.finding = e.finding] = e]_vars

Is(i, state) == i \in DOMAIN msg /\ msg[i].state = state

\* A published poll is not lost: it is applied or it reaches the dead-letter
\* topic, where an operator sees it.
PollSettles ==
  \A i \in 1..MaxPolls : Is(i, "pending") ~> i \in processed \/ Is(i, "dead")

-----------------------------------------------------------------------------
(***************************************************************************)
(* Ingest implements FindingLifecycle: the counter consecutive_misses is   *)
(* the number of polls since the one that last reported an open finding.   *)
(***************************************************************************)
PollerOfId == [id \in Ids |-> PollerOf[NativeOf(id)]]
Turn == [p \in Pollers |-> Cardinality({i \in processed : raw[i].poller = p})]
Standing == [id \in Ids |->
  IF id \in DOMAIN findings THEN findings[id].status ELSE "none"]
Seen == [id \in Ids |->
  IF Standing[id] = "open" THEN Turn[PollerOfId[id]] - findings[id].misses ELSE 0]

Promise == INSTANCE FindingLifecycle WITH
  Findings <- Ids, Reporters <- Pollers, ReporterOf <- PollerOfId,
  Polls <- 1..MaxPolls, Unlimited <- Never,
  taken <- processed, turn <- Turn, standing <- Standing, seen <- Seen

\* Exactly-once application, and auto-close after so many polls without the
\* finding: the tables behave as if every poll were one step of FindingLifecycle.
ImplementsLifecycle == Promise!Spec
=============================================================================
