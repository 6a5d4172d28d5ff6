------------------------------- MODULE Poller -------------------------------
(***************************************************************************)
(* A poller and what becomes of its snapshots: it pages through what the   *)
(* scanner lists while that changes, stores the snapshot, publishes its    *)
(* uri, and the normalizer opens, ages and closes findings by it.          *)
(*                                                                         *)
(* A scanner lists its open issues in the order of their numbers.  A poll  *)
(* makes one query per organisation (SonarCloud) or detector (Wiz), and    *)
(* combines the answers in one snapshot.                                   *)
(***************************************************************************)
EXTENDS Integers, FiniteSets

CONSTANTS
  Issues,        \* a set of naturals, in the order of the listing
  QueryOf,       \* QueryOf[i]: the number of the query that lists i
  QueryCount,    \* queries are numbered from 1 on
  Pollers,       \* those of "sonarcloud", "wiz", "pentest", "dependabot"
                 \* to look at
  PageSize, HardPageCap,
  Threshold,     \* auto_close.yaml
  Slots,         \* bound: the snapshots that are not settled yet
  MaxChanges,    \* bound: changes of the listing
  MaxFaults      \* bound: failures of any kind

ASSUME PollerAssumption ==
  /\ Issues \subseteq Nat /\ IsFiniteSet(Issues) /\ QueryCount \in Nat \ {0}
  /\ QueryOf \in [Issues -> 1..QueryCount]
  /\ Pollers \subseteq {"sonarcloud", "wiz", "pentest", "dependabot"}
  /\ PageSize \in Nat \ {0} /\ HardPageCap \in Nat \ {0} /\ Threshold \in Nat \ {0}
  /\ IsFiniteSet(Slots)

VARIABLES
  poller,        \* which of the pollers this is
  listed,        \* the issues that are open upstream
  job,           \* the running job
  slots,         \* slots[s]: a snapshot and the message that names it
  rows,          \* rows[i]: the finding of issue i
  changes, faults,
  steady,        \* history: the issues that have been listed all the time
  omitted        \* history: how many stored snapshots lacked a steady
                 \* issue, counted up to Threshold

vars == <<poller, listed, job, slots, rows, changes, faults, steady, omitted>>

NoJob == [stage |-> "idle"]
FreeSlot == [stored |-> FALSE, pending |-> FALSE]
NoRow == [status |-> "none"]

Init ==
  /\ poller \in Pollers
  /\ listed \in SUBSET Issues /\ steady = listed
  /\ job = NoJob
  /\ slots = [s \in Slots |-> FreeSlot]
  /\ rows = [i \in Issues |-> NoRow]
  /\ omitted = [i \in Issues |-> 0]
  /\ changes = 0 /\ faults = 0

Fault == faults < MaxFaults /\ faults' = faults + 1

-----------------------------------------------------------------------------
\* Issues are opened, in any place of the listing, and resolved.  always and
\* shrunk belong to the running poll: what has been listed since it began,
\* and whether anything was taken off the listing.
Change(i) ==
  /\ changes < MaxChanges /\ changes' = changes + 1
  /\ listed' = IF i \in listed THEN listed \ {i} ELSE listed \cup {i}
  /\ steady' = steady \ {i}
  /\ job' = IF job.stage # "fetching" THEN job
            ELSE [job EXCEPT !.always = @ \ {i}, !.shrunk = @ \/ i \in listed]
  /\ omitted' = [omitted EXCEPT ![i] = 0]
  /\ UNCHANGED <<poller, slots, rows, faults>>

Listing(query) == {i \in listed : QueryOf[i] = query}

\* Page n of a listing: its issues from place (n - 1) * PageSize on.
Place(i, listing) == Cardinality({j \in listing : j < i})
Page(listing, n) ==
  {i \in listing : Place(i, listing) \in (n - 1) * PageSize .. n * PageSize - 1}

\* What a new query starts from.
Query(query, seen, always, shrunk, cut) ==
  [stage |-> "fetching", query |-> query, page |-> 1, after |-> -1, count |-> 0,
   seen |-> seen, always |-> always, shrunk |-> shrunk, cut |-> cut, only |-> FALSE]

\* run: the scheduler or an admin starts the job.
Start ==
  /\ job = NoJob
  /\ job' = Query(1, {}, listed, FALSE, FALSE)
  /\ UNCHANGED <<poller, listed, slots, rows, changes, faults, steady, omitted>>

\* run --only-detector: a snapshot of one detector.
StartOnly(query) ==
  /\ job = NoJob /\ poller = "wiz" /\ QueryCount > 1 /\ Fault
  /\ job' = [Query(query, {}, listed, FALSE, TRUE) EXCEPT !.only = TRUE]
  /\ UNCHANGED <<poller, listed, slots, rows, changes, steady, omitted>>

\* The query has its answer: the next one, or the snapshot is complete.
Answered(seen, cut) ==
  IF job.only \/ job.query = QueryCount
  THEN [job EXCEPT !.stage = "fetched", !.seen = seen, !.cut = cut]
  ELSE Query(job.query + 1, seen, job.always, job.shrunk, cut)

\* Mutant: a page that brings the count to one below the total is the last.
PageOffByOne ==
  LET listing == Listing(job.query)
      items   == Page(listing, job.page)
      seen    == job.seen \cup items
      count   == job.count + Cardinality(items)
      total   == Cardinality(listing)
  IN  IF count >= total - 1 \/ items = {} \/ job.page = HardPageCap
      THEN job' = Answered(seen, job.cut \/ (job.page = HardPageCap /\ count < total))
      ELSE job' = [job EXCEPT !.page = @ + 1, !.count = count, !.seen = seen]

\* A numbered page of SonarCloud's search, which ends when as many issues as
\* the answer says there are have come in, repeated ones counted again, at an
\* empty page or at the cap.
PageByNumber ==
  LET listing == Listing(job.query)
      items   == Page(listing, job.page)
      seen    == job.seen \cup items
      count   == job.count + Cardinality(items)
      total   == Cardinality(listing)
  IN  IF count >= total \/ items = {} \/ job.page = HardPageCap
      THEN job' = Answered(seen, job.cut \/ (job.page = HardPageCap /\ count < total))
      ELSE job' = [job EXCEPT !.page = @ + 1, !.count = count, !.seen = seen]

\* The page after a cursor.
Beyond == {i \in Listing(job.query) : i > job.after}
PageItems == Page(Beyond, 1)

PageByCursor ==
  LET seen == job.seen \cup PageItems
  IN  IF Cardinality(Beyond) <= PageSize
      THEN job' = Answered(seen, job.cut)
      ELSE \E last \in PageItems :
             /\ \A i \in PageItems : i <= last
             /\ job' = [job EXCEPT !.after = last, !.seen = seen]

Fetch ==
  /\ job.stage = "fetching"
  /\ IF poller = "sonarcloud" THEN PageByNumber ELSE PageByCursor
  /\ UNCHANGED <<poller, listed, slots, rows, changes, faults, steady, omitted>>

\* A page says there is a next one and gives no cursor.
CursorMissing ==
  /\ job.stage = "fetching" /\ poller \in {"wiz", "pentest"}
  /\ Cardinality(Beyond) > PageSize /\ Fault
  /\ job' = Answered(job.seen \cup PageItems, TRUE)
  /\ UNCHANGED <<poller, listed, slots, rows, changes, steady, omitted>>

\* The Threat Center, the last query of a full Wiz poll: an advisory none of
\* whose impact counts comes back positive is left out; a count that fails
\* is not counted.
Uncounted(i) ==
  /\ job.stage = "fetched" /\ poller = "wiz" /\ ~job.only
  /\ i \in job.seen /\ QueryOf[i] = QueryCount /\ Fault
  /\ job' = [job EXCEPT !.seen = @ \ {i}, !.cut = TRUE]
  /\ UNCHANGED <<poller, listed, slots, rows, changes, steady, omitted>>

\* A query fails, the job runs out of time or memory: nothing is published.
\* A snapshot that is stored already is named by no message.
Abort ==
  /\ job # NoJob /\ Fault
  /\ job' = NoJob
  /\ slots' = [s \in Slots |-> IF slots[s].pending THEN slots[s] ELSE FreeSlot]
  /\ UNCHANGED <<poller, listed, rows, changes, steady, omitted>>

-----------------------------------------------------------------------------
\* Mutant: the message is published first.
PublishFirst(s) ==
  /\ job.stage = "fetched" /\ slots[s] = FreeSlot
  /\ slots' = [slots EXCEPT ![s] = [stored |-> FALSE, pending |-> TRUE,
                                    applied |-> FALSE, issues |-> job.seen]]
  /\ job' = [stage |-> "stored", slot |-> s]
  /\ UNCHANGED <<poller, listed, rows, changes, faults, steady, omitted>>

\* raw_store.put under a new poll_id.
Put(s) ==
  /\ job.stage = "fetched" /\ slots[s] = FreeSlot
  /\ slots' = [slots EXCEPT ![s] = [stored |-> TRUE, pending |-> FALSE,
                                    applied |-> FALSE, issues |-> job.seen]]
  /\ omitted' = [i \in Issues |->
                   IF i \in steady \ job.seen /\ omitted[i] < Threshold
                   THEN omitted[i] + 1 ELSE omitted[i]]
  /\ job' = [stage |-> "stored", slot |-> s]
  /\ UNCHANGED <<poller, listed, rows, changes, faults, steady>>

\* transport.publish.  A publish that times out may have been received: the
\* job fails all the same and is run again.
Publish ==
  /\ job.stage = "stored"
  /\ slots' = [slots EXCEPT ![job.slot].pending = TRUE]
  /\ job' = NoJob
  /\ UNCHANGED <<poller, listed, rows, changes, faults, steady, omitted>>

-----------------------------------------------------------------------------
\* process_snapshot on one row.
Reported == [status |-> "open", misses |-> 0]
Missed(row) ==
  IF row.status # "open" THEN row
  ELSE IF row.misses + 1 >= Threshold THEN [status |-> "auto_closed"]
  ELSE [row EXCEPT !.misses = @ + 1]

\* Mutant: no idempotency row.
ApplyAgain(s) ==
  rows' = [i \in Issues |-> IF i \in slots[s].issues THEN Reported ELSE Missed(rows[i])]

\* Mutant: a closed finding that is reported stays closed.
ApplyToOpen(s) ==
  rows' = [i \in Issues |-> IF slots[s].applied THEN rows[i]
                            ELSE IF i \in slots[s].issues
                            THEN IF rows[i].status = "auto_closed" THEN rows[i] ELSE Reported
                            ELSE Missed(rows[i])]

Apply(s) ==
  rows' = [i \in Issues |-> IF slots[s].applied THEN rows[i]
                            ELSE IF i \in slots[s].issues THEN Reported
                            ELSE Missed(rows[i])]

Deliver(s) ==
  /\ slots[s].pending /\ Apply(s)
  /\ slots' = [slots EXCEPT ![s] = FreeSlot]
  /\ UNCHANGED <<poller, listed, job, changes, faults, steady, omitted>>

\* The answer is lost: the message comes again.
DeliverUnacked(s) ==
  /\ slots[s].pending /\ Apply(s) /\ Fault
  /\ slots' = [slots EXCEPT ![s].applied = TRUE]
  /\ UNCHANGED <<poller, listed, job, changes, steady, omitted>>

\* The last attempt failed.
DeadLetter(s) ==
  /\ slots[s].pending /\ Fault
  /\ slots' = [slots EXCEPT ![s] = FreeSlot]
  /\ UNCHANGED <<poller, listed, job, rows, changes, steady, omitted>>

-----------------------------------------------------------------------------
Next ==
  \/ \E i \in Issues : Change(i) \/ Uncounted(i)
  \/ \E q \in 1..QueryCount : StartOnly(q)
  \/ Start \/ Fetch \/ CursorMissing \/ Abort \/ Publish
  \/ \E s \in Slots : Put(s) \/ Deliver(s) \/ DeliverUnacked(s) \/ DeadLetter(s)

\* Cloud Scheduler starts the job again and again, a job that runs goes on,
\* and Pub/Sub delivers what is published.
Fairness ==
  /\ WF_vars(Start) /\ WF_vars(Fetch) /\ WF_vars(Publish)
  /\ WF_vars(\E s \in Slots : Put(s))
  /\ \A s \in Slots : WF_vars(Deliver(s))

Spec == Init /\ [][Next]_vars /\ Fairness

-----------------------------------------------------------------------------
\* Jobs, slots and rows have their types, and a message always names a
\* snapshot that is in the raw store, whenever the job dies.
TypeOK ==
  /\ poller \in Pollers /\ listed \subseteq Issues /\ steady \subseteq listed
  /\ job.stage \in {"idle", "fetching", "fetched", "stored"}
  /\ job.stage = "fetching" => job.page \in 1..HardPageCap /\ job.query \in 1..QueryCount
  /\ \A s \in Slots : /\ slots[s].pending => slots[s].stored
                      /\ slots[s].stored => slots[s].issues \subseteq Issues
  /\ \A i \in Issues : rows[i].status = "open" => rows[i].misses \in 0..(Threshold - 1)

\* What a snapshot lacks although it was listed during the whole poll is
\* explained: the poll was cut short (the cap, a missing cursor, one
\* detector only, a failed impact count), or, with numbered pages, something
\* was taken off the listing while it was read and the rest moved up.  An
\* issue that appears and shifts the pages, or that is counted twice, costs
\* nothing.
OmissionsExplained ==
  job.stage = "fetched" =>
    \/ job.always \subseteq job.seen
    \/ job.cut
    \/ poller = "sonarcloud" /\ job.shrunk

\* One bad poll closes nothing: a finding whose issue has been listed all
\* the time is closed only when Threshold stored snapshots lacked it, however
\* often and in whatever order they are delivered.
OneBadPollIsTolerated ==
  \A i \in steady : rows[i].status = "auto_closed" => omitted[i] >= Threshold

\* When the scanner's listing and the failures have come to rest, the open
\* findings become the issues it lists: closed by mistake or in order, they
\* are opened again or stay closed.  Of SonarCloud, as long as a query's
\* issues fit under the cap.
Fits ==
  poller = "sonarcloud" =>
    \A q \in 1..QueryCount : Cardinality(Listing(q)) <= PageSize * HardPageCap
Converges ==
  <>[]Fits => <>[](\A i \in Issues : rows[i].status = "open" <=> i \in listed)
=============================================================================
