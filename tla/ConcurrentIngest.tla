-------------------------- MODULE ConcurrentIngest --------------------------
(***************************************************************************)
(* process_snapshot, statement by statement, when several instances of the *)
(* normalizer run it on snapshots of the same poller at the same time.     *)
(* Transactions are READ COMMITTED: a statement sees what was committed    *)
(* when it started and its own writes; a write to a row that another       *)
(* transaction has written waits for that transaction to end, and is then  *)
(* evaluated on the row it left.                                           *)
(*                                                                         *)
(* Only status and consecutive_misses are kept of a row, and all findings  *)
(* are at their stable ids.  The order in which rows are flushed is left   *)
(* open: it depends on the snapshot and on where inserts force a flush.    *)
(***************************************************************************)
EXTENDS Integers, FiniteSets

CONSTANTS
  Findings,      \* findings of one poller
  Polls,         \* its snapshots that are waiting in Pub/Sub
  Workers,       \* instances of the normalizer; each serves one push at a time
  Thresholds,    \* the auto-close thresholds an instance may have cached
  MaxAttempts,   \* bound on the deliveries of one message
  NoPoll         \* the poll of an idle worker

ASSUME ConcurrentAssumption ==
  /\ IsFiniteSet(Polls) /\ NoPoll \notin Polls
  /\ Thresholds \subseteq Nat \ {0}
  /\ MaxAttempts \in Nat

VARIABLES
  report,        \* report[i]: the findings poll i lists
  rows,          \* committed rows of findings
  processed,     \* committed rows of processed_payloads
  attempts,      \* attempts[i]: deliveries of poll i so far
  txn            \* txn[w]: the transaction of worker w

vars == <<report, rows, processed, attempts, txn>>

Row == [status: {"open", "auto_closed"}, misses: Nat]
NewRow == [status |-> "open", misses |-> 0]
NoRows == [f \in {} |-> NewRow]

Stages == {"idle", "claim", "upsert", "age", "close"}

\* A transaction: its poll, the threshold it will use, the rows of
\* existing_by_id as read, the row versions it has written (the row locks it
\* holds), the rows its current statement or flush has still to write, and
\* the polls that were committed when it read (auxiliary).
Idle == [stage |-> "idle", poll |-> NoPoll, limit |-> 0, loaded |-> NoRows,
         mine |-> NoRows, todo |-> {}, began |-> {}]

Init ==
  /\ report \in [Polls -> SUBSET Findings]
  /\ \E S \in SUBSET Findings : rows = [f \in S |-> NewRow]
  /\ processed = {}
  /\ attempts = [i \in Polls |-> 0]
  /\ txn = [w \in Workers |-> Idle]

-----------------------------------------------------------------------------
At(w, stage) == txn[w].stage = stage
Reported(w) == report[txn[w].poll]

\* Rows as worker w's transaction sees them.
Overlay(table, written) ==
  [f \in DOMAIN table \cup DOMAIN written |->
     IF f \in DOMAIN written THEN written[f] ELSE table[f]]
Visible(w) == Overlay(rows, txn[w].mine)

Locked(w, f) == \E v \in Workers \ {w} : f \in DOMAIN txn[v].mine

\* Another transaction has inserted the processed_payloads row of w's poll
\* and not ended.
Claimed(w) ==
  \E v \in Workers \ {w} :
    txn[v].poll = txn[w].poll /\ txn[v].stage \notin {"idle", "claim"}

\* Row f is written by w's transaction, and is done with.
Write(w, f, row) ==
  txn' = [txn EXCEPT ![w].mine = Overlay(@, [g \in {f} |-> row]),
                     ![w].todo = @ \ {f}]

\* A push of poll i reaches worker w, for the first time or again.
Deliver(w, i) ==
  /\ At(w, "idle") /\ attempts[i] < MaxAttempts
  /\ attempts' = [attempts EXCEPT ![i] = @ + 1]
  /\ \E t \in Thresholds :
       txn' = [txn EXCEPT ![w] = [Idle EXCEPT !.stage = "claim", !.poll = i,
                                              !.limit = t]]
  /\ UNCHANGED <<report, rows, processed>>

\* Mutant: a look at processed_payloads instead of an insert that waits.
ClaimByLooking(w) ==
  /\ At(w, "claim")
  /\ txn' = [txn EXCEPT ![w] =
       IF @.poll \in processed THEN Idle
       ELSE [@ EXCEPT !.stage = "upsert", !.todo = Reported(w),
                      !.loaded = [f \in DOMAIN rows \cap Reported(w) |-> rows[f]],
                      !.began = processed]]
  /\ UNCHANGED <<report, rows, processed, attempts>>

\* INSERT processed_payloads ON CONFLICT DO NOTHING; a poll that is there is
\* answered 200, a new one goes on to read the rows of its findings.
Claim(w) ==
  /\ At(w, "claim") /\ ~Claimed(w)
  /\ txn' = [txn EXCEPT ![w] =
       IF @.poll \in processed THEN Idle
       ELSE [@ EXCEPT !.stage = "upsert", !.todo = Reported(w),
                      !.loaded = [f \in DOMAIN rows \cap Reported(w) |-> rows[f]],
                      !.began = processed]]
  /\ UNCHANGED <<report, rows, processed, attempts>>

\* Mutant: the flush writes every column it has read.
WholeRow(latest, read) == [status |-> read.status, misses |-> 0]

\* The flush of a loaded row writes the columns that differ from what was
\* read (and last_seen_at, so that it always takes the row's lock).
Dirty(latest, read) ==
  [status |-> IF read.status = "auto_closed" THEN "open" ELSE latest.status,
   misses |-> IF read.misses # 0 THEN 0 ELSE latest.misses]

\* Mutant: rows are written without their locks.
UpdateRowUnlocked(w, f) ==
  /\ At(w, "upsert") /\ f \in txn[w].todo
  /\ f \in DOMAIN txn[w].loaded
  /\ Write(w, f, Dirty(rows[f], txn[w].loaded[f]))
  /\ UNCHANGED <<report, rows, processed, attempts>>

UpdateRow(w, f) ==
  /\ At(w, "upsert") /\ f \in txn[w].todo /\ ~Locked(w, f)
  /\ f \in DOMAIN txn[w].loaded
  /\ Write(w, f, Dirty(rows[f], txn[w].loaded[f]))
  /\ UNCHANGED <<report, rows, processed, attempts>>

InsertRow(w, f) ==
  /\ At(w, "upsert") /\ f \in txn[w].todo /\ ~Locked(w, f)
  /\ f \notin DOMAIN txn[w].loaded /\ f \notin DOMAIN rows
  /\ Write(w, f, NewRow)
  /\ UNCHANGED <<report, rows, processed, attempts>>

\* The absence UPDATE starts: it will write the open rows it sees that the
\* snapshot does not list.
Absent(w) ==
  /\ At(w, "upsert") /\ txn[w].todo = {}
  /\ txn' = [txn EXCEPT ![w].stage = "age", ![w].todo =
       {f \in DOMAIN Visible(w) \ Reported(w) : Visible(w)[f].status = "open"}]
  /\ UNCHANGED <<report, rows, processed, attempts>>

\* It writes one of them, if the row is still open once its lock is free.
AgeRow(w, f) ==
  /\ At(w, "age") /\ f \in txn[w].todo /\ ~Locked(w, f)
  /\ IF rows[f].status = "open"
     THEN Write(w, f, [rows[f] EXCEPT !.misses = @ + 1])
     ELSE txn' = [txn EXCEPT ![w].todo = @ \ {f}]
  /\ UNCHANGED <<report, rows, processed, attempts>>

\* SELECT of the rows to close: those it sees open with enough misses.
Select(w) ==
  /\ At(w, "age") /\ txn[w].todo = {}
  /\ txn' = [txn EXCEPT ![w].stage = "close", ![w].todo =
       {f \in DOMAIN Visible(w) : /\ Visible(w)[f].status = "open"
                                  /\ Visible(w)[f].misses >= txn[w].limit}]
  /\ UNCHANGED <<report, rows, processed, attempts>>

\* The flush at commit writes their status.
CloseRow(w, f) ==
  /\ At(w, "close") /\ f \in txn[w].todo /\ ~Locked(w, f)
  /\ Write(w, f, [Visible(w)[f] EXCEPT !.status = "auto_closed"])
  /\ UNCHANGED <<report, rows, processed, attempts>>

Commit(w) ==
  /\ At(w, "close") /\ txn[w].todo = {}
  /\ rows' = Visible(w)
  /\ processed' = processed \cup {txn[w].poll}
  /\ txn' = [txn EXCEPT ![w] = Idle]
  /\ UNCHANGED <<report, attempts>>

\* Mutant: session_scope commits what was written before the exception.
KeepPartialWork(w) ==
  /\ ~At(w, "idle")
  /\ rows' = Visible(w)
  /\ txn' = [txn EXCEPT ![w] = Idle]
  /\ UNCHANGED <<report, processed, attempts>>

\* Mutant: session_scope leaves the failed transaction open.
LeaveOpen(w) == ~At(w, "idle") /\ UNCHANGED vars

\* The transaction fails and is rolled back: a duplicate key, a deadlock, a
\* lost connection, the end of the instance.
Rollback(w) ==
  /\ ~At(w, "idle")
  /\ txn' = [txn EXCEPT ![w] = Idle]
  /\ UNCHANGED <<report, rows, processed, attempts>>

-----------------------------------------------------------------------------
\* Another transaction has inserted a row this one was going to insert.
DuplicateKey(w) ==
  /\ At(w, "upsert")
  /\ \E f \in txn[w].todo \cap DOMAIN rows : f \notin DOMAIN txn[w].loaded

\* A set of transactions that wait for one another's rows.
Deadlocked(w) ==
  \E S \in SUBSET Workers :
    /\ w \in S
    /\ \A v \in S : /\ txn[v].todo # {}
                    /\ \A f \in txn[v].todo :
                         \E u \in S \ {v} : f \in DOMAIN txn[u].mine

Step(w) ==
  \/ Claim(w) \/ Absent(w) \/ Select(w) \/ Commit(w)
  \/ \E f \in Findings : UpdateRow(w, f) \/ InsertRow(w, f)
                           \/ AgeRow(w, f) \/ CloseRow(w, f)

Next ==
  \/ \E w \in Workers, i \in Polls : Deliver(w, i)
  \/ \E w \in Workers : Claim(w)
  \/ \E w \in Workers, f \in Findings : UpdateRow(w, f)
  \/ \E w \in Workers, f \in Findings : InsertRow(w, f)
  \/ \E w \in Workers : Absent(w)
  \/ \E w \in Workers, f \in Findings : AgeRow(w, f)
  \/ \E w \in Workers : Select(w)
  \/ \E w \in Workers, f \in Findings : CloseRow(w, f)
  \/ \E w \in Workers : Commit(w)
  \/ \E w \in Workers : Rollback(w)

\* A transaction goes on while it can; a duplicate key and, by PostgreSQL's
\* deadlock detector, a deadlock end it.  Nothing else has to fail.
Fairness ==
  \A w \in Workers :
    WF_vars(Step(w) \/ ((DuplicateKey(w) \/ Deadlocked(w)) /\ Rollback(w)))

Spec == Init /\ [][Next]_vars /\ Fairness

-----------------------------------------------------------------------------
\* The tables and the transactions have their types, and no row is written by
\* two transactions at a time.
TypeOK ==
  /\ report \in [Polls -> SUBSET Findings]
  /\ DOMAIN rows \subseteq Findings /\ \A f \in DOMAIN rows : rows[f] \in Row
  /\ processed \subseteq Polls
  /\ attempts \in [Polls -> 0..MaxAttempts]
  /\ \A w \in Workers :
       LET x == txn[w]
       IN  /\ x.stage \in Stages /\ x.poll \in Polls \cup {NoPoll}
           /\ x.todo \subseteq Findings /\ x.began \subseteq processed
           /\ \A f \in DOMAIN x.mine : x.mine[f] \in Row
           /\ \A v \in Workers \ {w} : DOMAIN x.mine \cap DOMAIN txn[v].mine = {}

\* However its deliveries overlap, a poll changes the table at most once: rows
\* change only in the step that records a poll that was not recorded.
AppliedOnce ==
  [][rows' # rows => \E i \in Polls \ processed : processed' = processed \cup {i}]_vars

\* Overlapping transactions may forget a miss, but never count one twice: the
\* counter is at most the number of applied polls that did not list the
\* finding, and a finding is closed only when those reach a threshold.
Absences(f) == Cardinality({i \in processed : f \notin report[i]})
MissesAreAbsences ==
  \A f \in DOMAIN rows :
    /\ rows[f].misses <= Absences(f)
    /\ rows[f].status = "auto_closed" => \E t \in Thresholds : t <= Absences(f)

\* What process_snapshot does to the table when nothing runs beside it.
Snapshot(table, listed, t) ==
  LET aged == [f \in DOMAIN table \cup listed |->
                 IF f \in listed THEN NewRow
                 ELSE IF table[f].status = "open"
                      THEN [table[f] EXCEPT !.misses = @ + 1]
                      ELSE table[f]]
  IN  [f \in DOMAIN aged |->
         IF aged[f].status = "open" /\ aged[f].misses >= t
         THEN [aged[f] EXCEPT !.status = "auto_closed"] ELSE aged[f]]

Commits(w) == At(w, "close") /\ txn[w].poll \in processed' \ processed

\* A transaction during which no other committed leaves exactly the table of
\* one run of process_snapshot on the table it found, whatever other
\* transactions were doing beside it.
AloneIsSerial ==
  [][\A w \in Workers :
       Commits(w) /\ processed = txn[w].began
         => rows' = Snapshot(rows, Reported(w), txn[w].limit)]_vars

\* Every transaction ends: row locks are released, deadlocks are broken.
TransactionsEnd == \A w \in Workers : ~At(w, "idle") ~> At(w, "idle")

\* "previously auto_closed and present again: open"; "always refresh
\* last_seen_at and reset consecutive_misses" (docs/ingest.md): the findings a
\* committed snapshot lists are open and have no misses.
ReportLeavesOpen ==
  [][\A w \in Workers :
       Commits(w) => \A f \in Reported(w) : rows'[f] = NewRow]_vars
=============================================================================
