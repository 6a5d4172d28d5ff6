---------------------------- MODULE RollupProofs ----------------------------
(***************************************************************************)
(* The theorems of Rollup, for any findings, teams, days and window: what  *)
(* the replay of the events says of the past, and what the trend a run     *)
(* leaves says of it.                                                      *)
(***************************************************************************)
EXTENDS Rollup, FiniteSetTheorems, TLAPS

Row == [team: Teams, status: {"open", "auto_closed"}, created: Nat]
Event == [at: Nat, type: {"discovered", "auto_closed", "reopened"}]

\* Latest and OpenAt of one row and its events.
LatestOf(ev, t) == {e \in ev : e.at <= t /\ \A x \in ev : x.at <= t => x.at <= e.at}
OpenBy(row, ev, t) ==
  /\ row.created <= t
  /\ \A e \in LatestOf(ev, t) : e.type \notin Closing

-----------------------------------------------------------------------------
\* Instants and days.
LEMMA DayFloor ==
  ASSUME NEW t \in Nat
  PROVE  DayOf(t) \in Nat /\ Slots * DayOf(t) <= t /\ t < Slots * (DayOf(t) + 1)
BY RollupAssumption, SMT DEF DayOf

LEMMA DayOfEnd ==
  ASSUME NEW d \in Nat
  PROVE  EndOfDay(d) \in Nat /\ DayOf(EndOfDay(d)) = d
BY RollupAssumption, SMT DEF DayOf, EndOfDay

LEMMA EndedDay ==
  ASSUME NEW t \in Nat, NEW d \in Nat, d < DayOf(t)
  PROVE  EndOfDay(d) < t
<1>1. DayOf(t) \in Nat /\ Slots * DayOf(t) <= t
  BY DayFloor
<1> HIDE DEF DayOf
<1>2. Slots * d + Slots <= Slots * DayOf(t)
  BY <1>1, RollupAssumption, SMT
<1> QED
  BY <1>1, <1>2, RollupAssumption, SMT DEF EndOfDay

-----------------------------------------------------------------------------
\* The inductive invariant.  Of a row: its events lie between its creation and
\* instant t, no two are of the same instant, and one that comes after all
\* others tells its status.
Told(row, ev, t) ==
  /\ \A e \in ev : row.created <= e.at /\ e.at <= t
  /\ \A e, x \in ev : e.at = x.at => e = x
  /\ \E e \in ev : /\ \A x \in ev : x.at <= e.at
                   /\ row.status = "open" <=> e.type \notin Closing

\* Its history begins with its discovery.
Founded(ev) == \E e \in ev : e.type = "discovered" /\ \A x \in ev : e.at <= x.at

\* Its events tell whether it was open when a day ended.
Remembered(f, row, ev, past) ==
  \A d \in DOMAIN past :
    (\E e \in ev : e.type = "discovered" /\ e.at <= EndOfDay(d))
      => (OpenBy(row, ev, EndOfDay(d)) <=> f \in past[d])

TablesOK ==
  /\ now \in Nat
  /\ DOMAIN rows \subseteq Findings
  /\ \A f \in DOMAIN rows : rows[f] \in Row /\ rows[f].created <= now
  /\ trail \in [Findings -> SUBSET Event]
  /\ \A f \in Findings \ DOMAIN rows : trail[f] = {}
  /\ \A d \in DOMAIN was : EndOfDay(d) \in Int /\ EndOfDay(d) < now
  /\ job.moved \subseteq DOMAIN rows

\* Every day that has ended is remembered, and the job runs on a day after one.
DaysOK ==
  /\ \A d \in Nat : EndOfDay(d) < now => d \in DOMAIN was
  /\ job.stage = "resolved" => Yesterday \in Nat

HistoryOK ==
  \A f \in DOMAIN rows : /\ Told(rows[f], trail[f], now)
                         /\ Founded(trail[f])
                         /\ Remembered(f, rows[f], trail[f], was)

IInv == TablesOK /\ DaysOK /\ HistoryOK

-----------------------------------------------------------------------------
\* The replay up to t does not see events after t.
LEMMA LaterIsUnseen ==
  ASSUME NEW ev \in SUBSET Event, NEW e \in Event, NEW t \in Int, t < e.at
  PROVE  LatestOf(ev \cup {e}, t) = LatestOf(ev, t)
<1>1. \A x \in ev \cup {e} : x.at \in Nat
  BY DEF Event
<1>2. ~(e.at <= t)
  BY <1>1
<1> QED
  BY <1>2 DEF LatestOf

\* All of a row's events being in, the replay tells its status.
LEMMA ReplayTellsStatus ==
  ASSUME NEW row \in Row, NEW ev \in SUBSET Event, NEW t \in Nat,
         row.created <= t, Told(row, ev, t)
  PROVE  row.status = "open" <=> OpenBy(row, ev, t)
<1>1. PICK e \in ev : /\ \A x \in ev : x.at <= e.at
                      /\ row.status = "open" <=> e.type \notin Closing
  BY DEF Told
<1>2. \A x \in ev : x.at \in Nat /\ x.at <= t
  BY DEF Told, Event
<1>3. e \in LatestOf(ev, t)
  BY <1>1, <1>2 DEF LatestOf
<1>4. \A x \in LatestOf(ev, t) : x = e
  <2> TAKE x \in LatestOf(ev, t)
  <2>1. x \in ev /\ x.at <= e.at /\ e.at <= x.at
    BY <1>1, <1>2 DEF LatestOf
  <2>2. x.at = e.at
    BY <1>2, <2>1
  <2> QED
    BY <2>1, <2>2 DEF Told
<1> QED
  BY <1>1, <1>3, <1>4 DEF OpenBy

\* A row that is opened or closed at an instant after all its events, with the
\* event that says so.
LEMMA EventStep ==
  ASSUME NEW f, NEW row \in Row, NEW ev \in SUBSET Event, NEW t \in Nat,
         NEW next \in Row, NEW e \in Event,
         row.created <= t, Told(row, ev, t), Founded(ev),
         Remembered(f, row, ev, was),
         \A d \in DOMAIN was : EndOfDay(d) \in Int /\ EndOfDay(d) < t,
         \A x \in ev : x.at < t,
         e.at = t, e.type # "discovered", next.created = row.created,
         next.status = "open" <=> e.type \notin Closing
  PROVE  /\ Told(next, ev \cup {e}, t)
         /\ Founded(ev \cup {e})
         /\ Remembered(f, next, ev \cup {e}, was)
<1>1. \A x \in ev \cup {e} : x.at \in Nat
  BY DEF Event
<1>2. row.created \in Nat
  BY DEF Row
<1>3. Told(next, ev \cup {e}, t)
  <2>1. \A x \in ev \cup {e} : next.created <= x.at /\ x.at <= t
    BY <1>1, <1>2 DEF Told
  <2>2. \A x, y \in ev \cup {e} : x.at = y.at => x = y
    BY <1>1 DEF Told
  <2>3. \A x \in ev \cup {e} : x.at <= e.at
    BY <1>1
  <2> QED
    BY <2>1, <2>2, <2>3 DEF Told
<1>4. ASSUME NEW d \in DOMAIN was,
             \E x \in ev \cup {e} : x.type = "discovered" /\ x.at <= EndOfDay(d)
      PROVE  OpenBy(next, ev \cup {e}, EndOfDay(d)) <=> f \in was[d]
  <2>1. LatestOf(ev \cup {e}, EndOfDay(d)) = LatestOf(ev, EndOfDay(d))
    BY LaterIsUnseen
  <2>2. \E x \in ev : x.type = "discovered" /\ x.at <= EndOfDay(d)
    BY <1>4
  <2>3. OpenBy(row, ev, EndOfDay(d)) <=> f \in was[d]
    BY <2>2 DEF Remembered
  <2> QED
    BY <2>1, <2>3 DEF OpenBy
<1>5. Founded(ev \cup {e})
  BY <1>1 DEF Founded
<1> QED
  BY <1>3, <1>4, <1>5 DEF Remembered

\* A row whose status and creation stay has the history it had.
LEMMA SameHistory ==
  ASSUME NEW f, NEW row, NEW next, NEW ev, NEW t, NEW past,
         Told(row, ev, t), Remembered(f, row, ev, past),
         next.status = row.status, next.created = row.created
  PROVE  Told(next, ev, t) /\ Remembered(f, next, ev, past)
BY DEF Told, Remembered, OpenBy

-----------------------------------------------------------------------------
\* One lemma per action that changes rows, events or the past.
LEMMA Initially == Init => IInv
<1> SUFFICES ASSUME Init PROVE IInv
  OBVIOUS
<1>1. DaysOK
  BY DayOfEnd DEF Init, Resting, DaysOK
<1> QED
  BY <1>1 DEF Init, Resting, IInv, TablesOK, HistoryOK

LEMMA DiscoverStep ==
  ASSUME IInv, NEW f \in Findings, Discover(f)
  PROVE  IInv'
<1>1. PICK team \in Teams, t \in 0..now :
        rows' = [g \in DOMAIN rows \cup {f} |->
                   IF g = f THEN [team |-> team, status |-> "open", created |-> t]
                            ELSE rows[g]]
  BY DEF Discover
<1> DEFINE row == [team |-> team, status |-> "open", created |-> t]
           e == [at |-> now, type |-> "discovered"]
<1>2. /\ now \in Nat /\ f \notin DOMAIN rows /\ trail[f] = {}
      /\ trail \in [Findings -> SUBSET Event]
      /\ trail' = [trail EXCEPT ![f] = @ \cup {e}]
      /\ now' = now /\ was' = was /\ job' = job
  BY DEF Discover, Emit, IInv, TablesOK
<1>3. row \in Row /\ row.created <= now /\ e \in Event /\ t <= now
  BY <1>2 DEF Row, Event
<1>4. /\ DOMAIN rows' = DOMAIN rows \cup {f} /\ rows'[f] = row
      /\ \A g \in DOMAIN rows : rows'[g] = rows[g]
  BY <1>1, <1>2
<1>5. /\ trail' \in [Findings -> SUBSET Event] /\ trail'[f] = {e}
      /\ \A g \in Findings \ {f} : trail'[g] = trail[g]
  BY <1>2, <1>3
<1>6. TablesOK'
  BY <1>2, <1>3, <1>4, <1>5 DEF IInv, TablesOK
<1>7. Told(row, {e}, now)
  BY <1>2, <1>3 DEF Told, Closing
<1>8. Remembered(f, row, {e}, was)
  BY <1>2 DEF Remembered, IInv, TablesOK
<1>9. Founded({e})
  BY <1>2 DEF Founded
<1>10. \A g \in DOMAIN rows' : /\ Told(rows'[g], trail'[g], now) /\ Founded(trail'[g])
                              /\ Remembered(g, rows'[g], trail'[g], was)
  <2>1. \A g \in DOMAIN rows : g \in Findings \ {f}
    BY <1>2 DEF IInv, TablesOK
  <2> QED
    BY <1>4, <1>5, <1>7, <1>8, <1>9, <2>1 DEF IInv, HistoryOK
<1>11. DaysOK'
  BY <1>2 DEF IInv, DaysOK, Yesterday
<1> QED
  BY <1>2, <1>6, <1>10, <1>11 DEF IInv, HistoryOK

\* Close and Reopen: a new status, and the event that says so.
LEMMA LifecycleStep ==
  ASSUME IInv, NEW f \in DOMAIN rows, NEW status \in {"open", "auto_closed"},
         NEW type \in {"auto_closed", "reopened"}, Quiet(f), Emit(f, type),
         status = "open" <=> type \notin Closing,
         rows' = [rows EXCEPT ![f].status = status],
         UNCHANGED <<now, metrics, job, was>>
  PROVE  IInv'
<1> DEFINE e == [at |-> now, type |-> type]
           next == [rows[f] EXCEPT !.status = status]
<1>1. /\ now \in Nat /\ f \in Findings /\ rows[f] \in Row /\ rows[f].created <= now
      /\ trail \in [Findings -> SUBSET Event] /\ trail[f] \in SUBSET Event
  BY DEF IInv, TablesOK
<1>2. /\ DOMAIN rows' = DOMAIN rows /\ rows'[f] = next
      /\ \A g \in DOMAIN rows \ {f} : rows'[g] = rows[g]
  OBVIOUS
<1>3. e \in Event /\ e.at = now /\ e.type = type
  BY <1>1 DEF Event
<1>4. next \in Row /\ next.created = rows[f].created /\ next.status = status
  BY <1>1 DEF Row
<1>5. trail' = [trail EXCEPT ![f] = @ \cup {e}]
  BY DEF Emit
<1> HIDE DEF e, next
<1>6. /\ trail' \in [Findings -> SUBSET Event] /\ trail'[f] = trail[f] \cup {e}
      /\ \A g \in Findings \ {f} : trail'[g] = trail[g]
  BY <1>1, <1>3, <1>5
<1>7. TablesOK'
  <2>1. \A g \in DOMAIN rows' : rows'[g] \in Row /\ rows'[g].created <= now
    BY <1>1, <1>2, <1>4 DEF IInv, TablesOK
  <2> QED
    BY <1>2, <1>6, <2>1 DEF IInv, TablesOK
<1>8. /\ Told(next, trail[f] \cup {e}, now) /\ Founded(trail[f] \cup {e})
      /\ Remembered(f, next, trail[f] \cup {e}, was)
  <2>1. /\ Told(rows[f], trail[f], now) /\ Founded(trail[f])
        /\ Remembered(f, rows[f], trail[f], was)
        /\ \A d \in DOMAIN was : EndOfDay(d) \in Int /\ EndOfDay(d) < now
        /\ \A x \in trail[f] : x.at < now
    BY DEF IInv, TablesOK, HistoryOK, Quiet
  <2>2. e.type # "discovered" /\ (next.status = "open" <=> e.type \notin Closing)
    BY <1>3, <1>4
  <2> QED
    BY <1>1, <1>3, <1>4, <2>1, <2>2, EventStep
<1>9. \A g \in DOMAIN rows : /\ Told(rows'[g], trail'[g], now) /\ Founded(trail'[g])
                             /\ Remembered(g, rows'[g], trail'[g], was)
  BY <1>2, <1>6, <1>8 DEF IInv, HistoryOK, TablesOK
<1>10. DaysOK'
  BY DEF IInv, DaysOK, Yesterday
<1> QED
  BY <1>2, <1>7, <1>9, <1>10 DEF IInv, HistoryOK

LEMMA CloseStep ==
  ASSUME IInv, NEW f \in Findings, Close(f)
  PROVE  IInv'
<1>1. "auto_closed" \in Closing
  BY DEF Closing
<1> QED
  BY <1>1, LifecycleStep DEF Close

LEMMA ReopenStep ==
  ASSUME IInv, NEW f \in Findings, Reopen(f)
  PROVE  IInv'
<1>1. "reopened" \notin Closing
  BY DEF Closing
<1> QED
  BY <1>1, LifecycleStep DEF Reopen

\* Restamp and Resolve: rows get other teams and keep the rest.
LEMMA TeamsStep ==
  ASSUME IInv, UNCHANGED <<now, trail, was>>,
         DOMAIN rows' = DOMAIN rows, job'.moved \subseteq DOMAIN rows,
         job'.stage = "resolved" => Yesterday \in Nat,
         \A f \in DOMAIN rows : /\ rows'[f] \in Row
                                /\ rows'[f].status = rows[f].status
                                /\ rows'[f].created = rows[f].created
  PROVE  IInv'
<1>1. TablesOK'
  BY DEF IInv, TablesOK
<1>2. ASSUME NEW f \in DOMAIN rows
      PROVE  Told(rows'[f], trail[f], now) /\ Remembered(f, rows'[f], trail[f], was)
  <2>1. Told(rows[f], trail[f], now) /\ Remembered(f, rows[f], trail[f], was)
    BY DEF IInv, HistoryOK
  <2> QED
    BY <2>1, SameHistory
<1>3. DaysOK'
  BY DEF IInv, DaysOK, Yesterday
<1> QED
  BY <1>1, <1>2, <1>3 DEF IInv, HistoryOK

LEMMA RestampStep ==
  ASSUME IInv, NEW f \in Findings, NEW team \in Teams, Restamp(f, team)
  PROVE  IInv'
<1>1. \A g \in DOMAIN rows : rows[g] \in Row
  BY DEF IInv, TablesOK
<1>2. /\ f \in DOMAIN rows /\ DOMAIN rows' = DOMAIN rows
      /\ rows'[f] = [rows[f] EXCEPT !.team = team]
      /\ \A g \in DOMAIN rows \ {f} : rows'[g] = rows[g]
      /\ UNCHANGED <<now, trail, job, was>>
  BY DEF Restamp
<1>3. \A g \in DOMAIN rows : /\ rows'[g] \in Row /\ rows'[g].status = rows[g].status
                             /\ rows'[g].created = rows[g].created
  BY <1>1, <1>2 DEF Row
<1>4. job'.moved \subseteq DOMAIN rows /\ (job'.stage = "resolved" => Yesterday \in Nat)
  BY <1>2 DEF IInv, TablesOK, DaysOK
<1> QED
  BY <1>2, <1>3, <1>4, TeamsStep

LEMMA ResolveStep ==
  ASSUME IInv, NEW moved \in SUBSET DOMAIN rows, Resolve(moved)
  PROVE  IInv'
<1>1. PICK to \in [moved -> Teams] :
        rows' = [f \in DOMAIN rows |->
                   IF f \in moved THEN [rows[f] EXCEPT !.team = to[f]] ELSE rows[f]]
  BY DEF Resolve
<1>2. \A f \in DOMAIN rows : rows[f] \in Row
  BY DEF IInv, TablesOK
<1>3. \A f \in DOMAIN rows : /\ rows'[f] \in Row /\ rows'[f].status = rows[f].status
                             /\ rows'[f].created = rows[f].created
  BY <1>1, <1>2 DEF Row
<1>4. DOMAIN rows' = DOMAIN rows /\ job'.moved = moved /\ UNCHANGED <<now, trail, was>>
  BY <1>1 DEF Resolve
<1>5. Yesterday \in Nat
  <2>1. now \in Nat /\ Yesterday >= 0
    BY DEF Resolve, IInv, TablesOK
  <2> QED
    BY <2>1, DayFloor DEF Yesterday
<1> QED
  BY <1>3, <1>4, <1>5, TeamsStep

LEMMA JobStep ==
  ASSUME IInv, UNCHANGED <<now, rows, trail, was>>, job' = job \/ job' = Resting
  PROVE  IInv'
<1>1. job'.moved \subseteq DOMAIN rows
  BY DEF Resting, IInv, TablesOK
<1>2. DaysOK'
  BY DEF Resting, IInv, DaysOK, Yesterday
<1> QED
  BY <1>1, <1>2 DEF IInv, TablesOK, HistoryOK

LEMMA TickStep ==
  ASSUME IInv, Tick
  PROVE  IInv'
<1> DEFINE today == DayOf(now)
<1>1. /\ now \in Nat /\ now' = now + 1
      /\ was' = IF now = EndOfDay(today)
                THEN [d \in DOMAIN was \cup {today} |->
                        IF d = today THEN OpenNow ELSE was[d]]
                ELSE was
      /\ UNCHANGED <<rows, trail, job>>
  BY DEF Tick, IInv, TablesOK
<1> HIDE DEF today
<1>2. TablesOK'
  <2>1. \A d \in DOMAIN was' : EndOfDay(d) \in Int /\ EndOfDay(d) < now + 1
    BY <1>1 DEF IInv, TablesOK
  <2>2. \A f \in DOMAIN rows : rows[f].created <= now + 1
    BY <1>1 DEF IInv, TablesOK, Row
  <2> QED
    BY <1>1, <2>1, <2>2 DEF IInv, TablesOK
<1>3. ASSUME NEW f \in DOMAIN rows
      PROVE  Told(rows[f], trail[f], now + 1) /\ Remembered(f, rows[f], trail[f], was')
  <2>1. /\ rows[f] \in Row /\ rows[f].created <= now /\ trail[f] \in SUBSET Event
        /\ Told(rows[f], trail[f], now) /\ Remembered(f, rows[f], trail[f], was)
    BY DEF IInv, TablesOK, HistoryOK
  <2>2. Told(rows[f], trail[f], now + 1)
    <3>1. \A e \in trail[f] : e.at \in Nat
      BY <2>1 DEF Event
    <3> QED
      BY <1>1, <2>1, <3>1 DEF Told
  <2>3. CASE now = EndOfDay(today)
    <3>1. OpenBy(rows[f], trail[f], now) <=> f \in OpenNow
      BY <1>1, <2>1, ReplayTellsStatus DEF OpenNow
    <3>2. \A d \in DOMAIN was' : IF d = today THEN was'[d] = OpenNow
                                              ELSE d \in DOMAIN was /\ was'[d] = was[d]
      BY <1>1, <2>3
    <3> QED
      BY <2>1, <2>2, <2>3, <3>1, <3>2 DEF Remembered
  <2> QED
    BY <1>1, <2>1, <2>2, <2>3
<1>4. DaysOK'
  <2>1. ASSUME NEW d \in Nat, EndOfDay(d) < now + 1
        PROVE  d \in DOMAIN was'
    <3>1. EndOfDay(d) \in Nat /\ DayOf(EndOfDay(d)) = d
      BY DayOfEnd
    <3>2. CASE EndOfDay(d) < now
      BY <1>1, <3>2 DEF IInv, DaysOK
    <3>3. CASE EndOfDay(d) = now
      <4>1. d = today
        BY <3>1, <3>3 DEF today
      <4> QED
        BY <1>1, <3>3, <4>1
    <3> QED
      BY <1>1, <2>1, <3>1, <3>2, <3>3
  <2>2. ASSUME job.stage = "resolved"
        PROVE  DayOf(now + 1) - 1 \in Nat
    <3>1. Yesterday \in Nat /\ DayOf(now) \in Nat /\ DayOf(now + 1) \in Nat
      BY <1>1, <2>2, DayFloor DEF IInv, DaysOK
    <3>2. DayOf(now) <= DayOf(now + 1)
      <4>1. /\ Slots * DayOf(now) <= now
            /\ now + 1 < Slots * (DayOf(now + 1) + 1)
        BY <1>1, DayFloor
      <4> HIDE DEF DayOf
      <4>2. \A a, b, n \in Nat : (Slots * a <= n /\ n + 1 < Slots * (b + 1)) => a <= b
        BY RollupAssumption, SMT
      <4> QED
        BY <1>1, <3>1, <4>1, <4>2
    <3> QED
      BY <3>1, <3>2 DEF Yesterday
  <2> QED
    BY <1>1, <2>1, <2>2 DEF DaysOK, Yesterday
<1> QED
  BY <1>1, <1>2, <1>3, <1>4 DEF IInv, HistoryOK

LEMMA Inductive == IInv /\ [Next]_vars => IInv'
<1> SUFFICES ASSUME IInv, [Next]_vars PROVE IInv'
  OBVIOUS
<1>1. CASE Tick
  BY <1>1, TickStep
<1>2. ASSUME NEW f \in Findings, Discover(f) \/ Close(f) \/ Reopen(f) PROVE IInv'
  BY <1>2, DiscoverStep, CloseStep, ReopenStep
<1>3. ASSUME NEW f \in Findings, NEW team \in Teams, Restamp(f, team) PROVE IInv'
  BY <1>3, RestampStep
<1>4. ASSUME NEW moved \in SUBSET DOMAIN rows, Resolve(moved) PROVE IInv'
  BY <1>4, ResolveStep
<1>5. CASE RollUp \/ Die
  BY <1>5, JobStep DEF RollUp, Die
<1>6. CASE UNCHANGED vars
  BY <1>6, JobStep DEF vars
<1> QED
  BY <1>1, <1>2, <1>3, <1>4, <1>5, <1>6 DEF Next

LEMMA Invariance == Spec => []IInv
BY Initially, Inductive, PTL DEF Spec

-----------------------------------------------------------------------------
\* open_at_instant: replaying the events up to the end of a past day tells
\* which of the findings known by then were open when it ended, and replaying
\* them all which are open now.
THEOREM ReplayCorrect == Spec => []ReplayIsHistory
<1>1. ASSUME IInv PROVE ReplayIsHistory
  <2> SUFFICES ASSUME NEW f \in DOMAIN rows
               PROVE  /\ (rows[f].status = "open") = OpenAt(f, now)
                      /\ \A d \in DOMAIN was :
                           (\E e \in trail[f] : e.type = "discovered" /\ e.at <= EndOfDay(d))
                             => (OpenAt(f, EndOfDay(d)) <=> f \in was[d])
    BY DEF ReplayIsHistory
  <2>1. \A t : OpenAt(f, t) <=> OpenBy(rows[f], trail[f], t)
    BY DEF OpenAt, OpenBy, Latest, LatestOf
  <2>2. /\ now \in Nat /\ rows[f] \in Row /\ rows[f].created <= now
        /\ trail[f] \in SUBSET Event /\ Told(rows[f], trail[f], now)
        /\ Remembered(f, rows[f], trail[f], was)
    BY <1>1 DEF IInv, TablesOK, HistoryOK
  <2>3. rows[f].status = "open" <=> OpenAt(f, now)
    BY <2>1, <2>2, ReplayTellsStatus
  <2>4. (rows[f].status = "open") = OpenAt(f, now)
    BY <2>3, Zenon DEF OpenAt
  <2> QED
    BY <2>1, <2>2, <2>4 DEF Remembered
<1> QED
  BY <1>1, Invariance, PTL

\* The replay to the end of a day that has ended finds the findings of a team
\* that were open then.
LEMMA ReplayFindsOpen ==
  ASSUME IInv, NEW d \in DOMAIN was, d \in Nat, NEW team
  PROVE  ThenOpen(team, d) =
           {f \in {g \in DOMAIN rows : rows[g].team = team} : OpenAt(f, EndOfDay(d))}
<1> SUFFICES ASSUME NEW f \in DOMAIN rows
             PROVE  OpenAt(f, EndOfDay(d)) <=>
                      IF Known(f, d) THEN f \in was[d] ELSE rows[f].created <= EndOfDay(d)
  BY DEF ThenOpen
<1>1. OpenAt(f, EndOfDay(d)) <=> OpenBy(rows[f], trail[f], EndOfDay(d))
  BY DEF OpenAt, OpenBy, Latest, LatestOf
<1>2. /\ trail[f] \in SUBSET Event /\ EndOfDay(d) \in Int
      /\ Founded(trail[f]) /\ Remembered(f, rows[f], trail[f], was)
  BY DEF IInv, TablesOK, HistoryOK
<1>3. CASE Known(f, d)
  BY <1>1, <1>2, <1>3 DEF Known, Remembered
<1>4. CASE ~Known(f, d)
  <2>1. PICK e \in trail[f] : e.type = "discovered" /\ \A x \in trail[f] : e.at <= x.at
    BY <1>2 DEF Founded
  <2>2. \A x \in trail[f] : x.at \in Nat
    BY <1>2 DEF Event
  <2>3. \A x \in trail[f] : ~(x.at <= EndOfDay(d))
    BY <1>2, <1>4, <2>1, <2>2 DEF Known
  <2>4. LatestOf(trail[f], EndOfDay(d)) = {}
    BY <2>3 DEF LatestOf
  <2> QED
    BY <1>1, <1>4, <2>4 DEF OpenBy
<1> QED
  BY <1>3, <1>4

\* main(): the run that rolls up leaves the trend telling the history. Every
\* day it rolls up counts, under the team that owns them now, the findings that
\* were open when the day ended, whatever became of them since.
THEOREM TrendTellsHistory == Spec => TrendIsHistory
<1>1. ASSUME IInv, RollUp,
             NEW d \in (IF job.moved # {} THEN Backfill ELSE {Yesterday}),
             NEW team \in Teams, ThenOpen(team, d) # {}
      PROVE  /\ <<d, team>> \in DOMAIN metrics'
             /\ metrics'[<<d, team>>].open = Cardinality(ThenOpen(team, d))
  <2> DEFINE dates == DatesAfter(job.moved)
             keys == {k \in dates \X Teams : Compute(k[1], k[2]) # Nothing}
  <2>1. now \in Nat /\ Yesterday \in Nat /\ DOMAIN rows \subseteq Findings
    BY <1>1 DEF IInv, TablesOK, DaysOK, RollUp
  <2>2. d \in dates /\ d \in Nat /\ d <= Yesterday
    BY <1>1, <2>1 DEF DatesAfter, Backfill, Days
  <2>3. d \in DOMAIN was
    <3>1. d < DayOf(now)
      BY <2>1, <2>2, DayFloor DEF Yesterday
    <3>2. EndOfDay(d) < now
      BY <2>1, <2>2, <3>1, EndedDay
    <3> QED
      BY <1>1, <2>2, <3>2 DEF IInv, DaysOK
  <2>4. Compute(d, team).open = Cardinality(ThenOpen(team, d))
    BY <1>1, <2>2, <2>3, ReplayFindsOpen DEF Compute
  <2>5. Cardinality(ThenOpen(team, d)) # 0
    <3>1. IsFiniteSet(ThenOpen(team, d))
      BY <2>1, FS_Subset, RollupAssumption DEF ThenOpen
    <3> QED
      BY <1>1, <3>1, FS_EmptySet
  <2>6. <<d, team>> \in keys
    BY <2>2, <2>4, <2>5 DEF Nothing
  <2>7. metrics' = [k \in DOMAIN metrics \cup keys |->
                      IF k \in keys THEN Compute(k[1], k[2]) ELSE metrics[k]]
    BY <1>1 DEF RollUp, Upserted
  <2> HIDE DEF keys
  <2> QED
    BY <2>4, <2>6, <2>7
<1> DEFINE Tells ==
      RollUp =>
        \A d \in IF job.moved # {} THEN Backfill ELSE {Yesterday}, team \in Teams :
          ThenOpen(team, d) # {} =>
            /\ <<d, team>> \in DOMAIN metrics'
            /\ metrics'[<<d, team>>].open = Cardinality(ThenOpen(team, d))
<1>2. IInv /\ [Next]_vars => [Tells]_vars
  BY <1>1
<1> QED
  BY <1>2, Invariance, PTL DEF Spec, TrendIsHistory
=============================================================================
