------------------------ MODULE ConcurrentIngestProofs ------------------------
(***************************************************************************)
(* The theorems of ConcurrentIngest, for any findings, polls and instances *)
(* of the normalizer, any thresholds and any number of deliveries.         *)
(***************************************************************************)
EXTENDS ConcurrentIngest, FiniteSetTheorems, TLAPS

Tables == UNION {[S -> Row] : S \in SUBSET Findings}

Txn == [stage: Stages, poll: Polls \cup {NoPoll}, limit: Thresholds \cup {0},
        loaded: Tables, mine: Tables, todo: SUBSET Findings, began: SUBSET Polls]

\* The stages of a transaction that has inserted its processed_payloads row.
Claiming == {"upsert", "age", "close"}

-----------------------------------------------------------------------------
\* What is true of a transaction x, which the table rs, the recorded polls done
\* and the findings listed by its poll say.  The poll of one that has claimed
\* it is not recorded, and what it is to write is there to be written.
Going(x, rs, done, listed) ==
  /\ x \in Txn
  /\ x.stage = "idle" => x = Idle
  /\ x.stage # "idle" => x.poll \in Polls /\ x.limit \in Thresholds
  /\ x.stage = "claim" => DOMAIN x.mine = {} /\ x.todo = {} /\ x.began = {}
  /\ x.stage \in Claiming => /\ x.poll \notin done /\ x.began \subseteq done
                             /\ DOMAIN x.loaded \subseteq DOMAIN rs
  /\ x.stage = "upsert" => DOMAIN x.mine \subseteq listed /\ x.todo \subseteq listed
  /\ x.stage = "age" => x.todo \subseteq DOMAIN rs \ listed
  /\ x.stage = "close" => x.todo \subseteq DOMAIN rs \cup DOMAIN x.mine

\* A row has no more misses than n, and is only closed if a threshold is not
\* above n.
Within(row, n) ==
  /\ row.misses <= n
  /\ row.status = "auto_closed" => \E t \in Thresholds : t <= n

\* The polls of a set that do not list f.
Lacking(rep, polls, f) == Cardinality({i \in polls : f \notin rep[i]})

\* The versions of rows a transaction has written count its own poll.
Counting(x, rep, done) ==
  x.stage \in Claiming =>
    /\ \A f \in DOMAIN x.mine : Within(x.mine[f], Lacking(rep, done \cup {x.poll}, f))
    /\ x.stage = "close" =>
         \A f \in x.todo : x.limit <= Lacking(rep, done \cup {x.poll}, f)

-----------------------------------------------------------------------------
\* What the absence UPDATE and the auto-close of one run leave of a row.
Aged(rs, listed, f) ==
  IF f \in listed THEN NewRow
  ELSE IF rs[f].status = "open" THEN [rs[f] EXCEPT !.misses = @ + 1] ELSE rs[f]
Closed(row, t) ==
  IF row.status = "open" /\ row.misses >= t
  THEN [row EXCEPT !.status = "auto_closed"] ELSE row

Sees(x, rs, f) == IF f \in DOMAIN x.mine THEN x.mine[f] ELSE rs[f]

\* How far a transaction that has been alone since its claim has come.
Serial(x, rs, listed) ==
  /\ DOMAIN x.loaded = DOMAIN rs \cap listed
  /\ \A f \in DOMAIN x.loaded : x.loaded[f] = rs[f]
  /\ x.stage = "upsert" => /\ DOMAIN x.mine = listed \ x.todo
                           /\ \A f \in DOMAIN x.mine : x.mine[f] = NewRow
  /\ x.stage \in {"age", "close"} =>
       listed \subseteq DOMAIN x.mine /\ DOMAIN x.mine \subseteq DOMAIN rs \cup listed
  /\ x.stage = "age" =>
       /\ \A f \in x.todo : f \notin DOMAIN x.mine /\ rs[f].status = "open"
       /\ \A f \in (DOMAIN rs \cup listed) \ x.todo : Sees(x, rs, f) = Aged(rs, listed, f)
  /\ x.stage = "close" =>
       /\ \A f \in x.todo : /\ Sees(x, rs, f) = Aged(rs, listed, f)
                            /\ Sees(x, rs, f).status = "open"
                            /\ Sees(x, rs, f).misses >= x.limit
       /\ \A f \in (DOMAIN rs \cup listed) \ x.todo :
            Sees(x, rs, f) = Closed(Aged(rs, listed, f), x.limit)

-----------------------------------------------------------------------------
\* The inductive invariant.
TablesOK ==
  /\ report \in [Polls -> SUBSET Findings]
  /\ rows \in Tables
  /\ processed \subseteq Polls
  /\ attempts \in [Polls -> 0..MaxAttempts]
  /\ txn \in [Workers -> Txn]
  /\ \A f \in DOMAIN rows : Within(rows[f], Lacking(report, processed, f))

Sound(x, rs, done, rep) ==
  /\ Going(x, rs, done, rep[x.poll])
  /\ Counting(x, rep, done)
  /\ x.stage \in Claiming /\ x.began = done => Serial(x, rs, rep[x.poll])
TransactionsOK == \A w \in Workers : Sound(txn[w], rows, processed, report)

\* Two transactions have neither a claim nor a lock in common.
Apart(x, y) ==
  /\ x.stage \in Claiming /\ y.stage \in Claiming => x.poll # y.poll
  /\ DOMAIN x.mine \cap DOMAIN y.mine = {}
ExclusionOK == \A v, w \in Workers : v # w => Apart(txn[v], txn[w])

IInv == TablesOK /\ TransactionsOK /\ ExclusionOK

-----------------------------------------------------------------------------
\* A table is a function on some of the findings.
LEMMA TableIs ==
  ASSUME NEW table
  PROVE  table \in Tables <=>
           /\ DOMAIN table \subseteq Findings
           /\ table = [f \in DOMAIN table |-> table[f]]
           /\ \A f \in DOMAIN table : table[f] \in Row
BY DEF Tables

LEMMA NoRowsIs == NoRows \in Tables /\ DOMAIN NoRows = {}
BY TableIs DEF NoRows

\* What is written lies over what is there.
LEMMA OverlayIs ==
  ASSUME NEW table \in Tables, NEW written \in Tables
  PROVE  /\ Overlay(table, written) \in Tables
         /\ DOMAIN Overlay(table, written) = DOMAIN table \cup DOMAIN written
         /\ \A f \in DOMAIN table \cup DOMAIN written :
              Overlay(table, written)[f] =
                IF f \in DOMAIN written THEN written[f] ELSE table[f]
<1>1. /\ DOMAIN table \subseteq Findings /\ \A f \in DOMAIN table : table[f] \in Row
      /\ DOMAIN written \subseteq Findings /\ \A f \in DOMAIN written : written[f] \in Row
  BY TableIs
<1> DEFINE S == DOMAIN table \cup DOMAIN written
<1>2. Overlay(table, written) = [f \in S |-> IF f \in DOMAIN written THEN written[f] ELSE table[f]]
  BY DEF Overlay
<1>3. Overlay(table, written) \in [S -> Row]
  BY <1>1, <1>2
<1>4. S \in SUBSET Findings
  BY <1>1
<1> QED
  BY <1>2, <1>3, <1>4 DEF Tables

\* Counts of recorded polls are naturals, grow with what is recorded, and by
\* one for a poll that does not list the finding.
LEMMA LackingIs ==
  ASSUME NEW rep, NEW f, NEW polls \in SUBSET Polls
  PROVE  /\ Lacking(rep, polls, f) \in Nat
         /\ \A more \in SUBSET Polls : polls \subseteq more =>
              Lacking(rep, polls, f) <= Lacking(rep, more, f)
         /\ \A p \in Polls \ polls : f \notin rep[p] =>
              Lacking(rep, polls \cup {p}, f) = Lacking(rep, polls, f) + 1
<1> DEFINE L(P) == {i \in P : f \notin rep[i]}
<1>1. \A P \in SUBSET Polls : IsFiniteSet(L(P))
  <2> TAKE P \in SUBSET Polls
  <2>1. IsFiniteSet(Polls) /\ L(P) \in SUBSET Polls
    BY ConcurrentAssumption
  <2> HIDE DEF L
  <2> QED
    BY <2>1, FS_Subset
<1>2. Cardinality(L(polls)) \in Nat
  BY <1>1, FS_CardinalityType
<1>3. ASSUME NEW more \in SUBSET Polls, polls \subseteq more
      PROVE  Cardinality(L(polls)) <= Cardinality(L(more))
  <2>1. L(polls) \in SUBSET L(more) /\ IsFiniteSet(L(more))
    BY <1>1, <1>3
  <2> HIDE DEF L
  <2> QED
    BY <2>1, FS_Subset
<1>4. ASSUME NEW p \in Polls \ polls, f \notin rep[p]
      PROVE  Cardinality(L(polls \cup {p})) = Cardinality(L(polls)) + 1
  <2>1. L(polls \cup {p}) = L(polls) \cup {p} /\ p \notin L(polls)
    BY <1>4
  <2> HIDE DEF L
  <2> QED
    BY <1>1, <2>1, FS_AddElement
<1> QED
  BY <1>2, <1>3, <1>4 DEF Lacking

LEMMA WithinGrows ==
  ASSUME NEW row \in Row, NEW m \in Nat, NEW n \in Nat, m <= n, Within(row, m)
  PROVE  Within(row, n)
<1>1. row.misses \in Nat /\ Thresholds \subseteq Nat
  BY ConcurrentAssumption DEF Row
<1> QED
  BY <1>1 DEF Within

LEMMA LimitIs == \A t \in Thresholds \cup {0} : t \in Nat
BY ConcurrentAssumption

LEMMA NewRowIs == NewRow \in Row /\ \A n \in Nat : Within(NewRow, n)
BY DEF NewRow, Row, Within

\* The fields of an idle transaction.
LEMMA IdleIs ==
  /\ Idle \in Txn /\ Idle.stage = "idle" /\ Idle.poll = NoPoll
  /\ DOMAIN Idle.mine = {} /\ Idle.todo = {} /\ Idle.began = {}
BY NoRowsIs DEF Idle, Txn, Stages

\* It is in order, whatever the tables are, and apart from all.
LEMMA IdleIsSound ==
  /\ \A rs, done, rep : Sound(Idle, rs, done, rep)
  /\ \A x : Apart(Idle, x)
BY IdleIs DEF Sound, Going, Counting, Claiming, Apart

-----------------------------------------------------------------------------
\* A step of one transaction that leaves the tables alone keeps the invariant
\* if the transaction stays in order and apart from the others.
LEMMA OneMoves ==
  ASSUME IInv, NEW w \in Workers, NEW y, txn' = [txn EXCEPT ![w] = y],
         UNCHANGED <<report, rows, processed>>,
         attempts' \in [Polls -> 0..MaxAttempts],
         Sound(y, rows, processed, report),
         \A v \in Workers \ {w} : Apart(y, txn[v])
  PROVE  IInv'
<1>1. txn \in [Workers -> Txn] /\ y \in Txn
  BY DEF IInv, TablesOK, Sound, Going
<1>2. /\ txn' \in [Workers -> Txn] /\ txn'[w] = y
      /\ \A v \in Workers \ {w} : txn'[v] = txn[v]
  BY <1>1
<1>3. TablesOK'
  BY <1>2 DEF IInv, TablesOK
<1>4. TransactionsOK'
  <2>1. \A v \in Workers : Sound(txn'[v], rows, processed, report)
    BY <1>2 DEF IInv, TransactionsOK
  <2> QED
    BY <2>1 DEF TransactionsOK
<1>5. ExclusionOK'
  <2>1. \A v \in Workers \ {w} : Apart(y, txn[v]) /\ Apart(txn[v], y)
    BY DEF Apart
  <2>2. \A u, v \in Workers : u # v => Apart(txn'[u], txn'[v])
    BY <1>2, <2>1 DEF IInv, ExclusionOK
  <2> QED
    BY <2>2 DEF ExclusionOK
<1> QED
  BY <1>3, <1>4, <1>5 DEF IInv

-----------------------------------------------------------------------------
\* A transaction that has written row f.
Written(x, f, row) ==
  [x EXCEPT !.mine = Overlay(@, [g \in {f} |-> row]), !.todo = @ \ {f}]

LEMMA WrittenIs ==
  ASSUME NEW x \in Txn, NEW f \in x.todo, NEW row \in Row
  PROVE  LET y == Written(x, f, row)
         IN  /\ y \in Txn
             /\ y.stage = x.stage /\ y.poll = x.poll /\ y.limit = x.limit
             /\ y.loaded = x.loaded /\ y.began = x.began /\ y.todo = x.todo \ {f}
             /\ DOMAIN y.mine = DOMAIN x.mine \cup {f}
             /\ \A g \in DOMAIN x.mine \cup {f} :
                  y.mine[g] = IF g = f THEN row ELSE x.mine[g]
<1> DEFINE one == [g \in {f} |-> row]
           both == Overlay(x.mine, one)
<1>1. x.mine \in Tables /\ f \in Findings
  BY DEF Txn
<1>2. one \in Tables /\ DOMAIN one = {f} /\ one[f] = row
  <2>1. {f} \in SUBSET Findings /\ one \in [{f} -> Row]
    BY <1>1
  <2> QED
    BY <2>1 DEF Tables
<1> HIDE DEF one
<1>3. /\ both \in Tables /\ DOMAIN both = DOMAIN x.mine \cup {f}
      /\ \A g \in DOMAIN x.mine \cup {f} : both[g] = IF g = f THEN row ELSE x.mine[g]
  BY <1>1, <1>2, OverlayIs
<1>4. Written(x, f, row) = [x EXCEPT !.mine = both, !.todo = @ \ {f}]
  BY DEF Written, one
<1> HIDE DEF both
<1>5. LET y == [x EXCEPT !.mine = both, !.todo = @ \ {f}]
      IN  /\ y \in Txn /\ y.mine = both
          /\ y.stage = x.stage /\ y.poll = x.poll /\ y.limit = x.limit
          /\ y.loaded = x.loaded /\ y.began = x.began /\ y.todo = x.todo \ {f}
  BY <1>3 DEF Txn
<1> QED
  BY <1>3, <1>4, <1>5

\* What the row that is written is to be, if nobody else has committed since
\* the claim.
Expected(x, rs, listed, f) ==
  CASE x.stage = "upsert" -> NewRow
    [] x.stage = "age"    -> Aged(rs, listed, f)
    [] x.stage = "close"  -> Closed(Aged(rs, listed, f), x.limit)

\* A transaction that writes a row no other has locked, and counts no more
\* misses than it may, stays in order.
LEMMA WriteStep ==
  ASSUME IInv, NEW w \in Workers, NEW f \in txn[w].todo, NEW row \in Row,
         Write(w, f, row), ~Locked(w, f), txn[w].stage \in Claiming,
         UNCHANGED <<report, rows, processed, attempts>>,
         Within(row, Lacking(report, processed \cup {txn[w].poll}, f)),
         txn[w].began = processed =>
           row = Expected(txn[w], rows, report[txn[w].poll], f)
  PROVE  IInv'
<1> DEFINE x == txn[w]
           y == Written(x, f, row)
           listed == report[x.poll]
<1>1. x \in Txn /\ Sound(x, rows, processed, report)
  BY DEF IInv, TablesOK, TransactionsOK
<1>2. txn' = [txn EXCEPT ![w] = y]
  BY DEF Write, Written
<1>3. /\ y \in Txn
      /\ y.stage = x.stage /\ y.poll = x.poll /\ y.limit = x.limit
      /\ y.loaded = x.loaded /\ y.began = x.began /\ y.todo = x.todo \ {f}
      /\ DOMAIN y.mine = DOMAIN x.mine \cup {f}
      /\ \A g \in DOMAIN x.mine \cup {f} :
           y.mine[g] = IF g = f THEN row ELSE x.mine[g]
  BY <1>1, WrittenIs
<1>4. x.stage \in Claiming /\ x.stage \in {"upsert", "age", "close"}
  BY DEF Claiming
<1>5. \A v \in Workers \ {w} : Apart(y, txn[v])
  <2>1. \A v \in Workers \ {w} : f \notin DOMAIN txn[v].mine
    BY DEF Locked
  <2>2. \A v \in Workers \ {w} : Apart(x, txn[v])
    BY DEF IInv, ExclusionOK
  <2> HIDE DEF y
  <2> QED
    BY <1>3, <2>1, <2>2 DEF Apart
<1>6. Going(x, rows, processed, listed) /\ Counting(x, report, processed)
      /\ (x.began = processed => Serial(x, rows, listed))
  BY <1>1, <1>4 DEF Sound
<1> HIDE DEF y, x, listed
<1>7. Going(y, rows, processed, listed)
  <2>1. f \in x.todo
    BY DEF x
  <2> QED
    BY <1>3, <1>4, <1>6, <2>1 DEF Going
<1>8. Counting(y, report, processed)
  <2>1. f \in x.todo
    BY DEF x
  <2>2. Within(row, Lacking(report, processed \cup {x.poll}, f))
    BY DEF x
  <2>3. \A g \in DOMAIN y.mine : Within(y.mine[g], Lacking(report, processed \cup {x.poll}, g))
    BY <1>3, <1>4, <1>6, <2>2 DEF Counting
  <2> QED
    BY <1>3, <1>4, <1>6, <2>3 DEF Counting
<1>9. ASSUME x.began = processed
      PROVE  Serial(y, rows, listed)
  <2>1. Serial(x, rows, listed) /\ row = Expected(x, rows, listed, f) /\ f \in x.todo
    BY <1>6, <1>9 DEF x, listed
  <2>2. CASE x.stage = "upsert"
    <3>1. row = NewRow /\ f \in listed
      BY <1>6, <2>1, <2>2 DEF Expected, Going
    <3> QED
      BY <1>3, <2>1, <2>2, <3>1 DEF Serial
  <2>3. CASE x.stage = "age"
    <3>1. row = Aged(rows, listed, f) /\ f \in DOMAIN rows \ listed
      BY <1>6, <2>1, <2>3 DEF Expected, Going
    <3>2. \A g : Sees(y, rows, g) = IF g = f THEN row ELSE Sees(x, rows, g)
      BY <1>3 DEF Sees
    <3> QED
      BY <1>3, <2>1, <2>3, <3>1, <3>2 DEF Serial
  <2>4. CASE x.stage = "close"
    <3>1. row = Closed(Aged(rows, listed, f), x.limit) /\ f \in DOMAIN rows \cup DOMAIN x.mine
      BY <1>6, <2>1, <2>4 DEF Expected, Going
    <3>2. \A g : Sees(y, rows, g) = IF g = f THEN row ELSE Sees(x, rows, g)
      BY <1>3 DEF Sees
    <3> QED
      BY <1>3, <2>1, <2>4, <3>1, <3>2 DEF Serial
  <2> QED
    BY <1>4, <2>2, <2>3, <2>4
<1>10. Sound(y, rows, processed, report)
  BY <1>3, <1>4, <1>7, <1>8, <1>9 DEF Sound, listed
<1>11. attempts' \in [Polls -> 0..MaxAttempts]
  BY DEF IInv, TablesOK
<1> QED
  BY <1>2, <1>5, <1>10, <1>11, OneMoves

-----------------------------------------------------------------------------
\* What the steps know of a transaction and of the row it reads.
LEMMA Facts ==
  ASSUME IInv, NEW w \in Workers
  PROVE  /\ txn[w] \in Txn /\ txn[w].todo \subseteq Findings
         /\ rows \in Tables /\ txn[w].mine \in Tables /\ txn[w].loaded \in Tables
         /\ processed \in SUBSET Polls
         /\ Going(txn[w], rows, processed, Reported(w))
         /\ Counting(txn[w], report, processed)
         /\ txn[w].stage \in Claiming /\ txn[w].began = processed
              => Serial(txn[w], rows, Reported(w))
         /\ txn[w].stage # "idle" => Reported(w) \in SUBSET Findings
<1>1. txn[w] \in Txn /\ Sound(txn[w], rows, processed, report)
  BY DEF IInv, TablesOK, TransactionsOK
<1>2. txn[w].stage # "idle" => txn[w].poll \in Polls
  BY <1>1 DEF Sound, Going
<1> QED
  BY <1>1, <1>2 DEF IInv, TablesOK, Sound, Txn, Reported

LEMMA RowFacts ==
  ASSUME IInv, NEW w \in Workers, txn[w].stage \in Claiming, NEW f
  PROVE  LET after == Lacking(report, processed \cup {txn[w].poll}, f)
         IN  /\ after \in Nat
             /\ f \in DOMAIN rows => rows[f] \in Row /\ Within(rows[f], after)
             /\ f \in DOMAIN rows \ Reported(w) => rows[f].misses + 1 <= after
             /\ f \in DOMAIN txn[w].mine => txn[w].mine[f] \in Row /\ Within(txn[w].mine[f], after)
<1> DEFINE p == txn[w].poll
           now == Lacking(report, processed, f)
           after == Lacking(report, processed \cup {p}, f)
<1>1. p \in Polls \ processed /\ processed \in SUBSET Polls
  BY Facts DEF Going, Claiming
<1>2. now \in Nat /\ after \in Nat /\ now <= after /\ (f \notin report[p] => after = now + 1)
  BY <1>1, LackingIs
<1>3. f \in DOMAIN rows => rows[f] \in Row /\ Within(rows[f], now)
  BY TableIs DEF IInv, TablesOK
<1>4. f \in DOMAIN txn[w].mine => txn[w].mine[f] \in Row /\ Within(txn[w].mine[f], after)
  BY Facts, TableIs DEF Counting
<1> HIDE DEF now, after
<1>5. f \in DOMAIN rows => Within(rows[f], after)
  BY <1>2, <1>3, WithinGrows
<1>6. f \in DOMAIN rows \ Reported(w) => rows[f].misses + 1 <= after
  BY <1>2, <1>3 DEF Within, Row, Reported
<1> QED
  BY <1>2, <1>3, <1>4, <1>5, <1>6 DEF after

\* What a transaction sees of a row: its own version, or the committed one.
LEMMA VisibleIs ==
  ASSUME IInv, NEW w \in Workers
  PROVE  /\ Visible(w) \in Tables /\ DOMAIN Visible(w) = DOMAIN rows \cup DOMAIN txn[w].mine
         /\ \A f \in DOMAIN Visible(w) : Visible(w)[f] = Sees(txn[w], rows, f)
<1>1. rows \in Tables /\ txn[w].mine \in Tables
  BY Facts
<1>2. /\ Overlay(rows, txn[w].mine) \in Tables
      /\ DOMAIN Overlay(rows, txn[w].mine) = DOMAIN rows \cup DOMAIN txn[w].mine
      /\ \A f \in DOMAIN rows \cup DOMAIN txn[w].mine :
           Overlay(rows, txn[w].mine)[f] =
             IF f \in DOMAIN txn[w].mine THEN txn[w].mine[f] ELSE rows[f]
  BY <1>1, OverlayIs
<1> QED
  BY <1>2 DEF Visible, Sees

-----------------------------------------------------------------------------
\* One lemma per action.
LEMMA DeliverStep ==
  ASSUME IInv, NEW w \in Workers, NEW i \in Polls, Deliver(w, i)
  PROVE  IInv'
<1>1. PICK t \in Thresholds :
        txn' = [txn EXCEPT ![w] = [Idle EXCEPT !.stage = "claim", !.poll = i, !.limit = t]]
  BY DEF Deliver
<1> DEFINE y == [Idle EXCEPT !.stage = "claim", !.poll = i, !.limit = t]
<1>2. /\ y \in Txn /\ y.stage = "claim" /\ y.poll = i /\ y.limit = t
      /\ DOMAIN y.mine = {} /\ y.todo = {} /\ y.began = {}
  BY IdleIs DEF Txn, Stages
<1>3. txn' = [txn EXCEPT ![w] = y]
  BY <1>1
<1> HIDE DEF y
<1>4. Sound(y, rows, processed, report) /\ \A v \in Workers : Apart(y, txn[v])
  BY <1>2 DEF Sound, Going, Counting, Claiming, Apart
<1>5. attempts' \in [Polls -> 0..MaxAttempts]
  <2>1. attempts \in [Polls -> 0..MaxAttempts] /\ MaxAttempts \in Nat
    BY ConcurrentAssumption DEF IInv, TablesOK
  <2> QED
    BY <2>1 DEF Deliver
<1> QED
  BY <1>3, <1>4, <1>5, OneMoves DEF Deliver

LEMMA RollbackStep ==
  ASSUME IInv, NEW w \in Workers, Rollback(w)
  PROVE  IInv'
<1>1. attempts' \in [Polls -> 0..MaxAttempts]
  BY DEF IInv, TablesOK, Rollback
<1> QED
  BY <1>1, IdleIsSound, OneMoves DEF Rollback

LEMMA ClaimStep ==
  ASSUME IInv, NEW w \in Workers, Claim(w)
  PROVE  IInv'
<1> DEFINE x == txn[w]
           read == [f \in DOMAIN rows \cap Reported(w) |-> rows[f]]
           y == [x EXCEPT !.stage = "upsert", !.todo = Reported(w),
                          !.loaded = read, !.began = processed]
<1>1. attempts' \in [Polls -> 0..MaxAttempts]
  BY DEF IInv, TablesOK, Claim
<1>2. CASE x.poll \in processed
  <2>1. txn' = [txn EXCEPT ![w] = Idle]
    BY <1>2 DEF Claim
  <2> QED
    BY <1>1, <2>1, IdleIsSound, OneMoves DEF Claim
<1>3. CASE x.poll \notin processed
  <2>1. txn' = [txn EXCEPT ![w] = y]
    BY <1>3 DEF Claim
  <2>2. /\ x \in Txn /\ x.stage = "claim" /\ x.poll \in Polls /\ x.limit \in Thresholds
        /\ DOMAIN x.mine = {} /\ Reported(w) \in SUBSET Findings
        /\ processed \in SUBSET Polls
    BY Facts DEF Going, Claim, At
  <2>3. read \in Tables
    <3>1. DOMAIN rows \subseteq Findings /\ \A f \in DOMAIN rows : rows[f] \in Row
      BY Facts, TableIs
    <3>2. DOMAIN rows \cap Reported(w) \in SUBSET Findings
          /\ read \in [DOMAIN rows \cap Reported(w) -> Row]
      BY <3>1
    <3> QED
      BY <3>2 DEF Tables
  <2>4. DOMAIN read = DOMAIN rows \cap Reported(w) /\ \A f \in DOMAIN read : read[f] = rows[f]
    OBVIOUS
  <2> HIDE DEF read
  <2>5. /\ y \in Txn /\ y.stage = "upsert" /\ y.poll = x.poll /\ y.limit = x.limit
        /\ y.mine = x.mine /\ y.todo = Reported(w) /\ y.loaded = read /\ y.began = processed
    BY <2>2, <2>3 DEF Txn, Stages
  <2> HIDE DEF y
  <2>6. Going(y, rows, processed, Reported(w))
    BY <1>3, <2>2, <2>4, <2>5 DEF Going
  <2>7. Counting(y, report, processed) /\ Serial(y, rows, Reported(w))
    BY <2>2, <2>4, <2>5 DEF Counting, Serial
  <2>8. Sound(y, rows, processed, report)
    BY <2>5, <2>6, <2>7 DEF Sound, Reported
  <2>9. ASSUME NEW v \in Workers \ {w}
        PROVE  Apart(y, txn[v])
    <3>1. txn[v].stage \in Claiming => txn[v].poll # x.poll
      BY DEF Claim, Claimed, Claiming
    <3> QED
      BY <2>2, <2>5, <3>1 DEF Apart
  <2> QED
    BY <1>1, <2>1, <2>8, <2>9, OneMoves DEF Claim
<1> QED
  BY <1>2, <1>3

LEMMA UpdateStep ==
  ASSUME IInv, NEW w \in Workers, NEW f \in Findings, UpdateRow(w, f)
  PROVE  IInv'
<1> DEFINE x == txn[w]
           row == Dirty(rows[f], x.loaded[f])
           after == Lacking(report, processed \cup {x.poll}, f)
<1>1. /\ x.stage = "upsert" /\ x.stage \in Claiming /\ f \in x.todo
      /\ f \in DOMAIN x.loaded /\ ~Locked(w, f) /\ Write(w, f, row)
      /\ UNCHANGED <<report, rows, processed, attempts>>
  BY DEF UpdateRow, At, Claiming
<1>2. f \in DOMAIN rows /\ x.loaded[f] \in Row
  BY <1>1, Facts, TableIs DEF Going
<1>3. after \in Nat /\ rows[f] \in Row /\ Within(rows[f], after)
  BY <1>1, <1>2, RowFacts
<1> HIDE DEF after
<1>4. row \in Row /\ Within(row, after)
  BY <1>2, <1>3 DEF Dirty, Row, Within
<1>5. x.began = processed => row = NewRow
  <2>1. x.began = processed => x.loaded[f] = rows[f]
    BY <1>1, Facts DEF Serial
  <2> QED
    BY <1>2, <2>1 DEF Dirty, NewRow, Row
<1>6. x.began = processed => row = Expected(x, rows, report[x.poll], f)
  BY <1>1, <1>5 DEF Expected
<1> HIDE DEF row
<1> QED
  BY <1>1, <1>4, <1>6, WriteStep DEF after

LEMMA InsertStep ==
  ASSUME IInv, NEW w \in Workers, NEW f \in Findings, InsertRow(w, f)
  PROVE  IInv'
<1>1. /\ txn[w].stage = "upsert" /\ txn[w].stage \in Claiming /\ f \in txn[w].todo
      /\ ~Locked(w, f) /\ Write(w, f, NewRow)
      /\ UNCHANGED <<report, rows, processed, attempts>>
  BY DEF InsertRow, At, Claiming
<1>2. NewRow \in Row /\ Within(NewRow, Lacking(report, processed \cup {txn[w].poll}, f))
  BY <1>1, RowFacts, NewRowIs
<1>3. NewRow = Expected(txn[w], rows, report[txn[w].poll], f)
  BY <1>1 DEF Expected
<1> QED
  BY <1>1, <1>2, <1>3, WriteStep

LEMMA AbsentStep ==
  ASSUME IInv, NEW w \in Workers, Absent(w)
  PROVE  IInv'
<1> DEFINE x == txn[w]
           old == {f \in DOMAIN Visible(w) \ Reported(w) : Visible(w)[f].status = "open"}
           y == [x EXCEPT !.stage = "age", !.todo = old]
<1>1. /\ x.stage = "upsert" /\ x.todo = {} /\ txn' = [txn EXCEPT ![w] = y]
      /\ UNCHANGED <<report, rows, processed, attempts>>
  BY DEF Absent, At
<1>2. /\ x \in Txn /\ x.stage \in Claiming
      /\ Going(x, rows, processed, Reported(w)) /\ Counting(x, report, processed)
      /\ x.began = processed => Serial(x, rows, Reported(w))
  BY <1>1, Facts DEF Claiming
<1>3. DOMAIN x.mine \subseteq Reported(w)
  BY <1>1, <1>2 DEF Going
<1>4. old = {f \in DOMAIN rows \ Reported(w) : rows[f].status = "open"}
  BY <1>3, VisibleIs DEF Sees
<1>5. old \in SUBSET Findings
  BY <1>4, Facts, TableIs
<1> HIDE DEF old
<1>6. /\ y \in Txn /\ y.stage = "age" /\ y.poll = x.poll /\ y.limit = x.limit
      /\ y.mine = x.mine /\ y.todo = old /\ y.loaded = x.loaded /\ y.began = x.began
  BY <1>2, <1>5 DEF Txn, Stages
<1> HIDE DEF y
<1>7. Going(y, rows, processed, Reported(w))
  BY <1>1, <1>2, <1>4, <1>6 DEF Going, Claiming
<1>8. Counting(y, report, processed)
  BY <1>1, <1>2, <1>6 DEF Counting, Claiming
<1>9. ASSUME x.began = processed
      PROVE  Serial(y, rows, Reported(w))
  <2>1. /\ Serial(x, rows, Reported(w)) /\ DOMAIN x.mine = Reported(w)
        /\ \A f \in DOMAIN x.mine : x.mine[f] = NewRow
    BY <1>1, <1>2, <1>9 DEF Serial
  <2>2. \A f : Sees(y, rows, f) = IF f \in Reported(w) THEN NewRow ELSE rows[f]
    BY <1>6, <2>1 DEF Sees
  <2>3. \A f \in (DOMAIN rows \cup Reported(w)) \ old :
          Sees(y, rows, f) = Aged(rows, Reported(w), f)
    BY <1>4, <2>2 DEF Aged
  <2> QED
    BY <1>4, <1>6, <2>1, <2>3 DEF Serial
<1>10. Sound(y, rows, processed, report)
  BY <1>6, <1>7, <1>8, <1>9 DEF Sound, Reported
<1>11. \A v \in Workers \ {w} : Apart(y, txn[v])
  BY <1>1, <1>2, <1>6 DEF IInv, ExclusionOK, Apart, Claiming
<1>12. attempts' \in [Polls -> 0..MaxAttempts]
  BY <1>1 DEF IInv, TablesOK
<1> QED
  BY <1>1, <1>10, <1>11, <1>12, OneMoves

LEMMA AgeStep ==
  ASSUME IInv, NEW w \in Workers, NEW f \in Findings, AgeRow(w, f)
  PROVE  IInv'
<1> DEFINE x == txn[w]
           row == [rows[f] EXCEPT !.misses = @ + 1]
           after == Lacking(report, processed \cup {x.poll}, f)
<1>1. /\ x.stage = "age" /\ x.stage \in Claiming /\ f \in x.todo /\ ~Locked(w, f)
      /\ UNCHANGED <<report, rows, processed, attempts>>
  BY DEF AgeRow, At, Claiming
<1>2. /\ x \in Txn /\ Going(x, rows, processed, Reported(w))
      /\ Counting(x, report, processed)
      /\ x.began = processed => Serial(x, rows, Reported(w))
  BY <1>1, Facts
<1>3. f \in DOMAIN rows \ Reported(w)
  BY <1>1, <1>2 DEF Going
<1>4. after \in Nat /\ rows[f] \in Row /\ rows[f].misses + 1 <= after
      /\ Within(rows[f], after)
  BY <1>1, <1>3, RowFacts
<1>5. CASE rows[f].status = "open"
  <2>1. Write(w, f, row)
    BY <1>5 DEF AgeRow
  <2> HIDE DEF after
  <2>2. row \in Row /\ Within(row, after)
    BY <1>4, <1>5 DEF Row, Within
  <2>3. row = Expected(x, rows, report[x.poll], f)
    BY <1>1, <1>3, <1>5 DEF Expected, Aged, Reported
  <2> HIDE DEF row
  <2> QED
    BY <1>1, <2>1, <2>2, <2>3, WriteStep DEF after
<1>6. CASE rows[f].status # "open"
  <2> DEFINE y == [x EXCEPT !.todo = @ \ {f}]
  <2>1. txn' = [txn EXCEPT ![w] = y]
    BY <1>6 DEF AgeRow
  <2>2. /\ y \in Txn /\ y.stage = x.stage /\ y.poll = x.poll /\ y.limit = x.limit
        /\ y.mine = x.mine /\ y.todo = x.todo \ {f} /\ y.loaded = x.loaded
        /\ y.began = x.began
    BY <1>2 DEF Txn
  <2> HIDE DEF y
  <2>3. x.began # processed
    BY <1>1, <1>2, <1>6 DEF Serial
  <2>4. Going(y, rows, processed, Reported(w)) /\ Counting(y, report, processed)
    BY <1>1, <1>2, <2>2 DEF Going, Counting
  <2>5. Sound(y, rows, processed, report)
    BY <2>2, <2>3, <2>4 DEF Sound, Reported
  <2>6. \A v \in Workers \ {w} : Apart(y, txn[v])
    BY <2>2 DEF IInv, ExclusionOK, Apart
  <2>7. attempts' \in [Polls -> 0..MaxAttempts]
    BY <1>1 DEF IInv, TablesOK
  <2> QED
    BY <1>1, <2>1, <2>5, <2>6, <2>7, OneMoves
<1> QED
  BY <1>5, <1>6

LEMMA SelectStep ==
  ASSUME IInv, NEW w \in Workers, Select(w)
  PROVE  IInv'
<1> DEFINE x == txn[w]
           late == {f \in DOMAIN Visible(w) : /\ Visible(w)[f].status = "open"
                                              /\ Visible(w)[f].misses >= x.limit}
           y == [x EXCEPT !.stage = "close", !.todo = late]
<1>1. /\ x.stage = "age" /\ x.todo = {} /\ txn' = [txn EXCEPT ![w] = y]
      /\ UNCHANGED <<report, rows, processed, attempts>>
  BY DEF Select, At
<1>2. /\ x \in Txn /\ x.stage \in Claiming
      /\ Going(x, rows, processed, Reported(w)) /\ Counting(x, report, processed)
      /\ x.began = processed => Serial(x, rows, Reported(w))
  BY <1>1, Facts DEF Claiming
<1>3. late \in SUBSET Findings
  BY VisibleIs, TableIs
<1>4. \A f \in late : /\ f \in DOMAIN rows \cup DOMAIN x.mine
                      /\ Sees(x, rows, f).status = "open"
                      /\ Sees(x, rows, f).misses >= x.limit
  BY VisibleIs
<1>5. \A f \in (DOMAIN rows \cup DOMAIN x.mine) \ late :
        ~(Sees(x, rows, f).status = "open" /\ Sees(x, rows, f).misses >= x.limit)
  BY VisibleIs
<1> HIDE DEF late
<1>6. /\ y \in Txn /\ y.stage = "close" /\ y.poll = x.poll /\ y.limit = x.limit
      /\ y.mine = x.mine /\ y.todo = late /\ y.loaded = x.loaded /\ y.began = x.began
  BY <1>2, <1>3 DEF Txn, Stages
<1> HIDE DEF y
<1>7. Going(y, rows, processed, Reported(w))
  BY <1>1, <1>2, <1>4, <1>6 DEF Going, Claiming
<1>8. ASSUME NEW f \in late
      PROVE  x.limit <= Lacking(report, processed \cup {x.poll}, f)
  <2> DEFINE after == Lacking(report, processed \cup {x.poll}, f)
  <2>1. /\ after \in Nat
        /\ f \in DOMAIN rows => rows[f] \in Row /\ Within(rows[f], after)
        /\ f \in DOMAIN x.mine => x.mine[f] \in Row /\ Within(x.mine[f], after)
    BY <1>2, RowFacts
  <2> HIDE DEF after
  <2>2. Sees(x, rows, f) \in Row /\ Sees(x, rows, f).misses <= after
    BY <1>4, <2>1 DEF Sees, Within
  <2>3. x.limit \in Nat
    <3>1. x.limit \in Thresholds \cup {0}
      BY <1>2 DEF Txn
    <3> QED
      BY <3>1, LimitIs
  <2>4. x.limit <= after
    BY <1>4, <2>1, <2>2, <2>3 DEF Row
  <2> QED
    BY <2>4 DEF after
<1>9. Counting(y, report, processed)
  BY <1>1, <1>2, <1>6, <1>8 DEF Counting, Claiming
<1>10. ASSUME x.began = processed
       PROVE  Serial(y, rows, Reported(w))
  <2>1. /\ Serial(x, rows, Reported(w))
        /\ Reported(w) \subseteq DOMAIN x.mine /\ DOMAIN x.mine \subseteq DOMAIN rows \cup Reported(w)
        /\ \A f \in DOMAIN rows \cup Reported(w) :
             Sees(x, rows, f) = Aged(rows, Reported(w), f)
    BY <1>1, <1>2, <1>10 DEF Serial
  <2>2. \A f : Sees(y, rows, f) = Sees(x, rows, f)
    BY <1>6 DEF Sees
  <2>3. \A f \in (DOMAIN rows \cup Reported(w)) \ late :
          Sees(y, rows, f) = Closed(Aged(rows, Reported(w), f), x.limit)
    BY <1>5, <2>1, <2>2 DEF Closed
  <2>4. \A f \in late : /\ Sees(y, rows, f) = Aged(rows, Reported(w), f)
                        /\ Sees(y, rows, f).status = "open"
                        /\ Sees(y, rows, f).misses >= x.limit
    BY <1>4, <2>1, <2>2
  <2> QED
    BY <1>6, <2>1, <2>3, <2>4 DEF Serial
<1>11. Sound(y, rows, processed, report)
  BY <1>6, <1>7, <1>9, <1>10 DEF Sound, Reported
<1>12. \A v \in Workers \ {w} : Apart(y, txn[v])
  BY <1>2, <1>6 DEF IInv, ExclusionOK, Apart, Claiming
<1>13. attempts' \in [Polls -> 0..MaxAttempts]
  BY <1>1 DEF IInv, TablesOK
<1> QED
  BY <1>1, <1>11, <1>12, <1>13, OneMoves

LEMMA CloseStep ==
  ASSUME IInv, NEW w \in Workers, NEW f \in Findings, CloseRow(w, f)
  PROVE  IInv'
<1> DEFINE x == txn[w]
           seen == Visible(w)[f]
           row == [seen EXCEPT !.status = "auto_closed"]
           after == Lacking(report, processed \cup {x.poll}, f)
<1>1. /\ x.stage = "close" /\ x.stage \in Claiming /\ f \in x.todo /\ ~Locked(w, f)
      /\ Write(w, f, row) /\ UNCHANGED <<report, rows, processed, attempts>>
  BY DEF CloseRow, At, Claiming
<1>2. /\ x \in Txn /\ Going(x, rows, processed, Reported(w))
      /\ Counting(x, report, processed)
      /\ x.began = processed => Serial(x, rows, Reported(w))
  BY <1>1, Facts
<1>3. f \in DOMAIN rows \cup DOMAIN x.mine
  BY <1>1, <1>2 DEF Going
<1>4. seen = Sees(x, rows, f)
  BY <1>3, VisibleIs
<1>5. x.limit \in Thresholds /\ x.limit <= after
  BY <1>1, <1>2 DEF Going, Counting
<1>6. /\ after \in Nat
      /\ f \in DOMAIN rows => rows[f] \in Row /\ Within(rows[f], after)
      /\ f \in DOMAIN x.mine => x.mine[f] \in Row /\ Within(x.mine[f], after)
  BY <1>1, RowFacts
<1> HIDE DEF after, seen
<1>7. seen \in Row /\ seen.misses <= after
  BY <1>3, <1>4, <1>6 DEF Sees, Within
<1>8. row \in Row /\ row.misses = seen.misses
  BY <1>7 DEF Row
<1>9. Within(row, after)
  BY <1>5, <1>7, <1>8 DEF Within
<1>10. x.began = processed => row = Expected(x, rows, report[x.poll], f)
  <2>1. x.began = processed =>
          /\ seen = Aged(rows, Reported(w), f)
          /\ seen.status = "open" /\ seen.misses >= x.limit
    BY <1>1, <1>2, <1>4 DEF Serial
  <2> QED
    BY <1>1, <2>1 DEF Expected, Closed, Reported
<1> HIDE DEF row
<1> QED
  BY <1>1, <1>8, <1>9, <1>10, WriteStep DEF after

\* A commit records a poll: what the other transactions have counted may only
\* grow, and none of them is alone any more.
LEMMA CommitStep ==
  ASSUME IInv, NEW w \in Workers, Commit(w)
  PROVE  IInv'
<1> DEFINE x == txn[w]
           more == processed \cup {x.poll}
           seen == Visible(w)
<1>1. /\ x.stage = "close" /\ x.stage \in Claiming /\ x.todo = {}
      /\ rows' = seen /\ processed' = more /\ txn' = [txn EXCEPT ![w] = Idle]
      /\ UNCHANGED <<report, attempts>>
  BY DEF Commit, At, Claiming
<1>2. x \in Txn /\ x.poll \in Polls \ processed /\ Counting(x, report, processed)
  BY <1>1, Facts DEF Going
<1>3. /\ seen \in Tables /\ DOMAIN seen = DOMAIN rows \cup DOMAIN x.mine
      /\ \A f \in DOMAIN seen : seen[f] = Sees(x, rows, f)
  BY VisibleIs
<1>4. processed \in SUBSET Polls /\ more \in SUBSET Polls
  BY <1>2, Facts
<1>5. /\ txn' \in [Workers -> Txn] /\ txn'[w] = Idle
      /\ \A v \in Workers \ {w} : txn'[v] = txn[v]
  BY <1>1, IdleIs DEF IInv, TablesOK
<1>6. ASSUME NEW f \in DOMAIN seen
      PROVE  Within(seen[f], Lacking(report, more, f))
  <2>1. /\ f \in DOMAIN rows => Within(rows[f], Lacking(report, more, f))
        /\ f \in DOMAIN x.mine => Within(x.mine[f], Lacking(report, more, f))
    BY <1>1, RowFacts
  <2> QED
    BY <1>3, <2>1 DEF Sees
<1> HIDE DEF seen
<1>7. TablesOK'
  <2>1. \A f \in DOMAIN rows' : Within(rows'[f], Lacking(report, processed', f))
    BY <1>1, <1>6
  <2> QED
    BY <1>1, <1>3, <1>4, <1>5, <2>1 DEF IInv, TablesOK
<1>8. ASSUME NEW v \in Workers \ {w}
      PROVE  Sound(txn[v], seen, more, report)
  <2> DEFINE z == txn[v]
  <2>1. Sound(z, rows, processed, report) /\ z \in Txn
    BY DEF IInv, TransactionsOK, TablesOK
  <2>2. z.stage \in Claiming => z.poll \in Polls /\ z.poll # x.poll
    <3>1. Apart(z, x)
      BY DEF IInv, ExclusionOK
    <3> QED
      BY <1>1, <2>1, <3>1 DEF Apart, Sound, Going, Claiming
  <2>3. Going(z, rows, processed, report[z.poll]) /\ Counting(z, report, processed)
    BY <2>1 DEF Sound
  <2>4. z.limit \in Thresholds \cup {0} /\ z.mine \in Tables
    BY <2>1 DEF Txn
  <2> HIDE DEF z
  <2>5. Going(z, seen, more, report[z.poll])
    BY <1>3, <2>2, <2>3 DEF Going
  <2>6. ASSUME z.stage \in Claiming, NEW f
        PROVE  /\ Lacking(report, processed \cup {z.poll}, f) \in Nat
               /\ Lacking(report, more \cup {z.poll}, f) \in Nat
               /\ Lacking(report, processed \cup {z.poll}, f)
                    <= Lacking(report, more \cup {z.poll}, f)
    <3>1. /\ processed \cup {z.poll} \in SUBSET Polls /\ more \cup {z.poll} \in SUBSET Polls
          /\ processed \cup {z.poll} \subseteq more \cup {z.poll}
      BY <1>4, <2>2, <2>6
    <3> HIDE DEF more
    <3> QED
      BY <3>1, LackingIs
  <2>7. ASSUME z.stage \in Claiming, NEW f \in DOMAIN z.mine
        PROVE  Within(z.mine[f], Lacking(report, more \cup {z.poll}, f))
    <3>1. Within(z.mine[f], Lacking(report, processed \cup {z.poll}, f)) /\ z.mine[f] \in Row
      BY <2>3, <2>4, <2>7, TableIs DEF Counting
    <3> QED
      BY <2>6, <2>7, <3>1, WithinGrows
  <2>8. ASSUME z.stage = "close", NEW f \in z.todo
        PROVE  z.limit <= Lacking(report, more \cup {z.poll}, f)
    <3>1. z.stage \in Claiming
      BY <2>8 DEF Claiming
    <3>2. z.limit <= Lacking(report, processed \cup {z.poll}, f)
      BY <2>3, <2>8, <3>1 DEF Counting
    <3>3. z.limit \in Nat
      BY <2>4, LimitIs
    <3>4. /\ Lacking(report, processed \cup {z.poll}, f) \in Nat
          /\ Lacking(report, more \cup {z.poll}, f) \in Nat
          /\ Lacking(report, processed \cup {z.poll}, f)
               <= Lacking(report, more \cup {z.poll}, f)
      BY <2>6, <3>1
    <3> QED
      BY <3>2, <3>3, <3>4
  <2>9. Counting(z, report, more)
    BY <2>7, <2>8 DEF Counting
  <2>10. z.stage \in Claiming => z.began # more
    BY <1>2, <2>3 DEF Going
  <2>11. Sound(z, seen, more, report)
    BY <2>5, <2>9, <2>10 DEF Sound
  <2> QED
    BY <2>11 DEF z
<1>9. TransactionsOK'
  <2>1. \A v \in Workers : Sound(txn'[v], rows', processed', report')
    BY <1>1, <1>5, <1>8, IdleIsSound
  <2> QED
    BY <2>1 DEF TransactionsOK
<1>10. ExclusionOK'
  <2>1. \A v \in Workers : Apart(Idle, txn[v]) /\ Apart(txn[v], Idle)
    BY IdleIsSound DEF Apart
  <2>2. \A u, v \in Workers : u # v => Apart(txn'[u], txn'[v])
    BY <1>5, <2>1 DEF IInv, ExclusionOK
  <2> QED
    BY <2>2 DEF ExclusionOK
<1> QED
  BY <1>7, <1>9, <1>10 DEF IInv

-----------------------------------------------------------------------------
LEMMA Initially == Init => IInv
<1> SUFFICES ASSUME Init PROVE IInv
  OBVIOUS
<1>1. PICK S \in SUBSET Findings : rows = [f \in S |-> NewRow]
  BY DEF Init
<1>2. rows \in Tables /\ \A f \in DOMAIN rows : rows[f] = NewRow
  <2>1. rows \in [S -> Row]
    BY <1>1, NewRowIs
  <2> QED
    BY <1>1, <2>1 DEF Tables
<1>3. TablesOK
  <2>1. \A f : Lacking(report, processed, f) \in Nat
    BY LackingIs DEF Init
  <2>2. \A f \in DOMAIN rows : Within(rows[f], Lacking(report, processed, f))
    BY <1>2, <2>1, NewRowIs
  <2>3. attempts \in [Polls -> 0..MaxAttempts]
    BY ConcurrentAssumption DEF Init
  <2> QED
    BY <1>2, <2>2, <2>3, IdleIs DEF TablesOK, Init
<1>4. TransactionsOK /\ ExclusionOK
  BY IdleIsSound DEF Init, TransactionsOK, ExclusionOK
<1> QED
  BY <1>3, <1>4 DEF IInv

LEMMA Stutters == IInv /\ UNCHANGED vars => IInv'
<1> SUFFICES ASSUME IInv, UNCHANGED vars PROVE IInv'
  OBVIOUS
<1>1. TablesOK' /\ TransactionsOK' /\ ExclusionOK'
  BY DEF vars, IInv, TablesOK, TransactionsOK, ExclusionOK
<1> QED
  BY <1>1 DEF IInv

LEMMA Inductive == IInv /\ [Next]_vars => IInv'
BY DeliverStep, ClaimStep, UpdateStep, InsertStep, AbsentStep, AgeStep, SelectStep,
   CloseStep, CommitStep, RollbackStep, Stutters DEF Next

LEMMA Invariance == Spec => []IInv
BY Initially, Inductive, PTL DEF Spec

-----------------------------------------------------------------------------
\* process_snapshot: the tables and the transactions keep their types, and no
\* row is ever written by two transactions at a time.
THEOREM TypeCorrect == Spec => []TypeOK
<1>1. IInv => TypeOK
  <2> SUFFICES ASSUME IInv PROVE TypeOK
    OBVIOUS
  <2>1. DOMAIN rows \subseteq Findings /\ \A f \in DOMAIN rows : rows[f] \in Row
    BY TableIs DEF IInv, TablesOK
  <2>2. ASSUME NEW w \in Workers
        PROVE  LET x == txn[w]
               IN  /\ x.stage \in Stages /\ x.poll \in Polls \cup {NoPoll}
                   /\ x.todo \subseteq Findings /\ x.began \subseteq processed
                   /\ \A f \in DOMAIN x.mine : x.mine[f] \in Row
                   /\ \A v \in Workers \ {w} : DOMAIN x.mine \cap DOMAIN txn[v].mine = {}
    <3>1. txn[w] \in Txn /\ txn[w].mine \in Tables
          /\ Going(txn[w], rows, processed, Reported(w))
      BY Facts
    <3>2. txn[w].began \subseteq processed
      BY <3>1, IdleIs DEF Going, Claiming, Txn, Stages
    <3>3. \A f \in DOMAIN txn[w].mine : txn[w].mine[f] \in Row
      BY <3>1, TableIs
    <3>4. \A v \in Workers \ {w} : DOMAIN txn[w].mine \cap DOMAIN txn[v].mine = {}
      BY DEF IInv, ExclusionOK, Apart
    <3> QED
      BY <3>1, <3>2, <3>3, <3>4 DEF Txn
  <2> QED
    BY <2>1, <2>2 DEF TypeOK, IInv, TablesOK
<1> QED
  BY <1>1, Invariance, PTL

\* claim_processed_payload: however often and however concurrently a poll is
\* delivered, the findings table changes only in the step that records a poll
\* that was not recorded before.
THEOREM PollsCountOnce == Spec => AppliedOnce
<1>1. ASSUME IInv, [Next]_vars
      PROVE  [rows' # rows => \E i \in Polls \ processed : processed' = processed \cup {i}]_vars
  <2> SUFFICES ASSUME Next, rows' # rows
               PROVE  \E i \in Polls \ processed : processed' = processed \cup {i}
    BY <1>1
  <2>1. PICK w \in Workers : Commit(w)
    BY DEF Next, Deliver, Claim, UpdateRow, InsertRow, Absent, AgeRow, Select,
           CloseRow, Rollback
  <2>2. txn[w].poll \in Polls \ processed
    BY <1>1, <2>1, Facts DEF Commit, At, Going, Claiming
  <2> QED
    BY <2>1, <2>2 DEF Commit
<1> QED
  BY <1>1, Invariance, PTL DEF Spec, AppliedOnce

\* The absence pass and the auto-close of overlapping transactions: a finding
\* has at most as many misses as recorded polls did not list it, and is closed
\* only when that many reach a threshold.
THEOREM MissesCounted == Spec => []MissesAreAbsences
<1>1. IInv => MissesAreAbsences
  BY DEF IInv, TablesOK, Within, Lacking, MissesAreAbsences, Absences
<1> QED
  BY <1>1, Invariance, PTL

\* A transaction that was alone has seen, of every row, what one run of
\* process_snapshot makes of it.
LEMMA AloneSees ==
  ASSUME IInv, NEW w \in Workers, Commit(w), processed = txn[w].began
  PROVE  Visible(w) = Snapshot(rows, Reported(w), txn[w].limit)
<1> DEFINE x == txn[w]
           listed == Reported(w)
           seen == Visible(w)
           D == DOMAIN rows \cup listed
           aged == [f \in D |-> Aged(rows, listed, f)]
<1>1. /\ Serial(x, rows, listed) /\ x.stage = "close" /\ x.todo = {}
  BY Facts DEF Commit, At, Claiming
<1>2. /\ seen = [f \in DOMAIN seen |-> seen[f]]
      /\ DOMAIN seen = DOMAIN rows \cup DOMAIN x.mine
      /\ \A f \in DOMAIN seen : seen[f] = Sees(x, rows, f)
  BY VisibleIs, TableIs
<1>3. DOMAIN seen = D /\ \A f \in D : seen[f] = Closed(Aged(rows, listed, f), x.limit)
  BY <1>1, <1>2 DEF Serial
<1>4. seen = [f \in D |-> Closed(Aged(rows, listed, f), x.limit)]
  <2> HIDE DEF seen
  <2> QED
    BY <1>2, <1>3
<1>5. Snapshot(rows, listed, x.limit) = [f \in DOMAIN aged |-> Closed(aged[f], x.limit)]
  BY DEF Snapshot, Aged, Closed
<1>6. [f \in DOMAIN aged |-> Closed(aged[f], x.limit)]
        = [f \in D |-> Closed(Aged(rows, listed, f), x.limit)]
  OBVIOUS
<1> QED
  BY <1>4, <1>5, <1>6

\* process_snapshot without another commit beside it: what it commits is one
\* run of it on the table it found, whatever rows and claims other
\* transactions held meanwhile.
THEOREM AloneSerial == Spec => AloneIsSerial
<1>1. ASSUME IInv, [Next]_vars
      PROVE  [\A w \in Workers :
                Commits(w) /\ processed = txn[w].began
                  => rows' = Snapshot(rows, Reported(w), txn[w].limit)]_vars
  <2> SUFFICES ASSUME Next, NEW w \in Workers, Commits(w), processed = txn[w].began
               PROVE  rows' = Snapshot(rows, Reported(w), txn[w].limit)
    BY <1>1
  <2>1. processed' # processed
    BY DEF Commits
  <2>2. PICK v \in Workers : Commit(v)
    BY <2>1 DEF Next, Deliver, Claim, UpdateRow, InsertRow, Absent, AgeRow, Select,
                CloseRow, Rollback
  <2>3. txn[w].stage \in Claiming /\ txn[v].stage \in Claiming /\ txn[w].poll = txn[v].poll
    BY <2>2 DEF Commits, Commit, At, Claiming
  <2>4. v = w
    BY <1>1, <2>3 DEF IInv, ExclusionOK, Apart
  <2> QED
    BY <1>1, <2>2, <2>4, AloneSees DEF Commit
<1> QED
  BY <1>1, Invariance, PTL DEF Spec, AloneIsSerial
-----------------------------------------------------------------------------
(***************************************************************************)
(* Towards TransactionsEnd: what keeps every transaction from ending is    *)
(* neither a wait nor work that never gets less.                           *)
(***************************************************************************)

\* The guard of Step: worker w's transaction has something to do that it need
\* not wait for.
GoesOn(w) ==
  \/ At(w, "claim") /\ ~Claimed(w)
  \/ /\ At(w, "upsert")
     /\ \/ txn[w].todo = {}
        \/ \E f \in txn[w].todo :
             ~Locked(w, f) /\ (f \in DOMAIN txn[w].loaded \/ f \notin DOMAIN rows)
  \/ /\ txn[w].stage \in {"age", "close"}
     /\ txn[w].todo = {} \/ \E f \in txn[w].todo : ~Locked(w, f)

\* While a push is being served, some transaction goes on, or fails on a
\* duplicate key, or is in a deadlock, which PostgreSQL breaks: instances never
\* wait for one another's claims and rows in a way that nothing resolves.
NeverAllWait ==
  (\E w \in Workers : ~At(w, "idle"))
    => \E w \in Workers : ~At(w, "idle") /\ (GoesOn(w) \/ DuplicateKey(w) \/ Deadlocked(w))

\* What a transaction that goes on has still to do.
Later(stage) ==
  CASE stage = "claim"  -> {"upsert", "age", "close"}
    [] stage = "upsert" -> {"age", "close"}
    [] stage = "age"    -> {"close"}
    [] OTHER            -> {}
Ahead(x, y) ==
  \/ y.stage \in Later(x.stage)
  \/ y.stage = x.stage /\ y.todo \subseteq x.todo /\ y.todo # x.todo

\* No step of a transaction is for nothing: each ends it, takes it to a later
\* statement of process_snapshot, or leaves its statement fewer rows to write.
WorkGetsLess ==
  [][\A w \in Workers :
       txn'[w] = txn[w] \/ At(w, "idle") \/ txn'[w] = Idle \/ Ahead(txn[w], txn'[w])]_vars

\* A transaction with nothing to wait for but rows of others waits for some of
\* another one's.
LEMMA WaitsForRows ==
  ASSUME IInv, NEW w \in Workers, txn[w].stage \in Claiming,
         ~GoesOn(w), ~DuplicateKey(w)
  PROVE  /\ txn[w].todo # {}
         /\ \A f \in txn[w].todo : Locked(w, f)
<1>1. txn[w].stage \in {"upsert", "age", "close"}
  BY DEF Claiming
<1>2. txn[w].todo # {}
  BY <1>1 DEF GoesOn, At
<1>3. ASSUME NEW f \in txn[w].todo
      PROVE  Locked(w, f)
  <2>1. CASE txn[w].stage = "upsert"
    <3>1. f \in DOMAIN txn[w].loaded \/ f \notin DOMAIN rows
      BY <1>3, <2>1 DEF DuplicateKey, At
    <3> QED
      BY <1>3, <2>1, <3>1 DEF GoesOn, At
  <2>2. CASE txn[w].stage \in {"age", "close"}
    BY <1>3, <2>2 DEF GoesOn
  <2> QED
    BY <1>1, <2>1, <2>2
<1> QED
  BY <1>2, <1>3

\* A transaction holds rows only once it has its claim.
LEMMA LocksAreClaimed ==
  ASSUME IInv, NEW u \in Workers, DOMAIN txn[u].mine # {}
  PROVE  txn[u].stage \in Claiming
<1>1. /\ txn[u] \in Txn
      /\ txn[u].stage = "idle" => txn[u] = Idle
      /\ txn[u].stage = "claim" => DOMAIN txn[u].mine = {}
  BY DEF IInv, TablesOK, TransactionsOK, Sound, Going
<1>2. txn[u].stage # "idle"
  BY <1>1, NoRowsIs DEF Idle
<1> QED
  BY <1>1, <1>2 DEF Txn, Stages, Claiming

\* Overlapping transactions: were none of them to go on, those that have claimed
\* their polls would wait for one another's rows, and that is a deadlock.
THEOREM SomeoneGoesOn == Spec => []NeverAllWait
<1>1. ASSUME IInv
      PROVE  NeverAllWait
  <2> DEFINE S == {w \in Workers : txn[w].stage \in Claiming}
  <2> SUFFICES ASSUME NEW b \in Workers, ~At(b, "idle"),
                      \A w \in Workers : ~At(w, "idle") =>
                        ~GoesOn(w) /\ ~DuplicateKey(w) /\ ~Deadlocked(w)
               PROVE  FALSE
    BY DEF NeverAllWait
  <2>1. \A w \in Workers : txn[w].stage \in Stages
    BY <1>1 DEF IInv, TablesOK, Txn
  <2>2. PICK s \in Workers : txn[s].stage \in Claiming
    <3>1. CASE At(b, "claim")
      <4>1. Claimed(b)
        BY <3>1 DEF GoesOn
      <4> QED
        BY <2>1, <4>1 DEF Claimed, Stages, Claiming
    <3>2. CASE ~At(b, "claim")
      BY <2>1, <3>2 DEF At, Stages, Claiming
    <3> QED
      BY <3>1, <3>2
  <2>3. \A v \in S : ~At(v, "idle")
    BY DEF At, Claiming
  <2>4. ASSUME NEW v \in S
        PROVE  /\ txn[v].todo # {}
               /\ \A f \in txn[v].todo : \E u \in S \ {v} : f \in DOMAIN txn[u].mine
    <3>1. txn[v].todo # {} /\ \A f \in txn[v].todo : Locked(v, f)
      BY <1>1, <2>3, WaitsForRows
    <3>2. ASSUME NEW f \in txn[v].todo
          PROVE  \E u \in S \ {v} : f \in DOMAIN txn[u].mine
      <4>1. PICK u \in Workers \ {v} : f \in DOMAIN txn[u].mine
        BY <3>1, <3>2 DEF Locked
      <4>2. u \in S
        BY <1>1, <4>1, LocksAreClaimed
      <4> QED
        BY <4>1, <4>2
    <3> QED
      BY <3>1, <3>2
  <2>5. s \in S /\ S \in SUBSET Workers
    BY <2>2
  <2>6. Deadlocked(s)
    <3> HIDE DEF S
    <3> QED
      BY <2>4, <2>5 DEF Deadlocked
  <2> QED
    BY <2>3, <2>5, <2>6
<1> QED
  BY <1>1, Invariance, PTL

\* A write of a row takes it off what is to be written.
LEMMA WriteIsAhead ==
  ASSUME NEW x \in Txn, NEW f \in x.todo, NEW written
  PROVE  Ahead(x, [x EXCEPT !.mine = written, !.todo = @ \ {f}])
<1> DEFINE y == [x EXCEPT !.mine = written, !.todo = @ \ {f}]
<1>1. y.stage = x.stage /\ y.todo = x.todo \ {f}
  BY DEF Txn
<1> QED
  BY <1>1 DEF Ahead

\* process_snapshot's statements follow one another, and each writes each row
\* once; a transaction that lost its poll to another delivery, failed or
\* committed is idle.
THEOREM WorkDoesGetLess == Spec => WorkGetsLess
<1> DEFINE Less(w) == \/ txn'[w] = txn[w] \/ At(w, "idle") \/ txn'[w] = Idle
                      \/ Ahead(txn[w], txn'[w])
<1>1. ASSUME IInv, [Next]_vars
      PROVE  [\A w \in Workers :
                txn'[w] = txn[w] \/ At(w, "idle") \/ txn'[w] = Idle
                  \/ Ahead(txn[w], txn'[w])]_vars
  <2> SUFFICES ASSUME Next, NEW w \in Workers
               PROVE  Less(w)
    BY <1>1
  <2>1. txn \in [Workers -> Txn] /\ txn[w] \in Txn
    BY <1>1 DEF IInv, TablesOK
  <2>2. ASSUME NEW v \in Workers, NEW i \in Polls, Deliver(v, i)
        PROVE  Less(w)
    <3>1. PICK t \in Thresholds :
            txn' = [txn EXCEPT ![v] = [Idle EXCEPT !.stage = "claim", !.poll = i, !.limit = t]]
      BY <2>2 DEF Deliver
    <3> QED
      BY <2>1, <2>2, <3>1 DEF Deliver
  <2>3. ASSUME NEW v \in Workers, Claim(v)
        PROVE  Less(w)
    <3>1. CASE v = w
      <4>1. CASE txn[w].poll \in processed
        BY <2>1, <2>3, <3>1, <4>1 DEF Claim
      <4>2. CASE txn[w].poll \notin processed
        <5>1. txn'[w].stage = "upsert" /\ txn[w].stage = "claim"
          BY <2>1, <2>3, <3>1, <4>2 DEF Claim, At, Txn
        <5> QED
          BY <5>1 DEF Ahead, Later
      <4> QED
        BY <4>1, <4>2
    <3> QED
      BY <2>1, <2>3, <3>1 DEF Claim
  <2>4. ASSUME NEW v \in Workers, Absent(v)
        PROVE  Less(w)
    <3>1. CASE v = w
      <4>1. txn'[w].stage = "age" /\ txn[w].stage = "upsert"
        BY <2>1, <2>4, <3>1 DEF Absent, At, Txn
      <4> QED
        BY <4>1 DEF Ahead, Later
    <3> QED
      BY <2>1, <2>4, <3>1 DEF Absent
  <2>5. ASSUME NEW v \in Workers, Select(v)
        PROVE  Less(w)
    <3>1. CASE v = w
      <4>1. txn'[w].stage = "close" /\ txn[w].stage = "age"
        BY <2>1, <2>5, <3>1 DEF Select, At, Txn
      <4> QED
        BY <4>1 DEF Ahead, Later
    <3> QED
      BY <2>1, <2>5, <3>1 DEF Select
  <2>6. ASSUME NEW v \in Workers, NEW f \in txn[v].todo, NEW row, Write(v, f, row)
        PROVE  Less(w)
    <3>1. CASE v = w
      <4>1. txn'[w] = [txn[w] EXCEPT !.mine = Overlay(txn[w].mine, [g \in {f} |-> row]),
                                     !.todo = @ \ {f}]
        BY <2>1, <2>6, <3>1 DEF Write
      <4>2. \A m : Ahead(txn[w], [txn[w] EXCEPT !.mine = m, !.todo = @ \ {f}])
        BY <2>1, <2>6, <3>1, WriteIsAhead
      <4> QED
        BY <4>1, <4>2
    <3> QED
      BY <2>1, <2>6, <3>1 DEF Write
  <2>7. ASSUME NEW v \in Workers, NEW f \in Findings, AgeRow(v, f)
        PROVE  Less(w)
    <3>1. CASE rows[f].status = "open"
      BY <2>6, <2>7, <3>1 DEF AgeRow
    <3>2. CASE rows[f].status # "open"
      <4>1. CASE v = w
        <5>1. txn'[w].stage = txn[w].stage /\ txn'[w].todo = txn[w].todo \ {f} /\ f \in txn[w].todo
          BY <2>1, <2>7, <3>2, <4>1 DEF AgeRow, Txn
        <5> QED
          BY <5>1 DEF Ahead
      <4> QED
        BY <2>1, <2>7, <3>2, <4>1 DEF AgeRow
    <3> QED
      BY <3>1, <3>2
  <2>8. ASSUME NEW v \in Workers, Commit(v) \/ Rollback(v)
        PROVE  Less(w)
    BY <2>1, <2>8 DEF Commit, Rollback
  <2>9. ASSUME NEW v \in Workers, NEW f \in Findings,
               UpdateRow(v, f) \/ InsertRow(v, f) \/ CloseRow(v, f)
        PROVE  Less(w)
    <3> HIDE DEF Less
    <3> QED
      BY <2>6, <2>9 DEF UpdateRow, InsertRow, CloseRow
  <2> HIDE DEF Less
  <2> QED
    BY <2>2, <2>3, <2>4, <2>5, <2>7, <2>8, <2>9 DEF Next
<1> QED
  BY <1>1, Invariance, PTL DEF Spec, WorkGetsLess
=============================================================================
