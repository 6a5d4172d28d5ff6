---------------------------- MODULE PollerProofs ----------------------------
(***************************************************************************)
(* The theorems of Poller, for any issues, queries, pollers, page sizes,   *)
(* caps, thresholds, slots, changes and failures.                          *)
(***************************************************************************)
EXTENDS Poller, FiniteSetTheorems, TLAPS

-----------------------------------------------------------------------------
(***************************************************************************)
(* Listings and their pages.                                               *)
(***************************************************************************)
IsListing(s) == s \in SUBSET Nat /\ IsFiniteSet(s)

\* The places of a listing are numbered from 0 on, in the order of its issues.
LEMMA PlaceIs ==
  ASSUME NEW s, IsListing(s)
  PROVE  /\ Cardinality(s) \in Nat
         /\ \A i \in s : Place(i, s) \in 0 .. Cardinality(s) - 1
         /\ \A i, j \in s : i < j => Place(i, s) < Place(j, s)
         /\ \A n \in 0 .. Cardinality(s) - 1 : \E i \in s : Place(i, s) = n
<1> DEFINE Before(i) == {j \in s : j < i}
<1>1. s \in SUBSET Nat /\ IsFiniteSet(s) /\ Cardinality(s) \in Nat
  BY FS_CardinalityType DEF IsListing
<1>2. ASSUME NEW t \in SUBSET s
      PROVE  IsFiniteSet(t) /\ Cardinality(t) \in Nat
  BY <1>1, FS_Subset, FS_CardinalityType
<1>3. ASSUME NEW t \in SUBSET s, NEW r \in SUBSET t, NEW x \in t \ r
      PROVE  Cardinality(r) < Cardinality(t)
  <2>1. Cardinality(r) <= Cardinality(t) /\ (Cardinality(t) = Cardinality(r) => t = r)
    BY <1>2, FS_Subset
  <2> QED
    BY <1>2, <1>3, <2>1
<1>4. ASSUME NEW i \in s
      PROVE  Place(i, s) \in 0 .. Cardinality(s) - 1
  <2>1. Before(i) \in SUBSET s /\ i \in s \ Before(i)
    BY <1>1
  <2>2. Cardinality(Before(i)) < Cardinality(s) /\ Cardinality(Before(i)) \in Nat
    BY <1>2, <1>3, <2>1
  <2> QED
    BY <1>1, <2>2 DEF Place
<1>5. ASSUME NEW i \in s, NEW j \in s, i < j
      PROVE  Place(i, s) < Place(j, s)
  <2>1. Before(i) \in SUBSET Before(j) /\ Before(j) \in SUBSET s /\ i \in Before(j) \ Before(i)
    <3>1. \A k \in s : k < i => k < j
      BY <1>1, <1>5
    <3>2. i \notin Before(i) /\ i \in Before(j)
      BY <1>1, <1>5
    <3> QED
      BY <3>1, <3>2
  <2> QED
    BY <1>3, <2>1 DEF Place
<1>6. ASSUME NEW n \in 0 .. Cardinality(s) - 1
      PROVE  \E i \in s : Place(i, s) = n
  <2> DEFINE places == 0 .. Cardinality(s) - 1
             f == [i \in s |-> Place(i, s)]
  <2>1. \A i, j \in s : i # j => Place(i, s) # Place(j, s)
    BY <1>1, <1>4, <1>5
  <2>2. f \in Injection(s, places)
    <3>1. f \in [s -> places]
      BY <1>4
    <3> QED
      BY <2>1, <3>1 DEF Injection, IsInjective
  <2>3. IsFiniteSet(places) /\ Cardinality(places) = Cardinality(s)
    BY <1>1, FS_Interval
  <2> HIDE DEF f, places
  <2>4. f \in Surjection(s, places)
    BY <2>2, <2>3, FS_Injection
  <2>5. PICK i \in s : f[i] = n
    BY <2>4 DEF Surjection, places
  <2> QED
    BY <2>5 DEF f
<1> QED
  BY <1>1, <1>4, <1>5, <1>6

\* An issue that is opened moves others to later places only.
LEMMA PlaceGrows ==
  ASSUME NEW s, NEW t, s \subseteq t, IsListing(t), NEW i
  PROVE  Place(i, s) <= Place(i, t) /\ Place(i, s) \in Nat /\ Place(i, t) \in Nat
<1> DEFINE a == {j \in s : j < i}
           b == {j \in t : j < i}
<1>1. IsFiniteSet(b) /\ a \in SUBSET b
  BY FS_Subset DEF IsListing
<1>2. Cardinality(a) <= Cardinality(b) /\ Cardinality(a) \in Nat /\ Cardinality(b) \in Nat
  BY <1>1, FS_Subset, FS_CardinalityType
<1> QED
  BY <1>2 DEF Place

LEMMA PageFrom ==
  ASSUME NEW n \in Nat \ {0}
  PROVE  /\ (n - 1) * PageSize \in Nat /\ n * PageSize \in Nat
         /\ n * PageSize = (n - 1) * PageSize + PageSize
         /\ PageSize \in Nat \ {0}
BY PollerAssumption

\* A page is full, or it is the last one.
LEMMA PageIs ==
  ASSUME NEW s, IsListing(s), NEW n \in Nat \ {0}
  PROVE  /\ Cardinality(Page(s, n)) \in 0 .. PageSize
         /\ Cardinality(s) >= n * PageSize => Cardinality(Page(s, n)) = PageSize
         /\ (Cardinality(s) < n * PageSize /\ Cardinality(s) >= (n - 1) * PageSize) =>
              Cardinality(Page(s, n)) = Cardinality(s) - (n - 1) * PageSize
<1> DEFINE lo == (n - 1) * PageSize
           next == IF Cardinality(s) >= n * PageSize THEN n * PageSize
                   ELSE IF Cardinality(s) >= lo THEN Cardinality(s) ELSE lo
           places == lo .. next - 1
           page == Page(s, n)
           f == [i \in page |-> Place(i, s)]
<1>1. /\ lo \in Nat /\ n * PageSize \in Nat /\ n * PageSize = lo + PageSize
      /\ PageSize \in Nat \ {0} /\ Cardinality(s) \in Nat
  BY PageFrom, PlaceIs
<1>2. page = {i \in s : Place(i, s) \in places}
  <2>1. \A i \in s : Place(i, s) \in 0 .. Cardinality(s) - 1
    BY PlaceIs
  <2> HIDE DEF lo
  <2>2. \A i \in s : Place(i, s) \in lo .. n * PageSize - 1 <=> Place(i, s) \in places
    BY <1>1, <2>1
  <2> QED
    BY <2>2 DEF Page, lo
<1>3. \A i, j \in s : i # j => Place(i, s) # Place(j, s)
  <2>1. s \subseteq Int
    BY DEF IsListing
  <2>2. \A i, j \in s : i # j => i < j \/ j < i
    BY <2>1
  <2>3. \A i \in s : Place(i, s) \in Int
    BY PlaceIs
  <2> QED
    BY <2>2, <2>3, PlaceIs
<1>4. f \in Injection(page, places)
  <2>1. f \in [page -> places] /\ page \subseteq s
    BY <1>2
  <2> QED
    BY <1>3, <2>1 DEF Injection, IsInjective
<1>5. f \in Surjection(page, places)
  <2>1. places \subseteq 0 .. Cardinality(s) - 1
    <3> HIDE DEF lo
    <3> QED
      BY <1>1
  <2>2. \A k \in places : \E i \in s : Place(i, s) = k
    BY <2>1, PlaceIs
  <2>3. \A k \in places : \E i \in page : f[i] = k
    BY <1>2, <2>2
  <2>4. f \in [page -> places]
    BY <1>2
  <2> QED
    BY <2>3, <2>4 DEF Surjection
<1>6. IsFiniteSet(places) /\ Cardinality(places) = next - lo
  <2> HIDE DEF lo
  <2>1. next \in Int /\ lo \in Int /\ next >= lo
    BY <1>1
  <2> HIDE DEF next
  <2>2. lo .. next - 1 = places /\ next - 1 \in Int
    BY <2>1
  <2>3. IsFiniteSet(places) /\ Cardinality(places) = IF lo > next - 1 THEN 0 ELSE next - 1 - lo + 1
    BY <2>1, <2>2, FS_Interval
  <2> QED
    BY <2>1, <2>3
<1> HIDE DEF f, places
<1>7. Cardinality(page) = next - lo
  BY <1>4, <1>5, <1>6, FS_Injection
<1> HIDE DEF lo, page
<1>8. /\ next - lo \in 0 .. PageSize
      /\ Cardinality(s) >= n * PageSize => next - lo = PageSize
      /\ (Cardinality(s) < n * PageSize /\ Cardinality(s) >= lo) => next - lo = Cardinality(s) - lo
  BY <1>1
<1> QED
  BY <1>7, <1>8 DEF lo, page

-----------------------------------------------------------------------------
(***************************************************************************)
(* The inductive invariant.                                                *)
(***************************************************************************)
Fetching ==
  [stage: {"fetching", "fetched"}, query: 1..QueryCount, page: 1..HardPageCap,
   after: Int, count: Nat, seen: SUBSET Issues, always: SUBSET Issues,
   shrunk: BOOLEAN, cut: BOOLEAN, only: BOOLEAN]
Storing == [stage: {"stored"}, slot: Slots]
Snapshot == [stored: {TRUE}, pending: BOOLEAN, applied: BOOLEAN, issues: SUBSET Issues]
Closed == [status |-> "auto_closed"]
Row == {NoRow, Closed} \cup [status: {"open"}, misses: 0 .. Threshold - 1]

ListingOK ==
  /\ poller \in Pollers /\ listed \in SUBSET Issues /\ steady \in SUBSET listed

\* A snapshot that is stored and not yet published is the running job's.
JobOK ==
  /\ job \in {NoJob} \cup Fetching \cup Storing
  /\ job \in Fetching => /\ job.only => job.cut
                         /\ job.stage = "fetching" => job.always \subseteq listed
  /\ slots \in [Slots -> {FreeSlot} \cup Snapshot]
  /\ job \in Storing => slots[job.slot].stored /\ ~slots[job.slot].pending

\* How far a poll has come: the earlier queries are read; of the current one,
\* by number, what is not read yet is on a page to come, and by cursor, it is
\* beyond the cursor.  A poll that was cut short may leave anything out, and so
\* may one by number when something was taken off.
Excuse == job.cut \/ (poller = "sonarcloud" /\ job.shrunk)
EarlierRead == \A i \in job.always : QueryOf[i] < job.query => i \in job.seen
NumberRead ==
  /\ job.count = (job.page - 1) * PageSize
  /\ \A i \in job.always :
       (QueryOf[i] = job.query /\ i \notin job.seen) => Place(i, Listing(job.query)) >= job.count
CursorRead ==
  \A i \in job.always : (QueryOf[i] = job.query /\ i <= job.after) => i \in job.seen
ReadOK ==
  /\ job.stage = "fetching" =>
       \/ Excuse
       \/ EarlierRead /\ (IF poller = "sonarcloud" THEN NumberRead ELSE CursorRead)
  /\ job.stage = "fetched" => Excuse \/ job.always \subseteq job.seen

\* The misses of a finding and the stored snapshots that will still add one
\* are snapshots that lacked its issue.
Owed(i) == {s \in Slots : slots[s].stored /\ ~slots[s].applied /\ i \notin slots[s].issues}
RowMisses(row) == IF row.status = "open" THEN row.misses ELSE 0
MissesOK ==
  /\ rows \in [Issues -> Row]
  /\ omitted \in [Issues -> 0..Threshold]
  /\ \A i \in steady : omitted[i] < Threshold =>
       /\ rows[i].status # "auto_closed"
       /\ RowMisses(rows[i]) + Cardinality(Owed(i)) <= omitted[i]

IInv == ListingOK /\ JobOK /\ ReadOK /\ MissesOK

\* A job's stage tells its record from the others.
LEMMA Stages ==
  /\ NoJob.stage = "idle"
  /\ \A j \in Fetching : j.stage \in {"fetching", "fetched"} /\ j # NoJob
  /\ \A j \in Storing : j.stage = "stored" /\ j # NoJob
BY DEF NoJob, Fetching, Storing

LEMMA JobIs ==
  ASSUME IInv
  PROVE  /\ job.stage \in {"fetching", "fetched"} => job \in Fetching
         /\ job.stage = "stored" => job \in Storing
         /\ job.stage = "idle" => job = NoJob
BY Stages DEF IInv, JobOK

LEMMA ListingIs ==
  ASSUME NEW l \in SUBSET Issues
  PROVE  IsListing(l)
BY PollerAssumption, FS_Subset DEF IsListing

LEMMA InitInv == Init => IInv
<1> SUFFICES ASSUME Init PROVE IInv
  OBVIOUS
<1>1. ListingOK
  BY DEF Init, ListingOK
<1>2. JobOK
  BY Stages DEF Init, JobOK
<1>3. ReadOK
  BY Stages DEF Init, ReadOK
<1>4. MissesOK
  <2>1. \A i \in Issues : Owed(i) = {} /\ RowMisses(rows[i]) = 0
    BY DEF Init, Owed, RowMisses, FreeSlot, NoRow
  <2> QED
    BY <2>1, FS_EmptySet, PollerAssumption DEF Init, MissesOK, Row, NoRow
<1> QED
  BY <1>1, <1>2, <1>3, <1>4 DEF IInv

LEMMA ListingStep ==
  ASSUME IInv, [Next]_vars
  PROVE  ListingOK'
BY DEF IInv, ListingOK, Next, vars, Change, Uncounted, StartOnly, Start, Fetch,
   CursorMissing, Abort, Publish, Put, Deliver, DeliverUnacked, DeadLetter

-----------------------------------------------------------------------------
\* A query begins with nothing read, and its answer ends it.
LEMMA QueryIs ==
  ASSUME NEW q \in 1..QueryCount, NEW seen \in SUBSET Issues, NEW always \in SUBSET Issues,
         NEW shrunk \in BOOLEAN, NEW cut \in BOOLEAN
  PROVE  /\ Query(q, seen, always, shrunk, cut) \in Fetching
         /\ [Query(q, seen, always, shrunk, cut) EXCEPT !.only = TRUE] \in Fetching
<1> DEFINE j == Query(q, seen, always, shrunk, cut)
<1>1. 1 \in 1..HardPageCap /\ -1 \in Int /\ 0 \in Nat
  BY PollerAssumption
<1>2. j \in Fetching
  BY <1>1 DEF Query, Fetching
<1> HIDE DEF j
<1>3. [j EXCEPT !.only = TRUE] \in Fetching
  BY <1>2 DEF Fetching
<1> QED
  BY <1>2, <1>3 DEF j

LEMMA AnsweredIs ==
  ASSUME IInv, job.stage = "fetching", NEW seen \in SUBSET Issues, NEW cut \in BOOLEAN,
         job.cut => cut
  PROVE  /\ Answered(seen, cut) \in Fetching
         /\ Answered(seen, cut).only => Answered(seen, cut).cut
         /\ Answered(seen, cut).always = job.always
         /\ Answered(seen, cut).shrunk = job.shrunk
         /\ Answered(seen, cut).cut = cut
         /\ Answered(seen, cut).seen = seen
         /\ \/ /\ Answered(seen, cut).stage = "fetched"
               /\ job.only \/ job.query = QueryCount
            \/ /\ Answered(seen, cut).stage = "fetching"
               /\ Answered(seen, cut).query = job.query + 1
               /\ Answered(seen, cut).page = 1 /\ Answered(seen, cut).count = 0
               /\ Answered(seen, cut).after = -1
<1> DEFINE j == Answered(seen, cut)
<1>1. /\ job \in Fetching /\ (job.only => job.cut)
  BY JobIs DEF IInv, JobOK
<1>2. CASE job.only \/ job.query = QueryCount
  <2>1. j = [job EXCEPT !.stage = "fetched", !.seen = seen, !.cut = cut]
    BY <1>2 DEF Answered
  <2> HIDE DEF j
  <2>2. /\ j \in Fetching /\ j.always = job.always /\ j.shrunk = job.shrunk
        /\ j.cut = cut /\ j.seen = seen /\ j.stage = "fetched" /\ j.only = job.only
    BY <1>1, <2>1 DEF Fetching
  <2>3. j.only => j.cut
    BY <1>1, <2>2
  <2> QED
    BY <1>2, <2>2, <2>3 DEF j
<1>3. CASE ~(job.only \/ job.query = QueryCount)
  <2>1. j = Query(job.query + 1, seen, job.always, job.shrunk, cut)
    BY <1>3 DEF Answered
  <2>2. /\ job.query + 1 \in 1..QueryCount /\ job.always \in SUBSET Issues
        /\ job.shrunk \in BOOLEAN
    BY <1>1, <1>3, PollerAssumption DEF Fetching
  <2> HIDE DEF j
  <2>3. j \in Fetching
    BY <2>1, <2>2, QueryIs
  <2>4. /\ j.always = job.always /\ j.shrunk = job.shrunk /\ j.cut = cut /\ j.seen = seen
        /\ j.stage = "fetching" /\ j.query = job.query + 1 /\ j.page = 1 /\ j.count = 0
        /\ j.after = -1 /\ ~j.only
    BY <2>1 DEF Query
  <2> QED
    BY <2>3, <2>4 DEF j
<1> QED
  BY <1>2, <1>3

\* A page goes on within its query, or the query is answered; what was seen
\* stays seen.
Continued(j, page, after, count, seen) ==
  j = [job EXCEPT !.page = page, !.after = after, !.count = count, !.seen = seen]
LEMMA ContinuedIs ==
  ASSUME job \in Fetching, NEW page \in 1..HardPageCap, NEW after \in Int,
         NEW count \in Nat, NEW seen \in SUBSET Issues, NEW j,
         Continued(j, page, after, count, seen)
  PROVE  /\ j \in Fetching /\ j.page = page /\ j.after = after /\ j.count = count
         /\ j.seen = seen /\ j.always = job.always /\ j.shrunk = job.shrunk
         /\ j.cut = job.cut /\ j.only = job.only /\ j.query = job.query
         /\ j.stage = job.stage
BY DEF Continued, Fetching

LEMMA PageFetched ==
  ASSUME IInv, Fetch \/ CursorMissing
  PROVE  \E seen \in SUBSET Issues :
           /\ job.stage = "fetching" /\ job \in Fetching /\ job.seen \subseteq seen
           /\ \/ \E cut \in BOOLEAN : (job.cut => cut) /\ job' = Answered(seen, cut)
              \/ \E page \in 1..HardPageCap, after \in Int, count \in Nat :
                   Continued(job', page, after, count, seen)
<1>1. job.stage = "fetching" /\ job \in Fetching
  BY JobIs DEF Fetch, CursorMissing
<1>2. /\ job.page \in 1..HardPageCap /\ job.after \in Int /\ job.count \in Nat
      /\ job.seen \in SUBSET Issues /\ job.cut \in BOOLEAN
      /\ Listing(job.query) \in SUBSET Issues
  BY <1>1 DEF Fetching, Listing, IInv, ListingOK
<1>3. \A s \in SUBSET Issues, n \in Nat \ {0} :
        /\ Page(s, n) \in SUBSET Issues /\ Cardinality(Page(s, n)) \in Nat
        /\ Cardinality(s) \in Nat
  <2>1. ASSUME NEW s \in SUBSET Issues, NEW n \in Nat \ {0}
        PROVE  Cardinality(Page(s, n)) \in Nat /\ Cardinality(s) \in Nat
    BY ListingIs, PageIs, PlaceIs, PollerAssumption
  <2>2. \A s \in SUBSET Issues, n \in Nat \ {0} : Page(s, n) \in SUBSET Issues
    BY DEF Page
  <2> QED
    BY <2>1, <2>2
<1>4. PageItems \in SUBSET Issues
  <2>1. Beyond \in SUBSET Issues
    BY <1>2 DEF Beyond
  <2> QED
    BY <1>3, <2>1 DEF PageItems
<1>5. CASE Fetch /\ poller = "sonarcloud"
  <2> DEFINE items == Page(Listing(job.query), job.page)
             count == job.count + Cardinality(items)
             seen == job.seen \cup items
             cut == job.cut \/ (job.page = HardPageCap /\ count < Cardinality(Listing(job.query)))
  <2>1. /\ items \in SUBSET Issues /\ count \in Nat /\ seen \in SUBSET Issues
        /\ cut \in BOOLEAN /\ (job.cut => cut)
    <3>1. items \in SUBSET Issues /\ Cardinality(items) \in Nat
      <4>1. job.page \in Nat \ {0}
        BY <1>2, PollerAssumption
      <4> QED
        BY <1>2, <1>3, <4>1
    <3> HIDE DEF items
    <3> QED
      BY <1>2, <3>1
  <2>2. \/ job' = Answered(seen, cut)
        \/ job.page # HardPageCap
           /\ job' = [job EXCEPT !.page = @ + 1, !.count = count, !.seen = seen]
    BY <1>5 DEF Fetch, PageByNumber
  <2> HIDE DEF items, count, seen, cut
  <2>3. CASE job' = Answered(seen, cut)
    BY <1>1, <2>1, <2>3 DEF seen
  <2>4. CASE /\ job.page # HardPageCap
             /\ job' = [job EXCEPT !.page = @ + 1, !.count = count, !.seen = seen]
    <3>1. job.page + 1 \in 1..HardPageCap
      BY <1>2, <2>4, PollerAssumption
    <3>2. Continued(job', job.page + 1, job.after, count, seen)
      BY <1>1, <2>4 DEF Continued, Fetching
    <3> QED
      BY <1>1, <1>2, <2>1, <3>1, <3>2 DEF seen
  <2> QED
    BY <2>2, <2>3, <2>4
<1>6. CASE Fetch /\ poller # "sonarcloud"
  <2> DEFINE seen == job.seen \cup PageItems
  <2>1. seen \in SUBSET Issues
    BY <1>2, <1>4
  <2>2. \/ job' = Answered(seen, job.cut)
        \/ \E last \in PageItems : job' = [job EXCEPT !.after = last, !.seen = seen]
    BY <1>6 DEF Fetch, PageByCursor
  <2> HIDE DEF seen
  <2>3. ASSUME NEW last \in PageItems, job' = [job EXCEPT !.after = last, !.seen = seen]
        PROVE  Continued(job', job.page, last, job.count, seen) /\ last \in Int
    <3>1. last \in Int
      BY <1>4, PollerAssumption
    <3> QED
      BY <1>1, <2>3, <3>1 DEF Continued, Fetching
  <2> QED
    BY <1>1, <1>2, <2>1, <2>2, <2>3 DEF seen
<1>7. CASE CursorMissing
  <2>1. job.seen \cup PageItems \in SUBSET Issues
    BY <1>2, <1>4
  <2> QED
    BY <1>1, <1>7, <2>1 DEF CursorMissing
<1> QED
  BY <1>5, <1>6, <1>7

\* What the two ways of going on do to the parts of a running job.
LEMMA JobMoves ==
  ASSUME IInv, Fetch \/ CursorMissing
  PROVE  /\ job.stage = "fetching" /\ job \in Fetching /\ job' \in Fetching
         /\ job'.always = job.always /\ job'.shrunk = job.shrunk
         /\ job.seen \subseteq job'.seen /\ (job.cut => job'.cut)
         /\ job'.only => job'.cut
         /\ UNCHANGED <<poller, listed, slots, rows, steady, omitted>>
<1>1. UNCHANGED <<poller, listed, slots, rows, steady, omitted>>
  BY DEF Fetch, CursorMissing
<1>2. PICK seen \in SUBSET Issues :
        /\ job.stage = "fetching" /\ job \in Fetching /\ job.seen \subseteq seen
        /\ \/ \E cut \in BOOLEAN : (job.cut => cut) /\ job' = Answered(seen, cut)
           \/ \E page \in 1..HardPageCap, after \in Int, count \in Nat :
                Continued(job', page, after, count, seen)
  BY PageFetched
<1>3. ASSUME NEW cut \in BOOLEAN, job.cut => cut, job' = Answered(seen, cut)
      PROVE  /\ job' \in Fetching /\ job'.always = job.always /\ job'.shrunk = job.shrunk
             /\ job'.seen = seen /\ (job.cut => job'.cut) /\ (job'.only => job'.cut)
  BY <1>2, <1>3, AnsweredIs
<1>4. ASSUME NEW page \in 1..HardPageCap, NEW after \in Int, NEW count \in Nat,
             Continued(job', page, after, count, seen)
      PROVE  /\ job' \in Fetching /\ job'.always = job.always /\ job'.shrunk = job.shrunk
             /\ job'.seen = seen /\ (job.cut => job'.cut) /\ (job'.only => job'.cut)
  <2>1. /\ job' \in Fetching /\ job'.always = job.always /\ job'.shrunk = job.shrunk
        /\ job'.seen = seen /\ job'.cut = job.cut /\ job'.only = job.only
    BY <1>2, <1>4, ContinuedIs
  <2>2. job.only => job.cut
    BY <1>2 DEF IInv, JobOK
  <2> QED
    BY <2>1, <2>2
<1> QED
  BY <1>1, <1>2, <1>3, <1>4

LEMMA JobStep ==
  ASSUME IInv, [Next]_vars
  PROVE  JobOK'
<1>1. /\ job \in {NoJob} \cup Fetching \cup Storing
      /\ slots \in [Slots -> {FreeSlot} \cup Snapshot]
      /\ listed \in SUBSET Issues
      /\ job \in Storing => slots[job.slot].stored /\ ~slots[job.slot].pending
  BY DEF IInv, JobOK, ListingOK
<1>2. ASSUME job' \in Fetching, slots' = slots, job'.only => job'.cut,
             job'.stage = "fetching" => job'.always \subseteq listed'
      PROVE  JobOK'
  BY <1>1, <1>2, Stages DEF JobOK
<1>3. ASSUME job' = job, slots' = slots, job.stage # "fetching" \/ listed' = listed
      PROVE  JobOK'
  BY <1>3 DEF IInv, JobOK
<1>4. ASSUME NEW i \in Issues, Change(i)
      PROVE  JobOK'
  <2>1. CASE job.stage # "fetching"
    BY <1>3, <1>4, <2>1 DEF Change
  <2>2. CASE job.stage = "fetching"
    <3>1. job \in Fetching /\ job.always \subseteq listed /\ (job.only => job.cut)
      BY <2>2, JobIs DEF IInv, JobOK
    <3>2. job' = [job EXCEPT !.always = @ \ {i}, !.shrunk = @ \/ i \in listed]
      BY <1>4, <2>2 DEF Change
    <3>3. /\ job' \in Fetching /\ job'.always = job.always \ {i}
          /\ job'.only = job.only /\ job'.cut = job.cut
      BY <3>1, <3>2 DEF Fetching
    <3>4. job'.always \subseteq listed' /\ slots' = slots
      BY <1>4, <3>1, <3>3 DEF Change
    <3> QED
      BY <1>2, <3>1, <3>3, <3>4
  <2> QED
    BY <2>1, <2>2
<1>5. CASE Start
  <2>1. job' \in Fetching
    <3>1. /\ {} \in SUBSET Issues /\ 1 \in 1..QueryCount /\ FALSE \in BOOLEAN
          /\ listed \in SUBSET Issues
      BY <1>1, PollerAssumption
    <3>2. Query(1, {}, listed, FALSE, FALSE) \in Fetching
      BY <3>1, QueryIs
    <3> QED
      BY <1>5, <3>2 DEF Start
  <2>2. ~job'.only /\ job'.always = listed /\ slots' = slots /\ listed' = listed
    BY <1>5 DEF Start, Query
  <2> QED
    BY <1>2, <2>1, <2>2
<1>6. ASSUME NEW q \in 1..QueryCount, StartOnly(q)
      PROVE  JobOK'
  <2> DEFINE j == Query(q, {}, listed, FALSE, TRUE)
  <2>1. j \in Fetching /\ j.cut /\ j.always = listed
    <3>1. j \in Fetching
      BY <1>1, QueryIs
    <3> QED
      BY <3>1 DEF Query
  <2>2. job' = [j EXCEPT !.only = TRUE] /\ slots' = slots /\ listed' = listed
    BY <1>6 DEF StartOnly
  <2> HIDE DEF j
  <2>3. job' \in Fetching /\ job'.cut /\ job'.always = listed
    BY <2>1, <2>2 DEF Fetching
  <2> QED
    BY <1>2, <2>2, <2>3
<1>7. CASE Fetch \/ CursorMissing
  <2>1. job.always \subseteq listed
    BY <1>7, JobMoves DEF IInv, JobOK
  <2> QED
    BY <1>2, <1>7, <2>1, JobMoves
<1>8. ASSUME NEW i \in Issues, Uncounted(i)
      PROVE  JobOK'
  <2>1. job \in Fetching /\ job.stage = "fetched"
    BY <1>8, JobIs DEF Uncounted
  <2>2. job' = [job EXCEPT !.seen = @ \ {i}, !.cut = TRUE] /\ slots' = slots
    BY <1>8 DEF Uncounted
  <2>3. job' \in Fetching /\ job'.cut /\ job'.stage = "fetched"
    BY <2>1, <2>2 DEF Fetching
  <2> QED
    BY <1>2, <2>2, <2>3
<1>9. CASE Abort
  <2>1. slots' \in [Slots -> {FreeSlot} \cup Snapshot]
    BY <1>1, <1>9 DEF Abort
  <2>2. job' = NoJob
    BY <1>9 DEF Abort
  <2> QED
    BY <2>1, <2>2, Stages DEF JobOK
<1>10. ASSUME NEW s \in Slots, Put(s)
       PROVE  JobOK'
  <2> DEFINE x == [stored |-> TRUE, pending |-> FALSE, applied |-> FALSE, issues |-> job.seen]
  <2>1. x \in Snapshot
    <3>1. job.seen \in SUBSET Issues
      BY <1>10, JobIs DEF Put, Fetching
    <3> QED
      BY <3>1 DEF Snapshot
  <2>2. slots' = [slots EXCEPT ![s] = x] /\ job' = [stage |-> "stored", slot |-> s]
    BY <1>10 DEF Put
  <2>3. job' \in Storing /\ job'.slot = s /\ slots'[s] = x
    BY <1>1, <2>2 DEF Storing
  <2>4. slots' \in [Slots -> {FreeSlot} \cup Snapshot]
    BY <1>1, <2>1, <2>2
  <2> QED
    BY <2>3, <2>4, Stages DEF JobOK
<1>11. CASE Publish
  <2>1. job \in Storing /\ job.slot \in Slots
    BY <1>11, JobIs DEF Publish, Storing
  <2>2. slots[job.slot] \in Snapshot
    BY <1>1, <2>1 DEF FreeSlot
  <2> DEFINE x == [slots[job.slot] EXCEPT !.pending = TRUE]
  <2>3. x \in Snapshot
    BY <2>2 DEF Snapshot
  <2>4. slots' = [slots EXCEPT ![job.slot] = x] /\ job' = NoJob
    BY <1>11 DEF Publish
  <2> HIDE DEF x
  <2>5. slots' \in [Slots -> {FreeSlot} \cup Snapshot]
    BY <1>1, <2>3, <2>4
  <2> QED
    BY <2>4, <2>5, Stages DEF JobOK
\* A slot whose message is delivered is not the job's.
<1>12. ASSUME NEW s \in Slots, slots[s].pending, NEW x \in {FreeSlot} \cup Snapshot,
              slots' = [slots EXCEPT ![s] = x], job' = job, listed' = listed
       PROVE  JobOK'
  <2>1. slots' \in [Slots -> {FreeSlot} \cup Snapshot]
    BY <1>1, <1>12
  <2>2. ASSUME job \in Storing
        PROVE  slots'[job.slot] = slots[job.slot]
    BY <1>1, <1>12, <2>2 DEF Storing
  <2> QED
    BY <1>1, <1>12, <2>1, <2>2 DEF IInv, JobOK
<1>13. ASSUME NEW s \in Slots, Deliver(s) \/ DeliverUnacked(s) \/ DeadLetter(s)
       PROVE  JobOK'
  <2>1. CASE Deliver(s) \/ DeadLetter(s)
    BY <1>12, <2>1 DEF Deliver, DeadLetter
  <2>2. CASE DeliverUnacked(s)
    <3> DEFINE x == [slots[s] EXCEPT !.applied = TRUE]
    <3>1. slots[s] \in Snapshot
      BY <1>1, <2>2 DEF DeliverUnacked, FreeSlot
    <3>2. x \in Snapshot
      BY <3>1 DEF Snapshot
    <3>3. slots[s].pending /\ slots' = [slots EXCEPT ![s] = x] /\ job' = job /\ listed' = listed
      BY <2>2 DEF DeliverUnacked
    <3> HIDE DEF x
    <3> QED
      BY <1>12, <3>2, <3>3
  <2> QED
    BY <1>13, <2>1, <2>2
<1>14. CASE UNCHANGED vars
  BY <1>3, <1>14 DEF vars
<1> QED
  BY <1>4, <1>5, <1>6, <1>7, <1>8, <1>9, <1>10, <1>11, <1>13, <1>14 DEF Next

-----------------------------------------------------------------------------
\* What page n of a listing leaves: later pages, or nothing.
LEMMA PageRead ==
  ASSUME NEW s, IsListing(s), NEW n \in Nat \ {0}, NEW count, count = (n - 1) * PageSize
  PROVE  /\ \A i \in s : (Place(i, s) >= count /\ i \notin Page(s, n)) =>
                           Place(i, s) >= n * PageSize
         /\ (\/ count + Cardinality(Page(s, n)) >= Cardinality(s)
             \/ Page(s, n) = {}) =>
              \A i \in s : Place(i, s) >= count => i \in Page(s, n)
         /\ (count + Cardinality(Page(s, n)) < Cardinality(s)) =>
              count + Cardinality(Page(s, n)) = n * PageSize
<1> DEFINE page == Page(s, n)
           next == n * PageSize
<1>1. /\ count \in Nat /\ next \in Nat /\ next = count + PageSize /\ PageSize \in Nat \ {0}
  BY PageFrom
<1>2. /\ Cardinality(s) \in Nat /\ \A i \in s : Place(i, s) \in 0 .. Cardinality(s) - 1
  BY PlaceIs
<1>3. /\ Cardinality(page) \in 0 .. PageSize
      /\ Cardinality(s) >= next => Cardinality(page) = PageSize
      /\ (Cardinality(s) < next /\ Cardinality(s) >= count) =>
           Cardinality(page) = Cardinality(s) - count
  BY PageIs
<1>4. \A i \in s : i \in page <=> Place(i, s) \in count .. next - 1
  BY DEF Page
<1>5. page = {} => Cardinality(page) = 0
  BY FS_EmptySet
<1> HIDE DEF page, next
<1>6. \A i \in s : (Place(i, s) >= count /\ i \notin page) => Place(i, s) >= next
  BY <1>1, <1>2, <1>4
<1>7. ASSUME count + Cardinality(page) >= Cardinality(s) \/ page = {},
             NEW i \in s, Place(i, s) >= count
      PROVE  i \in page
  <2>1. SUFFICES ASSUME i \notin page PROVE FALSE
    OBVIOUS
  <2>2. Place(i, s) >= next /\ Cardinality(s) > Place(i, s)
    BY <1>1, <1>2, <1>6, <1>7, <2>1
  <2>3. Cardinality(page) = PageSize
    BY <1>1, <1>2, <1>3, <2>2
  <2> QED
    BY <1>1, <1>2, <1>5, <1>7, <2>2, <2>3
<1>8. (count + Cardinality(page) < Cardinality(s)) => count + Cardinality(page) = next
  BY <1>1, <1>2, <1>3
<1> QED
  BY <1>6, <1>7, <1>8 DEF page, next

\* What a page after the cursor leaves: nothing, or what is beyond its last.
LEMMA CursorPage ==
  ASSUME NEW s, IsListing(s)
  PROVE  /\ Cardinality(s) <= PageSize => Page(s, 1) = s
         /\ \A last \in Page(s, 1), i \in s : i <= last => i \in Page(s, 1)
<1>1. /\ Cardinality(s) \in Nat /\ s \subseteq Nat
      /\ \A i \in s : Place(i, s) \in 0 .. Cardinality(s) - 1
      /\ \A i, j \in s : i < j => Place(i, s) < Place(j, s)
  BY PlaceIs DEF IsListing
<1>2. PageSize \in Nat \ {0} /\ (1 - 1) * PageSize = 0 /\ 1 * PageSize = PageSize
  BY PollerAssumption
<1>3. \A i \in s : i \in Page(s, 1) <=> Place(i, s) < PageSize
  BY <1>1, <1>2 DEF Page
<1>4. Page(s, 1) \subseteq s
  BY DEF Page
<1>5. Cardinality(s) <= PageSize => \A i \in s : i \in Page(s, 1)
  BY <1>1, <1>2, <1>3
<1>6. ASSUME NEW last \in Page(s, 1), NEW i \in s, i <= last
      PROVE  i \in Page(s, 1)
  <2>1. last \in s /\ Place(last, s) < PageSize
    BY <1>3, <1>4
  <2>2. i = last \/ i < last
    BY <1>1, <1>6, <2>1
  <2>3. Place(i, s) < PageSize
    BY <1>1, <1>2, <2>1, <2>2
  <2> QED
    BY <1>3, <2>3
<1> QED
  BY <1>4, <1>5, <1>6

\* A query whose listed issues are all seen ends well.
LEMMA AnsweredRead ==
  ASSUME IInv, job.stage = "fetching", ~Excuse, EarlierRead,
         NEW seen \in SUBSET Issues, job.seen \subseteq seen,
         NEW cut \in BOOLEAN, job.cut => cut, job' = Answered(seen, cut),
         listed' = listed, poller' = poller,
         \A i \in job.always : QueryOf[i] = job.query => i \in seen
  PROVE  ReadOK'
<1>1. /\ job \in Fetching /\ (job.only => job.cut) /\ listed \in SUBSET Issues
  BY JobIs DEF IInv, JobOK, ListingOK
<1>2. /\ job.always \in SUBSET Issues /\ job.query \in 1..QueryCount /\ ~job.only
  BY <1>1 DEF Fetching, Excuse
<1>3. /\ job'.always = job.always /\ job'.seen = seen
      /\ \/ job'.stage = "fetched" /\ job.query = QueryCount
         \/ /\ job'.stage = "fetching" /\ job'.query = job.query + 1
            /\ job'.page = 1 /\ job'.count = 0 /\ job'.after = -1
  BY <1>2, AnsweredIs
<1>4. \A i \in job.always : QueryOf[i] \in 1..QueryCount /\ i \in Nat
  BY <1>2, PollerAssumption
<1>5. \A i \in job.always : QueryOf[i] < job.query + 1 => i \in seen
  BY <1>2, <1>4 DEF EarlierRead
<1>6. CASE job'.stage = "fetched" /\ job.query = QueryCount
  <2>1. job'.always \subseteq job'.seen
    BY <1>2, <1>3, <1>4, <1>5, <1>6
  <2> QED
    BY <1>6, <2>1 DEF ReadOK
<1>7. CASE /\ job'.stage = "fetching" /\ job'.query = job.query + 1
           /\ job'.page = 1 /\ job'.count = 0 /\ job'.after = -1
  <2>1. EarlierRead'
    BY <1>3, <1>5, <1>7 DEF EarlierRead
  <2>2. CursorRead'
    BY <1>3, <1>4, <1>7 DEF CursorRead
  <2>3. NumberRead'
    <3>1. 0 = (1 - 1) * PageSize
      BY PollerAssumption
    <3> DEFINE l == {i \in listed : QueryOf[i] = job.query + 1}
    <3>2. IsListing(l)
      <4>1. l \in SUBSET Issues
        BY <1>1
      <4> QED
        BY <4>1, ListingIs
    <3>3. \A i : Place(i, l) \in Nat
      BY <3>2, PlaceGrows
    <3>4. Listing(job.query)' = l
      BY <1>7 DEF Listing
    <3> HIDE DEF l
    <3>5. \A i : Place(i, l) >= 0
      BY <3>3
    <3> QED
      BY <1>7, <3>1, <3>4, <3>5 DEF NumberRead, Place
  <2> QED
    BY <1>7, <2>1, <2>2, <2>3 DEF ReadOK
<1> QED
  BY <1>3, <1>6, <1>7

\* A numbered page.
LEMMA NumberStep ==
  ASSUME IInv, Fetch, poller = "sonarcloud"
  PROVE  ReadOK'
<1> DEFINE l == Listing(job.query)
           items == Page(l, job.page)
           seen == job.seen \cup items
           count == job.count + Cardinality(items)
           cut == job.cut \/ (job.page = HardPageCap /\ count < Cardinality(l))
<1>1. /\ job.stage = "fetching" /\ job \in Fetching /\ job' \in Fetching
      /\ job'.always = job.always /\ job'.shrunk = job.shrunk /\ (job.cut => job'.cut)
      /\ listed' = listed /\ poller' = poller
  BY JobMoves
<1>2. CASE Excuse'
  BY <1>2 DEF ReadOK
<1>3. CASE ~Excuse'
  <2>1. ~Excuse
    BY <1>1, <1>3 DEF Excuse
  <2>2. EarlierRead /\ NumberRead
    BY <1>1, <2>1 DEF IInv, ReadOK
  <2>3. /\ job.page \in 1..HardPageCap /\ job.seen \in SUBSET Issues /\ job.cut \in BOOLEAN
        /\ job.always \in SUBSET Issues /\ job.always \subseteq listed
    BY <1>1 DEF Fetching, IInv, JobOK
  <2>4. l \in SUBSET Issues /\ IsListing(l)
    <3>1. l \in SUBSET Issues
      BY DEF Listing, IInv, ListingOK
    <3> QED
      BY <3>1, ListingIs
  <2>5. items \in SUBSET Issues /\ items \subseteq l
    BY <2>4 DEF Page
  <2>6. job.page \in Nat \ {0} /\ job.count = (job.page - 1) * PageSize
    BY <2>2, <2>3, PollerAssumption DEF NumberRead
  <2>7. /\ \A i \in l : (Place(i, l) >= job.count /\ i \notin items) =>
                          Place(i, l) >= job.page * PageSize
        /\ (count >= Cardinality(l) \/ items = {}) =>
             \A i \in l : Place(i, l) >= job.count => i \in items
        /\ (count < Cardinality(l)) => count = job.page * PageSize
    BY <2>4, <2>6, PageRead
  <2>8. \A i \in job.always : QueryOf[i] = job.query =>
          /\ i \in l
          /\ i \in job.seen \/ Place(i, l) >= job.count
    BY <2>2, <2>3 DEF Listing, NumberRead
  <2>9. seen \in SUBSET Issues /\ job.seen \subseteq seen /\ cut \in BOOLEAN /\ (job.cut => cut)
    BY <2>3, <2>5
  <2>10. /\ (count >= Cardinality(l) \/ items = {} \/ job.page = HardPageCap) =>
              job' = Answered(seen, cut)
         /\ ~(count >= Cardinality(l) \/ items = {} \/ job.page = HardPageCap) =>
              job' = [job EXCEPT !.page = @ + 1, !.count = count, !.seen = seen]
    BY DEF Fetch, PageByNumber
  <2>11. count \in Nat /\ Cardinality(l) \in Nat
    <3>1. Cardinality(items) \in 0 .. PageSize /\ Cardinality(l) \in Nat
      BY <2>4, <2>6, PageIs, PlaceIs
    <3>2. job.count \in Nat
      BY <1>1 DEF Fetching
    <3> HIDE DEF items
    <3> QED
      BY <3>1, <3>2, PollerAssumption
  <2> HIDE DEF l, items, count, cut
  <2>12. CASE count >= Cardinality(l) \/ items = {}
    <3>1. \A i \in job.always : QueryOf[i] = job.query => i \in seen
      BY <2>7, <2>8, <2>12
    <3> HIDE DEF seen
    <3> QED
      BY <1>1, <2>1, <2>2, <2>9, <2>10, <2>12, <3>1, AnsweredRead
  <2>13. CASE count < Cardinality(l) /\ job.page = HardPageCap
    <3>1. cut
      BY <2>13 DEF cut
    <3>2. job' = Answered(seen, cut)
      BY <2>10, <2>13
    <3>3. job'.cut
      BY <1>1, <2>9, <3>1, <3>2, AnsweredIs
    <3> QED
      BY <1>3, <3>3 DEF Excuse
  <2>14. CASE count < Cardinality(l) /\ items # {} /\ job.page # HardPageCap
    <3>1. job' = [job EXCEPT !.page = @ + 1, !.count = count, !.seen = seen]
      BY <2>10, <2>11, <2>14
    <3>2. /\ job'.stage = "fetching" /\ job'.query = job.query /\ job'.page = job.page + 1
          /\ job'.count = count /\ job'.seen = seen
      BY <1>1, <3>1 DEF Fetching
    <3>3. EarlierRead'
      BY <1>1, <2>2, <3>2 DEF EarlierRead
    <3>4. Listing(job.query)' = l
      BY <1>1, <3>2 DEF Listing, l
    <3>5. /\ count = (job.page + 1 - 1) * PageSize /\ count = job.page * PageSize
      <4>1. job.page + 1 - 1 = job.page
        BY <2>6
      <4> QED
        BY <2>7, <2>14, <4>1
    <3>6. ASSUME NEW i \in job.always, QueryOf[i] = job.query, i \notin seen
          PROVE  Place(i, l) >= count
      BY <2>7, <2>8, <3>5, <3>6
    <3>7. \A i \in job'.always :
            (QueryOf[i] = job'.query /\ i \notin job'.seen) => Place(i, l) >= job'.count
      BY <1>1, <3>2, <3>6
    <3>8. NumberRead'
      <4>1. job'.count = (job'.page - 1) * PageSize
        <5>1. job'.page - 1 = job.page
          BY <2>6, <3>2
        <5>2. job'.count = job.page * PageSize
          BY <3>2, <3>5
        <5> QED
          BY <5>1, <5>2
      <4> QED
        BY <3>7, <4>1, <3>4 DEF NumberRead, Place
    <3> QED
      BY <1>1, <3>2, <3>3, <3>8 DEF ReadOK
  <2> QED
    BY <2>11, <2>12, <2>13, <2>14
<1> QED
  BY <1>2, <1>3

\* A page after a cursor.
LEMMA CursorStep ==
  ASSUME IInv, (Fetch /\ poller # "sonarcloud") \/ CursorMissing
  PROVE  ReadOK'
<1> DEFINE seen == job.seen \cup PageItems
<1>1. /\ job.stage = "fetching" /\ job \in Fetching /\ job' \in Fetching
      /\ job'.always = job.always /\ job'.shrunk = job.shrunk /\ (job.cut => job'.cut)
      /\ listed' = listed /\ poller' = poller /\ poller # "sonarcloud"
  BY JobMoves DEF CursorMissing
<1>2. /\ job.seen \in SUBSET Issues /\ job.cut \in BOOLEAN
      /\ job.always \in SUBSET Issues /\ job.always \subseteq listed /\ job.after \in Int
  BY <1>1 DEF Fetching, IInv, JobOK
<1>3. Beyond \in SUBSET Issues /\ IsListing(Beyond)
  <2>1. Beyond \in SUBSET Issues
    BY DEF Beyond, Listing, IInv, ListingOK
  <2> QED
    BY <2>1, ListingIs
<1>4. PageItems \in SUBSET Issues /\ PageItems = Page(Beyond, 1)
  BY <1>3 DEF PageItems, Page
<1>5. seen \in SUBSET Issues /\ job.seen \subseteq seen
  BY <1>2, <1>4
<1>6. CASE Excuse'
  BY <1>6 DEF ReadOK
<1>7. CASE ~Excuse' /\ CursorMissing
  <2>1. job' = Answered(seen, TRUE)
    BY <1>7 DEF CursorMissing
  <2> HIDE DEF seen
  <2>2. job'.cut
    BY <1>1, <1>5, <2>1, AnsweredIs
  <2> QED
    BY <1>7, <2>2 DEF Excuse
<1>8. CASE ~Excuse' /\ Fetch
  <2>1. ~Excuse
    BY <1>1, <1>8 DEF Excuse
  <2>2. EarlierRead /\ CursorRead
    BY <1>1, <2>1 DEF IInv, ReadOK
  <2>3. ASSUME NEW i \in job.always, QueryOf[i] = job.query, i \notin job.seen
        PROVE  i \in Beyond
    <3>1. i \in listed /\ i \in Int
      <4>1. i \in listed /\ i \in Issues
        BY <1>2
      <4> QED
        BY <4>1, PollerAssumption
    <3>2. ~(i <= job.after)
      BY <2>2, <2>3 DEF CursorRead
    <3>3. i > job.after
      BY <1>2, <3>1, <3>2
    <3> QED
      BY <2>3, <3>1, <3>3 DEF Beyond, Listing
  <2>4. CASE Cardinality(Beyond) <= PageSize
    <3>1. job' = Answered(seen, job.cut)
      BY <1>1, <1>8, <2>4 DEF Fetch, PageByCursor
    <3>2. \A i \in job.always : QueryOf[i] = job.query => i \in seen
      BY <1>3, <1>4, <2>3, <2>4, CursorPage
    <3> HIDE DEF seen
    <3> QED
      BY <1>1, <1>2, <1>5, <2>1, <2>2, <3>1, <3>2, AnsweredRead
  <2>5. CASE ~(Cardinality(Beyond) <= PageSize)
    <3>1. PICK last \in PageItems : job' = [job EXCEPT !.after = last, !.seen = seen]
      BY <1>1, <1>8, <2>5 DEF Fetch, PageByCursor
    <3> HIDE DEF seen
    <3>2. /\ job'.stage = "fetching" /\ job'.query = job.query
          /\ job'.after = last /\ job'.seen = seen
      BY <1>1, <3>1 DEF Fetching
    <3>3. EarlierRead'
      BY <1>1, <1>5, <2>2, <3>2 DEF EarlierRead
    <3>4. ASSUME NEW i \in job.always, QueryOf[i] = job.query, i <= last
          PROVE  i \in seen
      <4>1. i \in Beyond => i \in PageItems
        BY <1>3, <1>4, <3>4, CursorPage
      <4> QED
        BY <2>3, <3>4, <4>1 DEF seen
    <3>5. CursorRead'
      BY <1>1, <3>2, <3>4 DEF CursorRead
    <3> QED
      BY <1>1, <3>2, <3>3, <3>5 DEF ReadOK
  <2> QED
    BY <2>4, <2>5
<1> QED
  BY <1>6, <1>7, <1>8

\* The listing changes while it is read.
LEMMA ChangeRead ==
  ASSUME IInv, NEW i \in Issues, Change(i)
  PROVE  ReadOK'
<1>1. listed \in SUBSET Issues /\ poller' = poller
  BY DEF IInv, ListingOK, Change
<1>2. CASE job.stage # "fetching"
  <2>1. job' = job
    BY <1>2 DEF Change
  <2> QED
    BY <1>1, <1>2, <2>1 DEF ReadOK, IInv, Excuse
<1>3. CASE job.stage = "fetching"
  <2>1. job \in Fetching
    BY <1>3, JobIs
  <2>2. job' = [job EXCEPT !.always = @ \ {i}, !.shrunk = @ \/ i \in listed]
    BY <1>3 DEF Change
  <2>3. /\ job'.stage = "fetching" /\ job'.always = job.always \ {i}
        /\ job.shrunk => job'.shrunk
        /\ i \in listed => job'.shrunk
        /\ job'.query = job.query /\ job'.page = job.page /\ job'.after = job.after
        /\ job'.count = job.count /\ job'.seen = job.seen /\ job'.cut = job.cut
    BY <1>3, <2>1, <2>2 DEF Fetching
  <2>4. Excuse => Excuse'
    BY <1>1, <2>3 DEF Excuse
  <2>5. EarlierRead => EarlierRead'
    BY <2>3 DEF EarlierRead
  <2>6. CursorRead => CursorRead'
    BY <2>3 DEF CursorRead
  <2>7. ASSUME NumberRead, i \notin listed
        PROVE  NumberRead'
    <3> DEFINE l == Listing(job.query)
               m == {k \in listed \cup {i} : QueryOf[k] = job.query}
    <3>1. Listing(job.query)' = m
      BY <2>3, <2>7 DEF Change, Listing
    <3>2. l \subseteq m /\ m \in SUBSET Issues
      BY <1>1 DEF Listing
    <3>3. IsListing(m)
      BY <3>2, ListingIs
    <3>4. job.count \in Nat
      BY <2>1 DEF Fetching
    <3>5. ASSUME NEW k \in job.always, QueryOf[k] = job.query, k \notin job.seen
          PROVE  Place(k, m) >= job.count
      <4>1. Place(k, l) >= job.count
        BY <2>7, <3>5 DEF NumberRead
      <4> HIDE DEF l, m
      <4>2. Place(k, l) <= Place(k, m) /\ Place(k, l) \in Nat /\ Place(k, m) \in Nat
        BY <3>2, <3>3, PlaceGrows
      <4> QED
        BY <3>4, <4>1, <4>2
    <3> HIDE DEF l, m
    <3>6. \A k \in job'.always :
            (QueryOf[k] = job'.query /\ k \notin job'.seen) => Place(k, m) >= job'.count
      BY <2>3, <3>5
    <3> QED
      BY <2>3, <2>7, <3>1, <3>6 DEF NumberRead, Place
  <2>8. i \in listed /\ poller = "sonarcloud" => Excuse'
    BY <1>1, <2>3 DEF Excuse
  <2> QED
    BY <1>1, <1>3, <2>3, <2>4, <2>5, <2>6, <2>7, <2>8 DEF ReadOK, IInv
<1> QED
  BY <1>2, <1>3

LEMMA ReadStep ==
  ASSUME IInv, [Next]_vars
  PROVE  ReadOK'
<1>1. ASSUME job' = job, listed' = listed, poller' = poller
      PROVE  ReadOK'
  BY <1>1 DEF IInv, ReadOK, Excuse, EarlierRead, NumberRead, CursorRead, Listing, Place
<1>2. ASSUME job'.stage \notin {"fetching", "fetched"}
      PROVE  ReadOK'
  BY <1>2 DEF ReadOK
<1>3. ASSUME job'.cut
      PROVE  ReadOK'
  BY <1>3 DEF ReadOK, Excuse
<1>4. CASE Start
  <2>1. listed' = listed /\ listed \in SUBSET Issues /\ poller' = poller
    BY <1>4 DEF Start, IInv, ListingOK
  <2>2. /\ job'.stage = "fetching" /\ job'.query = 1 /\ job'.page = 1 /\ job'.after = -1
        /\ job'.count = 0 /\ job'.always = listed
    BY <1>4 DEF Start, Query
  <2>3. \A i \in listed : QueryOf[i] \in 1..QueryCount /\ i \in Nat
    BY <2>1, PollerAssumption
  <2>4. EarlierRead'
    BY <2>1, <2>2, <2>3 DEF EarlierRead
  <2>5. CursorRead'
    BY <2>1, <2>2, <2>3 DEF CursorRead
  <2>6. NumberRead'
    <3> DEFINE l == {i \in listed : QueryOf[i] = 1}
    <3>1. 0 = (1 - 1) * PageSize
      BY PollerAssumption
    <3>2. l \in SUBSET Issues
      BY <2>1
    <3>3. \A i : Place(i, l) \in Nat
      BY <3>2, ListingIs, PlaceGrows
    <3>4. Listing(job.query)' = l
      BY <2>1, <2>2 DEF Listing
    <3> HIDE DEF l
    <3>5. \A i : Place(i, l) >= 0
      BY <3>3
    <3> QED
      BY <2>2, <3>1, <3>4, <3>5 DEF NumberRead, Place
  <2> QED
    BY <2>2, <2>4, <2>5, <2>6 DEF ReadOK
<1>5. ASSUME NEW q \in 1..QueryCount, StartOnly(q)
      PROVE  ReadOK'
  <2>1. job'.cut
    <3>1. FALSE \in BOOLEAN /\ TRUE \in BOOLEAN /\ {} \in SUBSET Issues /\ listed \in SUBSET Issues
      BY DEF IInv, ListingOK
    <3> DEFINE j == Query(q, {}, listed, FALSE, TRUE)
    <3>2. j \in Fetching /\ j.cut
      <4>1. j \in Fetching
        BY <3>1, QueryIs
      <4> QED
        BY <4>1 DEF Query
    <3>3. job' = [j EXCEPT !.only = TRUE]
      BY <1>5 DEF StartOnly
    <3> HIDE DEF j
    <3> QED
      BY <3>2, <3>3 DEF Fetching
  <2> QED
    BY <1>3, <2>1
<1>6. ASSUME NEW i \in Issues, Uncounted(i)
      PROVE  ReadOK'
  <2>1. job \in Fetching
    BY <1>6, JobIs DEF Uncounted
  <2>2. job'.cut
    BY <1>6, <2>1 DEF Uncounted, Fetching
  <2> QED
    BY <1>3, <2>2
<1>7. CASE Abort \/ Publish \/ \E s \in Slots : Put(s)
  BY <1>2, <1>7 DEF Abort, Publish, Put, NoJob
<1>8. CASE \E s \in Slots : Deliver(s) \/ DeliverUnacked(s) \/ DeadLetter(s)
  BY <1>1, <1>8 DEF Deliver, DeliverUnacked, DeadLetter
<1>9. CASE Fetch \/ CursorMissing
  BY <1>9, NumberStep, CursorStep
<1>10. CASE UNCHANGED vars
  BY <1>1, <1>10 DEF vars
<1> QED
  BY <1>4, <1>5, <1>6, <1>7, <1>8, <1>9, <1>10, ChangeRead DEF Next

-----------------------------------------------------------------------------
LEMMA OwedIs ==
  ASSUME NEW owed \in SUBSET Slots
  PROVE  /\ IsFiniteSet(owed) /\ Cardinality(owed) \in Nat
         /\ \A s \in owed : Cardinality(owed \ {s}) = Cardinality(owed) - 1
         /\ \A s \in Slots \ owed : Cardinality(owed \cup {s}) = Cardinality(owed) + 1
         /\ \A less \in SUBSET owed : Cardinality(less) <= Cardinality(owed)
                                      /\ Cardinality(less) \in Nat
<1>1. IsFiniteSet(owed)
  BY PollerAssumption, FS_Subset
<1> QED
  BY <1>1, FS_Subset, FS_AddElement, FS_RemoveElement, FS_CardinalityType

\* A miss counts one more, and closes at the threshold.
LEMMA RowIs ==
  ASSUME NEW row \in Row
  PROVE  /\ RowMisses(row) \in 0 .. Threshold - 1
         /\ Reported \in Row /\ RowMisses(Reported) = 0 /\ Reported.status # "auto_closed"
         /\ Missed(row) \in Row
         /\ (row.status # "auto_closed" /\ RowMisses(row) + 1 < Threshold) =>
              /\ Missed(row).status # "auto_closed"
              /\ RowMisses(Missed(row)) <= RowMisses(row) + 1
<1>1. Threshold \in Nat \ {0} /\ 0 \in 0 .. Threshold - 1
  BY PollerAssumption
<1>2. Reported \in Row /\ RowMisses(Reported) = 0 /\ Reported.status # "auto_closed"
  BY <1>1 DEF Reported, Row, RowMisses
<1>3. CASE row \in {NoRow, Closed}
  <2>1. row.status # "open" /\ Missed(row) = row /\ RowMisses(row) = 0
    BY <1>3 DEF NoRow, Closed, Missed, RowMisses
  <2> QED
    BY <1>1, <1>2, <2>1
<1>4. CASE row \in [status: {"open"}, misses: 0 .. Threshold - 1]
  <2>1. row.status = "open" /\ row.misses \in 0 .. Threshold - 1 /\ RowMisses(row) = row.misses
    BY <1>4 DEF RowMisses
  <2>2. CASE row.misses + 1 >= Threshold
    <3>1. Missed(row) = Closed
      BY <2>1, <2>2 DEF Missed, Closed
    <3> QED
      BY <1>1, <1>2, <2>1, <2>2, <3>1 DEF Row
  <2>3. CASE ~(row.misses + 1 >= Threshold)
    <3>1. Missed(row) = [row EXCEPT !.misses = @ + 1]
      BY <2>1, <2>3 DEF Missed
    <3>2. row.misses + 1 \in 0 .. Threshold - 1
      BY <1>1, <2>1, <2>3
    <3> DEFINE new == Missed(row)
    <3>3. /\ new \in [status: {"open"}, misses: 0 .. Threshold - 1]
          /\ new.status = "open" /\ new.misses = row.misses + 1
      BY <1>4, <3>1, <3>2
    <3> HIDE DEF new
    <3>4. new \in Row /\ new.status # "auto_closed" /\ RowMisses(new) <= RowMisses(row) + 1
      BY <2>1, <3>2, <3>3 DEF Row, RowMisses
    <3> QED
      BY <1>2, <2>1, <3>4 DEF new
  <2> QED
    BY <2>2, <2>3
<1> QED
  BY <1>3, <1>4 DEF Row

\* Nothing is owed more, and the rows stay.
LEMMA FewerOwed ==
  ASSUME IInv, rows' = rows, omitted' = omitted, steady' \subseteq steady,
         \A i \in Issues : Owed(i)' \subseteq Owed(i)
  PROVE  MissesOK'
<1>1. MissesOK /\ steady' \in SUBSET Issues
  BY DEF IInv, ListingOK
<1>2. ASSUME NEW i \in steady', omitted[i] < Threshold
      PROVE  /\ rows[i].status # "auto_closed"
             /\ RowMisses(rows'[i]) + Cardinality(Owed(i)') <= omitted[i]
  <2>1. /\ rows[i].status # "auto_closed" /\ i \in Issues
        /\ RowMisses(rows[i]) + Cardinality(Owed(i)) <= omitted[i]
    BY <1>1, <1>2 DEF MissesOK
  <2> DEFINE more == Owed(i)
             less == Owed(i)'
  <2>2. more \in SUBSET Slots /\ less \in SUBSET more
    BY <2>1 DEF Owed
  <2> HIDE DEF more, less
  <2>3. Cardinality(less) <= Cardinality(more) /\ Cardinality(less) \in Nat
        /\ Cardinality(more) \in Nat
    BY <2>2, OwedIs
  <2>4. RowMisses(rows'[i]) = RowMisses(rows[i]) /\ RowMisses(rows[i]) \in Nat /\ omitted[i] \in Nat
    <3>1. rows[i] \in Row /\ omitted[i] \in 0..Threshold
      BY <1>1, <2>1 DEF MissesOK
    <3>2. RowMisses(rows[i]) \in 0 .. Threshold - 1
      BY <3>1, RowIs
    <3> QED
      BY <3>1, <3>2, PollerAssumption
  <2>5. RowMisses(rows'[i]) + Cardinality(less) <= omitted[i]
    BY <2>1, <2>3, <2>4 DEF more
  <2> QED
    BY <2>1, <2>5 DEF less
<1> QED
  BY <1>1, <1>2 DEF MissesOK

\* A message is settled, or its snapshot marked as applied: what the snapshot
\* owed is counted now, or it was never owed.
LEMMA DeliveryMisses ==
  ASSUME IInv, NEW s \in Slots, slots[s].pending,
         Apply(s) \/ rows' = rows,
         slots' = [slots EXCEPT ![s] = FreeSlot] \/ slots' = [slots EXCEPT ![s].applied = TRUE],
         omitted' = omitted, steady' = steady
  PROVE  MissesOK'
<1>1. /\ slots \in [Slots -> {FreeSlot} \cup Snapshot] /\ steady \in SUBSET Issues
      /\ rows \in [Issues -> Row] /\ omitted \in [Issues -> 0..Threshold]
  BY DEF IInv, JobOK, ListingOK, MissesOK
<1>2. /\ slots[s] \in Snapshot /\ slots[s].stored
  <2>1. slots[s] # FreeSlot
    BY DEF FreeSlot
  <2>2. slots[s] \in Snapshot
    BY <1>1, <2>1
  <2> QED
    BY <2>2 DEF Snapshot
<1>3. ASSUME NEW i \in Issues
      PROVE  Owed(i)' = Owed(i) \ {s}
  <2>1. \A t \in Slots : t # s => slots'[t] = slots[t]
    BY <1>1
  <2>2. ~slots'[s].stored \/ slots'[s].applied
    <3>1. CASE slots' = [slots EXCEPT ![s] = FreeSlot]
      BY <1>1, <3>1 DEF FreeSlot
    <3>2. CASE slots' = [slots EXCEPT ![s].applied = TRUE]
      <4>1. slots'[s] = [slots[s] EXCEPT !.applied = TRUE]
        BY <1>1, <3>2
      <4> QED
        BY <1>2, <4>1 DEF Snapshot
    <3> QED
      BY <3>1, <3>2
  <2> QED
    BY <2>1, <2>2 DEF Owed
<1>4. CASE rows' = rows
  BY <1>3, <1>4, FewerOwed
<1>5. CASE Apply(s) /\ slots[s].applied
  <2>1. rows' = rows
    BY <1>1, <1>5 DEF Apply
  <2> QED
    BY <1>3, <2>1, FewerOwed
<1>6. CASE Apply(s) /\ ~slots[s].applied
  <2>1. rows' = [i \in Issues |-> IF i \in slots[s].issues THEN Reported ELSE Missed(rows[i])]
    BY <1>6 DEF Apply
  <2>2. rows' \in [Issues -> Row]
    BY <1>1, <2>1, RowIs
  <2>3. ASSUME NEW i \in steady, omitted[i] < Threshold
        PROVE  /\ rows'[i].status # "auto_closed"
               /\ RowMisses(rows'[i]) + Cardinality(Owed(i)') <= omitted[i]
    <3> DEFINE owed == Owed(i)
               row == rows[i]
    <3>1. /\ i \in Issues /\ row \in Row /\ omitted[i] \in 0..Threshold
          /\ row.status # "auto_closed" /\ RowMisses(row) + Cardinality(owed) <= omitted[i]
      BY <1>1, <2>3 DEF IInv, MissesOK
    <3>2. owed \in SUBSET Slots /\ Owed(i)' = owed \ {s} /\ owed \ {s} \in SUBSET owed
      BY <1>3, <3>1 DEF Owed
    <3>3. s \in owed <=> i \notin slots[s].issues
      BY <1>2, <1>6 DEF Owed
    <3> HIDE DEF owed, row
    <3>4. /\ Cardinality(owed \ {s}) <= Cardinality(owed) /\ Cardinality(owed) \in Nat
          /\ Cardinality(owed \ {s}) \in Nat
          /\ s \in owed => Cardinality(owed \ {s}) = Cardinality(owed) - 1
      BY <3>2, OwedIs
    <3>5. RowMisses(row) \in 0 .. Threshold - 1 /\ Threshold \in Nat
      BY <3>1, RowIs, PollerAssumption
    <3>6. CASE i \in slots[s].issues
      <4>1. rows'[i] = Reported
        BY <2>1, <3>1, <3>6
      <4>2. RowMisses(Reported) = 0 /\ Reported.status # "auto_closed"
        BY <3>1, RowIs
      <4> QED
        BY <3>1, <3>2, <3>4, <3>5, <4>1, <4>2
    <3>7. CASE i \notin slots[s].issues
      <4>1. rows'[i] = Missed(row)
        BY <2>1, <3>1, <3>7 DEF row
      <4>2. RowMisses(row) + 1 < Threshold
        BY <2>3, <3>1, <3>3, <3>4, <3>5, <3>7
      <4>3. /\ Missed(row).status # "auto_closed"
            /\ RowMisses(Missed(row)) <= RowMisses(row) + 1
            /\ RowMisses(Missed(row)) \in 0 .. Threshold - 1
        BY <3>1, <4>2, RowIs
      <4> QED
        BY <3>1, <3>2, <3>3, <3>4, <3>5, <3>7, <4>1, <4>3
    <3> QED
      BY <3>6, <3>7
  <2> QED
    BY <1>1, <2>2, <2>3 DEF MissesOK
<1> QED
  BY <1>4, <1>5, <1>6

\* A snapshot that lacks a steady issue is one more that owes it a miss.
LEMMA PutMisses ==
  ASSUME IInv, NEW s \in Slots, Put(s)
  PROVE  MissesOK'
<1>1. /\ slots \in [Slots -> {FreeSlot} \cup Snapshot] /\ steady \in SUBSET Issues
      /\ rows \in [Issues -> Row] /\ omitted \in [Issues -> 0..Threshold]
  BY DEF IInv, JobOK, ListingOK, MissesOK
<1>2. /\ slots[s] = FreeSlot /\ rows' = rows /\ steady' = steady
      /\ omitted' = [i \in Issues |-> IF i \in steady \ job.seen /\ omitted[i] < Threshold
                                      THEN omitted[i] + 1 ELSE omitted[i]]
  BY DEF Put
<1>3. ASSUME NEW i \in Issues
      PROVE  /\ s \notin Owed(i)
             /\ Owed(i)' = IF i \in job.seen THEN Owed(i) ELSE Owed(i) \cup {s}
  <2>1. \A t \in Slots : t # s => slots'[t] = slots[t]
    BY <1>1 DEF Put
  <2>2. slots'[s].stored /\ ~slots'[s].applied /\ slots'[s].issues = job.seen
    BY <1>1 DEF Put
  <2>3. ~slots[s].stored
    BY <1>2 DEF FreeSlot
  <2> QED
    BY <2>1, <2>2, <2>3 DEF Owed
<1>4. omitted' \in [Issues -> 0..Threshold]
  BY <1>1, <1>2, PollerAssumption
<1>5. ASSUME NEW i \in steady, omitted'[i] < Threshold
      PROVE  /\ rows[i].status # "auto_closed"
             /\ RowMisses(rows[i]) + Cardinality(Owed(i)') <= omitted'[i]
  <2> DEFINE owed == Owed(i)
             row == rows[i]
  <2>1. /\ i \in Issues /\ omitted[i] \in 0..Threshold /\ Threshold \in Nat /\ row \in Row
    BY <1>1, PollerAssumption
  <2>2. omitted[i] < Threshold /\ omitted'[i] = IF i \in job.seen THEN omitted[i] ELSE omitted[i] + 1
    BY <1>2, <1>5, <2>1
  <2>3. /\ row.status # "auto_closed" /\ RowMisses(row) + Cardinality(owed) <= omitted[i]
    BY <2>2 DEF IInv, MissesOK
  <2>4. /\ owed \in SUBSET Slots /\ s \in Slots \ owed
        /\ Owed(i)' = IF i \in job.seen THEN owed ELSE owed \cup {s}
    <3>1. owed \in SUBSET Slots
      BY DEF Owed
    <3> QED
      BY <1>3, <2>1, <3>1
  <2> HIDE DEF owed, row
  <2>5. /\ Cardinality(owed) \in Nat /\ Cardinality(owed \cup {s}) = Cardinality(owed) + 1
        /\ RowMisses(row) \in 0 .. Threshold - 1
    BY <2>1, <2>4, OwedIs, RowIs
  <2>6. RowMisses(row) + Cardinality(Owed(i)') <= omitted'[i]
    <3>1. CASE i \in job.seen
      BY <2>2, <2>3, <2>4, <3>1
    <3>2. CASE i \notin job.seen
      BY <2>1, <2>2, <2>3, <2>4, <2>5, <3>2
    <3> QED
      BY <3>1, <3>2
  <2> QED
    BY <2>3, <2>6 DEF row
<1> QED
  BY <1>1, <1>2, <1>4, <1>5 DEF MissesOK

LEMMA MissesStep ==
  ASSUME IInv, [Next]_vars
  PROVE  MissesOK'
<1>1. /\ slots \in [Slots -> {FreeSlot} \cup Snapshot] /\ steady \in SUBSET Issues
      /\ rows \in [Issues -> Row] /\ omitted \in [Issues -> 0..Threshold]
  BY DEF IInv, JobOK, ListingOK, MissesOK
<1>2. ASSUME UNCHANGED <<slots, rows, omitted, steady>>
      PROVE  MissesOK'
  BY <1>2 DEF IInv, MissesOK, Owed
<1>3. ASSUME NEW i \in Issues, Change(i)
      PROVE  MissesOK'
  <2>1. /\ steady' = steady \ {i} /\ omitted' = [omitted EXCEPT ![i] = 0]
        /\ rows' = rows /\ slots' = slots
    BY <1>3 DEF Change
  <2>2. omitted' \in [Issues -> 0..Threshold]
    BY <1>1, <2>1, PollerAssumption
  <2>3. \A k \in steady' : k \in steady /\ omitted'[k] = omitted[k]
    BY <1>1, <2>1
  <2>4. \A k \in Issues : Owed(k)' = Owed(k)
    BY <2>1 DEF Owed
  <2> QED
    BY <1>1, <2>1, <2>2, <2>3, <2>4 DEF IInv, MissesOK
<1>4. CASE Abort
  <2>1. \A i \in Issues : Owed(i)' \subseteq Owed(i)
    BY <1>4 DEF Abort, Owed, FreeSlot
  <2> QED
    BY <1>4, <2>1, FewerOwed DEF Abort
<1>5. CASE Publish
  <2>1. job \in Storing /\ job.slot \in Slots
    BY <1>5, JobIs DEF Publish, Storing
  <2>2. slots[job.slot] \in Snapshot
    BY <1>1, <2>1 DEF IInv, JobOK, FreeSlot
  <2> DEFINE x == [slots[job.slot] EXCEPT !.pending = TRUE]
  <2>3. x.stored /\ x.applied = slots[job.slot].applied /\ x.issues = slots[job.slot].issues
    BY <2>2 DEF Snapshot
  <2>4. slots' = [slots EXCEPT ![job.slot] = x]
    BY <1>5 DEF Publish
  <2> HIDE DEF x
  <2>5. \A i \in Issues : Owed(i)' \subseteq Owed(i)
    BY <1>1, <2>1, <2>2, <2>3, <2>4 DEF Owed, Snapshot
  <2> QED
    BY <1>5, <2>5, FewerOwed DEF Publish
<1>6. CASE \E s \in Slots : Deliver(s) \/ DeliverUnacked(s) \/ DeadLetter(s)
  BY <1>6, DeliveryMisses DEF Deliver, DeliverUnacked, DeadLetter
<1>7. CASE Start \/ Fetch \/ CursorMissing \/ \E q \in 1..QueryCount : StartOnly(q)
  BY <1>2, <1>7, JobMoves DEF Start, StartOnly
<1>8. CASE \E i \in Issues : Uncounted(i)
  BY <1>2, <1>8 DEF Uncounted
<1>9. CASE UNCHANGED vars
  BY <1>2, <1>9 DEF vars
<1> QED
  BY <1>3, <1>4, <1>5, <1>6, <1>7, <1>8, <1>9, PutMisses DEF Next

-----------------------------------------------------------------------------
LEMMA Invariance == Spec => []IInv
<1>1. IInv /\ [Next]_vars => IInv'
  BY ListingStep, JobStep, ReadStep, MissesStep DEF IInv
<1> QED
  BY InitInv, <1>1, PTL DEF Spec

\* Jobs, slots and rows keep their types, and a message always names a
\* snapshot that is in the raw store: the poller publishes the uri of what it
\* has stored, and only a snapshot no message names is left behind by a job
\* that dies.
THEOREM TypeCorrect == Spec => []TypeOK
<1>1. IInv => TypeOK
  <2> SUFFICES ASSUME IInv PROVE TypeOK
    OBVIOUS
  <2>1. job.stage \in {"idle", "fetching", "fetched", "stored"}
    BY Stages DEF IInv, JobOK
  <2>2. job.stage = "fetching" => job.page \in 1..HardPageCap /\ job.query \in 1..QueryCount
    BY JobIs DEF Fetching
  <2>3. \A s \in Slots : /\ slots[s].pending => slots[s].stored
                         /\ slots[s].stored => slots[s].issues \subseteq Issues
    <3>1. ~FreeSlot.pending /\ ~FreeSlot.stored
      BY DEF FreeSlot
    <3>2. \A x \in Snapshot : x.stored /\ x.issues \subseteq Issues
      BY DEF Snapshot
    <3>3. \A s \in Slots : slots[s] = FreeSlot \/ slots[s] \in Snapshot
      BY DEF IInv, JobOK
    <3> QED
      BY <3>1, <3>2, <3>3
  <2>4. \A i \in Issues : rows[i].status = "open" => rows[i].misses \in 0..(Threshold - 1)
    BY DEF IInv, MissesOK, Row, NoRow, Closed
  <2> QED
    BY <2>1, <2>2, <2>3, <2>4 DEF IInv, ListingOK, TypeOK
<1> QED
  BY Invariance, <1>1, PTL

\* What a finished poll lacks although the scanner listed it all the time is
\* explained by a poll that was cut short or, with SonarCloud's numbered
\* pages, by something that was taken off the listing meanwhile: the loops
\* over pages, by number and by cursor, otherwise read everything, whatever
\* appears while they do.
THEOREM OmissionsAreExplained == Spec => []OmissionsExplained
<1>1. IInv => OmissionsExplained
  BY DEF IInv, ReadOK, Excuse, OmissionsExplained
<1> QED
  BY Invariance, <1>1, PTL

\* A finding whose issue has been listed all the time is closed only when as
\* many stored snapshots lacked it as the threshold says, in whatever order
\* and however often process_snapshot gets them.
THEOREM OneBadPoll == Spec => []OneBadPollIsTolerated
<1>1. IInv => OneBadPollIsTolerated
  <2> SUFFICES ASSUME IInv, NEW i \in steady, rows[i].status = "auto_closed"
               PROVE  omitted[i] >= Threshold
    BY DEF OneBadPollIsTolerated
  <2>1. omitted[i] \in 0..Threshold /\ ~(omitted[i] < Threshold)
    BY DEF IInv, MissesOK, ListingOK
  <2> QED
    BY <2>1, PollerAssumption
<1> QED
  BY Invariance, <1>1, PTL

-----------------------------------------------------------------------------
(***************************************************************************)
(* The listing has come to rest: towards Converges.                        *)
(***************************************************************************)
\* Neither the listing changes nor is a poll cut short.  Jobs may die and
\* messages may be repeated or given up.
AtRest ==
  /\ listed' = listed
  /\ ~CursorMissing
  /\ ~(\E q \in 1..QueryCount : StartOnly(q))
  /\ ~(\E i \in Issues : Uncounted(i))

\* A poll begun since; a stored snapshot of such a poll; a finding that is as
\* the scanner has it.
WholeJob ==
  job.stage \in {"fetching", "fetched"} =>
    job.always = listed /\ job.seen \subseteq listed /\ ~job.cut /\ ~job.shrunk
WholeSlot(s) == slots[s].stored => slots[s].issues = listed
Agrees(i) == rows[i].status = "open" <=> i \in listed

\* Pages hold what is listed, and those by number end before the cap.
LEMMA WholeFetch ==
  ASSUME IInv, Fetch, WholeJob, Fits
  PROVE  job'.always = listed /\ job'.seen \subseteq listed /\ ~job'.cut /\ ~job'.shrunk
<1>1. /\ job.stage = "fetching" /\ job \in Fetching
      /\ job'.always = job.always /\ job'.shrunk = job.shrunk
  BY JobMoves
<1>2. /\ job.always = listed /\ job.seen \subseteq listed /\ ~job.cut /\ ~job.shrunk
      /\ listed \in SUBSET Issues
  BY <1>1 DEF WholeJob, IInv, ListingOK
<1> SUFFICES job'.seen \subseteq listed /\ ~job'.cut
  BY <1>1, <1>2
<1>3. /\ job.page \in 1..HardPageCap /\ job.query \in 1..QueryCount /\ job.count \in Nat
      /\ job.cut \in BOOLEAN
  BY <1>1 DEF Fetching
<1>4. CASE poller = "sonarcloud"
  <2> DEFINE l == Listing(job.query)
             items == Page(l, job.page)
             seen == job.seen \cup items
             count == job.count + Cardinality(items)
             last == job.page = HardPageCap
             cut == job.cut \/ (last /\ count < Cardinality(l))
  <2>1. l \subseteq listed /\ IsListing(l)
    <3>1. l \subseteq listed /\ l \in SUBSET Issues
      BY <1>2 DEF Listing
    <3> QED
      BY <3>1, ListingIs
  <2>2. items \subseteq listed
    BY <2>1 DEF Page
  <2>3. seen \in SUBSET Issues /\ seen \subseteq listed
    BY <1>2, <2>2
  <2>4. NumberRead
    BY <1>1, <1>2, <1>4 DEF IInv, ReadOK, Excuse
  <2>5. job.page \in Nat \ {0} /\ job.count = (job.page - 1) * PageSize
    BY <1>3, <2>4, PollerAssumption DEF NumberRead
  <2>6. count < Cardinality(l) => count = job.page * PageSize
    BY <2>1, <2>5, PageRead
  <2>7. Cardinality(l) <= PageSize * HardPageCap /\ Cardinality(l) \in Nat
    BY <1>3, <1>4, <2>1, PlaceIs DEF Fits
  <2>8. ~(last /\ count < Cardinality(l))
    <3> HIDE DEF l, count
    <3>1. SUFFICES ASSUME job.page = HardPageCap, count < Cardinality(l) PROVE FALSE
      OBVIOUS
    <3>2. count = HardPageCap * PageSize
      BY <2>6, <3>1
    <3>3. HardPageCap * PageSize = PageSize * HardPageCap /\ PageSize * HardPageCap \in Nat
      BY PollerAssumption
    <3> QED
      BY <2>7, <3>1, <3>2, <3>3
  <2>9. \/ job' = Answered(seen, cut)
        \/ job' = [job EXCEPT !.page = @ + 1, !.count = count, !.seen = seen]
    BY <1>4 DEF Fetch, PageByNumber
  <2>10. cut \in BOOLEAN /\ ~cut /\ (job.cut => cut)
    BY <1>2, <1>3, <2>8
  <2> HIDE DEF seen, count, cut
  <2>11. CASE job' = Answered(seen, cut)
    BY <1>1, <2>3, <2>10, <2>11, AnsweredIs
  <2>12. CASE job' = [job EXCEPT !.page = @ + 1, !.count = count, !.seen = seen]
    <3>1. job'.seen = seen /\ (job'.cut <=> job.cut)
      BY <1>1, <2>12 DEF Fetching
    <3> QED
      BY <1>2, <2>3, <3>1
  <2> QED
    BY <2>9, <2>11, <2>12
<1>5. CASE poller # "sonarcloud"
  <2> DEFINE seen == job.seen \cup PageItems
  <2>1. PageItems \subseteq listed
    BY DEF PageItems, Page, Beyond, Listing
  <2>2. seen \in SUBSET Issues /\ seen \subseteq listed /\ job.seen \subseteq seen
    BY <1>2, <2>1
  <2>3. \/ job' = Answered(seen, job.cut)
        \/ \E last \in PageItems : job' = [job EXCEPT !.after = last, !.seen = seen]
    BY <1>5 DEF Fetch, PageByCursor
  <2> HIDE DEF seen
  <2>4. CASE job' = Answered(seen, job.cut)
    <3>1. job'.seen = seen /\ job'.cut = job.cut
      BY <1>1, <1>3, <2>2, <2>4, AnsweredIs
    <3> QED
      BY <1>2, <2>2, <3>1
  <2>5. ASSUME NEW last \in PageItems, job' = [job EXCEPT !.after = last, !.seen = seen]
        PROVE  job'.seen \subseteq listed /\ ~job'.cut
    <3>1. job'.seen = seen /\ (job'.cut <=> job.cut)
      BY <1>1, <2>5 DEF Fetching
    <3> QED
      BY <1>2, <2>2, <3>1
  <2> QED
    BY <2>3, <2>4, <2>5
<1> QED
  BY <1>4, <1>5

LEMMA WholeJobStep ==
  ASSUME IInv, [Next]_vars, AtRest, Fits, WholeJob
  PROVE  WholeJob'
<1>1. ASSUME NEW i \in Issues, Change(i) PROVE FALSE
  BY <1>1 DEF Change, AtRest
<1>2. CASE Start
  <2>1. job' = Query(1, {}, listed, FALSE, FALSE)
    BY <1>2 DEF Start
  <2>2. job'.always = listed /\ job'.seen = {} /\ ~job'.cut /\ ~job'.shrunk
    BY <2>1 DEF Query
  <2> QED
    BY <2>2 DEF WholeJob, AtRest
<1>3. CASE Fetch
  BY <1>3, WholeFetch DEF WholeJob, AtRest
<1>4. CASE Abort \/ Publish \/ \E s \in Slots : Put(s)
  BY <1>4 DEF Abort, Publish, Put, NoJob, WholeJob
<1>5. CASE \/ \E s \in Slots : Deliver(s) \/ DeliverUnacked(s) \/ DeadLetter(s)
           \/ UNCHANGED vars
  BY <1>5 DEF Deliver, DeliverUnacked, DeadLetter, vars, WholeJob, AtRest
<1> QED
  BY <1>1, <1>2, <1>3, <1>4, <1>5 DEF Next, AtRest

LEMMA WholeSlotStep ==
  ASSUME IInv, [Next]_vars, AtRest, WholeJob, NEW s \in Slots, WholeSlot(s)
  PROVE  WholeSlot(s)'
<1>1. /\ slots \in [Slots -> {FreeSlot} \cup Snapshot] /\ listed' = listed
      /\ slots[s] \in {FreeSlot} \cup Snapshot
  BY DEF IInv, JobOK, AtRest
<1>2. ~FreeSlot.stored
  BY DEF FreeSlot
<1>3. CASE slots'[s] \in {slots[s], FreeSlot}
  BY <1>1, <1>2, <1>3 DEF WholeSlot
<1>4. ASSUME NEW t \in Slots, Put(t) PROVE WholeSlot(s)'
  <2>1. job.stage = "fetched" /\ job \in Fetching
    BY <1>4, JobIs DEF Put
  <2>2. job.seen = listed
    <3>1. job.always = listed /\ job.seen \subseteq listed /\ ~Excuse
      BY <2>1 DEF WholeJob, Excuse
    <3> QED
      BY <2>1, <3>1 DEF IInv, ReadOK
  <2>3. slots' = [slots EXCEPT ![t] = [stored |-> TRUE, pending |-> FALSE,
                                       applied |-> FALSE, issues |-> job.seen]]
    BY <1>4 DEF Put
  <2>4. CASE s = t
    BY <1>1, <2>2, <2>3, <2>4 DEF WholeSlot
  <2>5. CASE s # t
    BY <1>1, <1>3, <2>3, <2>5
  <2> QED
    BY <2>4, <2>5
<1>5. CASE Publish
  <2>1. job \in Storing /\ job.slot \in Slots
    BY <1>5, JobIs DEF Publish, Storing
  <2>2. slots[job.slot] \in Snapshot
    BY <1>1, <1>2, <2>1 DEF IInv, JobOK
  <2>3. slots' = [slots EXCEPT ![job.slot].pending = TRUE]
    BY <1>5 DEF Publish
  <2>4. CASE s = job.slot
    <3>1. slots'[s].issues = slots[s].issues /\ slots[s].stored
      BY <1>1, <2>2, <2>3, <2>4 DEF Snapshot
    <3> QED
      BY <1>1, <3>1 DEF WholeSlot
  <2>5. CASE s # job.slot
    BY <1>1, <1>3, <2>1, <2>3, <2>5
  <2> QED
    BY <2>4, <2>5
<1>6. ASSUME NEW t \in Slots, DeliverUnacked(t) PROVE WholeSlot(s)'
  <2>1. slots' = [slots EXCEPT ![t].applied = TRUE] /\ slots[t].pending
    BY <1>6 DEF DeliverUnacked
  <2>2. slots[t] \in Snapshot
    BY <1>1, <2>1 DEF FreeSlot
  <2>3. CASE s = t
    <3>1. slots'[s].issues = slots[s].issues /\ slots[s].stored
      BY <1>1, <2>1, <2>2, <2>3 DEF Snapshot
    <3> QED
      BY <1>1, <3>1 DEF WholeSlot
  <2>4. CASE s # t
    BY <1>1, <1>3, <2>1, <2>4
  <2> QED
    BY <2>3, <2>4
<1>7. ASSUME NEW t \in Slots, Deliver(t) \/ DeadLetter(t) PROVE slots'[s] \in {slots[s], FreeSlot}
  BY <1>1, <1>7 DEF Deliver, DeadLetter
<1>8. CASE Abort
  BY <1>1, <1>3, <1>8 DEF Abort
<1>9. CASE Start \/ Fetch \/ UNCHANGED vars
  BY <1>3, <1>9 DEF Start, Fetch, vars
<1>10. ASSUME NEW i \in Issues, Change(i) PROVE FALSE
  BY <1>10 DEF Change, AtRest
<1> QED
  BY <1>3, <1>4, <1>5, <1>6, <1>7, <1>8, <1>9, <1>10 DEF Next, AtRest

\* The rows after a delivery of a whole snapshot.
LEMMA WholeDelivery ==
  ASSUME IInv, NEW s \in Slots, slots[s].pending, Apply(s), WholeSlot(s), NEW i \in Issues
  PROVE  rows'[i] = IF slots[s].applied THEN rows[i]
                    ELSE IF i \in listed THEN Reported ELSE Missed(rows[i])
<1>1. slots[s] \in {FreeSlot} \cup Snapshot
  BY DEF IInv, JobOK
<1>2. slots[s].stored
  <2>1. ~FreeSlot.pending /\ \A x \in Snapshot : x.stored
    BY DEF FreeSlot, Snapshot
  <2> QED
    BY <1>1, <2>1
<1>3. slots[s].issues = listed
  BY <1>2 DEF WholeSlot
<1> QED
  BY <1>3 DEF Apply

LEMMA MissedIs ==
  ASSUME NEW row
  PROVE  /\ row.status # "open" => Missed(row) = row
         /\ Missed(row).status = "open" =>
              row.status = "open" /\ Missed(row) = [row EXCEPT !.misses = @ + 1]
BY DEF Missed

LEMMA RowsStep ==
  ASSUME IInv, [Next]_vars, AtRest, \A s \in Slots : WholeSlot(s),
         NEW i \in Issues, Agrees(i)
  PROVE  Agrees(i)'
<1>1. CASE rows' = rows
  BY <1>1 DEF Agrees, AtRest
<1>2. ASSUME NEW s \in Slots, Deliver(s) \/ DeliverUnacked(s) PROVE Agrees(i)'
  <2>1. rows'[i] = IF slots[s].applied THEN rows[i]
                   ELSE IF i \in listed THEN Reported ELSE Missed(rows[i])
    BY <1>2, WholeDelivery DEF Deliver, DeliverUnacked
  <2>2. Reported.status = "open"
    BY DEF Reported
  <2> QED
    BY <2>1, <2>2, MissedIs DEF Agrees, AtRest
<1>3. CASE UNCHANGED vars
  BY <1>1, <1>3 DEF vars
<1> QED
  BY <1>1, <1>2, <1>3 DEF Next, Change, Uncounted, StartOnly, Start, Fetch, CursorMissing,
     Abort, Publish, Put, DeadLetter

\* While the listing rests, a poll begun since then lists all of it and nothing
\* else, by cursor and, if its issues fit under the cap, by number; so does
\* the snapshot that is made of it, to its last delivery.
WholePollsFollow ==
  [][AtRest /\ Fits /\ WholeJob =>
       /\ WholeJob'
       /\ \A s \in Slots : WholeSlot(s) => WholeSlot(s)']_vars

\* When only such snapshots are left, a finding that is as the scanner has it
\* stays so, and one more delivery of a snapshot that was not applied yet opens
\* what is listed and brings the rest one miss nearer to its closing.
RowsSettle ==
  [][AtRest /\ (\A s \in Slots : WholeSlot(s)) =>
       \A i \in Issues :
         /\ Agrees(i) => Agrees(i)'
         /\ \A s \in Slots : Deliver(s) /\ ~slots[s].applied =>
              \/ Agrees(i)'
              \/ /\ i \notin listed /\ rows[i].status = "open"
                 /\ rows'[i] = [rows[i] EXCEPT !.misses = @ + 1]]_vars

\* The loops over pages of the pollers: once the scanner's listing rests, every
\* complete poll is exactly the listing, whatever the earlier ones were.
THEOREM WholePollsDoFollow == Spec => WholePollsFollow
<1>1. ASSUME IInv, [Next]_vars, AtRest, Fits, WholeJob
      PROVE  WholeJob' /\ \A s \in Slots : WholeSlot(s) => WholeSlot(s)'
  BY <1>1, WholeJobStep, WholeSlotStep
<1> QED
  BY <1>1, Invariance, PTL DEF Spec, WholePollsFollow

\* process_snapshot, given such snapshots in any order and number, moves each
\* finding towards what the scanner lists and never away from it: what Converges
\* says but for the fairness that makes the polls happen.
THEOREM RowsDoSettle == Spec => RowsSettle
<1>1. ASSUME IInv, [Next]_vars, AtRest, \A s \in Slots : WholeSlot(s)
      PROVE  \A i \in Issues :
               /\ Agrees(i) => Agrees(i)'
               /\ \A s \in Slots : Deliver(s) /\ ~slots[s].applied =>
                    \/ Agrees(i)'
                    \/ /\ i \notin listed /\ rows[i].status = "open"
                       /\ rows'[i] = [rows[i] EXCEPT !.misses = @ + 1]
  <2>1. ASSUME NEW i \in Issues, NEW s \in Slots, Deliver(s), ~slots[s].applied
        PROVE  \/ Agrees(i)'
               \/ /\ i \notin listed /\ rows[i].status = "open"
                  /\ rows'[i] = [rows[i] EXCEPT !.misses = @ + 1]
    <3>1. rows'[i] = IF i \in listed THEN Reported ELSE Missed(rows[i])
      BY <1>1, <2>1, WholeDelivery DEF Deliver
    <3>2. listed' = listed /\ Reported.status = "open"
      BY <2>1 DEF Deliver, Reported
    <3> QED
      BY <3>1, <3>2, MissedIs DEF Agrees
  <2> QED
    BY <1>1, <2>1, RowsStep
<1> QED
  BY <1>1, Invariance, PTL DEF Spec, RowsSettle
=============================================================================
