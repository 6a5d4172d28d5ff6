------------------------- MODULE ConfigurationProofs -------------------------
(***************************************************************************)
(* The theorems of Configuration, for any contents of the files, revisions *)
(* and instances, and any bounds on the age of a cached file, on a read    *)
(* and on the failures; and those of Ownership, what becomes of one of the *)
(* files: for any findings, assets, teams, contents of ownership.yaml and  *)
(* instances.                                                              *)
(***************************************************************************)
EXTENDS Configuration, Ownership, TLAPS

\* The inductive invariant, in parts.  The bucket is of the revision that is
\* being applied, except for the files to come.
BucketOK ==
  /\ bucket \in [Files -> ValidRevisions]
  /\ todo \in [rev: ValidRevisions, files: SUBSET Files]
  /\ \A f \in Files :
       /\ bucket[f] <= todo.rev
       /\ f \in todo.files => bucket[f] < todo.rev
       /\ f \notin todo.files => Contents[bucket[f]][f] = Contents[todo.rev][f]

\* replaced counts from when a revision is no longer in the bucket.
ReplacedOK ==
  /\ replaced \in [Files -> [Revisions -> 0..Late]]
  /\ \A f \in Files, r \in Revisions : r >= bucket[f] => replaced[f][r] = 0

\* What is cached or being read was in the bucket that long ago at most.
Cached == [rev: Revisions, age: 0..(TTL + 1)]
Read == [file: Files, rev: Revisions, ticks: 0..MaxRead]
CachedOK(c, f) ==
  \/ c = Empty
  \/ /\ c \in Cached /\ c.rev <= bucket[f]
     /\ c.age <= TTL => replaced[f][c.rev] <= c.age + MaxRead
ReadOK(x) ==
  \/ x = NoRead
  \/ /\ x \in Read /\ x.rev <= bucket[x.file]
     /\ replaced[x.file][x.rev] <= x.ticks
CachesOK ==
  /\ caches \in [Instances -> [Files -> Cached \cup {Empty}]]
  /\ reading \in [Instances -> Read \cup {NoRead}]
  /\ \A i \in Instances : /\ ReadOK(reading[i])
                          /\ \A f \in Files : CachedOK(caches[i][f], f)

\* Notices are of revisions that are or were in the bucket.  A call that has
\* reloaded takes a map no older than its notice, from the cache or from a
\* read that is under way.
Pushed == [stage: {"pushed"}, notice: Notices]
Reloaded == [stage: {"reloaded"}, notice: Notices]
Mapped == [stage: {"mapped"}, notice: Notices, map: Revisions]
MayTake(i, r) ==
  \/ calls[i] \in Mapped /\ calls[i].map = r
  \/ calls[i] \in Reloaded /\ caches[i]["ownership"] # Empty
       /\ caches[i]["ownership"].rev = r
  \/ calls[i] \in Reloaded /\ reading[i] # NoRead
       /\ reading[i].file = "ownership" /\ reading[i].rev = r
CallsOK ==
  /\ calls \in [Instances -> Pushed \cup Reloaded \cup Mapped \cup {NoCall}]
  /\ notices \subseteq Notices
  /\ \A n \in notices : n[2] <= bucket[n[1]]
  /\ \A i \in Instances : calls[i] # NoCall => calls[i].notice[2] <= bucket[calls[i].notice[1]]
  /\ \A i \in Instances, r \in Revisions : MayTake(i, r) => r <= bucket["ownership"]
  /\ \A i \in Instances, r \in Revisions :
       (MayTake(i, r) /\ calls[i].notice[1] = "ownership") => calls[i].notice[2] <= r

\* As long as no two resolutions crossed: the owners are the bucket's or a
\* notice says that they are not, and if they are, nobody is about to change
\* that.
TableOK ==
  /\ table \in Revisions /\ table <= bucket["ownership"]
  /\ crossed \in BOOLEAN /\ faults \in 0..MaxFaults
  /\ ~crossed =>
       /\ table = bucket["ownership"] \/ <<"ownership", bucket["ownership"]>> \in notices
       /\ table = bucket["ownership"] =>
            \A i \in Instances, r \in Revisions : MayTake(i, r) => r = bucket["ownership"]

IInv == BucketOK /\ ReplacedOK /\ CachesOK /\ CallsOK /\ TableOK

-----------------------------------------------------------------------------
\* Revisions and bounds are naturals.
LEMMA Naturals ==
  /\ \A r \in Revisions : r \in Nat
  /\ 0 \in ValidRevisions /\ \A r \in ValidRevisions : r \in Revisions /\ r \in Nat
  /\ TTL \in Nat /\ MaxRead \in Nat /\ MaxFaults \in Nat
  /\ Late \in Nat /\ Late = TTL + MaxRead + 1
BY ConfigurationAssumption, ContentsAssumption DEF ValidRevisions, Late

LEMMA SoonerIs ==
  ASSUME NEW x \in Nat, NEW y \in Nat
  PROVE  /\ Sooner(x, y) \in 0..y /\ Sooner(x, y) <= x
         /\ Sooner(x, y) < y => Sooner(x, y) = x
BY DEF Sooner

\* A failure is one more, up to the bound.
LEMMA FaultsStep ==
  ASSUME faults \in 0..MaxFaults, Fault \/ UNCHANGED faults
  PROVE  faults' \in 0..MaxFaults
BY Naturals DEF Fault

\* The invariant holds at first.
LEMMA InitInv == Init => IInv
<1> SUFFICES ASSUME Init PROVE IInv
  OBVIOUS
<1>1. BucketOK
  BY Naturals DEF Init, BucketOK
<1>2. ReplacedOK
  BY Naturals DEF Init, ReplacedOK, Never
<1>3. CachesOK
  BY DEF Init, CachesOK, ReadOK, CachedOK
<1>4. \A i \in Instances, r \in Revisions : ~MayTake(i, r)
  BY DEF Init, MayTake, NoCall, Mapped, Reloaded
<1>5. CallsOK
  BY <1>4 DEF Init, CallsOK
<1>6. TableOK
  <2>1. table = bucket["ownership"] /\ table = 0
    BY DEF Init, Files
  <2>2. crossed \in BOOLEAN
    BY Zenon DEF Init
  <2>4. faults \in 0..MaxFaults
    BY Naturals DEF Init
  <2>3. table \in Revisions /\ table <= bucket["ownership"]
    BY <2>1, Naturals
  <2> QED
    BY <1>4, <2>1, <2>2, <2>3, <2>4 DEF TableOK
<1> QED
  BY <1>1, <1>2, <1>3, <1>5, <1>6 DEF IInv

-----------------------------------------------------------------------------
\* Uploads replace revisions by later ones, and bring the bucket to the one
\* that is applied.
LEMMA BucketStep ==
  ASSUME IInv, [Next]_vars
  PROVE  /\ BucketOK'
         /\ \A f \in Files : bucket[f] \in Nat /\ bucket'[f] \in Nat /\ bucket[f] <= bucket'[f]
<1>1. BucketOK
  BY DEF IInv
<1>2. \A f \in Files : bucket[f] \in ValidRevisions /\ bucket[f] \in Nat
  BY <1>1, Naturals DEF BucketOK
<1>3. ASSUME NEW r \in Revisions, Apply(r)
      PROVE  BucketOK' /\ UNCHANGED bucket
  <2>1. /\ todo.files = {} /\ r > todo.rev /\ r \in ValidRevisions /\ UNCHANGED bucket
        /\ todo' = [rev |-> r, files |-> {f \in Files : Contents[r][f] # Contents[todo.rev][f]}]
    BY <1>3 DEF Apply
  <2>2. todo.rev \in Nat /\ r \in Nat
    BY <1>1, <1>3, Naturals DEF BucketOK
  <2>3. \A f \in Files : bucket[f] <= todo.rev /\ Contents[bucket[f]][f] = Contents[todo.rev][f]
    BY <1>1, <2>1 DEF BucketOK
  <2> QED
    BY <1>1, <1>2, <2>1, <2>2, <2>3 DEF BucketOK
<1>4. ASSUME NEW f \in Files, Upload(f)
      PROVE  BucketOK' /\ \A g \in Files : bucket[g] <= bucket'[g]
  <2>1. /\ f \in todo.files
        /\ bucket' = [bucket EXCEPT ![f] = todo.rev]
        /\ todo' = [todo EXCEPT !.files = @ \ {f}]
    BY <1>4 DEF Upload
  <2>2. todo.rev \in ValidRevisions /\ todo.rev \in Nat /\ bucket[f] < todo.rev
    BY <1>1, <2>1, Naturals DEF BucketOK
  <2>3. todo' \in [rev: ValidRevisions, files: SUBSET Files]
        /\ todo'.rev = todo.rev /\ todo'.files = todo.files \ {f}
    BY <1>1, <2>1 DEF BucketOK
  <2> QED
    BY <1>1, <1>2, <2>1, <2>2, <2>3 DEF BucketOK
<1>5. CASE UNCHANGED <<bucket, todo>>
  BY <1>1, <1>2, <1>5 DEF BucketOK
<1>6. BucketOK' /\ (UNCHANGED bucket \/ \A f \in Files : bucket[f] <= bucket'[f])
  BY <1>3, <1>4, <1>5 DEF Next, vars, Tick, StartRead, EndRead, ReadFails,
     Push, Reload, TakeMap, Resolve, CallFails
<1>7. \A f \in Files : bucket'[f] \in Nat
  BY <1>6, Naturals DEF BucketOK
<1> QED
  BY <1>2, <1>6, <1>7

\* What a step does to the count of a revision.
LEMMA ReplacedStep ==
  ASSUME IInv, [Next]_vars
  PROVE  /\ ReplacedOK'
         /\ \A f \in Files, r \in Revisions :
              /\ replaced[f][r] \in 0..Late /\ replaced'[f][r] \in 0..Late
              /\ replaced'[f][r] <= replaced[f][r] + 1
              /\ ~Tick => replaced'[f][r] = replaced[f][r]
<1>1. ReplacedOK /\ \A f \in Files, r \in Revisions : r \in Nat /\ replaced[f][r] \in 0..Late
  BY Naturals DEF IInv, ReplacedOK
<1>2. CASE Tick
  <2> DEFINE Count(f, r) == IF r < bucket[f] THEN Sooner(replaced[f][r] + 1, Late) ELSE 0
  <2>1. replaced' = [f \in Files |-> [r \in Revisions |-> Count(f, r)]] /\ UNCHANGED bucket
    BY <1>2 DEF Tick
  <2>2. \A f \in Files, r \in Revisions :
          Count(f, r) \in 0..Late /\ Count(f, r) <= replaced[f][r] + 1
    <3> TAKE f \in Files, r \in Revisions
    <3>1. replaced[f][r] + 1 \in Nat /\ Late \in Nat
      BY <1>1, Naturals
    <3>2. Sooner(replaced[f][r] + 1, Late) \in 0..Late
          /\ Sooner(replaced[f][r] + 1, Late) <= replaced[f][r] + 1
      BY <3>1, SoonerIs
    <3> QED
      BY <3>1, <3>2
  <2>3. \A f \in Files, r \in Revisions : r >= bucket[f] => Count(f, r) = 0
    BY <1>1, BucketStep
  <2> HIDE DEF Count
  <2>4. ReplacedOK'
    BY <2>1, <2>2, <2>3 DEF ReplacedOK
  <2> QED
    BY <1>1, <1>2, <2>1, <2>2, <2>4
<1>3. CASE ~Tick
  <2>1. UNCHANGED replaced
    BY <1>3 DEF Next, vars, Apply, Upload, StartRead, EndRead, ReadFails,
       Push, Reload, TakeMap, Resolve, CallFails
  <2>2. \A f \in Files, r \in Revisions : r >= bucket'[f] => r >= bucket[f]
    BY <1>1, BucketStep
  <2> QED
    BY <1>1, <1>3, <2>1, <2>2 DEF ReplacedOK
<1> QED
  BY <1>2, <1>3

-----------------------------------------------------------------------------
\* The revision of what is cached or read is one, and stays in the past of the
\* bucket.
LEMMA CachedStays ==
  ASSUME IInv, [Next]_vars, ~Tick, NEW f \in Files, NEW c, CachedOK(c, f)
  PROVE  CachedOK(c, f)'
<1>1. CASE c # Empty
  <2>1. c \in Cached /\ c.rev \in Revisions /\ c.rev \in Nat
    BY <1>1, Naturals DEF CachedOK, Cached
  <2>2. c.rev <= bucket[f] => c.rev <= bucket'[f]
    BY <2>1, BucketStep
  <2>3. replaced'[f][c.rev] = replaced[f][c.rev]
    BY <2>1, ReplacedStep
  <2> QED
    BY <1>1, <2>1, <2>2, <2>3 DEF CachedOK
<1> QED
  BY <1>1 DEF CachedOK

LEMMA ReadStays ==
  ASSUME IInv, [Next]_vars, ~Tick, NEW x, ReadOK(x)
  PROVE  ReadOK(x)'
<1>1. CASE x # NoRead
  <2>1. x \in Read /\ x.file \in Files /\ x.rev \in Revisions /\ x.rev \in Nat
    BY <1>1, Naturals DEF ReadOK, Read
  <2>2. x.rev <= bucket[x.file] => x.rev <= bucket'[x.file]
    BY <2>1, BucketStep
  <2>3. replaced'[x.file][x.rev] = replaced[x.file][x.rev]
    BY <2>1, ReplacedStep
  <2> QED
    BY <1>1, <2>1, <2>2, <2>3 DEF ReadOK
<1> QED
  BY <1>1 DEF ReadOK

\* When a read ends, what it read is as old as the read has taken.
LEMMA ReadIsCached ==
  ASSUME IInv, NEW x \in Read, ReadOK(x), x # NoRead
  PROVE  CachedOK([rev |-> x.rev, age |-> 0], x.file)
<1> DEFINE c == [rev |-> x.rev, age |-> 0]
<1>1. c \in Cached /\ c.rev = x.rev /\ c.age = 0
  BY Naturals DEF Cached, Read
<1>2. x.ticks \in 0..MaxRead /\ replaced[x.file][x.rev] <= x.ticks /\ x.rev <= bucket[x.file]
  BY DEF Read, ReadOK
<1>3. replaced[x.file][x.rev] \in 0..Late
  BY DEF IInv, ReplacedOK, Read
<1>4. replaced[x.file][x.rev] <= 0 + MaxRead
  BY <1>2, <1>3, Naturals
<1> QED
  BY <1>1, <1>2, <1>4 DEF CachedOK

\* A tick makes what is cached, or being read, a tick older.
LEMMA OlderCached ==
  ASSUME IInv, Tick, NEW f \in Files, NEW c \in Cached, CachedOK(c, f), c # Empty
  PROVE  CachedOK([c EXCEPT !.age = Sooner(@ + 1, TTL + 1)], f)'
         /\ [c EXCEPT !.age = Sooner(@ + 1, TTL + 1)] \in Cached
<1> DEFINE a == Sooner(c.age + 1, TTL + 1)
           d == [c EXCEPT !.age = a]
<1>1. c.rev \in Revisions /\ c.age \in 0..(TTL + 1) /\ TTL \in Nat /\ MaxRead \in Nat
  BY Naturals DEF Cached
<1>2. c.age + 1 \in Nat /\ TTL + 1 \in Nat
  BY <1>1
<1>3. a \in 0..(TTL + 1) /\ a <= c.age + 1 /\ (a < TTL + 1 => a = c.age + 1)
  BY <1>2, SoonerIs
<1>4. d \in Cached /\ d.rev = c.rev /\ d.age = a
  BY <1>3 DEF Cached
<1>5. /\ replaced'[f][c.rev] <= replaced[f][c.rev] + 1
      /\ replaced[f][c.rev] \in 0..Late /\ replaced'[f][c.rev] \in 0..Late
  BY <1>1, ReplacedStep DEF Next
<1>6. a <= TTL => replaced'[f][c.rev] <= a + MaxRead
  <2> HIDE DEF a
  <2> SUFFICES ASSUME a <= TTL PROVE replaced'[f][c.rev] <= a + MaxRead
    OBVIOUS
  <2>1. a = c.age + 1 /\ c.age <= TTL
    BY <1>1, <1>3
  <2>2. replaced[f][c.rev] <= c.age + MaxRead
    BY <2>1 DEF CachedOK
  <2> QED
    BY <1>1, <1>5, <2>1, <2>2, Naturals
<1>7. bucket' = bucket
  BY DEF Tick
<1> HIDE DEF d
<1> QED
  BY <1>4, <1>6, <1>7 DEF CachedOK, d

LEMMA OlderRead ==
  ASSUME IInv, Tick, NEW x \in Read, ReadOK(x), x # NoRead, x.ticks < MaxRead
  PROVE  ReadOK([x EXCEPT !.ticks = @ + 1])' /\ [x EXCEPT !.ticks = @ + 1] \in Read
<1> DEFINE y == [x EXCEPT !.ticks = @ + 1]
<1>1. x.file \in Files /\ x.rev \in Revisions /\ x.ticks \in 0..MaxRead /\ MaxRead \in Nat
  BY Naturals DEF Read
<1>2. y \in Read /\ y.file = x.file /\ y.rev = x.rev /\ y.ticks = x.ticks + 1
  BY <1>1 DEF Read
<1>3. /\ replaced'[x.file][x.rev] <= replaced[x.file][x.rev] + 1
      /\ replaced[x.file][x.rev] \in 0..Late /\ replaced'[x.file][x.rev] \in 0..Late
  BY <1>1, ReplacedStep DEF Next
<1>4. replaced[x.file][x.rev] <= x.ticks /\ x.rev <= bucket[x.file]
  BY DEF ReadOK
<1>5. replaced'[x.file][x.rev] <= x.ticks + 1
  BY <1>1, <1>3, <1>4, Naturals
<1>6. bucket' = bucket
  BY DEF Tick
<1> HIDE DEF y
<1> QED
  BY <1>2, <1>4, <1>5, <1>6 DEF ReadOK, y

\* An empty cache, and a read that begins, are in order.
LEMMA Fresh0 ==
  ASSUME IInv, NEW f \in Files
  PROVE  /\ CachedOK(Empty, f)
         /\ [file |-> f, rev |-> bucket[f], ticks |-> 0] \in Read
         /\ ReadOK([file |-> f, rev |-> bucket[f], ticks |-> 0])
<1> DEFINE x == [file |-> f, rev |-> bucket[f], ticks |-> 0]
<1>1. bucket[f] \in Revisions /\ bucket[f] \in Nat
  BY Naturals DEF IInv, BucketOK
<1>2. replaced[f][bucket[f]] = 0
  BY <1>1 DEF IInv, ReplacedOK
<1>3. x \in Read /\ x.file = f /\ x.rev = bucket[f] /\ x.ticks = 0
  BY <1>1, Naturals DEF Read
<1>4. bucket[f] <= bucket[f] /\ 0 <= 0
  BY <1>1
<1> QED
  BY <1>2, <1>3, <1>4 DEF ReadOK, CachedOK

\* No instance keeps or reads anything older than its age says.
LEMMA CachesStep ==
  ASSUME IInv, [Next]_vars
  PROVE  CachesOK'
<1>1. /\ caches \in [Instances -> [Files -> Cached \cup {Empty}]]
      /\ reading \in [Instances -> Read \cup {NoRead}]
      /\ \A i \in Instances : /\ ReadOK(reading[i])
                              /\ \A f \in Files : CachedOK(caches[i][f], f)
  BY DEF IInv, CachesOK
<1>2. CASE Tick
  <2> DEFINE Aged(i, f) == IF caches[i][f] = Empty THEN Empty
                           ELSE [caches[i][f] EXCEPT !.age = Sooner(@ + 1, TTL + 1)]
             Longer(i) == IF reading[i] = NoRead THEN NoRead
                          ELSE [reading[i] EXCEPT !.ticks = @ + 1]
  <2>1. /\ caches' = [i \in Instances |-> [f \in Files |-> Aged(i, f)]]
        /\ reading' = [i \in Instances |-> Longer(i)]
    BY <1>2 DEF Tick
  <2>2. ASSUME NEW i \in Instances, NEW f \in Files
        PROVE  caches'[i][f] \in Cached \cup {Empty} /\ CachedOK(caches[i][f], f)'
    <3>1. CASE caches[i][f] = Empty
      <4>1. caches'[i][f] = Empty
        BY <2>1, <3>1
      <4> QED
        BY <4>1 DEF CachedOK
    <3>2. CASE caches[i][f] # Empty
      <4>1. caches[i][f] \in Cached /\ CachedOK(caches[i][f], f)
        BY <1>1, <3>2
      <4>2. caches'[i][f] = [caches[i][f] EXCEPT !.age = Sooner(@ + 1, TTL + 1)]
        BY <2>1, <3>2
      <4> QED
        BY <1>2, <3>2, <4>1, <4>2, OlderCached DEF CachedOK
    <3> QED
      BY <3>1, <3>2
  <2>3. ASSUME NEW i \in Instances
        PROVE  reading'[i] \in Read \cup {NoRead} /\ ReadOK(reading[i])'
    <3>1. CASE reading[i] = NoRead
      <4>1. reading'[i] = NoRead
        BY <2>1, <3>1
      <4> QED
        BY <4>1 DEF ReadOK
    <3>2. CASE reading[i] # NoRead
      <4>1. reading[i] \in Read /\ ReadOK(reading[i]) /\ reading[i].ticks < MaxRead
        BY <1>1, <1>2, <3>2 DEF Tick
      <4>2. reading'[i] = [reading[i] EXCEPT !.ticks = @ + 1]
        BY <2>1, <3>2
      <4> QED
        BY <1>2, <3>2, <4>1, <4>2, OlderRead DEF ReadOK
    <3> QED
      BY <3>1, <3>2
  <2>4. /\ caches' \in [Instances -> [Files -> Cached \cup {Empty}]]
        /\ reading' \in [Instances -> Read \cup {NoRead}]
    <3>1. \A i \in Instances, f \in Files : Aged(i, f) \in Cached \cup {Empty}
      BY <2>1, <2>2
    <3>2. \A i \in Instances : Longer(i) \in Read \cup {NoRead}
      BY <2>1, <2>3
    <3> HIDE DEF Aged, Longer
    <3> QED
      BY <2>1, <3>1, <3>2
  <2> QED
    BY <2>2, <2>3, <2>4 DEF CachesOK
<1>3. CASE ~Tick
  <2>1. \A i \in Instances : ReadOK(reading[i]) /\ \A f \in Files : CachedOK(caches[i][f], f)
    BY <1>1
  <2>2. ASSUME NEW i \in Instances, reading'[i] = reading[i]
        PROVE  ReadOK(reading[i])'
    BY <1>3, <2>1, <2>2, ReadStays DEF ReadOK
  <2>3. ASSUME NEW i \in Instances, NEW f \in Files, caches'[i][f] = caches[i][f]
        PROVE  CachedOK(caches[i][f], f)'
    BY <1>3, <2>1, <2>3, CachedStays DEF CachedOK
  <2>4. ASSUME UNCHANGED caches
        PROVE  \A i \in Instances, f \in Files : CachedOK(caches[i][f], f)'
    BY <2>3, <2>4
  <2>5. ASSUME NEW j \in Instances, reading' = [reading EXCEPT ![j] = NoRead]
        PROVE  /\ reading' \in [Instances -> Read \cup {NoRead}]
               /\ \A i \in Instances : ReadOK(reading[i])'
    <3>1. \A i \in Instances : i # j => reading'[i] = reading[i]
      BY <1>1, <2>5
    <3>2. reading'[j] = NoRead
      BY <1>1, <2>5
    <3>3. \A i \in Instances : ReadOK(reading[i])'
      BY <2>2, <3>1, <3>2 DEF ReadOK
    <3> QED
      BY <1>1, <2>5, <3>3
  <2>6. ASSUME NEW j \in Instances, NEW g \in Files, StartRead(j, g)
        PROVE  CachesOK'
    <3>1. reading' = [reading EXCEPT ![j] = [file |-> g, rev |-> bucket[g], ticks |-> 0]]
          /\ UNCHANGED <<caches, bucket, replaced>>
      BY <2>6 DEF StartRead
    <3>2. [file |-> g, rev |-> bucket[g], ticks |-> 0] \in Read
          /\ ReadOK([file |-> g, rev |-> bucket[g], ticks |-> 0])
      BY Fresh0
    <3>3. \A i \in Instances : i # j => reading'[i] = reading[i]
      BY <1>1, <3>1
    <3>4. reading'[j] = [file |-> g, rev |-> bucket[g], ticks |-> 0]
      BY <1>1, <3>1
    <3>5. ReadOK(reading[j])'
      BY <3>1, <3>2, <3>4 DEF ReadOK
    <3>6. \A i \in Instances : ReadOK(reading[i])'
      BY <2>2, <3>3, <3>5
    <3> QED
      BY <1>1, <2>4, <3>1, <3>2, <3>6 DEF CachesOK
  <2>7. ASSUME NEW j \in Instances, EndRead(j)
        PROVE  CachesOK'
    <3>0. /\ reading[j] # NoRead /\ reading[j] \in Read /\ ReadOK(reading[j])
          /\ UNCHANGED <<bucket, replaced>>
      BY <1>1, <2>7 DEF EndRead
    <3>1. PICK g \in Files, c \in Cached :
            g = reading[j].file /\ c = [rev |-> reading[j].rev, age |-> 0]
      <4>1. reading[j].file \in Files /\ reading[j].rev \in Revisions
        BY <3>0 DEF Read
      <4>2. [rev |-> reading[j].rev, age |-> 0] \in Cached
        BY <4>1, Naturals DEF Cached
      <4> QED
        BY <4>1, <4>2
    <3>2. /\ caches' = [caches EXCEPT ![j][g] = c]
          /\ reading' = [reading EXCEPT ![j] = NoRead]
          /\ CachedOK(c, g)
      BY <2>7, <3>0, <3>1, ReadIsCached DEF EndRead
    <3>3. caches'[j][g] = c
          /\ \A i \in Instances, f \in Files : (i # j \/ f # g) => caches'[i][f] = caches[i][f]
      BY <1>1, <3>2
    <3>4. CachedOK(caches[j][g], g)'
      BY <3>0, <3>2, <3>3 DEF CachedOK
    <3>5. \A i \in Instances, f \in Files : CachedOK(caches[i][f], f)'
      BY <2>3, <3>3, <3>4
    <3>6. caches' \in [Instances -> [Files -> Cached \cup {Empty}]]
      BY <1>1, <3>2
    <3> QED
      BY <2>5, <3>2, <3>5, <3>6 DEF CachesOK
  <2>8. ASSUME NEW j \in Instances, ReadFails(j)
        PROVE  CachesOK'
    <3>1. reading' = [reading EXCEPT ![j] = NoRead] /\ UNCHANGED caches
      BY <2>8 DEF ReadFails
    <3> QED
      BY <1>1, <2>4, <2>5, <3>1 DEF CachesOK
  <2>9. ASSUME NEW j \in Instances, Reload(j)
        PROVE  CachesOK'
    <3>1. caches' = [caches EXCEPT ![j] = [f \in Files |-> Empty]] /\ UNCHANGED reading
      BY <2>9 DEF Reload, Dropped
    <3>2. \A i \in Instances, f \in Files :
            IF i = j THEN caches'[i][f] = Empty ELSE caches'[i][f] = caches[i][f]
      BY <1>1, <3>1
    <3>3. \A i \in Instances, f \in Files : CachedOK(caches[i][f], f)'
      BY <2>3, <3>2 DEF CachedOK
    <3>4. \A i \in Instances : ReadOK(reading[i])'
      BY <2>2, <3>1
    <3>5. caches' \in [Instances -> [Files -> Cached \cup {Empty}]]
      BY <1>1, <3>1
    <3> QED
      BY <1>1, <3>1, <3>3, <3>4, <3>5 DEF CachesOK
  <2>10. CASE UNCHANGED <<caches, reading>>
    <3>1. \A i \in Instances : ReadOK(reading[i])'
      BY <2>2, <2>10
    <3> QED
      BY <1>1, <2>4, <2>10, <3>1 DEF CachesOK
  <2> QED
    BY <1>3, <2>6, <2>7, <2>8, <2>9, <2>10 DEF Next, vars, Apply, Upload,
       Push, TakeMap, Resolve, CallFails
<1> QED
  BY <1>2, <1>3

-----------------------------------------------------------------------------
\* The stage a call is in says what it holds.
LEMMA Stages ==
  ASSUME IInv, NEW i \in Instances
  PROVE  /\ calls[i] = NoCall <=> calls[i].stage = "none"
         /\ calls[i] \in Pushed <=> calls[i].stage = "pushed"
         /\ calls[i] \in Reloaded <=> calls[i].stage = "reloaded"
         /\ calls[i] \in Mapped <=> calls[i].stage = "mapped"
         /\ calls[i] # NoCall => calls[i].notice \in Notices
<1>1. calls[i] \in Pushed \cup Reloaded \cup Mapped \cup {NoCall}
  BY DEF IInv, CallsOK
<1>2. CASE calls[i] = NoCall
  BY <1>2 DEF NoCall, Pushed, Reloaded, Mapped
<1>3. CASE calls[i] \in Pushed
  BY <1>3 DEF NoCall, Pushed, Reloaded, Mapped
<1>4. CASE calls[i] \in Reloaded
  BY <1>4 DEF NoCall, Pushed, Reloaded, Mapped
<1>5. CASE calls[i] \in Mapped
  BY <1>5 DEF NoCall, Pushed, Reloaded, Mapped
<1> QED
  BY <1>1, <1>2, <1>3, <1>4, <1>5

\* What a step does to a call: nothing, one of the handler's steps, or its end.
LEMMA CallStep ==
  ASSUME IInv, [Next]_vars, NEW i \in Instances
  PROVE  \/ calls'[i] = calls[i]
         \/ calls'[i] = NoCall
         \/ \E n \in notices : calls'[i] = [stage |-> "pushed", notice |-> n]
         \/ /\ calls[i] \in Pushed /\ calls'[i] = [stage |-> "reloaded", notice |-> calls[i].notice]
            /\ reading[i] = NoRead /\ UNCHANGED reading /\ caches'[i]["ownership"] = Empty
         \/ /\ calls[i] \in Reloaded /\ caches[i]["ownership"] \in Cached
            /\ caches[i]["ownership"] # Empty
            /\ calls'[i] = [stage |-> "mapped", notice |-> calls[i].notice,
                            map |-> caches[i]["ownership"].rev]
<1>1. calls \in [Instances -> Pushed \cup Reloaded \cup Mapped \cup {NoCall}]
  BY DEF IInv, CallsOK
<1>2. ASSUME NEW j \in Instances, NEW n \in notices, Push(j, n)
      PROVE  calls'[i] = calls[i] \/ calls'[i] = [stage |-> "pushed", notice |-> n]
  BY <1>1, <1>2 DEF Push
<1>3. ASSUME NEW j \in Instances, Resolve(j) \/ CallFails(j)
      PROVE  calls'[i] = calls[i] \/ calls'[i] = NoCall
  BY <1>1, <1>3 DEF Resolve, CallFails
<1>4. ASSUME NEW j \in Instances, Reload(j)
      PROVE  \/ calls'[i] = calls[i]
             \/ /\ calls[i] \in Pushed
                /\ calls'[i] = [stage |-> "reloaded", notice |-> calls[i].notice]
                /\ reading[i] = NoRead /\ UNCHANGED reading
                /\ caches'[i]["ownership"] = Empty
  <2>1. CASE i # j
    BY <1>1, <1>4, <2>1 DEF Reload
  <2>2. CASE i = j
    <3>1. calls[i] \in Pushed
      BY <1>4, <2>2, Stages DEF Reload
    <3>2. calls'[i] = [calls[i] EXCEPT !.stage = "reloaded"]
      BY <1>1, <1>4, <2>2 DEF Reload
    <3>3. calls'[i] = [stage |-> "reloaded", notice |-> calls[i].notice]
      BY <3>1, <3>2 DEF Pushed
    <3>4. caches'[i]["ownership"] = Empty
      <4>1. caches \in [Instances -> [Files -> Cached \cup {Empty}]]
        BY DEF IInv, CachesOK
      <4>2. caches' = [caches EXCEPT ![i] = [f \in Files |-> Empty]]
        BY <1>4, <2>2 DEF Reload, Dropped
      <4> QED
        BY <4>1, <4>2 DEF Files
    <3> QED
      BY <1>4, <2>2, <3>1, <3>3, <3>4 DEF Reload
  <2> QED
    BY <2>1, <2>2
<1>5. ASSUME NEW j \in Instances, TakeMap(j)
      PROVE  \/ calls'[i] = calls[i]
             \/ /\ calls[i] \in Reloaded /\ caches[i]["ownership"] \in Cached
                /\ caches[i]["ownership"] # Empty
                /\ calls'[i] = [stage |-> "mapped", notice |-> calls[i].notice,
                                map |-> caches[i]["ownership"].rev]
  <2>1. CASE i # j
    BY <1>1, <1>5, <2>1 DEF TakeMap
  <2>2. CASE i = j
    <3>1. calls[i] \in Reloaded
      BY <1>5, <2>2, Stages DEF TakeMap
    <3>2. caches[i]["ownership"] # Empty
      BY <1>5, <2>2 DEF TakeMap, Fresh
    <3>3. caches[i]["ownership"] \in Cached
      BY <3>2 DEF IInv, CachesOK, Files
    <3>4. calls'[i] = [stage |-> "mapped", notice |-> calls[i].notice,
                       map |-> caches[i]["ownership"].rev]
      BY <1>1, <1>5, <2>2 DEF TakeMap
    <3> QED
      BY <3>1, <3>2, <3>3, <3>4
  <2> QED
    BY <2>1, <2>2
<1> QED
  BY <1>2, <1>3, <1>4, <1>5 DEF Next, vars, Apply, Upload, Tick, StartRead,
     EndRead, ReadFails

\* What is cached after a step was cached or being read, and what is being
\* read was before or is in the bucket.
LEMMA HeldStep ==
  ASSUME IInv, [Next]_vars, NEW i \in Instances, NEW f \in Files
  PROVE  /\ \/ caches'[i][f] = Empty
            \/ caches[i][f] # Empty /\ caches'[i][f].rev = caches[i][f].rev
            \/ /\ reading[i] # NoRead /\ reading[i].file = f
               /\ caches'[i][f].rev = reading[i].rev
         /\ \/ reading'[i] = NoRead
            \/ /\ reading[i] # NoRead
               /\ reading'[i].file = reading[i].file /\ reading'[i].rev = reading[i].rev
            \/ /\ reading'[i].rev = bucket[reading'[i].file]
               /\ UNCHANGED <<bucket, calls>>
<1>1. /\ caches \in [Instances -> [Files -> Cached \cup {Empty}]]
      /\ reading \in [Instances -> Read \cup {NoRead}]
  BY DEF IInv, CachesOK
<1>2. CASE Tick
  <2>1. /\ caches'[i][f] = IF caches[i][f] = Empty THEN Empty
                           ELSE [caches[i][f] EXCEPT !.age = Sooner(@ + 1, TTL + 1)]
        /\ reading'[i] = IF reading[i] = NoRead THEN NoRead
                         ELSE [reading[i] EXCEPT !.ticks = @ + 1]
    BY <1>2 DEF Tick
  <2>2. \A c \in Cached : \A a : [c EXCEPT !.age = a].rev = c.rev
    BY DEF Cached
  <2>3. \A x \in Read : \A a : /\ [x EXCEPT !.ticks = a].rev = x.rev
                               /\ [x EXCEPT !.ticks = a].file = x.file
    BY DEF Read
  <2> QED
    BY <1>1, <2>1, <2>2, <2>3
<1>3. ASSUME NEW j \in Instances, NEW g \in Files, StartRead(j, g)
      PROVE  /\ UNCHANGED <<caches, bucket, calls>>
             /\ reading'[i] = reading[i] \/ reading'[i] = [file |-> g, rev |-> bucket[g], ticks |-> 0]
  BY <1>1, <1>3 DEF StartRead
<1>4. ASSUME NEW j \in Instances, EndRead(j)
      PROVE  /\ reading'[i] = reading[i] \/ reading'[i] = NoRead
             /\ \/ caches'[i][f] = caches[i][f]
                \/ /\ reading[i] # NoRead /\ reading[i].file = f
                   /\ caches'[i][f] = [rev |-> reading[i].rev, age |-> 0]
  BY <1>1, <1>4 DEF EndRead
<1>5. ASSUME NEW j \in Instances, ReadFails(j) \/ Reload(j)
      PROVE  /\ reading'[i] = reading[i] \/ reading'[i] = NoRead
             /\ caches'[i][f] = caches[i][f] \/ caches'[i][f] = Empty
  BY <1>1, <1>5 DEF ReadFails, Reload, Dropped
<1>6. CASE UNCHANGED <<caches, reading>>
  BY <1>6
<1>7. CASE \E j \in Instances, g \in Files : StartRead(j, g)
  <2>1. PICK j \in Instances, g \in Files : StartRead(j, g)
    BY <1>7
  <2>2. \A b : [file |-> g, rev |-> b, ticks |-> 0].file = g
               /\ [file |-> g, rev |-> b, ticks |-> 0].rev = b
    OBVIOUS
  <2>3. /\ UNCHANGED <<caches, bucket, calls>>
        /\ reading'[i] = reading[i] \/ reading'[i] = [file |-> g, rev |-> bucket[g], ticks |-> 0]
    BY <1>3, <2>1
  <2> QED
    BY <2>2, <2>3
<1>8. CASE \E j \in Instances : EndRead(j)
  BY <1>4, <1>8
<1>9. CASE \E j \in Instances : ReadFails(j) \/ Reload(j)
  BY <1>5, <1>9
<1> QED
  BY <1>2, <1>6, <1>7, <1>8, <1>9 DEF Next, vars, Apply, Upload, Push,
     TakeMap, Resolve, CallFails

\* What a call may take after a step it could take before, or it is the
\* bucket's.
LEMMA TakeStep ==
  ASSUME IInv, [Next]_vars, NEW i \in Instances, NEW r \in Revisions, MayTake(i, r)'
  PROVE  /\ calls[i] # NoCall /\ calls'[i].notice = calls[i].notice
         /\ MayTake(i, r) \/ (r = bucket["ownership"] /\ UNCHANGED <<bucket, calls>>)
<1>1. \A c : /\ c \in Mapped => c.stage = "mapped" /\ c # NoCall
             /\ c \in Reloaded => c.stage = "reloaded" /\ c # NoCall
             /\ c \in Pushed => c.stage = "pushed" /\ c # NoCall
  BY DEF Mapped, Reloaded, Pushed, NoCall
<1>2. calls'[i] \in Mapped \/ calls'[i] \in Reloaded
  BY DEF MayTake
<1>3. "ownership" \in Files
  BY DEF Files
<1>4. CASE calls'[i] = calls[i]
  <2>1. CASE calls[i] \in Mapped
    <3>1. calls[i] \notin Reloaded
      BY <1>1, <2>1
    <3> QED
      BY <1>1, <1>4, <2>1, <3>1 DEF MayTake
  <2>2. CASE calls[i] \in Reloaded
    <3>1. calls[i] \notin Mapped
      BY <1>1, <2>2
    <3>2. \/ caches'[i]["ownership"] # Empty /\ caches'[i]["ownership"].rev = r
          \/ reading'[i] # NoRead /\ reading'[i].file = "ownership" /\ reading'[i].rev = r
      BY <1>4, <3>1 DEF MayTake
    <3>3. CASE caches'[i]["ownership"] # Empty /\ caches'[i]["ownership"].rev = r
      BY <1>1, <1>3, <1>4, <2>2, <3>3, HeldStep DEF MayTake
    <3>4. CASE reading'[i] # NoRead /\ reading'[i].file = "ownership" /\ reading'[i].rev = r
      BY <1>1, <1>3, <1>4, <2>2, <3>4, HeldStep DEF MayTake
    <3> QED
      BY <3>2, <3>3, <3>4
  <2> QED
    BY <1>2, <1>4, <2>1, <2>2
<1>5. CASE calls'[i] = NoCall
  BY <1>1, <1>2, <1>5
<1>6. CASE \E n \in notices : calls'[i] = [stage |-> "pushed", notice |-> n]
  BY <1>1, <1>2, <1>6
<1>7. CASE /\ calls[i] \in Pushed
           /\ calls'[i] = [stage |-> "reloaded", notice |-> calls[i].notice]
           /\ reading[i] = NoRead /\ UNCHANGED reading /\ caches'[i]["ownership"] = Empty
  BY <1>1, <1>7 DEF MayTake
<1>8. CASE /\ calls[i] \in Reloaded /\ caches[i]["ownership"] # Empty
           /\ calls'[i] = [stage |-> "mapped", notice |-> calls[i].notice,
                           map |-> caches[i]["ownership"].rev]
  <2>1. r = caches[i]["ownership"].rev /\ calls'[i].notice = calls[i].notice
    BY <1>1, <1>8 DEF MayTake
  <2> QED
    BY <1>1, <1>8, <2>1 DEF MayTake
<1> QED
  BY <1>4, <1>5, <1>6, <1>7, <1>8, CallStep

\* A call still takes a map no older than its notice and no newer than the
\* bucket.
LEMMA CallsStep ==
  ASSUME IInv, [Next]_vars
  PROVE  CallsOK'
<1>1. CallsOK
  BY DEF IInv
<1>2. \A f \in Files : bucket[f] \in Nat /\ bucket'[f] \in Nat /\ bucket[f] <= bucket'[f]
  BY BucketStep
<1>3. calls' \in [Instances -> Pushed \cup Reloaded \cup Mapped \cup {NoCall}]
  <2>1. ASSUME NEW i \in Instances
        PROVE  calls'[i] \in Pushed \cup Reloaded \cup Mapped \cup {NoCall}
    <3>1. calls[i] \in Pushed \cup Reloaded \cup Mapped \cup {NoCall}
          /\ (calls[i] \in Pushed \cup Reloaded => calls[i].notice \in Notices)
      BY <1>1 DEF CallsOK, Pushed, Reloaded
    <3>2. \A n \in Notices : /\ [stage |-> "pushed", notice |-> n] \in Pushed
                             /\ [stage |-> "reloaded", notice |-> n] \in Reloaded
      BY DEF Pushed, Reloaded
    <3>3. \A n \in Notices, c \in Cached : [stage |-> "mapped", notice |-> n, map |-> c.rev] \in Mapped
      BY DEF Mapped, Cached
    <3>4. notices \subseteq Notices
      BY <1>1 DEF CallsOK
    <3> QED
      BY <3>1, <3>2, <3>3, <3>4, CallStep
  <2>2. calls' = [i \in Instances |-> calls'[i]]
    <3>1. calls \in [Instances -> Pushed \cup Reloaded \cup Mapped \cup {NoCall}]
      BY <1>1 DEF CallsOK
    <3>2. calls' = calls \/ \E j \in Instances : \E c : calls' = [calls EXCEPT ![j] = c]
      BY DEF Next, vars, Apply, Upload, Tick, StartRead, EndRead, ReadFails,
         Push, Reload, TakeMap, Resolve, CallFails
    <3> QED
      BY <3>1, <3>2
  <2> QED
    BY <2>1, <2>2
<1>4. notices' \subseteq Notices /\ \A n \in notices' : n[2] <= bucket'[n[1]]
  <2>1. ASSUME NEW n \in Notices, n[2] <= bucket[n[1]]
        PROVE  n[2] <= bucket'[n[1]]
    <3>1. n[1] \in Files /\ n[2] \in Nat
      BY Naturals DEF Notices
    <3> QED
      BY <1>2, <2>1, <3>1
  <2>2. notices \subseteq Notices /\ \A n \in notices : n[2] <= bucket'[n[1]]
    BY <1>1, <2>1 DEF CallsOK
  <2>3. ASSUME NEW f \in Files, Upload(f)
        PROVE  notices' \subseteq Notices /\ \A n \in notices' : n[2] <= bucket'[n[1]]
    <3>1. /\ notices' = notices \cup {<<f, todo.rev>>}
          /\ bucket' = [bucket EXCEPT ![f] = todo.rev]
      BY <2>3 DEF Upload
    <3>2. todo.rev \in Revisions /\ todo.rev \in Nat /\ f \in DOMAIN bucket
      BY Naturals DEF IInv, BucketOK
    <3>3. <<f, todo.rev>> \in Notices /\ todo.rev <= bucket'[f]
      BY <3>1, <3>2 DEF Notices
    <3> QED
      BY <2>2, <3>1, <3>3
  <2>4. (\E f \in Files : Upload(f)) \/ notices' \subseteq notices
    BY DEF Next, vars, Apply, Tick, StartRead, EndRead, ReadFails,
       Push, Reload, TakeMap, Resolve, CallFails
  <2> QED
    BY <2>2, <2>3, <2>4
<1>5. ASSUME NEW i \in Instances, calls'[i] # NoCall
      PROVE  calls'[i].notice[2] <= bucket'[calls'[i].notice[1]]
  <2>1. \E n \in Notices : n = calls'[i].notice /\ n[2] <= bucket[n[1]]
    <3>1. \A j \in Instances : calls[j] # NoCall =>
            calls[j].notice \in Notices /\ calls[j].notice[2] <= bucket[calls[j].notice[1]]
      BY <1>1, Stages DEF CallsOK
    <3>2. \A n \in notices : n \in Notices /\ n[2] <= bucket[n[1]]
      BY <1>1 DEF CallsOK
    <3>3. \A n \in notices : [stage |-> "pushed", notice |-> n].notice = n
      OBVIOUS
    <3>4. (calls[i] # NoCall /\ calls'[i].notice = calls[i].notice) \/ calls'[i].notice \in notices
      <4>1. (calls[i] \in Pushed => calls[i] # NoCall)
            /\ (calls[i] \in Reloaded => calls[i] # NoCall)
        BY DEF Pushed, Reloaded, NoCall
      <4>2. CASE calls'[i] = calls[i]
        BY <1>5, <4>2
      <4>3. CASE \E n \in notices : calls'[i] = [stage |-> "pushed", notice |-> n]
        BY <3>3, <4>3
      <4>4. CASE calls[i] \in Pushed /\ calls'[i] = [stage |-> "reloaded", notice |-> calls[i].notice]
        BY <4>1, <4>4
      <4>5. CASE /\ calls[i] \in Reloaded
                 /\ calls'[i] = [stage |-> "mapped", notice |-> calls[i].notice,
                                 map |-> caches[i]["ownership"].rev]
        BY <4>1, <4>5
      <4> QED
        BY <1>5, <4>2, <4>3, <4>4, <4>5, CallStep
    <3> QED
      BY <3>1, <3>2, <3>4
  <2>2. PICK n \in Notices : n = calls'[i].notice /\ n[2] <= bucket[n[1]]
    BY <2>1
  <2>3. n[1] \in Files /\ n[2] \in Nat
    BY Naturals DEF Notices
  <2> QED
    BY <1>2, <2>2, <2>3
<1>6. ASSUME NEW i \in Instances, NEW r \in Revisions, MayTake(i, r)'
      PROVE  /\ r <= bucket'["ownership"]
             /\ calls'[i].notice[1] = "ownership" => calls'[i].notice[2] <= r
  <2>1. r \in Nat /\ "ownership" \in Files
    BY Naturals DEF Files
  <2>2. calls[i] # NoCall /\ calls'[i].notice = calls[i].notice
        /\ (MayTake(i, r) \/ r = bucket["ownership"])
    BY <1>6, TakeStep
  <2>3. PICK n \in Notices : n = calls[i].notice
    BY <2>2, Stages
  <2>4. n[2] \in Nat /\ bucket["ownership"] \in Nat /\ bucket'["ownership"] \in Nat
        /\ bucket["ownership"] <= bucket'["ownership"]
    BY <1>2, <2>1, Naturals DEF Notices
  <2>5. n[2] <= bucket[n[1]]
    BY <1>1, <2>2, <2>3 DEF CallsOK
  <2>6. MayTake(i, r) => r <= bucket["ownership"] /\ (n[1] = "ownership" => n[2] <= r)
    BY <1>1, <2>3 DEF CallsOK
  <2> QED
    BY <2>1, <2>2, <2>3, <2>4, <2>5, <2>6
<1> QED
  BY <1>3, <1>4, <1>5, <1>6 DEF CallsOK

\* Resolving from an older map than the bucket's leaves a notice behind, or
\* another resolution is under way.
LEMMA ResolveStep ==
  ASSUME IInv, NEW i \in Instances, Resolve(i)
  PROVE  /\ table' \in Revisions /\ table' <= bucket'["ownership"]
         /\ ~crossed' =>
              /\ table' = bucket'["ownership"] \/ <<"ownership", bucket'["ownership"]>> \in notices'
              /\ \A j \in Instances, r \in Revisions : ~MayTake(j, r)'
<1>1. CallsOK /\ TableOK
  BY DEF IInv
<1>2. calls[i] \in Mapped /\ calls[i].map \in Revisions
  BY Stages DEF Resolve, Mapped
<1>3. /\ table' = calls[i].map /\ notices' = notices \ {calls[i].notice}
      /\ calls' = [calls EXCEPT ![i] = NoCall]
      /\ UNCHANGED <<bucket, caches, reading>>
  BY DEF Resolve
<1>4. PICK r \in Revisions : r = calls[i].map
  BY <1>2
<1>5. MayTake(i, r)
  BY <1>2, <1>4 DEF MayTake
<1>6. r \in Nat /\ bucket["ownership"] \in Nat /\ r <= bucket["ownership"]
  BY <1>1, <1>5, Naturals DEF CallsOK, IInv, BucketOK, Files
<1>7. ASSUME ~crossed'
      PROVE  ~crossed /\ \A j \in Instances \ {i} : calls[j].stage \notin {"reloaded", "mapped"}
  <2>1. crossed' = (crossed \/ \E j \in Instances \ {i} : calls[j].stage \in {"reloaded", "mapped"})
    BY DEF Resolve
  <2> QED
    BY <1>7, <2>1
<1>8. ASSUME ~crossed', NEW j \in Instances, NEW q \in Revisions
      PROVE  ~MayTake(j, q)'
  <2>1. calls'[j] \notin Mapped /\ calls'[j] \notin Reloaded
    <3>1. CASE j = i
      <4>1. calls'[j] = NoCall
        BY <1>1, <1>3, <3>1 DEF CallsOK
      <4> QED
        BY <4>1 DEF NoCall, Mapped, Reloaded
    <3>2. CASE j # i
      <4>1. calls'[j] = calls[j]
        BY <1>1, <1>3, <3>2 DEF CallsOK
      <4> QED
        BY <1>7, <1>8, <3>2, <4>1 DEF Mapped, Reloaded
    <3> QED
      BY <3>1, <3>2
  <2> QED
    BY <2>1 DEF MayTake
<1>9. ASSUME ~crossed', r # bucket["ownership"]
      PROVE  <<"ownership", bucket["ownership"]>> \in notices'
  <2>1. <<"ownership", bucket["ownership"]>> \in notices
    BY <1>1, <1>5, <1>7, <1>9 DEF TableOK
  <2>2. calls[i].notice # <<"ownership", bucket["ownership"]>>
    <3> SUFFICES ASSUME calls[i].notice = <<"ownership", bucket["ownership"]>> PROVE FALSE
      OBVIOUS
    <3>1. calls[i].notice[1] = "ownership" /\ calls[i].notice[2] = bucket["ownership"]
      OBVIOUS
    <3>2. bucket["ownership"] <= r
      BY <1>1, <1>5, <3>1 DEF CallsOK
    <3> QED
      BY <1>6, <1>9, <3>2
  <2> QED
    BY <1>3, <2>1, <2>2
<1> QED
  BY <1>3, <1>4, <1>6, <1>8, <1>9

\* The owners are the bucket's or a notice is left.
LEMMA TableStep ==
  ASSUME IInv, [Next]_vars
  PROVE  TableOK'
<1>1. TableOK /\ "ownership" \in Files
  BY DEF IInv, Files
<1>2. \A f \in Files : bucket[f] \in Nat /\ bucket'[f] \in Nat /\ bucket[f] <= bucket'[f]
  BY BucketStep
<1>3. table \in Revisions /\ table \in Nat /\ table <= bucket["ownership"]
  BY <1>1, Naturals DEF TableOK
<1>4. crossed' \in BOOLEAN
  <2>1. crossed \in BOOLEAN
    BY <1>1 DEF TableOK
  <2>2. UNCHANGED crossed \/ \E i \in Instances : Resolve(i)
    BY DEF Next, vars, Apply, Upload, Tick, StartRead, EndRead, ReadFails,
       Push, Reload, TakeMap, CallFails
  <2>3. ASSUME NEW i \in Instances, Resolve(i) PROVE crossed' \in BOOLEAN
    <3>1. crossed' = (crossed \/ \E j \in Instances \ {i} : calls[j].stage \in {"reloaded", "mapped"})
      BY <2>3 DEF Resolve
    <3> QED
      BY <3>1, Zenon
  <2>4. CASE UNCHANGED crossed
    BY <2>1, <2>4, Zenon
  <2> QED
    BY <2>2, <2>3, <2>4
<1>5. faults' \in 0..MaxFaults
  <2>1. Fault \/ UNCHANGED faults
    BY DEF Next, vars, Apply, Upload, Tick, StartRead, EndRead, ReadFails,
       Push, Reload, TakeMap, Resolve, CallFails
  <2> QED
    BY <1>1, <2>1, FaultsStep DEF TableOK
<1>6. CASE \E i \in Instances : Resolve(i)
  BY <1>4, <1>5, <1>6, ResolveStep DEF TableOK
<1>7. ASSUME UNCHANGED <<table, crossed>>, notices \subseteq notices',
             UNCHANGED bucket \/ bucket'["ownership"] = bucket["ownership"]
      PROVE  TableOK'
  <2>1. bucket'["ownership"] = bucket["ownership"] /\ (~crossed' => ~crossed)
    BY <1>7
  <2>2. ASSUME ~crossed, table = bucket["ownership"],
               NEW i \in Instances, NEW r \in Revisions, MayTake(i, r)'
        PROVE  r = bucket["ownership"]
    BY <1>1, <2>2, TakeStep DEF TableOK
  <2>3. ~crossed => table = bucket["ownership"] \/ <<"ownership", bucket["ownership"]>> \in notices
    BY <1>1 DEF TableOK
  <2> QED
    BY <1>3, <1>4, <1>5, <1>7, <2>1, <2>2, <2>3 DEF TableOK
<1>8. ASSUME NEW f \in Files, Upload(f)
      PROVE  TableOK'
  <2>1. /\ bucket' = [bucket EXCEPT ![f] = todo.rev] /\ f \in todo.files
        /\ notices' = notices \cup {<<f, todo.rev>>}
        /\ UNCHANGED <<table, crossed>>
    BY <1>8 DEF Upload
  <2>2. bucket \in [Files -> ValidRevisions] /\ bucket[f] < todo.rev /\ todo.rev \in Nat
    BY <2>1, Naturals DEF IInv, BucketOK
  <2>3. CASE f # "ownership"
    BY <1>1, <1>7, <2>1, <2>2, <2>3
  <2>4. CASE f = "ownership"
    <3>1. bucket'["ownership"] = todo.rev /\ bucket["ownership"] < todo.rev
          /\ <<"ownership", todo.rev>> \in notices'
      BY <1>1, <2>1, <2>2, <2>4
    <3>2. table' = table /\ table < todo.rev
      BY <1>2, <1>3, <2>1, <2>2, <3>1, <1>1
    <3>3. table' # bucket'["ownership"] /\ table' <= bucket'["ownership"] /\ table' \in Revisions
      BY <1>3, <2>2, <3>1, <3>2
    <3> QED
      BY <1>4, <1>5, <3>1, <3>3 DEF TableOK
  <2> QED
    BY <2>3, <2>4
<1>9. \/ \E i \in Instances : Resolve(i)
      \/ \E f \in Files : Upload(f)
      \/ UNCHANGED <<table, crossed, bucket, notices>>
  BY DEF Next, vars, Apply, Tick, StartRead, EndRead, ReadFails,
     Push, Reload, TakeMap, CallFails
<1> QED
  BY <1>6, <1>7, <1>8, <1>9

LEMMA Invariance == Spec => []IInv
<1>1. ASSUME IInv, [Next]_vars
      PROVE  IInv'
  <2>1. BucketOK' /\ ReplacedOK' /\ CachesOK' /\ CallsOK' /\ TableOK'
    BY <1>1, BucketStep, ReplacedStep, CachesStep, CallsStep, TableStep
  <2> QED
    BY <2>1 DEF IInv
<1> QED
  BY <1>1, InitInv, PTL DEF Spec

-----------------------------------------------------------------------------
\* The bucket never holds a revision that validate_config refuses, and every
\* part has its type.
THEOREM TypeCorrect == Spec => []TypeOK
<1>1. ASSUME IInv PROVE TypeOK
  <2>1. /\ bucket \in [Files -> Revisions] /\ \A f \in Files : bucket[f] \in ValidRevisions
        /\ todo \in [rev: Revisions, files: SUBSET Files]
    BY <1>1, Naturals DEF IInv, BucketOK
  <2>2. \A i \in Instances, f \in Files :
          caches[i][f] = Empty \/ caches[i][f] \in [rev: Revisions, age: 0..(TTL + 1)]
    BY <1>1 DEF IInv, CachesOK, Cached
  <2>3. \A i \in Instances :
          reading[i] = NoRead \/ reading[i] \in [file: Files, rev: Revisions, ticks: 0..MaxRead]
    BY <1>1 DEF IInv, CachesOK, Read
  <2>4. \A i \in Instances : calls[i] \in
          {NoCall} \cup [stage: {"pushed", "reloaded"}, notice: Notices]
          \cup [stage: {"mapped"}, notice: Notices, map: Revisions]
    BY <1>1 DEF IInv, CallsOK, Pushed, Reloaded, Mapped
  <2>5. notices \subseteq Notices /\ table \in Revisions /\ faults \in 0..MaxFaults
    BY <1>1 DEF IInv, CallsOK, TableOK
  <2>6. \A f \in Files : replaced[f] \in [Revisions -> 0..Late]
    BY <1>1 DEF IInv, ReplacedOK
  <2>7. crossed \in BOOLEAN
    BY <1>1 DEF IInv, TableOK
  <2> QED
    BY <2>1, <2>2, <2>3, <2>4, <2>5, <2>6, <2>7 DEF TypeOK
<1> QED
  BY <1>1, Invariance, PTL

\* What is fresh was replaced at most an interval and a read ago.
LEMMA FreshIsRecent ==
  ASSUME IInv, NEW i \in Instances, NEW f \in Files, Fresh(i, f)
  PROVE  /\ caches[i][f].rev \in Revisions /\ caches[i][f].rev <= bucket[f]
         /\ replaced[f][caches[i][f].rev] < Late
<1>1. caches[i][f] \in Cached /\ CachedOK(caches[i][f], f) /\ caches[i][f] # Empty
      /\ caches[i][f].age <= TTL
  BY DEF IInv, CachesOK, Fresh
<1>2. caches[i][f].rev \in Revisions /\ caches[i][f].age \in 0..(TTL + 1)
  BY <1>1 DEF Cached
<1>3. replaced[f][caches[i][f].rev] \in 0..Late
  BY <1>2 DEF IInv, ReplacedOK
<1>4. replaced[f][caches[i][f].rev] <= caches[i][f].age + MaxRead
      /\ caches[i][f].rev <= bucket[f]
  BY <1>1 DEF CachedOK
<1> QED
  BY <1>1, <1>2, <1>3, <1>4, Naturals

\* However many notices are lost and reads fail, no instance answers with a
\* file that was replaced longer ago than the interval and one read.
THEOREM StalenessBounded == Spec => []StalenessIsBounded
<1>1. ASSUME IInv PROVE StalenessIsBounded
  BY <1>1, FreshIsRecent DEF StalenessIsBounded
<1> QED
  BY <1>1, Invariance, PTL

\* When no notice is left the owners in the table are those of the bucket,
\* unless two resolutions were under way at the same time.
THEOREM OwnersFollow == Spec => []OwnersLagForAReason
<1>1. ASSUME IInv PROVE OwnersLagForAReason
  BY <1>1 DEF IInv, TableOK, OwnersLagForAReason
<1> QED
  BY <1>1, Invariance, PTL

\* What the validation looks at is what decides: files that pass together
\* stamp the findings of every component with one of its teams.
LEMMA ValidIsAligned ==
  ASSUME NEW r \in ValidRevisions
  PROVE  Aligned(Contents[r].ownership, Contents[r].registry)
<1> DEFINE own == Contents[r].ownership
           reg == Contents[r].registry
<1>1. r \in Revisions /\ Valid(own, reg)
  BY DEF ValidRevisions
<1>2. ASSUME NEW c \in reg.components, HasCode(c)
      PROVE  OwnerOf(reg, own, "sonarcloud", PrimaryAsset(own, c), None)
               \in (UNION {d.teams : d \in Services(reg, c.key)})
  <2>1. /\ c.teams # {}
        /\ IngestOwner(own, c) \notin {Unowned, Excluded} /\ c.lead = IngestOwner(own, c)
    BY <1>1, <1>2 DEF Valid, ComponentIsValid
  <2>2. c.lead \in c.teams
    BY <1>1, <2>1, ContentsAssumption
  <2>3. IngestOwner(own, c) = TeamForAsset(own, PrimaryAsset(own, c))
    BY <2>1 DEF IngestOwner
  <2>4. OwnerOf(reg, own, "sonarcloud", PrimaryAsset(own, c), None)
          = TeamForAsset(own, PrimaryAsset(own, c))
    BY DEF OwnerOf
  <2>5. c \in Services(reg, c.key)
    BY DEF Services
  <2> QED
    BY <2>1, <2>2, <2>3, <2>4, <2>5
<1> QED
  BY <1>2 DEF Aligned

\* An instance that stamps one team and filters by another does so during an
\* upload, or for no longer than a cached file may be old.
THEOREM MisalignmentIsShort == Spec => []MisalignmentEnds
<1>1. ASSUME IInv, NEW i \in Instances, \A f \in Files : Fresh(i, f), todo.files = {},
             \A f \in Files : ~(caches[i][f].rev < bucket[f]
                                /\ replaced[f][caches[i][f].rev] < Late)
      PROVE  <<caches[i]["ownership"].rev, caches[i]["registry"].rev>> \in AlignedRevisions
  <2>1. \A f \in Files : /\ bucket[f] \in Nat /\ bucket[f] \in Revisions
                         /\ Contents[bucket[f]][f] = Contents[todo.rev][f]
    BY <1>1, Naturals DEF IInv, BucketOK
  <2>2. \A f \in Files : caches[i][f].rev \in Revisions /\ caches[i][f].rev = bucket[f]
    BY <1>1, <2>1, FreshIsRecent, Naturals
  <2>3. todo.rev \in ValidRevisions
    BY <1>1 DEF IInv, BucketOK
  <2>4. Aligned(Contents[todo.rev].ownership, Contents[todo.rev].registry)
    BY <2>3, ValidIsAligned
  <2>5. "ownership" \in Files /\ "registry" \in Files
    BY DEF Files
  <2>6. PICK p \in Revisions \X Revisions :
          p = <<caches[i]["ownership"].rev, caches[i]["registry"].rev>>
    BY <2>2, <2>5
  <2>7. p[1] = bucket["ownership"] /\ p[2] = bucket["registry"]
    BY <2>2, <2>5, <2>6
  <2>8. /\ Contents[p[1]].ownership = Contents[todo.rev].ownership
        /\ Contents[p[2]].registry = Contents[todo.rev].registry
    BY <2>1, <2>5, <2>7
  <2> QED
    BY <2>4, <2>6, <2>8 DEF AlignedRevisions
<1>2. ASSUME IInv PROVE MisalignmentEnds
  BY <1>1, <1>2 DEF MisalignmentEnds
<1> QED
  BY <1>2, Invariance, PTL

-----------------------------------------------------------------------------
(***************************************************************************)
(* The owners of the table: Ownership.                                     *)
(***************************************************************************)
\* Functions on some of the findings.
Parts(S) == UNION {[d -> S] : d \in SUBSET Findings}

Snapshot == [stage: {"idle", "mapped", "loaded"}, asset: Parts(Assets),
             want: Parts(Row), read: Parts(Row)]
Run == [stage: {"idle", "started", "scanned", "read"}, map: Configs,
        seen: Parts(Row), fix: Parts([to: Teams, from: Teams])]

\* What the stage says of a snapshot's parts.
Shape(x) ==
  /\ DOMAIN x.read = DOMAIN x.want
  /\ x.stage # "loaded" => DOMAIN x.read = {}
  /\ x.stage # "mapped" => DOMAIN x.asset = {}

OwnersTypes ==
  /\ file \in Configs /\ cache \in [Workers -> Configs]
  /\ rows \in [Findings -> Row]
  /\ ingest \in [Workers -> Snapshot]
  /\ \A w \in Workers : Shape(ingest[w])
  /\ job \in Run
  /\ job.stage = "scanned" => DOMAIN job.seen = Findings
  /\ calm \in BOOLEAN

\* What a calm run has scanned is what the rows still are, or they have been
\* put right; and what it is about to write puts them right.
ScannedOK(f) ==
  /\ job.seen[f].asset = rows[f].asset
  /\ job.seen[f] = rows[f] \/ Owned(f)
ReadOnce(f) ==
  IF f \in DOMAIN job.fix
  THEN /\ job.fix[f].to = TeamOf(file, rows[f].asset)
       /\ job.fix[f].to # job.fix[f].from \/ Owned(f)
  ELSE Owned(f)
RunOK ==
  calm => /\ job.stage \in {"started", "scanned"} => job.map = file
          /\ job.stage = "scanned" => \A f \in Findings \ Stamped : ScannedOK(f)
          /\ job.stage = "read" => \A f \in Findings \ Stamped : ReadOnce(f)

OwnersInv == OwnersTypes /\ RunOK

LEMMA PartsAre ==
  ASSUME NEW S, NEW g
  PROVE  g \in Parts(S) <=> DOMAIN g \subseteq Findings /\ g \in [DOMAIN g -> S]
<1>1. ASSUME g \in Parts(S)
      PROVE  DOMAIN g \subseteq Findings /\ g \in [DOMAIN g -> S]
  <2>1. PICK d \in SUBSET Findings : g \in [d -> S]
    BY <1>1, Zenon DEF Parts
  <2> QED
    BY <2>1
<1>2. ASSUME DOMAIN g \subseteq Findings, g \in [DOMAIN g -> S]
      PROVE  g \in Parts(S)
  <2>1. [DOMAIN g -> S] \in {[d -> S] : d \in SUBSET Findings}
    BY <1>2, Zenon
  <2> QED
    BY <1>2, <2>1, Zenon DEF Parts
<1> QED
  BY <1>1, <1>2

LEMMA NothingIsAPart == ASSUME NEW S PROVE NoRows \in Parts(S) /\ DOMAIN NoRows = {}
<1>1. DOMAIN NoRows = {} /\ NoRows \in [{} -> S]
  BY DEF NoRows
<1> QED
  BY <1>1, PartsAre

\* What a file says of a finding.
LEMMA FileSays ==
  ASSUME NEW c \in Configs, NEW f \in Findings, NEW a \in Assets
  PROVE  /\ c.asset[f] \in Assets /\ TeamOf(c, a) \in Teams
         /\ OwnerFor(c, f, a) \in Teams
         /\ f \notin Stamped => OwnerFor(c, f, a) = TeamOf(c, a)
<1>1. /\ c.asset \in [Findings -> Assets] /\ c.team \in [Assets -> Teams]
      /\ Stamp \in [Stamped -> Teams]
  BY OwnershipAssumption DEF Config
<1> QED
  BY <1>1 DEF TeamOf, OwnerFor

LEMMA NoRunIs ==
  ASSUME file \in Configs
  PROVE  NoRun \in Run /\ NoRun.stage = "idle" /\ NoSnapshot \in Snapshot
<1>1. (CHOOSE c \in Configs : TRUE) \in Configs
  OBVIOUS
<1> DEFINE first == CHOOSE c \in Configs : TRUE
<1> HIDE DEF first
<1>2. NoRun = [stage |-> "idle", map |-> first, seen |-> NoRows, fix |-> NoRows]
  BY DEF NoRun, first
<1>3. first \in Configs
  BY <1>1 DEF first
<1> QED
  BY <1>2, <1>3, NothingIsAPart DEF Run, Snapshot, NoSnapshot

LEMMA OwnersStart == OwnersInit => OwnersInv
<1> SUFFICES ASSUME OwnersInit PROVE OwnersInv
  OBVIOUS
<1>1. file \in Configs /\ NoRun \in Run /\ NoRun.stage = "idle" /\ NoSnapshot \in Snapshot
  BY NoRunIs DEF OwnersInit
<1>2. rows \in [Findings -> Row]
  <2>1. file.asset \in [Findings -> Assets]
    BY <1>1, OwnershipAssumption DEF Config
  <2>2. ASSUME NEW f \in Findings
        PROVE  [asset |-> file.asset[f], owner |-> OwnerFor(file, f, file.asset[f])] \in Row
    <3>1. file.asset[f] \in Assets
      BY <2>1
    <3> QED
      BY <1>1, <3>1, FileSays DEF Row
  <2>3. rows = [f \in Findings |-> [asset |-> file.asset[f],
                                   owner |-> OwnerFor(file, f, file.asset[f])]]
    BY DEF OwnersInit
  <2> QED
    BY <2>2, <2>3
<1>3. Shape(NoSnapshot)
  BY NothingIsAPart DEF NoSnapshot, Shape
<1> QED
  BY <1>1, <1>2, <1>3 DEF OwnersInit, OwnersInv, OwnersTypes, RunOK

\* A snapshot's step changes nothing of the run.
LEMMA MapStep ==
  ASSUME OwnersInv, NEW w \in Workers, NEW S \in Snapshots, Map(w, S)
  PROVE  OwnersInv'
<1> DEFINE mapped == [f \in S |-> cache[w].asset[f]]
<1>1. S \subseteq Findings /\ cache[w] \in Configs /\ cache[w].asset \in [Findings -> Assets]
  <2>1. S \subseteq Findings
    BY OwnershipAssumption DEF Snapshots
  <2>2. cache[w] \in Configs
    BY DEF OwnersInv, OwnersTypes
  <2>3. cache[w].asset \in [Findings -> Assets]
    BY <2>2, OwnershipAssumption DEF Config
  <2> QED
    BY <2>1, <2>2, <2>3
<1>2. mapped \in Parts(Assets)
  <2>1. DOMAIN mapped = S /\ mapped \in [S -> Assets]
    BY <1>1
  <2> HIDE DEF mapped
  <2> QED
    BY <1>1, <2>1, PartsAre
<1>3. /\ ingest \in [Workers -> Snapshot] /\ ingest[w] \in Snapshot
      /\ \A v \in Workers : Shape(ingest[v])
      /\ ingest[w].stage = "idle"
  BY DEF OwnersInv, OwnersTypes, Map
<1>4. ingest' = [ingest EXCEPT ![w].stage = "mapped", ![w].asset = mapped]
  BY DEF Map
<1> HIDE DEF mapped
<1>5. /\ ingest' \in [Workers -> Snapshot]
      /\ ingest'[w].read = ingest[w].read /\ ingest'[w].want = ingest[w].want
      /\ ingest'[w].stage = "mapped"
      /\ \A v \in Workers : v # w => ingest'[v] = ingest[v]
  BY <1>2, <1>3, <1>4 DEF Snapshot
<1>9. \A v \in Workers : Shape(ingest'[v])
  BY <1>3, <1>5 DEF Shape
<1>6. UNCHANGED <<file, cache, rows, job, calm>>
  BY DEF Map
<1>7. OwnersTypes'
  BY <1>5, <1>6, <1>9 DEF OwnersInv, OwnersTypes
<1>8. RunOK'
  BY <1>6 DEF OwnersInv, RunOK, ScannedOK, ReadOnce, Owned
<1> QED
  BY <1>7, <1>8 DEF OwnersInv

LEMMA LoadStep ==
  ASSUME OwnersInv, NEW w \in Workers, Load(w)
  PROVE  OwnersInv'
<1> DEFINE asset == ingest[w].asset
           want == [f \in DOMAIN asset |->
                      [asset |-> asset[f], owner |-> OwnerFor(cache[w], f, asset[f])]]
           read == [f \in DOMAIN asset |-> rows[f]]
<1>1. /\ ingest \in [Workers -> Snapshot] /\ ingest[w] \in Snapshot
      /\ cache[w] \in Configs /\ rows \in [Findings -> Row]
  BY DEF OwnersInv, OwnersTypes
<1>2. DOMAIN asset \subseteq Findings /\ asset \in [DOMAIN asset -> Assets]
  <2>1. asset \in Parts(Assets)
    BY <1>1 DEF Snapshot
  <2> HIDE DEF asset
  <2> QED
    BY <2>1, PartsAre
<1>3. want \in Parts(Row) /\ read \in Parts(Row) /\ DOMAIN read = DOMAIN want
  <2>1. want \in [DOMAIN asset -> Row] /\ read \in [DOMAIN asset -> Row]
    BY <1>1, <1>2, FileSays DEF Row
  <2>2. DOMAIN want = DOMAIN asset /\ DOMAIN read = DOMAIN asset
    OBVIOUS
  <2> HIDE DEF want, read, asset
  <2> QED
    BY <1>2, <2>1, <2>2, PartsAre
<1>4. ingest' = [ingest EXCEPT ![w].stage = "loaded", ![w].asset = NoRows,
                               ![w].want = want, ![w].read = read]
  BY DEF Load
<1> HIDE DEF want, read, asset
<1>5. NoRows \in Parts(Assets)
  BY NothingIsAPart
<1>6. ingest'[w] = [stage |-> "loaded", asset |-> NoRows, want |-> want, read |-> read]
  BY <1>1, <1>4 DEF Snapshot
<1>7. /\ ingest' \in [Workers -> Snapshot]
      /\ \A v \in Workers : Shape(ingest'[v])
  <2>1. ingest'[w] \in Snapshot /\ Shape(ingest'[w])
    BY <1>3, <1>5, <1>6, NothingIsAPart DEF Snapshot, Shape
  <2>2. ASSUME NEW v \in Workers
        PROVE  ingest'[v] \in Snapshot /\ Shape(ingest'[v])
    <3>1. CASE v = w
      BY <2>1, <3>1
    <3>2. CASE v # w
      BY <1>1, <1>4, <3>2 DEF OwnersInv, OwnersTypes
    <3> QED
      BY <3>1, <3>2
  <2>3. ingest' = [v \in Workers |-> ingest'[v]]
    BY <1>1, <1>4
  <2> QED
    BY <2>2, <2>3
<1>8. UNCHANGED <<file, cache, rows, job, calm>>
  BY DEF Load
<1>9. OwnersTypes'
  BY <1>7, <1>8 DEF OwnersInv, OwnersTypes
<1>10. RunOK'
  BY <1>8 DEF OwnersInv, RunOK, ScannedOK, ReadOnce, Owned
<1> QED
  BY <1>9, <1>10 DEF OwnersInv

\* A transaction of an instance ends.
LEMMA EndOfSnapshot ==
  ASSUME OwnersInv, NEW w \in Workers, ingest' = [ingest EXCEPT ![w] = NoSnapshot]
  PROVE  /\ ingest' \in [Workers -> Snapshot]
         /\ \A v \in Workers : Shape(ingest'[v])
<1>1. NoSnapshot \in Snapshot
  BY NoRunIs DEF OwnersInv, OwnersTypes
<1>2. Shape(NoSnapshot)
  BY NothingIsAPart DEF NoSnapshot, Shape
<1>3. /\ ingest \in [Workers -> Snapshot]
      /\ \A v \in Workers : Shape(ingest[v])
  BY DEF OwnersInv, OwnersTypes
<1> HIDE DEF NoSnapshot
<1> QED
  BY <1>1, <1>2, <1>3

\* The rows after a commit: of those it wants, the columns that differ.
LEMMA Committed ==
  ASSUME OwnersInv, NEW w \in Workers, Commit(w)
  PROVE  /\ rows' \in [Findings -> Row]
         /\ \A f \in Findings :
              rows'[f] = IF f \in DOMAIN ingest[w].want
                         THEN Dirty(rows[f], ingest[w].read[f], ingest[w].want[f])
                         ELSE rows[f]
<1>1. /\ ingest[w] \in Snapshot /\ rows \in [Findings -> Row]
  BY DEF OwnersInv, OwnersTypes
<1> DEFINE want == ingest[w].want
           read == ingest[w].read
<1>2. want \in Parts(Row)
  BY <1>1 DEF Snapshot
<1>3. rows' = [f \in Findings |-> IF f \in DOMAIN want THEN Dirty(rows[f], read[f], want[f])
                                                     ELSE rows[f]]
  BY DEF Commit
<1> HIDE DEF want, read
<1>4. \A f \in DOMAIN want : want[f] \in Row
  BY <1>2, PartsAre
<1>5. \A f \in DOMAIN want : f \in Findings => Dirty(rows[f], read[f], want[f]) \in Row
  BY <1>1, <1>4 DEF Dirty, Row
<1> QED
  BY <1>1, <1>3, <1>5 DEF want, read

\* Of a plain snapshot, the commit keeps the assets, and an owner it writes is
\* the one the file gives.
LEMMA PlainCommit ==
  ASSUME OwnersInv, NEW w \in Workers, Commit(w), Plain(w), NEW f \in Findings
  PROVE  /\ rows'[f].asset = rows[f].asset
         /\ f \notin Stamped =>
              rows'[f] = rows[f] \/ rows'[f].owner = TeamOf(file, rows[f].asset)
<1>1. rows[f] \in Row /\ file \in Configs
  BY DEF OwnersInv, OwnersTypes
<1>2. CASE f \notin DOMAIN ingest[w].want
  BY <1>2, Committed
<1>3. CASE f \in DOMAIN ingest[w].want
  <2> DEFINE want == ingest[w].want[f]
             read == ingest[w].read[f]
  <2>1. rows'[f] = Dirty(rows[f], read, want)
    BY <1>3, Committed
  <2>2. want = [asset |-> rows[f].asset, owner |-> OwnerFor(file, f, rows[f].asset)]
    BY <1>3 DEF Plain
  <2>3. f \notin Stamped => want.owner = TeamOf(file, rows[f].asset)
    BY <1>1, <2>2, FileSays DEF Row
  <2>4. want.asset = rows[f].asset
    BY <2>2
  <2> HIDE DEF want, read
  <2>5. rows'[f].asset = rows[f].asset
    BY <2>1, <2>4 DEF Dirty
  <2>6. CASE want.owner # read.owner
    BY <2>1, <2>3, <2>5, <2>6 DEF Dirty
  <2>7. CASE want.owner = read.owner
    <3>1. rows'[f] = [asset |-> rows[f].asset, owner |-> rows[f].owner]
      BY <2>1, <2>4, <2>7 DEF Dirty
    <3> QED
      BY <1>1, <2>5, <3>1 DEF Row
  <2> QED
    BY <2>5, <2>6, <2>7
<1> QED
  BY <1>2, <1>3

LEMMA CommitStep ==
  ASSUME OwnersInv, NEW w \in Workers, Commit(w)
  PROVE  OwnersInv'
<1>1. /\ UNCHANGED <<file, cache, job>>
      /\ calm' = (calm /\ (job.stage = "started" \/ Plain(w)))
      /\ ingest' = [ingest EXCEPT ![w] = NoSnapshot]
  BY DEF Commit
<1>2. OwnersTypes'
  <2>1. rows' \in [Findings -> Row]
    BY Committed
  <2>2. /\ ingest' \in [Workers -> Snapshot]
        /\ \A v \in Workers : Shape(ingest'[v])
    BY <1>1, EndOfSnapshot
  <2> QED
    BY <1>1, <2>1, <2>2 DEF OwnersInv, OwnersTypes
<1>3. RunOK'
  <2> SUFFICES ASSUME calm' PROVE RunOK'
    BY DEF RunOK
  <2>1. calm /\ (job.stage = "started" \/ Plain(w))
    BY <1>1
  <2>2. CASE job.stage = "started"
    BY <1>1, <2>1, <2>2 DEF OwnersInv, RunOK
  <2>3. ASSUME Plain(w), NEW f \in Findings \ Stamped
        PROVE  /\ rows'[f].asset = rows[f].asset
               /\ rows'[f] = rows[f] \/ Owned(f)'
               /\ Owned(f) => Owned(f)'
    BY <1>1, <2>3, PlainCommit DEF Owned
  <2>4. CASE Plain(w)
    <3>1. ASSUME job.stage = "scanned", NEW f \in Findings \ Stamped
          PROVE  ScannedOK(f)'
      BY <1>1, <2>1, <2>3, <2>4, <3>1 DEF OwnersInv, RunOK, ScannedOK
    <3>2. ASSUME job.stage = "read", NEW f \in Findings \ Stamped
          PROVE  ReadOnce(f)'
      BY <1>1, <2>1, <2>3, <2>4, <3>2 DEF OwnersInv, RunOK, ReadOnce
    <3> QED
      BY <1>1, <2>1, <3>1, <3>2 DEF OwnersInv, RunOK
  <2> QED
    BY <2>1, <2>2, <2>4
<1> QED
  BY <1>2, <1>3 DEF OwnersInv

LEMMA RollbackStep ==
  ASSUME OwnersInv, NEW w \in Workers, Rollback(w)
  PROVE  OwnersInv'
<1>1. UNCHANGED <<file, cache, rows, job, calm>>
      /\ ingest' = [ingest EXCEPT ![w] = NoSnapshot]
  BY DEF Rollback
<1>2. OwnersTypes'
  BY <1>1, EndOfSnapshot DEF OwnersInv, OwnersTypes
<1>3. RunOK'
  BY <1>1 DEF OwnersInv, RunOK, ScannedOK, ReadOnce, Owned
<1> QED
  BY <1>2, <1>3 DEF OwnersInv

LEMMA FileSteps ==
  ASSUME OwnersInv, Edit \/ \E w \in Workers : Refresh(w)
  PROVE  OwnersInv'
<1>1. CASE Edit
  BY <1>1 DEF Edit, OwnersInv, OwnersTypes, RunOK
<1>2. ASSUME NEW w \in Workers, Refresh(w) PROVE OwnersInv'
  <2>1. OwnersTypes'
    BY <1>2 DEF Refresh, OwnersInv, OwnersTypes
  <2>2. RunOK'
    BY <1>2 DEF Refresh, OwnersInv, RunOK, ScannedOK, ReadOnce, Owned
  <2> QED
    BY <2>1, <2>2 DEF OwnersInv
<1> QED
  BY <1>1, <1>2

LEMMA RunBegins ==
  ASSUME OwnersInv, Start \/ Scan \/ Abandon
  PROVE  OwnersInv'
<1>1. /\ file \in Configs /\ job \in Run /\ NoRun \in Run /\ NoRun.stage = "idle"
      /\ rows \in [Findings -> Row]
  BY NoRunIs DEF OwnersInv, OwnersTypes
<1> HIDE DEF NoRun
<1>2. CASE Start
  <2>1. job'.stage = "started" /\ job'.map = file /\ job' \in Run
    BY <1>1, <1>2 DEF Start, Run
  <2> QED
    BY <1>2, <2>1 DEF Start, OwnersInv, OwnersTypes, RunOK
<1>3. CASE Scan
  <2>1. rows \in Parts(Row) /\ DOMAIN rows = Findings
    BY <1>1, PartsAre
  <2>2. /\ job' \in Run /\ job'.stage = "scanned" /\ job'.map = job.map /\ job'.seen = rows
        /\ UNCHANGED <<file, cache, rows, ingest, calm>> /\ job.stage = "started"
    BY <1>1, <1>3, <2>1 DEF Scan, Run
  <2>3. OwnersTypes'
    BY <2>1, <2>2 DEF OwnersInv, OwnersTypes
  <2>4. RunOK'
    BY <2>2 DEF OwnersInv, RunOK, ScannedOK
  <2> QED
    BY <2>3, <2>4 DEF OwnersInv
<1>4. CASE Abandon
  BY <1>1, <1>4 DEF Abandon, OwnersInv, OwnersTypes, RunOK
<1> QED
  BY <1>2, <1>3, <1>4

LEMMA GetStep ==
  ASSUME OwnersInv, Get
  PROVE  OwnersInv'
<1> DEFINE fix == [f \in Disagree |-> [to |-> Resolved(f), from |-> rows[f].owner]]
<1>1. /\ job \in Run /\ job.stage = "scanned" /\ DOMAIN job.seen = Findings
      /\ rows \in [Findings -> Row] /\ job.map \in Configs
      /\ NoRun \in Run /\ NoRun.stage = "idle"
  BY NoRunIs DEF Get, OwnersInv, OwnersTypes, Run
<1>2. \A f \in Findings : job.seen[f] \in Row
  <2>1. job.seen \in Parts(Row)
    BY <1>1 DEF Run
  <2> QED
    BY <1>1, <2>1, PartsAre
<1>3. Disagree = {f \in Findings : Resolved(f) # job.seen[f].owner}
  BY <1>1 DEF Disagree
<1>4. \A f \in Findings : Resolved(f) \in Teams /\ rows[f].owner \in Teams
  BY <1>1, <1>2, FileSays DEF Resolved, Row
<1>5. fix \in Parts([to: Teams, from: Teams]) /\ DOMAIN fix = Disagree
  <2>1. fix \in [Disagree -> [to: Teams, from: Teams]] /\ DOMAIN fix = Disagree
    BY <1>3, <1>4
  <2> HIDE DEF fix
  <2> QED
    BY <1>3, <2>1, PartsAre
<1>6. job' = [NoRun EXCEPT !.stage = "read", !.fix = fix]
  BY DEF Get
<1>7. \A f \in Disagree : fix[f].to = Resolved(f) /\ fix[f].from = rows[f].owner
  OBVIOUS
<1> HIDE DEF fix, NoRun
<1>8. job' \in Run /\ job'.stage = "read" /\ job'.fix = fix
  BY <1>1, <1>5, <1>6 DEF Run
<1>9. UNCHANGED <<file, cache, rows, ingest, calm>>
  BY DEF Get
<1>10. OwnersTypes'
  BY <1>8, <1>9 DEF OwnersInv, OwnersTypes
<1>11. ASSUME calm, NEW f \in Findings \ Stamped
       PROVE  ReadOnce(f)'
  <2>1. /\ job.map = file /\ job.seen[f].asset = rows[f].asset
        /\ job.seen[f] = rows[f] \/ Owned(f)
    BY <1>1, <1>11 DEF OwnersInv, RunOK, ScannedOK
  <2>2. Resolved(f) = TeamOf(file, rows[f].asset)
    BY <2>1 DEF Resolved
  <2>3. CASE f \in Disagree
    BY <1>5, <1>7, <1>8, <1>9, <2>2, <2>3 DEF ReadOnce, Owned
  <2>4. CASE f \notin Disagree
    <3>1. Owned(f)
      BY <1>3, <2>1, <2>2, <2>4 DEF Owned
    <3> QED
      BY <1>5, <1>8, <1>9, <2>4, <3>1 DEF ReadOnce, Owned
  <2> QED
    BY <2>3, <2>4
<1>12. RunOK'
  BY <1>8, <1>9, <1>11 DEF RunOK
<1> QED
  BY <1>10, <1>12 DEF OwnersInv

\* The rows after a run's commit.
LEMMA RunCommitted ==
  ASSUME OwnersInv, CommitRun
  PROVE  /\ rows' \in [Findings -> Row] /\ file' = file
         /\ \A f \in Findings : rows'[f] = Fixed(f, rows[f])
         /\ \A f \in Findings : rows'[f].asset = rows[f].asset
         /\ calm => \A f \in Findings \ Stamped : Owned(f)'
<1>1. /\ job \in Run /\ rows \in [Findings -> Row] /\ file' = file
      /\ job.fix \in Parts([to: Teams, from: Teams])
  BY DEF OwnersInv, OwnersTypes, CommitRun, Run
<1>2. \A f \in DOMAIN job.fix : job.fix[f] \in [to: Teams, from: Teams]
  BY <1>1, PartsAre
<1>3. \A f \in Findings : Fixed(f, rows[f]) \in Row /\ Fixed(f, rows[f]).asset = rows[f].asset
  BY <1>1, <1>2 DEF Fixed, Row
<1>4. rows' = [f \in Findings |-> Fixed(f, rows[f])]
  BY DEF CommitRun
<1>5. ASSUME calm, NEW f \in Findings \ Stamped
      PROVE  Owned(f)'
  <2>1. ReadOnce(f) /\ rows[f] \in Row
    BY <1>1, <1>5 DEF OwnersInv, RunOK, CommitRun
  <2>2. rows'[f] = Fixed(f, rows[f]) /\ rows'[f].asset = rows[f].asset
    BY <1>3, <1>4
  <2>3. CASE f \in DOMAIN job.fix /\ job.fix[f].to # job.fix[f].from
    <3>1. rows'[f].owner = job.fix[f].to
      BY <2>1, <2>2, <2>3 DEF Fixed, Row
    <3> QED
      BY <1>1, <2>1, <2>2, <2>3, <3>1 DEF ReadOnce, Owned
  <2>4. CASE ~(f \in DOMAIN job.fix /\ job.fix[f].to # job.fix[f].from)
    <3>1. rows'[f] = rows[f]
      BY <2>2, <2>4 DEF Fixed
    <3> QED
      BY <1>1, <2>1, <2>4, <3>1 DEF ReadOnce, Owned
  <2> QED
    BY <2>3, <2>4
<1> QED
  BY <1>1, <1>3, <1>4, <1>5

LEMMA CommitRunStep ==
  ASSUME OwnersInv, CommitRun
  PROVE  OwnersInv'
<1>1. NoRun \in Run /\ NoRun.stage = "idle"
  BY NoRunIs DEF OwnersInv, OwnersTypes
<1>2. rows' \in [Findings -> Row]
  BY RunCommitted
<1> HIDE DEF NoRun
<1> QED
  BY <1>1, <1>2 DEF CommitRun, OwnersInv, OwnersTypes, RunOK

LEMMA OwnersStep == OwnersInv /\ [OwnersNext]_ownersVars => OwnersInv'
<1> SUFFICES ASSUME OwnersInv, [OwnersNext]_ownersVars PROVE OwnersInv'
  OBVIOUS
<1>1. ASSUME NEW w \in Workers, NEW S \in Snapshots, Map(w, S) PROVE OwnersInv'
  BY <1>1, MapStep
<1>2. ASSUME NEW w \in Workers, Load(w) \/ Commit(w) \/ Rollback(w) PROVE OwnersInv'
  BY <1>2, LoadStep, CommitStep, RollbackStep
<1>3. CASE UNCHANGED ownersVars
  <2>1. OwnersTypes'
    BY <1>3 DEF ownersVars, OwnersInv, OwnersTypes
  <2>2. RunOK'
    BY <1>3 DEF ownersVars, OwnersInv, RunOK, ScannedOK, ReadOnce, Owned
  <2> QED
    BY <2>1, <2>2 DEF OwnersInv
<1> QED
  BY <1>1, <1>2, <1>3, FileSteps, RunBegins, GetStep, CommitRunStep DEF OwnersNext

LEMMA OwnersInvariance == OwnersSpec => []OwnersInv
BY OwnersStart, OwnersStep, PTL DEF OwnersSpec

\* Maps, rows and transactions keep their types, whatever instances, snapshots
\* and runs of core_reresolve interleave.
THEOREM OwnersTypeCorrect == OwnersSpec => []OwnersTypeOK
<1>1. ASSUME OwnersInv, NEW w \in Workers
      PROVE  /\ ingest[w].stage \in {"idle", "mapped", "loaded"}
             /\ \A f \in DOMAIN ingest[w].want : ingest[w].want[f] \in Row
             /\ DOMAIN ingest[w].read = DOMAIN ingest[w].want
  <2>1. ingest[w] \in Snapshot /\ DOMAIN ingest[w].read = DOMAIN ingest[w].want
    BY <1>1 DEF OwnersInv, OwnersTypes, Shape
  <2>2. ingest[w].want \in Parts(Row) /\ ingest[w].stage \in {"idle", "mapped", "loaded"}
    BY <2>1 DEF Snapshot
  <2> QED
    BY <2>1, <2>2, PartsAre
<1>2. ASSUME OwnersInv
      PROVE  /\ job.stage \in {"idle", "started", "scanned", "read"} /\ job.map \in Configs
             /\ DOMAIN job.seen \subseteq Findings /\ DOMAIN job.fix \subseteq Findings
             /\ \A f \in DOMAIN job.fix : job.fix[f] \in [to: Teams, from: Teams]
  <2>1. /\ job.seen \in Parts(Row) /\ job.fix \in Parts([to: Teams, from: Teams])
        /\ job.stage \in {"idle", "started", "scanned", "read"} /\ job.map \in Configs
    BY <1>2 DEF OwnersInv, OwnersTypes, Run
  <2> QED
    BY <2>1, PartsAre
<1>3. OwnersInv => OwnersTypeOK
  BY <1>1, <1>2 DEF OwnersInv, OwnersTypes, OwnersTypeOK
<1> QED
  BY <1>3, OwnersInvariance, PTL

\* core_reresolve, with an unlocked scan, a later read of each row and a write
\* of the differing column alone: a run that no edit and no snapshot of another
\* file or asset crosses leaves every owner right.
THEOREM RunsDoRepair == OwnersSpec => RunsRepair
<1>1. ASSUME OwnersInv, CommitRun, calm
      PROVE  (\A f \in Findings \ Stamped : Owned(f))'
  BY <1>1, RunCommitted
<1> QED
  BY <1>1, OwnersInvariance, PTL DEF OwnersSpec, RunsRepair

\* What the file, as it is, makes of finding f; an instance all of whose work
\* comes from that file; and a snapshot that has missed no change of an asset id
\* but to the one the file gives.
FileWants(f) == [asset |-> file.asset[f], owner |-> OwnerFor(file, f, file.asset[f])]
FromFile(w) ==
  /\ cache[w] = file
  /\ \A f \in DOMAIN ingest[w].asset : ingest[w].asset[f] = file.asset[f]
  /\ \A f \in DOMAIN ingest[w].want : ingest[w].want[f] = FileWants(f)
Known(w) ==
  \A f \in DOMAIN ingest[w].read :
    rows[f].asset \in {ingest[w].read[f].asset, file.asset[f]}

UpToDate == \A w \in Workers : FromFile(w) /\ Known(w)
AllOwned == \A f \in Findings \ Stamped : Owned(f)
NoAssetMoves == \A f \in Findings : rows'[f].asset = rows[f].asset
Right == UpToDate /\ (job.stage # "idle" => calm) /\ AllOwned

LEMMA MappedSnapshot ==
  ASSUME OwnersInv, NEW w \in Workers, NEW S \in Snapshots, Map(w, S)
  PROVE  /\ DOMAIN ingest'[w].asset = S
         /\ \A f \in S : ingest'[w].asset[f] = cache[w].asset[f]
         /\ DOMAIN ingest'[w].want = {} /\ DOMAIN ingest'[w].read = {}
<1> DEFINE mapped == [f \in S |-> cache[w].asset[f]]
<1>1. /\ ingest \in [Workers -> Snapshot] /\ ingest[w] \in Snapshot
      /\ DOMAIN ingest[w].want = {} /\ DOMAIN ingest[w].read = {}
  BY DEF OwnersInv, OwnersTypes, Map, Shape
<1>2. ingest' = [ingest EXCEPT ![w].stage = "mapped", ![w].asset = mapped]
  BY DEF Map
<1>3. DOMAIN mapped = S /\ \A f \in S : mapped[f] = cache[w].asset[f]
  OBVIOUS
<1> HIDE DEF mapped
<1>4. /\ ingest'[w].asset = mapped /\ ingest'[w].want = ingest[w].want
      /\ ingest'[w].read = ingest[w].read
  BY <1>1, <1>2 DEF Snapshot
<1> QED
  BY <1>1, <1>3, <1>4

LEMMA LoadedSnapshot ==
  ASSUME OwnersInv, NEW w \in Workers, Load(w)
  PROVE  LET S == DOMAIN ingest[w].asset
         IN  /\ S \subseteq Findings /\ rows' = rows
             /\ DOMAIN ingest'[w].asset = {}
             /\ DOMAIN ingest'[w].want = S /\ DOMAIN ingest'[w].read = S
             /\ \A f \in S :
                  /\ ingest'[w].read[f] = rows[f]
                  /\ ingest'[w].want[f] =
                       [asset |-> ingest[w].asset[f],
                        owner |-> OwnerFor(cache[w], f, ingest[w].asset[f])]
<1> DEFINE asset == ingest[w].asset
           want == [f \in DOMAIN asset |->
                      [asset |-> asset[f], owner |-> OwnerFor(cache[w], f, asset[f])]]
           read == [f \in DOMAIN asset |-> rows[f]]
<1>1. ingest \in [Workers -> Snapshot] /\ ingest[w] \in Snapshot
  BY DEF OwnersInv, OwnersTypes
<1>2. asset \in Parts(Assets)
  BY <1>1 DEF Snapshot
<1>3. ingest' = [ingest EXCEPT ![w].stage = "loaded", ![w].asset = NoRows,
                               ![w].want = want, ![w].read = read]
      /\ rows' = rows
  BY DEF Load
<1>4. /\ DOMAIN want = DOMAIN asset /\ DOMAIN read = DOMAIN asset
      /\ \A f \in DOMAIN asset :
           /\ read[f] = rows[f]
           /\ want[f] = [asset |-> asset[f], owner |-> OwnerFor(cache[w], f, asset[f])]
  OBVIOUS
<1> HIDE DEF want, read, asset
<1>5. DOMAIN asset \subseteq Findings
  BY <1>2, PartsAre
<1>6. /\ ingest'[w].asset = NoRows /\ ingest'[w].want = want /\ ingest'[w].read = read
  BY <1>1, <1>3 DEF Snapshot
<1>7. DOMAIN NoRows = {}
  BY NothingIsAPart
<1> QED
  BY <1>3, <1>4, <1>5, <1>6, <1>7 DEF asset

LEMMA StepOfInstance ==
  ASSUME OwnersInv, [OwnersNext]_ownersVars, NEW w \in Workers
  PROVE  /\ cache'[w] \in {cache[w], file}
         /\ \/ ingest'[w] = ingest[w]
            \/ ingest'[w] = NoSnapshot
            \/ \E S \in Snapshots : Map(w, S)
            \/ Load(w)
<1>1. cache \in [Workers -> Configs] /\ ingest \in [Workers -> Snapshot]
  BY DEF OwnersInv, OwnersTypes
<1>2. ASSUME NEW v \in Workers, Refresh(v)
      PROVE  cache'[w] \in {cache[w], file} /\ ingest'[w] = ingest[w]
  BY <1>1, <1>2 DEF Refresh
<1>3. ASSUME NEW v \in Workers, NEW S \in Snapshots, Map(v, S)
      PROVE  cache'[w] = cache[w] /\ (v = w \/ ingest'[w] = ingest[w])
  BY <1>1, <1>3 DEF Map
<1>4. ASSUME NEW v \in Workers, Load(v)
      PROVE  cache'[w] = cache[w] /\ (v = w \/ ingest'[w] = ingest[w])
  BY <1>1, <1>4 DEF Load
<1>5. ASSUME NEW v \in Workers, Commit(v) \/ Rollback(v)
      PROVE  cache'[w] = cache[w] /\ ingest'[w] \in {ingest[w], NoSnapshot}
  <2>1. cache' = cache /\ ingest' = [ingest EXCEPT ![v] = NoSnapshot]
    BY <1>5 DEF Commit, Rollback
  <2> HIDE DEF NoSnapshot
  <2> QED
    BY <1>1, <2>1
<1>6. CASE Edit \/ Start \/ Scan \/ Get \/ CommitRun \/ Abandon \/ UNCHANGED ownersVars
  BY <1>6 DEF Edit, Start, Scan, Get, CommitRun, Abandon, ownersVars
<1> QED
  BY <1>2, <1>3, <1>4, <1>5, <1>6 DEF OwnersNext

LEMMA StepOfRows ==
  ASSUME [OwnersNext]_ownersVars
  PROVE  rows' = rows \/ (\E w \in Workers : Commit(w)) \/ CommitRun
BY DEF OwnersNext, Edit, Refresh, Map, Load, Rollback, Start, Scan, Get, Abandon, ownersVars

LEMMA FromFileStep ==
  ASSUME OwnersInv, [OwnersNext]_ownersVars, file' = file, NEW w \in Workers
  PROVE  /\ FromFile(w) => FromFile(w)'
         /\ cache[w] = file /\ ingest'[w].stage = "idle" => FromFile(w)'
<1>1. cache[w] = file => cache'[w] = file
  BY StepOfInstance
<1>2. ASSUME FromFile(w)
      PROVE  /\ \A f \in DOMAIN ingest'[w].asset : ingest'[w].asset[f] = file.asset[f]
             /\ \A f \in DOMAIN ingest'[w].want : ingest'[w].want[f] = FileWants(f)
  <2>1. CASE ingest'[w] = ingest[w]
    BY <1>2, <2>1 DEF FromFile
  <2>2. CASE ingest'[w] = NoSnapshot
    BY <2>2, NothingIsAPart DEF NoSnapshot
  <2>3. ASSUME NEW S \in Snapshots, Map(w, S)
        PROVE  /\ \A f \in DOMAIN ingest'[w].asset : ingest'[w].asset[f] = file.asset[f]
               /\ \A f \in DOMAIN ingest'[w].want : ingest'[w].want[f] = FileWants(f)
    BY <1>2, <2>3, MappedSnapshot DEF FromFile
  <2>4. CASE Load(w)
    BY <1>2, <2>4, LoadedSnapshot DEF FromFile, FileWants
  <2> QED
    BY <2>1, <2>2, <2>3, <2>4, StepOfInstance
<1>3. ASSUME ingest'[w].stage = "idle"
      PROVE  DOMAIN ingest'[w].asset = {} /\ DOMAIN ingest'[w].want = {}
  BY <1>3, OwnersStep DEF OwnersInv, OwnersTypes, Shape
<1>4. \A f : FileWants(f)' = FileWants(f)
  BY DEF FileWants, OwnerFor, TeamOf
<1>5. FromFile(w) => FromFile(w)'
  BY <1>1, <1>2, <1>4 DEF FromFile
<1>6. cache[w] = file /\ ingest'[w].stage = "idle" => FromFile(w)'
  BY <1>1, <1>3 DEF FromFile
<1> QED
  BY <1>5, <1>6

\* Of up-to-date instances, a commit moves a finding only to the asset the file
\* gives it, and a run moves none.
LEMMA AssetsMove ==
  ASSUME OwnersInv, [OwnersNext]_ownersVars, \A w \in Workers : FromFile(w), NEW f \in Findings
  PROVE  rows'[f].asset \in {rows[f].asset, file.asset[f]}
<1>1. ASSUME NEW w \in Workers, Commit(w)
      PROVE  rows'[f].asset \in {rows[f].asset, file.asset[f]}
  <2>1. CASE f \notin DOMAIN ingest[w].want
    BY <1>1, <2>1, Committed
  <2>2. CASE f \in DOMAIN ingest[w].want
    <3>1. rows'[f] = Dirty(rows[f], ingest[w].read[f], ingest[w].want[f])
      BY <1>1, <2>2, Committed
    <3>2. ingest[w].want[f] = FileWants(f)
      BY <2>2 DEF FromFile
    <3>3. ingest[w].want[f].asset = file.asset[f]
      BY <3>2 DEF FileWants
    <3> QED
      BY <3>1, <3>3 DEF Dirty
  <2> QED
    BY <2>1, <2>2
<1> QED
  BY <1>1, StepOfRows, RunCommitted

LEMMA KnownStep ==
  ASSUME OwnersInv, [OwnersNext]_ownersVars, file' = file,
         \A w \in Workers : FromFile(w), NEW w \in Workers
  PROVE  Known(w) \/ ingest[w].stage # "loaded" => Known(w)'
<1>1. ingest[w] \in Snapshot /\ Shape(ingest[w])
  BY DEF OwnersInv, OwnersTypes
<1>2. DOMAIN ingest[w].read \subseteq Findings
  <2>1. ingest[w].read \in Parts(Row)
    BY <1>1 DEF Snapshot
  <2> QED
    BY <2>1, PartsAre
<1> SUFFICES ASSUME Known(w) \/ ingest[w].stage # "loaded", NEW f \in DOMAIN ingest'[w].read
             PROVE  rows'[f].asset \in {ingest'[w].read[f].asset, file.asset[f]}
  BY DEF Known
<1>3. Known(w)
  BY <1>1 DEF Known, Shape
<1>4. CASE ingest'[w] = ingest[w]
  <2>1. /\ f \in Findings
        /\ rows[f].asset \in {ingest[w].read[f].asset, file.asset[f]}
    BY <1>2, <1>3, <1>4 DEF Known
  <2> QED
    BY <1>4, <2>1, AssetsMove
<1>5. CASE ingest'[w] = NoSnapshot
  BY <1>5, NothingIsAPart DEF NoSnapshot
<1>6. ASSUME NEW S \in Snapshots, Map(w, S) PROVE FALSE
  BY <1>6, MappedSnapshot
<1>7. CASE Load(w)
  <2>1. /\ DOMAIN ingest'[w].read = DOMAIN ingest[w].asset /\ rows' = rows
        /\ \A g \in DOMAIN ingest[w].asset : ingest'[w].read[g] = rows[g]
    BY <1>7, LoadedSnapshot
  <2> QED
    BY <2>1
<1> QED
  BY <1>4, <1>5, <1>6, <1>7, StepOfInstance

\* Of an up-to-date instance, a commit that moves no finding is a plain one.
LEMMA CommitIsPlain ==
  ASSUME OwnersInv, UpToDate, NoAssetMoves, NEW w \in Workers, Commit(w)
  PROVE  Plain(w)
<1>1. ingest[w] \in Snapshot /\ DOMAIN ingest[w].read = DOMAIN ingest[w].want
  BY DEF OwnersInv, OwnersTypes, Shape
<1>2. DOMAIN ingest[w].want \subseteq Findings
  <2>1. ingest[w].want \in Parts(Row)
    BY <1>1 DEF Snapshot
  <2> QED
    BY <2>1, PartsAre
<1> SUFFICES ASSUME NEW f \in DOMAIN ingest[w].want
             PROVE  ingest[w].want[f] = [asset |-> rows[f].asset,
                                         owner |-> OwnerFor(file, f, rows[f].asset)]
  BY DEF Plain
<1>3. /\ ingest[w].want[f] = FileWants(f)
      /\ rows[f].asset \in {ingest[w].read[f].asset, file.asset[f]}
  BY <1>1 DEF UpToDate, FromFile, Known
<1>4. /\ rows'[f] = Dirty(rows[f], ingest[w].read[f], ingest[w].want[f])
      /\ rows'[f].asset = rows[f].asset
  BY <1>2, Committed DEF NoAssetMoves
<1>5. rows[f].asset = file.asset[f]
  BY <1>3, <1>4 DEF Dirty, FileWants
<1> QED
  BY <1>3, <1>5 DEF FileWants

LEMMA CalmStep ==
  ASSUME OwnersInv, [OwnersNext]_ownersVars, file' = file, UpToDate, NoAssetMoves,
         calm, job'.stage # "idle"
  PROVE  calm'
<1>1. ASSUME NEW w \in Workers, Commit(w) PROVE calm'
  <2>1. Plain(w)
    BY <1>1, CommitIsPlain
  <2> QED
    BY <1>1, <2>1 DEF Commit
<1>2. CASE Edit
  BY <1>2 DEF Edit
<1>3. CASE CommitRun \/ Abandon
  BY <1>3, NoRunIs DEF CommitRun, Abandon, OwnersInv, OwnersTypes
<1>4. CASE Start
  BY <1>4 DEF Start
<1>5. CASE Scan \/ Get
  BY <1>5 DEF Scan, Get
<1>6. ASSUME NEW w \in Workers, NEW S \in Snapshots, Map(w, S) PROVE calm'
  BY <1>6 DEF Map
<1>7. CASE UNCHANGED ownersVars
  BY <1>7 DEF ownersVars
<1>8. ASSUME NEW w \in Workers, Refresh(w) \/ Load(w) \/ Rollback(w)
      PROVE  calm'
  BY <1>8 DEF Refresh, Load, Rollback
<1> QED
  BY <1>1, <1>2, <1>3, <1>4, <1>5, <1>6, <1>7, <1>8 DEF OwnersNext

LEMMA RightStep ==
  ASSUME OwnersInv, [OwnersNext]_ownersVars, file' = file, NoAssetMoves, Right
  PROVE  Right'
<1>1. UpToDate'
  BY FromFileStep, KnownStep DEF Right, UpToDate
<1>2. job'.stage # "idle" => calm'
  <2>1. CASE job.stage # "idle"
    BY <2>1, CalmStep DEF Right
  <2>2. CASE job.stage = "idle"
    BY <2>2 DEF OwnersNext, Edit, Refresh, Map, Load, Commit, Rollback, Start, Scan, Get,
                CommitRun, Abandon, ownersVars
  <2> QED
    BY <2>1, <2>2
<1>3. ASSUME NEW f \in Findings \ Stamped PROVE Owned(f)'
  <2>1. Owned(f)
    BY DEF Right, AllOwned
  <2>2. CASE rows' = rows
    BY <2>1, <2>2 DEF Owned
  <2>3. ASSUME NEW w \in Workers, Commit(w) PROVE Owned(f)'
    <3>1. Plain(w)
      BY <2>3, CommitIsPlain DEF Right
    <3> QED
      BY <2>1, <2>3, <3>1, PlainCommit DEF Owned
  <2>4. CASE CommitRun
    <3>1. calm
      BY <2>4 DEF CommitRun, Right
    <3> QED
      BY <2>4, <3>1, RunCommitted
  <2> QED
    BY <2>2, <2>3, <2>4, StepOfRows
<1> QED
  BY <1>1, <1>2, <1>3 DEF Right, AllOwned

\* While the file stays as it is, an instance that has refreshed its copy and
\* has ended its transaction works from the file, and goes on doing so.
FreshnessSpreads ==
  [][file' = file => \A w \in Workers :
       /\ FromFile(w) => FromFile(w)'
       /\ cache[w] = file /\ ingest'[w].stage = "idle" => FromFile(w)']_ownersVars

\* When every instance works from the file, no finding moves but to the asset
\* the file gives it, so that it moves once at most, and a transaction begun
\* since misses no other move.
AssetsSettle ==
  [][file' = file /\ (\A w \in Workers : FromFile(w)) =>
       /\ \A f \in Findings : rows'[f].asset \in {rows[f].asset, file.asset[f]}
       /\ \A w \in Workers : Known(w) \/ ingest[w].stage # "loaded" => Known(w)']_ownersVars

\* When every instance works from the file and no finding moves, a run of
\* core_reresolve that was not disturbed is disturbed by no snapshot any more.
RunsStayCalm ==
  [][file' = file /\ UpToDate /\ NoAssetMoves =>
       (calm /\ job'.stage # "idle" => calm')]_ownersVars

\* When every instance works from the file, a run that was not disturbed leaves
\* every owner right and nothing on its way that could make one wrong.
RunsMakeRight ==
  [][file' = file /\ UpToDate /\ CommitRun /\ calm => Right']_ownersVars

\* A right table stays right under every snapshot and every run, as long as the
\* file stays as it is and no finding moves.
RightStays ==
  [][file' = file /\ NoAssetMoves /\ Right => Right']_ownersVars

\* The cache of OwnershipMap and its two uses in one request: what comes from an
\* older file dies out while the file stays as it is.
THEOREM FreshnessDoesSpread == OwnersSpec => FreshnessSpreads
<1>1. ASSUME OwnersInv, [OwnersNext]_ownersVars, file' = file
      PROVE  \A w \in Workers :
               /\ FromFile(w) => FromFile(w)'
               /\ cache[w] = file /\ ingest'[w].stage = "idle" => FromFile(w)'
  BY <1>1, FromFileStep
<1> QED
  BY <1>1, OwnersInvariance, PTL DEF OwnersSpec, FreshnessSpreads

\* process_snapshot writes asset_id only where it differs from what it read:
\* once every instance works from the file, a finding's asset id can only become
\* the one the file gives.
THEOREM AssetsDoSettle == OwnersSpec => AssetsSettle
<1>1. ASSUME OwnersInv, [OwnersNext]_ownersVars, file' = file, \A w \in Workers : FromFile(w)
      PROVE  /\ \A f \in Findings : rows'[f].asset \in {rows[f].asset, file.asset[f]}
             /\ \A w \in Workers : Known(w) \/ ingest[w].stage # "loaded" => Known(w)'
  BY <1>1, AssetsMove, KnownStep
<1> QED
  BY <1>1, OwnersInvariance, PTL DEF OwnersSpec, AssetsSettle

\* Snapshots that commit between the scan of core_reresolve and its commit do
\* not invalidate it, once asset ids have stopped changing.
THEOREM RunsDoStayCalm == OwnersSpec => RunsStayCalm
<1>1. ASSUME OwnersInv, [OwnersNext]_ownersVars, file' = file, UpToDate, NoAssetMoves,
             calm, job'.stage # "idle"
      PROVE  calm'
  BY <1>1, CalmStep
<1> QED
  BY <1>1, OwnersInvariance, PTL DEF OwnersSpec, RunsStayCalm

\* The first run of core_reresolve that commits then leaves every owner of the
\* table right.
THEOREM RunsDoMakeRight == OwnersSpec => RunsMakeRight
<1>1. ASSUME OwnersInv, file' = file, UpToDate, CommitRun, calm
      PROVE  Right'
  <2>1. UpToDate'
    <3>1. [OwnersNext]_ownersVars
      BY <1>1 DEF OwnersNext
    <3> QED
      BY <1>1, <3>1, FromFileStep, KnownStep DEF UpToDate
  <2>2. job'.stage = "idle"
    BY <1>1, NoRunIs DEF CommitRun, OwnersInv, OwnersTypes
  <2> QED
    BY <1>1, <2>1, <2>2, RunCommitted DEF Right, AllOwned
<1> QED
  BY <1>1, OwnersInvariance, PTL DEF OwnersSpec, RunsMakeRight

\* Neither process_snapshot nor a later run of core_reresolve makes an owner
\* wrong again: with the theorems before it, what OwnersConverge says but for
\* the fairness that makes the steps happen.
THEOREM RightDoesStay == OwnersSpec => RightStays
<1>1. ASSUME OwnersInv, [OwnersNext]_ownersVars, file' = file, NoAssetMoves, Right
      PROVE  Right'
  BY <1>1, RightStep
<1> QED
  BY <1>1, OwnersInvariance, PTL DEF OwnersSpec, RightStays

\* As long as nobody edits ownership.yaml, the columns that ingest and
\* core_reresolve write over one another never show a wrong owner at all.
THEOREM NoEditNoError ==
  OwnersInit /\ [][OwnersNext /\ file' = file]_ownersVars => []AllOwned
<1> DEFINE AtHome == \A f \in Findings : rows[f].asset = file.asset[f]
           Inv == OwnersInv /\ Right /\ AtHome
<1>1. OwnersInit => Inv
  <2> SUFFICES ASSUME OwnersInit PROVE Inv
    OBVIOUS
  <2>1. OwnersInv /\ AtHome
    BY OwnersStart DEF OwnersInit
  <2>2. UpToDate
    BY NothingIsAPart DEF OwnersInit, UpToDate, FromFile, Known, NoSnapshot
  <2>3. job.stage = "idle"
    BY NoRunIs DEF OwnersInit
  <2>4. ASSUME NEW f \in Findings \ Stamped PROVE Owned(f)
    BY DEF OwnersInit, Owned, OwnerFor
  <2> QED
    BY <2>1, <2>2, <2>3, <2>4 DEF Right, AllOwned
<1>2. Inv /\ [OwnersNext /\ file' = file]_ownersVars => Inv'
  <2> SUFFICES ASSUME Inv, [OwnersNext /\ file' = file]_ownersVars PROVE Inv'
    OBVIOUS
  <2>1. [OwnersNext]_ownersVars /\ file' = file
    BY DEF ownersVars
  <2>2. ASSUME NEW f \in Findings
        PROVE  rows'[f].asset = file.asset[f] /\ rows'[f].asset = rows[f].asset
    BY <2>1, AssetsMove DEF Right, UpToDate
  <2>3. AtHome' /\ NoAssetMoves
    BY <2>1, <2>2 DEF NoAssetMoves
  <2> QED
    BY <2>1, <2>3, OwnersStep, RightStep
<1>3. Inv => AllOwned
  BY DEF Right
<1> QED
  BY <1>1, <1>2, <1>3, PTL

=============================================================================
