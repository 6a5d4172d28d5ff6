---------------------------- MODULE Configuration ----------------------------
(***************************************************************************)
(* How an edit of ownership.yaml and component_registry.yaml reaches the   *)
(* instances of the API: validate_config lets a revision of the files      *)
(* pass, Terraform uploads them one by one, every upload notifies some     *)
(* instance, which drops its caches and resolves the owners of the         *)
(* findings again, and the caches of the others run out.                   *)
(*                                                                         *)
(* The normalizer does the same without resolving owners; the other files  *)
(* have caches of the same kind.                                           *)
(***************************************************************************)
EXTENDS Registry

CONSTANTS
  Contents,      \* Contents[r]: the two files at revision r, from 0
  Instances,
  TTL,           \* REFRESH_INTERVAL_SECONDS, in ticks
  MaxRead,       \* bound: the ticks a read of the bucket takes at most
  MaxFaults      \* bound: reads and calls that fail, or are repeated early

Revisions == DOMAIN Contents
Files == {"ownership", "registry"}
Notices == Files \X Revisions

ASSUME ConfigurationAssumption ==
  /\ TTL \in Nat \ {0} /\ MaxRead \in Nat /\ MaxFaults \in Nat
  /\ Revisions \subseteq Nat /\ 0 \in Revisions

VARIABLES
  bucket,        \* bucket[f]: the revision the object of file f is of
  todo,          \* terraform apply: the revision, the files not uploaded
  caches,        \* caches[i][f]: what instance i keeps of file f
  reading,       \* reading[i]: the read instance i is in, its lock held
  calls,         \* calls[i]: the /internal/config-reload instance i is in
  notices,       \* config_changed notices that are not acknowledged
  table,         \* the ownership.yaml the owners were last resolved with
  replaced,      \* history: ticks since the object of a revision was replaced
  crossed,       \* history: two resolutions were under way at once
  faults

vars == <<bucket, todo, caches, reading, calls, notices, table,
          replaced, crossed, faults>>

Empty == [rev |-> None]
NoRead == [file |-> None]
NoCall == [stage |-> "none"]
Never == [r \in Revisions |-> 0]

Init ==
  /\ bucket = [f \in Files |-> 0] /\ todo = [rev |-> 0, files |-> {}]
  /\ caches = [i \in Instances |-> [f \in Files |-> Empty]]
  /\ reading = [i \in Instances |-> NoRead]
  /\ calls = [i \in Instances |-> NoCall] /\ notices = {} /\ table = 0
  /\ replaced = [f \in Files |-> Never]
  /\ crossed = FALSE /\ faults = 0

Fault == faults < MaxFaults /\ faults' = faults + 1

-----------------------------------------------------------------------------
(***************************************************************************)
(* validate_config, for the parts of the files the model has.              *)
(***************************************************************************)
Defined(own) == DOMAIN own.jira

OwnershipIsValid(own) ==
  /\ \A a \in DOMAIN own.team : own.team[a] \in Defined(own) \cup {Unowned, Excluded}
  /\ \A a \in DOMAIN own.team : a[1] = "repo" => a[3] \notin own.excluded

\* The asset a component's findings are looked up by: a Sonar project's, if
\* ownership.yaml has any of them (of several the first; here any), or else
\* the repository's.
Listed(own, c) ==
  {k \in c.sonar : k \in DOMAIN own.sonar \/ <<"sonarproj", k>> \in DOMAIN own.team}
PrimaryAsset(own, c) ==
  IF Listed(own, c) # {}
  THEN LET key == CHOOSE k \in Listed(own, c) : TRUE
       IN  Lookup(own.sonar, key, <<"sonarproj", key>>)
  ELSE RepoAsset(own, c.repo)

IngestOwner(own, c) ==
  IF Listed(own, c) = {} /\ c.repo = None THEN Unowned
  ELSE TeamForAsset(own, PrimaryAsset(own, c))

HasCode(c) == c.repo # None \/ c.sonar # {}

\* Mutant: that ingest stamps the first team is not checked.
ComponentIsKnown(own, reg, c) ==
  /\ c.teams # {} /\ (HasCode(c) \/ c.wiz # None)
  /\ c.teams \subseteq Defined(own)
  /\ \A d \in reg.components \ {c} : d.key # c.key /\ (c.wiz # None => d.wiz # c.wiz)

ComponentIsValid(own, reg, c) ==
  /\ c.teams # {} /\ (HasCode(c) \/ c.wiz # None)
  /\ c.teams \subseteq Defined(own)
  /\ \A d \in reg.components \ {c} : d.key # c.key /\ (c.wiz # None => d.wiz # c.wiz)
  /\ HasCode(c) => IngestOwner(own, c) \notin {Unowned, Excluded}
                   /\ c.lead = IngestOwner(own, c)

Valid(own, reg) ==
  /\ OwnershipIsValid(own)
  /\ \A c \in reg.components : ComponentIsValid(own, reg, c)
  /\ SupplementTeams(reg) \subseteq Defined(own)
  /\ GithubOrg # None

ValidRevisions == {r \in Revisions : Valid(Contents[r].ownership, Contents[r].registry)}

\* What is in the bucket at first has passed, and the first of a component's
\* teams is one of them.
ASSUME ContentsAssumption ==
  /\ 0 \in ValidRevisions
  /\ \A r \in Revisions : \A c \in Contents[r].registry.components :
       c.teams # {} => c.lead \in c.teams

-----------------------------------------------------------------------------
\* A revision that passes is merged and terraform apply begins.
Apply(r) ==
  /\ todo.files = {} /\ r > todo.rev /\ r \in ValidRevisions
  /\ todo' = [rev |-> r, files |->
       {f \in Files : Contents[r][f] # Contents[todo.rev][f]}]
  /\ UNCHANGED <<bucket, caches, reading, calls, notices, table,
                 replaced, crossed, faults>>

\* One object is written, in any order, and the topic is notified.
Upload(f) ==
  /\ f \in todo.files
  /\ bucket' = [bucket EXCEPT ![f] = todo.rev]
  /\ todo' = [todo EXCEPT !.files = @ \ {f}]
  /\ notices' = notices \cup {<<f, todo.rev>>}
  /\ UNCHANGED <<caches, reading, calls, table, replaced, crossed, faults>>

Sooner(x, y) == IF x < y THEN x ELSE y
Late == TTL + MaxRead + 1

Tick ==
  /\ \A i \in Instances : reading[i] # NoRead => reading[i].ticks < MaxRead
  /\ caches' = [i \in Instances |-> [f \in Files |->
       IF caches[i][f] = Empty THEN Empty
       ELSE [caches[i][f] EXCEPT !.age = Sooner(@ + 1, TTL + 1)]]]
  /\ reading' = [i \in Instances |->
       IF reading[i] = NoRead THEN NoRead ELSE [reading[i] EXCEPT !.ticks = @ + 1]]
  /\ replaced' = [f \in Files |-> [r \in Revisions |->
       IF r < bucket[f] THEN Sooner(replaced[f][r] + 1, Late) ELSE 0]]
  /\ UNCHANGED <<bucket, todo, calls, notices, table, crossed, faults>>

-----------------------------------------------------------------------------
\* A get answers what is cached unless that is older than the interval.
Fresh(i, f) == caches[i][f] # Empty /\ caches[i][f].age <= TTL

\* Otherwise it reads the object, and the instance's other gets wait for it.
StartRead(i, f) ==
  /\ reading[i] = NoRead /\ ~Fresh(i, f)
  /\ reading' = [reading EXCEPT ![i] = [file |-> f, rev |-> bucket[f], ticks |-> 0]]
  /\ UNCHANGED <<bucket, todo, caches, calls, notices, table,
                 replaced, crossed, faults>>

EndRead(i) ==
  /\ reading[i] # NoRead
  /\ caches' = [caches EXCEPT ![i][reading[i].file] = [rev |-> reading[i].rev, age |-> 0]]
  /\ reading' = [reading EXCEPT ![i] = NoRead]
  /\ UNCHANGED <<bucket, todo, calls, notices, table, replaced, crossed, faults>>

\* Mutant: when the read fails what is cached does for another interval.
ServeOld(i) ==
  /\ reading[i] # NoRead /\ Fault
  /\ caches' = [caches EXCEPT ![i][reading[i].file] =
                  IF @ = Empty THEN Empty ELSE [@ EXCEPT !.age = 0]]
  /\ reading' = [reading EXCEPT ![i] = NoRead]
  /\ UNCHANGED <<bucket, todo, calls, notices, table, replaced, crossed>>

\* The request that needed the file fails; what is cached stays too old.
ReadFails(i) ==
  /\ reading[i] # NoRead /\ Fault
  /\ reading' = [reading EXCEPT ![i] = NoRead]
  /\ UNCHANGED <<bucket, todo, caches, calls, notices, table, replaced, crossed>>

-----------------------------------------------------------------------------
Handling(i, n) == calls[i] # NoCall /\ calls[i].notice = n

\* A notice is pushed to one instance; again, while an instance has it, when
\* the acknowledgement is late.
Push(i, n) ==
  /\ calls[i] = NoCall /\ n \in notices
  /\ IF \E j \in Instances : Handling(j, n) THEN Fault ELSE UNCHANGED faults
  /\ calls' = [calls EXCEPT ![i] = [stage |-> "pushed", notice |-> n]]
  /\ UNCHANGED <<bucket, todo, caches, reading, notices, table, replaced, crossed>>

\* Mutant: an empty file that counts as just read takes the place.
Blank(i) == [caches EXCEPT ![i] = [f \in Files |-> [rev |-> None, age |-> 0]]]

Dropped(i) == [caches EXCEPT ![i] = [f \in Files |-> Empty]]

\* Mutant: the caches are dropped without the lock.
ReloadUnlocked(i) ==
  /\ calls[i].stage = "pushed"
  /\ caches' = Dropped(i)
  /\ calls' = [calls EXCEPT ![i].stage = "reloaded"]
  /\ UNCHANGED <<bucket, todo, reading, notices, table, replaced, crossed, faults>>

\* force_reload, which a read that is under way keeps waiting.
Reload(i) ==
  /\ calls[i].stage = "pushed" /\ reading[i] = NoRead
  /\ caches' = Dropped(i)
  /\ calls' = [calls EXCEPT ![i].stage = "reloaded"]
  /\ UNCHANGED <<bucket, todo, reading, notices, table, replaced, crossed, faults>>

\* The handler's own get_ownership, which may find what another get has read;
\* its get_component_registry, for Wiz services, is left out.
TakeMap(i) ==
  /\ calls[i].stage = "reloaded" /\ reading[i] = NoRead /\ Fresh(i, "ownership")
  /\ calls' = [calls EXCEPT ![i] =
                 [stage |-> "mapped", notice |-> @.notice,
                  map |-> caches[i]["ownership"].rev]]
  /\ UNCHANGED <<bucket, todo, caches, reading, notices, table,
                 replaced, crossed, faults>>

\* core_reresolve sets the owners that disagree with the map it was given
\* (module Ownership has its steps), and the notice is acknowledged.
Resolve(i) ==
  /\ calls[i].stage = "mapped"
  /\ table' = calls[i].map
  /\ crossed' = (crossed \/ \E j \in Instances \ {i} :
                   calls[j].stage \in {"reloaded", "mapped"})
  /\ calls' = [calls EXCEPT ![i] = NoCall]
  /\ notices' = notices \ {calls[i].notice}
  /\ UNCHANGED <<bucket, todo, caches, reading, replaced, faults>>

\* A read, the database or the instance fails: the notice is pushed again.
CallFails(i) ==
  /\ calls[i] # NoCall /\ Fault
  /\ calls' = [calls EXCEPT ![i] = NoCall]
  /\ UNCHANGED <<bucket, todo, caches, reading, notices, table, replaced, crossed>>

-----------------------------------------------------------------------------
Next ==
  \/ \E r \in Revisions : Apply(r)
  \/ \E f \in Files : Upload(f)
  \/ Tick
  \/ \E i \in Instances, f \in Files : StartRead(i, f)
  \/ \E i \in Instances : EndRead(i) \/ ReadFails(i)
  \/ \E i \in Instances, n \in notices : Push(i, n)
  \/ \E i \in Instances : Reload(i) \/ TakeMap(i) \/ Resolve(i) \/ CallFails(i)

Spec == Init /\ [][Next]_vars

-----------------------------------------------------------------------------
\* Every part has its type, and only revisions that pass the validation are in
\* the bucket.
TypeOK ==
  /\ bucket \in [Files -> Revisions]
  /\ todo \in [rev: Revisions, files: SUBSET Files]
  /\ \A i \in Instances, f \in Files :
       \/ caches[i][f] = Empty
       \/ caches[i][f] \in [rev: Revisions, age: 0..(TTL + 1)]
  /\ \A i \in Instances :
       \/ reading[i] = NoRead
       \/ reading[i] \in [file: Files, rev: Revisions, ticks: 0..MaxRead]
  /\ \A i \in Instances : calls[i] \in
       {NoCall} \cup [stage: {"pushed", "reloaded"}, notice: Notices]
       \cup [stage: {"mapped"}, notice: Notices, map: Revisions]
  /\ notices \subseteq Notices /\ table \in Revisions
  /\ \A f \in Files : replaced[f] \in [Revisions -> 0..Late]
  /\ crossed \in BOOLEAN /\ faults \in 0..MaxFaults
  /\ \A f \in Files : bucket[f] \in ValidRevisions

\* Whatever becomes of the notices, no instance answers with a file that was
\* replaced longer ago than the interval and a read: also when reads fail.
StalenessIsBounded ==
  \A i \in Instances, f \in Files :
    Fresh(i, f) => replaced[f][caches[i][f].rev] < Late

\* A service's findings are those of its team: on the asset the validation
\* looks at, the owner ingest gives a finding is a team the service's filter
\* asks for.
Aligned(own, reg) ==
  \A c \in reg.components : HasCode(c) =>
    OwnerOf(reg, own, "sonarcloud", PrimaryAsset(own, c), None)
      \in (UNION {d.teams : d \in Services(reg, c.key)})

AlignedRevisions ==
  {p \in Revisions \X Revisions :
     Aligned(Contents[p[1]].ownership, Contents[p[2]].registry)}

\* An instance that stamps one team and filters by another does so during an
\* upload, or for no longer than a cached file may be old.
MisalignmentEnds ==
  \A i \in Instances :
    LET Rev(f) == caches[i][f].rev
    IN  \/ \E f \in Files : ~Fresh(i, f)
        \/ todo.files # {}
        \/ \E f \in Files : Rev(f) < bucket[f] /\ replaced[f][Rev(f)] < Late
        \/ <<Rev("ownership"), Rev("registry")>> \in AlignedRevisions

\* When no notice is left, the owners are the bucket's, unless two instances
\* resolved at the same time: then the one with the older map may be last.
OwnersLagForAReason ==
  notices = {} => table = bucket["ownership"] \/ crossed
=============================================================================
