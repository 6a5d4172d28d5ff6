----------------------------- MODULE Ownership -----------------------------
(***************************************************************************)
(* Finding.asset_id and Finding.owner_team, and who writes them: the       *)
(* normalizer instances, each with its own cached copy of ownership.yaml,  *)
(* and core_reresolve, which the nightly rollup, the re-resolve job and    *)
(* the configuration push run over the whole table.                        *)
(*                                                                         *)
(* Every transaction reads, decides and writes in separate steps.  Its     *)
(* writes appear at once, when it commits; like the ORM's, they are the    *)
(* columns that differ from what it had read.  Events are left out.        *)
(***************************************************************************)
EXTENDS Integers, FiniteSets

CONSTANTS
  Findings,
  Stamped,       \* pentest findings: their mapper stamps owner_team
  Assets,        \* asset ids
  Teams,         \* owner_team values, "unowned" included
  Stamp,         \* Stamp[f]: the team on the Jira labels of pentest finding f
  Configs,       \* contents ownership.yaml may have: what each finding's
                 \* asset id is, and which team each asset id belongs to
  Workers        \* instances of the normalizer

Config == [asset: [Findings -> Assets], team: [Assets -> Teams]]

ASSUME OwnershipAssumption ==
  /\ Stamped \subseteq Findings
  /\ Stamp \in [Stamped -> Teams]
  /\ Configs \subseteq Config

VARIABLES
  file,          \* ownership.yaml in the configuration bucket
  cache,         \* cache[w]: the OwnershipMap instance w holds
  rows,          \* committed asset_id and owner_team of every finding
  ingest,        \* ingest[w]: the snapshot instance w is applying
  job,           \* the run of core_reresolve
  calm           \* history: since the run started nothing came between that
                 \* would make its result wrong

ownersVars == <<file, cache, rows, ingest, job, calm>>

Row == [asset: Assets, owner: Teams]
NoRows == [f \in {} |-> 0]

\* A snapshot being applied: the asset ids its mapper emitted, then the rows
\* it wants and the rows it has read.
NoSnapshot == [stage |-> "idle", asset |-> NoRows, want |-> NoRows, read |-> NoRows]

\* A run of core_reresolve: its map and the rows it has scanned, then, for
\* those it is to change, the team it resolved and the owner session.get found.
NoRun == [stage |-> "idle", map |-> CHOOSE c \in Configs : TRUE,
          seen |-> NoRows, fix |-> NoRows]

\* The team resolve_finding_owner_team gives an asset id, and the one the
\* processor gives finding f.
TeamOf(map, asset) == map.team[asset]
OwnerFor(map, f, asset) == IF f \in Stamped THEN Stamp[f] ELSE TeamOf(map, asset)

OwnersInit ==
  /\ file \in Configs
  /\ cache = [w \in Workers |-> file]
  /\ rows = [f \in Findings |-> [asset |-> file.asset[f],
                                 owner |-> OwnerFor(file, f, file.asset[f])]]
  /\ ingest = [w \in Workers |-> NoSnapshot]
  /\ job = NoRun
  /\ calm = FALSE

-----------------------------------------------------------------------------
\* Someone pushes a new ownership.yaml.
Edit ==
  /\ \E c \in Configs : c # file /\ file' = c
  /\ calm' = FALSE
  /\ UNCHANGED <<cache, rows, ingest, job>>

\* Mutant: the cached map has no age.
KeepForEver(w) == UNCHANGED ownersVars

\* Instance w reads the file again: its map is older than
\* REFRESH_INTERVAL_SECONDS, or /internal/config-reload has dropped it.
Refresh(w) ==
  /\ cache' = [cache EXCEPT ![w] = file]
  /\ UNCHANGED <<file, rows, ingest, job, calm>>

\* Findings one snapshot may report: the pentest poller's or another's.
Snapshots == ((SUBSET Stamped) \cup (SUBSET (Findings \ Stamped))) \ {{}}

\* A snapshot of findings S is mapped at instance w.
Map(w, S) ==
  /\ ingest[w].stage = "idle"
  /\ ingest' = [ingest EXCEPT ![w].stage = "mapped",
                              ![w].asset = [f \in S |-> cache[w].asset[f]]]
  /\ UNCHANGED <<file, cache, rows, job, calm>>

\* The handler takes the map again, for the owners, and reads the rows.
Load(w) ==
  LET asset == ingest[w].asset
  IN  /\ ingest[w].stage = "mapped"
      /\ ingest' = [ingest EXCEPT ![w].stage = "loaded", ![w].asset = NoRows,
           ![w].want = [f \in DOMAIN asset |->
              [asset |-> asset[f], owner |-> OwnerFor(cache[w], f, asset[f])]],
           ![w].read = [f \in DOMAIN asset |-> rows[f]]]
      /\ UNCHANGED <<file, cache, rows, job, calm>>

\* The columns that differ from what was read.
Dirty(latest, read, want) ==
  [asset |-> IF want.asset # read.asset THEN want.asset ELSE latest.asset,
   owner |-> IF want.owner # read.owner THEN want.owner ELSE latest.owner]

\* What instance w is to commit is what ownership.yaml says of the rows as
\* they are: their asset ids, and the teams of those.
Plain(w) ==
  \A f \in DOMAIN ingest[w].want :
    ingest[w].want[f] = [asset |-> rows[f].asset,
                         owner |-> OwnerFor(file, f, rows[f].asset)]

Commit(w) ==
  LET x == ingest[w]
  IN  /\ x.stage = "loaded"
      /\ rows' = [f \in Findings |->
            IF f \in DOMAIN x.want THEN Dirty(rows[f], x.read[f], x.want[f])
                                   ELSE rows[f]]
      /\ ingest' = [ingest EXCEPT ![w] = NoSnapshot]
      /\ calm' = (calm /\ (job.stage = "started" \/ Plain(w)))
      /\ UNCHANGED <<file, cache, job>>

\* The transaction fails; Pub/Sub will push the snapshot again.
Rollback(w) ==
  /\ ingest[w].stage # "idle"
  /\ ingest' = [ingest EXCEPT ![w] = NoSnapshot]
  /\ UNCHANGED <<file, cache, rows, job, calm>>

-----------------------------------------------------------------------------
\* Mutant: the run takes the map an instance has cached.
StartCached ==
  /\ job.stage = "idle"
  /\ \E w \in Workers : job' = [NoRun EXCEPT !.stage = "started", !.map = cache[w]]
  /\ calm' = TRUE
  /\ UNCHANGED <<file, cache, rows, ingest>>

\* A run starts and reads the file: jobs are new processes, and the
\* configuration push drops the API's cache first.
Start ==
  /\ job.stage = "idle"
  /\ job' = [NoRun EXCEPT !.stage = "started", !.map = file]
  /\ calm' = TRUE
  /\ UNCHANGED <<file, cache, rows, ingest>>

\* It reads a batch of rows.
Scan ==
  /\ job.stage = "started"
  /\ job' = [job EXCEPT !.stage = "scanned", !.seen = rows]
  /\ UNCHANGED <<file, cache, rows, ingest, calm>>

Resolved(f) == TeamOf(job.map, job.seen[f].asset)
Disagree == {f \in DOMAIN job.seen : Resolved(f) # job.seen[f].owner}

\* It reads, one by one, the rows whose owner disagrees, and sets the owner.
Get ==
  /\ job.stage = "scanned"
  /\ job' = [NoRun EXCEPT !.stage = "read",
       !.fix = [f \in Disagree |-> [to |-> Resolved(f), from |-> rows[f].owner]]]
  /\ UNCHANGED <<file, cache, rows, ingest, calm>>

Fixed(f, row) ==
  IF f \in DOMAIN job.fix /\ job.fix[f].to # job.fix[f].from
  THEN [row EXCEPT !.owner = job.fix[f].to] ELSE row

CommitRun ==
  /\ job.stage = "read"
  /\ rows' = [f \in Findings |-> Fixed(f, rows[f])]
  /\ job' = NoRun /\ calm' = FALSE
  /\ UNCHANGED <<file, cache, ingest>>

Abandon ==
  /\ job.stage # "idle"
  /\ job' = NoRun /\ calm' = FALSE
  /\ UNCHANGED <<file, cache, rows, ingest>>

OwnersNext ==
  \/ Edit
  \/ \E w \in Workers : Refresh(w)
  \/ \E w \in Workers, S \in Snapshots : Map(w, S)
  \/ \E w \in Workers : Load(w)
  \/ \E w \in Workers : Commit(w)
  \/ \E w \in Workers : Rollback(w)
  \/ Start \/ Scan \/ Get \/ CommitRun \/ Abandon

\* Caches expire, handlers run to their end, the rollup runs every night and
\* does not fail every night.
OwnersFairness ==
  /\ \A w \in Workers : WF_ownersVars(Refresh(w)) /\ WF_ownersVars(Load(w) \/ Commit(w))
  /\ WF_ownersVars(Start) /\ SF_ownersVars(Scan) /\ SF_ownersVars(Get) /\ SF_ownersVars(CommitRun)

OwnersSpec == OwnersInit /\ [][OwnersNext]_ownersVars /\ OwnersFairness

-----------------------------------------------------------------------------
\* Maps, rows and the steps of every transaction have their types.
OwnersTypeOK ==
  /\ file \in Configs /\ cache \in [Workers -> Configs]
  /\ rows \in [Findings -> Row]
  /\ \A w \in Workers :
       /\ ingest[w].stage \in {"idle", "mapped", "loaded"}
       /\ \A f \in DOMAIN ingest[w].want : ingest[w].want[f] \in Row
       /\ DOMAIN ingest[w].read = DOMAIN ingest[w].want
  /\ job.stage \in {"idle", "started", "scanned", "read"}
  /\ job.map \in Configs
  /\ DOMAIN job.seen \subseteq Findings /\ DOMAIN job.fix \subseteq Findings
  /\ \A f \in DOMAIN job.fix : job.fix[f] \in [to: Teams, from: Teams]

Owned(f) == rows[f].owner = TeamOf(file, rows[f].asset)

\* However a run of core_reresolve and the snapshots interleave, each writing
\* the columns it found different from what it had read: a run leaves every
\* owner that no mapper stamps the one ownership.yaml gives the asset, unless
\* the file was edited since it started, or a snapshot committed since its scan
\* that was mapped with another file or moved a finding to another asset.
RunsRepair ==
  [][CommitRun /\ calm => (\A f \in Findings \ Stamped : Owned(f))']_ownersVars

\* Once ownership.yaml stays as it is, the owner of every finding that no
\* mapper stamps comes to be, and stays, the one the file gives its asset:
\* stale caches, and ingest and re-resolve overwriting one another's columns,
\* delay that but do not prevent it.
OwnersConverge ==
  (<>[][file' = file]_file)
    => <>[](\A f \in Findings \ Stamped : Owned(f))
=============================================================================
