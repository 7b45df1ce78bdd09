# GeoContext in TLA+

GeoContext is the location service of the Rihla ecosystem: a FastAPI
application over PostgreSQL/PostGIS that tells where a coordinate is, keeps the
catalogue of sites that administrators edit on a dashboard, and is filled from
OpenStreetMap files by a separate loader. This directory holds a model of it:
TLA+ modules translated from `src/`, TLC configurations that check them on small
instances, and proofs that TLAPS checks for every instance.

Paths below are relative to `src/`.

## 1. Inventory

| Component | Code | State it keeps | Operations | Modelled |
|---|---|---|---|---|
| Locations API, writing side | `app/api/locations.py` | rows of `sites`, `location_warnings`, `nearby_services`; per request a session with a copy of the row | create, update, delete, status, bulk status, bulk delete, import, add/delete warning, add/delete nearby service | `Locations` and its companions, `RowLocks` |
| Data ingestion | `ingestion/` | the three tables, by OSM identity; per run a file, a batch, the identities seen | run, batch upsert, rollback, next file | `Ingestion` (names and identities not yet) |
| Spatial context | `app/services/spatial.py`, `app/api/context.py` | none; reads all tables statement by statement | `GET /context`, `GET /context/zones` | `SpatialContext` |
| Locations API, reading side | `app/api/locations.py` | none | list, get, analytics, activity, governorates, export | `Reads`, without activity, governorates, export and three figures of the analytics |
| Catalogue CRUD | `app/api/sites.py`, `boundaries.py`, `restricted_zones.py` | rows of `sites`, `boundaries`, `restricted_zones` and their identity constraints | create, update, delete | `Catalogue` |
| Nearby and by-governorate queries | `app/api/sites.py` | none | two queries | `Reads` |
| Search | `app/api/search.py` | none | one query and a relevance score | `Reads` |
| Access control | `app/core/security.py` | none | token, internal key, roles | planned (`Access`) |
| Admin login | `app/admin/auth_backend.py` | session cookie | login by four kinds of credentials, authenticate, logout | planned (`Access`) |
| Admin views and audit log | `app/admin/views.py` | `audit_logs` | hooks called by sqladmin | planned (`Audit`) |
| Health and readiness | `app/api/health.py`, `app/main.py` | none | counts, probes | `Reads` (counts), `Deployment` (readiness) |
| Lifespan and pools | `app/main.py`, `app/core/db.py` | two connection pools | connect, disconnect, checkout | `Deployment` (start), `RowLocks` (limit of the pool) |
| Migrations, container start-up | `migrations/`, `docker-entrypoint.sh`, `docker-compose.yml` | the schema | upgrade, wait, start | `Deployment`, without downgrades |
| Map page | `app/static/index.html` | what is on the map | overlapping fetches | planned (`MapPage`) |
| Logging, seed data | `app/core/logging.py`, `queries/`, `data/` | none | none | no: output only, and data |

How they interact: every request of the API opens its own database session
(`app/core/db.py:22`) and shares nothing else with other requests than the
database. The loader is a process of its own with the same session factory and
writes the same tables. The dashboard, the map page and the admin panel are
clients. So all interference goes through committed rows.

What is hard, and what makes each component correct:

* *Locations.* A handler awaits between reading the row, flushing, committing,
  refreshing and reading the point for its reply; any number of other handlers
  run in between. The database runs at READ COMMITTED, the application takes no
  locks and does not use the `version` column as a guard. Correct means: a
  request has one atomic effect at most and says truthfully whether it had it;
  an edit leaves alone what it was not asked to change; deleted sites stay
  deleted and take their warnings with them; `version` and `published_at` say
  something reliable about the row.
* *Ingestion.* Batches commit one by one; a failing batch is dropped and the run
  goes on; a run may stop anywhere and is then repeated from the start. Correct
  means: a run that nothing disturbed ends in what the files say, whatever
  earlier runs left behind, and rows keep their key and their categories.
* *Catalogue CRUD.* Same shape of handlers over three tables, with a uniqueness
  constraint that two requests can approach from different sides. Correct means:
  identities stay unique, a success had its effect, a reply shows what was there,
  an update undoes nothing it was not asked to change.
* *Row locks.* A transaction locks row after row; a deletion starts with the
  warnings of a site, a bulk deletion ends with them. Correct means: whatever
  waits, every request is answered, what a flush found is what it commits, and a
  deadlock takes two requests that lock several rows.
* *Reading side.* A reply is put together from several statements, orders leave
  ties open, limits cut joins. Correct means: while nothing is written the parts
  agree, pages show every row once, the nearest and the best matches come first.
* *Deployment.* Two containers migrate, a third one loads, the database may stop.
  Correct means: an unmigrated schema is never served, an upgrade is whole and
  it is known what it keeps of the data, everybody who waits stops waiting.
* *Spatial context.* Six statements see six different database states. Correct
  means: every part of a reply was true at some moment, the parts agree while
  nothing is written, and the radius is bounded.

## 2. Modules

    LocationStore      what the writing side promises (abstract)
      ^ implemented by
    Locations          the handlers, split at their statements
      ^ extended by
    LocationsHistory   history variables and the properties stated with them
      ^ extended by
    MCLocations        instances for TLC
    LocationsProofs          theorems about Locations
    LocationsHistoryProofs   theorems about LocationsHistory

    RowLocks, MCRowLocks   the commits of Locations at the level of row locks
                           and connections; implements LocationStore, too
    RowLocksProofs         theorems about RowLocks
    Reads, MCReads         the reading side, against writers of all tables
    ReadsProofs            theorems about Reads

    Deployment, DeploymentProofs, MCDeployment   containers, migrations, readiness
    Catalogue, CatalogueProofs, MCCatalogue      the catalogue's tables
    Ingestion, IngestionProofs, MCIngestion      the loader
    SpatialContext, SpatialContextProofs, MCSpatialContext   the context endpoints

### Locations

A request is a process with a program counter.

| State | Code |
|---|---|
| `live`, `gone` | the primary keys in `sites`; those of rows that were deleted |
| `row` | the columns that the handlers treat differently. `risk_level` stands for all the columns `update_location` assigns from the payload unchanged (names, descriptions, governorate, score, ...); `details` is the JSON document; `geometry` is a point |
| `kids` | the rows of `location_warnings` and `nearby_services`: two tables with the same handlers and the same foreign key |
| `loaded`, `point` | the session's copy of the row; the point an edit starts from |
| `applied`, `reply` | whether the transaction committed; how the request was answered |

| Action | Code in `app/api/locations.py` |
|---|---|
| `Accept` | dispatch; the refusal of a status change without a status (688); errors raised before any statement: an empty name in `create_location` (267: `payload.name` does not exist), a feature without geometry (488) |
| `LoadSite`, `LoadKid` | `session.get`, or 404; the SELECT of a warning or service by both keys |
| `ReadGeometry` | the SELECT of the current point when only part of it changes (634) |
| `CommitEdit` | assignments, flush and commit of `update_location` and `set_location_status` |
| `CommitBulkStatus`, `CommitBulkRemoval` | one UPDATE or DELETE, computed by the database |
| `CommitRemoval` | `session.delete` with its cascade |
| `CommitCreate`, `CommitImport` | INSERT under fresh keys; an import with a `publishedAt` fails in its only commit, since the string does not fit the column |
| `CommitKid`, `CommitKidRemoval` | INSERT and DELETE of a warning or service |
| `RefreshSite`, `RefreshKid` | `session.refresh`, which fails when the row is gone |
| `Locate`, `Answer` | the SELECT for the reply's point; the reply |
| `Fail` | a statement fails at any moment: connection lost, deadlock victim, value that does not fit, server stopped. The session rolls back |

Two facts about SQLAlchemy carry the model. The session factory says
`autoflush=False`, so assignments reach the database at the commit only; and a
flush names in its UPDATE just those columns whose value differs from the one
that was loaded (`Flushed`). Flush and commit are one step, because the row
locks a flush takes are held until the commit: nobody sees, or writes, the row
between them. Another transaction that waited for the lock then works on the
committed row, as the model's later step does.

`LocationStore` is the promise: per request at most one atomic effect, success
only after it, refusal only without it, an error at any time. `ImplementsStore`
is the refinement; `outcome` is the mapping.

`LocationsHistory` adds counters of committed edits, whether an edit was based
on an outdated copy, whether a requested status was ever in force, and whether
the status of a row is `settled`: last set by a status change that knew the
row's status and stamp, and not assigned by hand since.

The rows of `sites` have other writers, which are not actions of `Locations`:
the catalogue endpoints, the loader, the admin panel. `version` and
`published_at` mean what the properties say only as long as those stay away:
`PUT /sites/{id}` does not count a version, the loader resets it.

### RowLocks

`Locations` takes flush and commit for one step, because the locks of a flush are
kept until the commit. `RowLocks` opens that step: `agenda` is what a statement
has still to lock, `want` the row it is locking, `line` its place among those who
wait for that row, `held` the locks, `conn` who has a connection of the engine's
pool.

| Action | Code |
|---|---|
| `Accept`, `Read` | dispatch; `session.get` or the SELECT of a warning, or 404. `update_location` stands for every edit of one site |
| `Gather` | the warnings and services of the site, loaded after it (`lazy="selectin"`, `models/site.py:54`) |
| `Bulk` | the UPDATE or DELETE of a bulk handler finds its rows |
| `Turn`, `Grab` | the next row to lock; the lock is granted when nobody holds a conflicting one, and a row deleted meanwhile no longer matches |
| `LineUp`, `MoveUp` | a row that is locked: the first to come waits for its holders with the lock on the line (PostgreSQL's tuple lock), whoever comes next waits for that first one; when it is gone any of those behind moves up |
| `NextStatement` | the site after its warnings; the cascade after the sites |
| `Commit`, `Refresh`, `Answer` | commit, `session.refresh` with a connection taken anew, reply |
| `DeadlockVictim` | PostgreSQL ends one transaction of a cycle of waits; the handlers do not try again |
| `PoolTimeout` | no connection within the pool's timeout |
| `ReaderEnds` | a request that only reads, with a connection at the start, gives it back |

Lock modes, the line and the detector are PostgreSQL's and marked external. A
waiter behind another one blocks nobody by that: the detector reorders a line
before it ends a transaction. `Store` is the
refinement mapping onto `LocationStore`: of a row's content it keeps whether it
was edited.

### Reads

`todo` holds the statements a request has still to run, `got` the parts of its
reply. Every statement reads the tables as they are at that moment. Where SQL
leaves an order or a choice open (ties, LIMIT without ORDER BY, the one
governorate of several that match) the model has all of them. Distances, areas
and how a term fits a name are attributes.

| Action | Code |
|---|---|
| `CountLocations`, `PageOfLocations`, `WarningsOfLocations` | the three statements of `list_locations` |
| `Location`, `WarningsOfLocations` | `get_location`, `list_warnings` |
| `Analytics` | the figures of `get_analytics`, a statement each |
| `NearbySites` | `get_nearby_sites`: join, filter, order, limit, first row of each site |
| `MatchGovernorate`, `SitesInside` | `get_sites_by_governorate` |
| `SearchSites` | `search_sites`: filter, relevance, order, limit |
| `CountTable`, `CountFails` | `health_models`; after a failed statement the transaction is aborted and every count is zero |
| `Fail` | a statement of any other handler fails |
| `AddSites`, `EditSite`, `TouchSites`, `RemoveSite`, `AddWarning`, `RemoveWarning`, `Redraw` | one committed change by a handler of `locations.py`, `sites.py`, `boundaries.py` or by the loader |

The dashboard's figures leave two kinds of groups out: sites with no or an empty
category (`if cat`, 374) and warnings of an empty severity (`if sev`, 381),
which a request may well store; `AnalyticsAddUp` counts them in. Of the filters
of a list, category and warnings are kept; the others compare a column in the
same way. A nearby service is read like a warning. Left out: activity,
governorates, export, the lists of `sites.py`, and of the analytics
`recently_updated`, `top_updated` and the coverage of governorates. The radius
check of nearby sites is that of SpatialContext.

### Deployment

`db` is the committed schema: its revision (one number per file of
`migrations/versions`), whether `reports` has rows, and those columns of a site
and a zone that migrations rewrite: of a site the description, the category, the
categories and the status. `Step` is one migration as a function on it.

| Action | Code |
|---|---|
| `Start` | `depends_on: service_healthy` |
| `Attempt` | one turn of the loop of `docker-entrypoint.sh`; used up, it goes on all the same |
| `BeginUpgrade`, `CommitUpgrade` | `alembic upgrade head`: reads the revision, runs the chain in one transaction (`migrations/env.py:48`); fails on what another container did meanwhile |
| `Serve` | the lifespan opens the raw pool; without a database the server process ends and `--reload` keeps the container |
| `Probe` | `/readyz`: SELECT 1 on a pooled connection that is not tried before |
| `Connect`, `Load` | the loader's run, reduced to whether it loads anything |
| `StopDb`, `StartDb`, `Kill`, `Restart` | the surroundings |

### Catalogue

One module for the three routers `sites.py`, `boundaries.py` and
`restricted_zones.py`, which have the same handlers; `Table` selects the
differences: which columns are mandatory, whether an explicit null in a payload
reaches the row (only `update_site` dumps without `exclude_none`), and whether
the reply's geometry is read again. `name` stands for the mandatory columns,
`name_en` for the optional ones. `upsert` is the loader's statement for one
feature (`ingestion/upsert.py`), a writer that finds its row by identity.

| Action | Code |
|---|---|
| `Accept` | dispatch; `shape()` raises on a payload that is no geometry before a creation does anything |
| `Load` | the SELECT of the row, or 404; `shape()` of an update |
| `CommitUpdate` | assignments, flush (changed columns only) and commit; `StaleDataError`, NOT NULL and identity violations abort it |
| `CommitCreate`, `CommitDelete`, `CommitUpsert` | INSERT, DELETE, INSERT ... ON CONFLICT |
| `Refresh`, `Locate`, `Answer` | `session.refresh`; the SELECT of the geometry for the reply (boundaries and zones); the reply |
| `Fail` | a statement fails at any moment |

`past` is a history variable: what the request's row was at each moment while
the request ran.

### Ingestion

`table` is the committed rows by OSM identity; `file`, `pos`, `batch`, `seen`
are the loop variables of `run_ingestion`. `content` stands for all the columns
a feature carries (which file it came from tells them apart), `status` and
`version` for those that it does not and that the upsert resets all the same.
Actions: `StartRun`, `TakeFeature` (normalise, skip duplicates), `UpsertBatch`,
`LoseBatch` (a database error, before or in the commit), `NextFile`, `Complete`,
`Abort` (process stopped, or a file that is not JSON), and the dashboard's
`Publish` and `Delete`. A feature is `normal` when `normalize_feature` does not
raise on it, and `fits` when the table takes its row.

### SpatialContext

One action per statement of `get_spatial_context`, one for `get_nearby_zones`,
and `Write` for every other writer. PostGIS is represented by what it computes:
distances, and which boundaries and zones cover the coordinate. The zones that
intersect it are a set of their own (`Around`) beside the distances: the
advisories compare on the plane (`services/spatial.py:143`), the guidance measures
on the spheroid (165), and near a border the two may differ. The loop that
picks the site where the user is, takes the first row in reach out of the list
(`Split`). Comparisons with NaN follow Python (`Less`, `PyMin`).

## 3. Runs

| Run | Instance | Shows |
|---|---|---|
| `edits` | 3 requests, 1 site; updates that share some columns and not others, single and bulk status changes, a deletion | `TypeOK`, `VersionCountsEdits`, `StampedIffPublished`, `SuccessfulStatusWasInForce`, `EditsTouchOnlyTheirColumns`, `DeletedStayDeleted` |
| `answers` | 2 requests of any kind, imports of one or two features and removals of several sites among them, failing statements | `NoOrphanKid`, `EveryRequestAnswered`, `ImplementsStore` |
| `locks` | 3 requests and 1 reader, 2 sites, 1 warning, 3 connections | `TypeOK`, `DeadlocksTakeTwo`, `ImplementsStore`, `EveryRequestAnswered` |
| `reads` | 2 requests of 14 kinds, 3 sites in 2 governorates that overlap, empty categories and severities, 1 write | `TypeOK`, `PagesShowEachOnce`, `QuietRepliesAgree`, `NearestComeFirst`, `BestMatchesFirst` |
| `deploy` | 2 migrators, 1 loader, 6 volumes, 2 attempts, 1 outage, 2 kills or restarts | `TypeOK`, `ServingMeansMigrated`, `UpgradesAreWhole`, `UpgradesCarryOver`, `ContainersSettle`, `SomebodyMigrates`, `ReadinessReturns` |
| `loader` | the loader's own container, the same volumes, no faults | violated: `LoaderLoads` |
| `sites` | 3 requests, 2 sites; halves of an identity, explicit nulls, partial moves, a deletion, a creation, an upsert | `TypeOK`, `IdentitiesUnique`, `SuccessTookEffect`, `ReplyWasTrue`, `EditsTouchOnlyTheirColumns` |
| `zones` | 3 requests, 1 zone without identity; whole and half identities, shapes that are none, failing statements | `ReplyWasTrue`, `DeletedStayDeleted` |
| `ingest` | 2 runs, 5 files, batches of 2, 1 dashboard change | `TypeOK`, `CleanRunConverges`, `LoaderKeepsRows` |
| `rerun` | as `ingest` | violated: `RerunIsSafe` |
| `context` | 3 sites (two equally near), 3 zones (one around the coordinate on the plane only), 7 radii, 2 writes | `TypeOK`, `EachPartWasTrue`, `QuietReplyIsConsistent` |
| `radius_nan` | as `context`, no writes | violated: `RadiusIsCapped` |

**Bounds.** The hazards of Locations need two handlers that overlap and at most
one more that disturbs both, on one row; three requests give every such
overlap. `answers` and `locks` have bulk calls on two sites, so that a bulk
deletion takes more than the site of a warning. In `locks` three requests
on three connections give a deadlock of two with a third in line between them;
while the reader has its connection two of the three share the rest, so that one
waits for a connection and the others for each other.
`sites` starts with two rows whose identities differ in
both halves, so that two updates are needed to make them collide; boundaries
have no run of their own, since they combine the identity of sites with the
geometry of zones. Keys in `answers` are
as many as two requests can draw, in `sites` and `zones` as many as three can, so
running out of keys does not hide anything. In Ingestion a file of five features
and batches of two gives full batches, a shorter last batch and (in the second
site file) a full batch that loses its good row to a bad one; two runs give a
lost run and its repetition. In SpatialContext two writes let a site change
between any two statements and another table once more. `MaxRuns`, `MaxEdits`
and `MaxWrites` bound counters; `GuideLimit` is 2 instead of 5, with three
zones, so that the limit cuts.

**Symmetry.** Requests are interchangeable (no definition tells them apart), and
are declared so in the runs that check safety only; `answers`, `locks` and
`deploy`, which check liveness, use no symmetry. In `RowLocks` requests are also
the keys of the warnings they add, whose order (`Rank`) tells them apart.

**Deadlock** is checked in the runs of Locations, RowLocks, Reads, Catalogue and
SpatialContext (`Finished` is the one place where they may stop). The Ingestion
runs turn it off: a loader that has finished its last allowed run does nothing
more. So do the runs of Deployment, whose containers may all have stopped.

**Fairness.** `answers`, `locks` and `deploy` assume weak fairness of what is
running. In `answers` it is each handler's next step: the event loop resumes
every coroutine whose statement has returned, and a statement that does not
return within the driver's patience is a `Fail`, which needs no fairness since
it only ends a request sooner. Nothing forces a client to make a request, so
`Accept` is not fair. In `locks` the same holds of a request's steps, and where
it can take none, of PostgreSQL's deadlock detector, which looks at every wait
that lasts longer than `deadlock_timeout`. Nobody has to time out. In `deploy` a
running container goes on, and docker repeats the probe; the database need not
come back, nobody has to start or restart anything, and the liveness properties
carry what they need of that as a premise.

**Where replies may disagree.** The properties of `Reads` that compare parts of a
reply speak of replies during which nothing was committed: the code takes no
snapshot, so nothing better is true. `PagesShowEachOnce` also needs distinct sort
keys; the default order is by time of change, and `bulk_set_status` stamps all
its rows alike, so a dashboard that turns pages after one may miss a row.
`AnalyticsAddUp` adds the groups that the code does not show. `BestMatchesFirst`
is about searches without filters, and of beginnings only for terms without
capitals; Arabic names are searched but not ranked. Nothing is claimed of the
counts of the health page: after a failed one the rest are zero, and a zero
cannot be told from an empty table.

## 4. Theorems

`LocationsProofs` and `LocationsHistoryProofs` hold for all sets of requests, calls,
sites and values that satisfy the three assumptions of `Locations`: reserved
names are distinct, calls are well-formed (what the request schemas guarantee),
and the tables start consistent.

| Theorem | States |
|---|---|
| `TypeCorrect` | `TypeOK` |
| `KidsHaveSites` | `NoOrphanKid` |
| `EditsAreNarrow` | `EditsTouchOnlyTheirColumns` |
| `HandlersImplementStore` | `ImplementsStore`, the refinement |
| `DeletionIsFinal` | `DeletedStayDeleted` |
| `VersionsCount` | `VersionCountsEdits` |
| `SuccessMeansInForce` | `SuccessfulStatusWasInForce` |
| `StampsFollowPublication` | `StampedIffPublished` |

`CatalogueProofs`, for each of the three tables and all sets of requests, calls
and rows that satisfy the assumptions of `Catalogue`:

| Theorem | States |
|---|---|
| `TypeCorrect` | `TypeOK`, no missing mandatory value included |
| `IdentitiesStayUnique` | `IdentitiesUnique` |
| `DeletionIsFinal` | `DeletedStayDeleted` |
| `EditsAreNarrow` | `EditsTouchOnlyTheirColumns` |
| `SuccessIsReal` | `SuccessTookEffect` |
| `RepliesAreTrue` | `ReplyWasTrue` |

`RowLocksProofs`, for all sets of requests, calls, sites and every size of the
pool:

| Theorem | States |
|---|---|
| `TypeCorrect` | `TypeOK`, the limit of the pool included |
| `DeadlocksNeedTwo` | `DeadlocksTakeTwo` |
| `LocksImplementStore` | `ImplementsStore`, the refinement |

`DeploymentProofs`, for all sets of volumes whose tables and columns are those of
their revision, every number of attempts, outages and restarts, and either the
loader's own container or one with the files:

| Theorem | States |
|---|---|
| `TypeCorrect` | `TypeOK` |
| `OnlyMigratedIsServed` | `ServingMeansMigrated` |
| `ChainsAreWhole` | `UpgradesAreWhole` |
| `MigrationsCarryOver` | `UpgradesCarryOver` |

`IngestionProofs`, for any files in which only sites have categories and an
identity always is of the same table, every size of batches, and every number of
runs and of changes on the dashboard:

| Theorem | States |
|---|---|
| `TypeCorrect` | `TypeOK` |
| `RunsConverge` | `CleanRunConverges` |
| `RowsAreKept` | `LoaderKeepsRows` |

`SpatialContextProofs`, for any finite sets of places and zones, any distances,
radii and settings:

| Theorem | States |
|---|---|
| `TypeCorrect` | `TypeOK` |
| `EveryPartWasTrue` | `EachPartWasTrue` |
| `QuietRepliesAgree` | `QuietReplyIsConsistent` |

`ReadsProofs`, for any finite sets of sites and governorates, any names,
categories, areas and distances, however terms fit names, for any tables at the
start, any requests the routers let through and any number of writes:

| Theorem | States |
|---|---|
| `TypeCorrect` | `TypeOK` |
| `QuietRepliesAreOne` | `QuietRepliesAgree` |
| `PagesShowAll` | `PagesShowEachOnce` |
| `NearestSitesComeFirst` | `NearestComeFirst` |
| `BestMatchesComeFirst` | `BestMatchesFirst` |

**Locations.** The inductive invariant `IInv` is `TypeOK /\ CallsSound /\ Stages
/\ KeysApart /\ NoOrphanKid`. The properties alone are not inductive: that a
commit keeps the type of a row needs to know that the call which reached it
carries a status or a point (`CallsSound`), that success follows the effect
needs to know which statements come after the commit (`Stages`), and that
deletion is final needs keys never to be live and gone at once (`KeysApart`).
Two lemmas carry the step: `MovesOn` for handlers that leave the tables alone
and `Commits` for those that commit; each action is an instance of one of them.

The refinement follows from `IInv`: `GoesOnUnseen`, `AnswerIsSeen` and
`CommitIsSeen` say what the abstract store sees of each kind of step.
`DeletionIsFinal` is derived from the store's steps. `EditsAreNarrow` rests on
two facts about pure operators: an edit assigns to a column it was not asked to
change the value it read (`AssignedKeeps`), and a flush leaves such a column out
(`FlushedKeeps`).

`VersionsCount` needs to know that a handler's copy is never ahead of the edits
committed by now (`CopiesBehind`) and that keys not drawn yet have no history
(`NewKeysUnused`). `SuccessMeansInForce` follows the knowledge of one request
through its statements (`StatusSeen`): if its copy already had the status it was
in force when it was read, otherwise the flush puts it in force.
`StampsFollowPublication` is inductive once the history of a row is kept in
`settled`: an edit of one site either settles it, from a copy that agrees with
the row in status and stamp, or leaves both columns out of its flush, or
unsettles it (`StampEdit`); a bulk change always settles (`StampBulk`); the other
steps change no row that was live before (`StampOther`).

**Catalogue.** The inductive invariant is `TypeOK /\ CallsSound /\ GoneAreAbsent
/\ IdentitiesUnique`. `CallsSound` says what a request that stands at its commit
knows (a complete payload, a row it loaded), `GoneAreAbsent` that a deleted key
stays empty. Every writing step puts one admitted row under a key that is live
or fresh, or removes one (`PutKeepsTables`); that an upsert onto an existing row
makes no second row of that identity needs that the identity was unique before
(`SameIdentityJoins`).

What a reply says is proved with `HInv`, which adds `Witnessed(q)` for every
request: what the states it has seen (`past`) bear witness to at each of its
statements, such as that the row it loaded stood in the table at that moment. A
reply is true because its last statement turns the witness into the claim.

`EditsAreNarrow` says that a column changes only by a request for that row whose
payload names the column, to the value it names. That a stale copy is not written
back, a NULL in it included, comes from the flush: an update assigns only what its
payload has (`exclude_unset`), and only columns it assigned can differ from the
copy. A point is no column in this sense, since half of it is written back.

**RowLocks.** The inductive invariant is `TypeOK /\ IsFiniteSet(conn) /\ CallsKnown
/\ Exclusive /\ CommitsLast`: no two transactions have conflicting locks on a row
(`Exclusive`), and a request that committed is past its statements
(`CommitsLast`), so that what it deletes and updates at its commit is exactly what
it has locked. What PostgreSQL's lock modes guarantee is not assumed but follows
from `Compatible` and the guard of `Grab`.

The refinement and the deadlocks are proved with `LInv`, which adds `KidsSound`
and, for every request, `Holds`: which locks it holds, where it stands in a line
and what it has staged at each of its statements. A commit then takes effect on
rows that nobody else could change meanwhile, so it is one step of the store
(`CommitEffects`). For the deadlocks a cycle is followed one request at a time
(`CyclesGoOn`): whoever waits finds ahead of it in the cycle somebody who holds
the row it wants (`HolderAhead`), the next one or the one after, for whom the
first in line waits; who holds a row and waits is no request about one row
(`HoldersInCycles`); and the holder of what that one wants is again another.
That the cycle may also lead through requests about one row that only stand in
line is the reason why they can be the victims.

**Deployment.** The inductive invariant is `TypeOK /\ Fits(db) /\ Underway /\
ServingMeansMigrated`. `Fits` says that the tables and columns of the volume are
those of its revision, `Underway` what a container knows at each stage of its
start-up. What the chain of migrations computes is a recursive function; the
proof unrolls it over the seven revisions there are (`StepEffect` and
`StepBrings` say what each one does), so no induction is needed.
`MigrationsCarryOver` says what is lost as well as what is kept: an upgrade is
compared with the row field by field, and not only for what the migration
copies.

**Ingestion.** The inductive invariant is `Typed /\ ReadsInOrder /\
RowsComeFromFiles(table) /\ CleanSoFar /\ CleanRunConverges`. The heart of it is
`CleanSoFar`: in a run in which nothing else was written, each row of a file
that is already committed agrees with the last feature of its identity so far.
To say which features these are, those that count are ranked (`KeptBefore`,
`Rank`); a batch is always the features of consecutive ranks from a multiple of
`BatchSize` (`HandedOver`, `BatchIsChunk`), and committing it moves the agreement
past it (`BatchArrives`). At the end of the run everything agrees
(`AgreementConverges`).

**SpatialContext.** The inductive invariant is `TypeOK /\ reply \in Replies /\
Underway /\ PartsWereTrue`: each part of the reply was true at one moment since
the request began. That a reply's lists are in order and complete rests on
`OrderedIsOnto` (a list of a finite set without repetitions, as long as the set,
shows all of it), the radii on `SplitIsRight` and `LimitIsRight`. That the parts
agree while nothing is written compares the advisories with the guidance through
the distances only: an advised zone that is within the radius is guided to, or
the list has `GuideLimit` zones that are as near.

**Reads.** The inductive invariant is `TablesSound /\ RequestsTyped` and, for
every request, `RequestSound`: how far it has come (`Underway`: its reply has the
parts of its first statements and no others, so that a statement finds the part it
depends on), and, as long as nothing was written since it began, that every part
is an answer of its statement for the tables as they are (`AllAnswer`). A write
ends that claim for all requests under way, so it needs no more than that the
tables stay sound (`WriteSound`).

The other properties then are statements about what one statement returns:

* *pages*: rows without ties have one order only (`OneOrder`), so all requests for
  pages of a list show parts of the same sequence (`TurnedPages`); page p ends
  before page q > p begins (`PagesAreApart`), and the last page reaches the last row
  (`PagesCover`);
* *nearby*: the loop over the rows of the join shows each site at its first row
  (`LoopShowsFirsts`), so order and completeness are those of the rows, and where
  each site has one row (`JoinedRows`) the limit drops nothing else;
* *search*: what fits better has the smaller relevance (`BetterRanksFirst`), and all
  that fits is found; the limit takes the first rows (`AtMostIsFirst`);
* *figures*: the sizes of the groups of a finite set add up to its size
  (`GroupsAddUp`); the set is split into what is shown and what is not
  (`TwoParts`), since the groups without a name are left out.

`FirstPerSite` and `SumOf` are folds of the community modules, which are defined by
recursive functions on sets. No induction theorem of the library can be applied to
them, so the proofs go back to the least element of a set of numbers (`Least`,
`Counting`), and show that the recursive function exists (`FoldExists`) before
they say what it computes.

Only model-checked: the liveness properties `EveryRequestAnswered`,
`ContainersSettle`, `SomebodyMigrates` and `ReadinessReturns`, which are beyond
the prover. Every invariant and every action property of a passing run is a
theorem.

## 5. Findings

* **A re-run of the loader takes publications back** (`rerun`). The upsert sets
  every column but the key, the creation time and the identity to what a new row
  would get (`ingestion/upsert.py:33`): `status`, `version`, `published_at`,
  `risk_level`, `category` and everything else the dashboard edits.
  `DEVELOPER.md:77` calls re-running "safe to run multiple times".
* **`radius=nan` passes the cap** (`radius_nan`). `min(nan, MAX)` is nan and
  `nan < 0` is false (`app/api/context.py:35`), against the comments beside it.
* **The loader's container loads nothing** (`loader`). Its image holds `app` and
  `ingestion` only (`Dockerfile.ingestion:33`), compose mounts the same two, and a
  file that does not exist is skipped without an error
  (`ingestion/load_geojson.py:7`); without tables every batch fails and the run
  still ends as complete. `DEVELOPER.md:115` says "Loads data, exits".

Not a run, since it only compares two numbers: the default of
`MAX_DETECTION_RADIUS` is 1 000 000 (`app/core/config.py:59`), `DEVELOPER.md:164`
says "capped at 5000m".

Met while modelling and represented in the model, without a run of their own: a
search term with capitals never ranks a name as one that begins with it, because
only the name is lowered (`app/api/search.py:68`), and a name that matches in
Arabic only ranks last; a nearby query with a limit can return fewer sites than
there are, where governorates overlap (`app/api/sites.py:68`); a failed count
makes every later table of the health page look empty, where its docstring says
"current row counts" (`app/api/health.py:26`); the figures of the dashboard
leave out sites of an empty category and active warnings of an empty severity,
so the groups fall short of the totals beside them (`app/api/locations.py:374`,
381); an edit or status change of one site can be the victim of a deadlock of
two others, in whose line it stands; with `radius=nan` a reply has advisories
and no guidance; the second of two containers that migrate at once fails;
volumes with reports from the second release cannot be upgraded; after the
upgrade to the dashboard's schema every site has the category "other", whatever
its categories say, and the descriptions of the first releases are gone, because
`37dbcfd51815` drops the column that `c4b6e9d8a1f3` adds again, empty;
overlapping edits of different keys of `details` lose one of them; two
one-coordinate moves that overlap lose one; a publication can succeed and leave
the row archived, because the flush omits a status the copy already had; an edit
can be reported as an error after it was committed; an import with `publishedAt`
and a creation with an empty name always fail; two zones with the same `osm_id`
and no `osm_type` are both stored, because a unique index never holds two NULLs
equal (`app/models/restricted_zone.py:34`); an update of a boundary or zone
cannot clear a column, while the same payload to a site fails on a mandatory
one.

## 6. Plan

Still to model, in order of importance:

1. The writers of `sites` composed: Locations, Catalogue and the loader over one
   table, and what `version` and `published_at` still mean; abstract
   specification: a keyed set.
2. `Normalize`: identity and names of a feature as pure functions.
3. `Access`: tokens, roles, the login sequence with its remote step.
4. `MapPage`: overlapping fetches. `Audit`: the hooks of the admin panel, as far
   as they can be told from the calls of the library.

Refinements worth stating and proving next:
Ingestion as a sequence of atomic upserts over a keyed set; `RowLocks` as
`Locations` with atomic commits (today both implement the same store).

Not modelled, with no plan to: logging (output only), seed data and Overpass
queries (data), downgrades of the schema (run by hand only), the exports and
single-statement lists (one read, nothing to interleave with).

## 7. Running

    tlc -config edits.cfg MCLocations.tla       # and the other .cfg files
    tlapm LocationsProofs.tla
    tlapm LocationsHistoryProofs.tla
    tlapm CatalogueProofs.tla
    tlapm RowLocksProofs.tla
    tlapm DeploymentProofs.tla
    tlapm IngestionProofs.tla
    tlapm SpatialContextProofs.tla
    tlapm ReadsProofs.tla

`PROJECT.json` lists components, runs, hazards, theorems, and for every
definition the lines it is translated from. Each property also has a mutant: a
variant of one definition, kept beside it, under which TLC finds the property
violated.
