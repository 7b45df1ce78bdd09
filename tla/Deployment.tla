------------------------------ MODULE Deployment ------------------------------
(***************************************************************************)
(* The containers of docker-compose.yml from their start to service: the   *)
(* wait for the database, the schema migration, the start of the API, its  *)
(* readiness probe, and the loader.  The database may stop and come back,  *)
(* a container may be killed, and an operator starts containers, the       *)
(* stopped ones included, in any order.                                    *)
(*                                                                         *)
(* The database is represented by its schema revision and by those columns *)
(* of a site and a zone that migrations rewrite.                           *)
(***************************************************************************)
EXTENDS Naturals

CONSTANTS
    Loaders,      \* runs of the loader: its container, or one by hand
    HasFiles,     \* whether the data directory is where a loader looks for it
    StartDbs,     \* the databases a volume may hold at the start
    Attempts,     \* how often the entrypoint tries to connect
    MaxOutages, MaxRestarts,  \* bounds: database stops; killed or restarted
    Missing       \* a value, a column or a row that is not there

Migrators == {"api", "migrate"}  \* the containers with docker-entrypoint.sh
Containers == Migrators \cup Loaders

\* 0 is the empty database, then one number per file of migrations/versions.
Head == 7
Tables == 2
Reports == 3
Categories == 4
Types == 5
NoReports == 6
Dashboard == 7

Names == {"mosque", "other", "unknown"}
Site == [description : {"text", Missing}, category : Names \cup {Missing},
         categories : SUBSET Names, status : {"draft", "published", Missing}]
Zone == [subtype : {"protected", "military"},
         zone_type : {"protected", "restricted", Missing}]
Database == [rev : 0..Head, reports : BOOLEAN,
             site : Site \cup {Missing}, zone : Zone \cup {Missing}]

\* The tables and columns that a database of revision d.rev has.
Fits(d) ==
    /\ d.rev < Tables => d.site = Missing /\ d.zone = Missing
    /\ d.reports => d.rev \in Tables..(NoReports - 1)
    /\ d.site # Missing =>
         /\ IF d.rev < Categories THEN d.site.category # Missing /\ d.site.categories = {}
            ELSE d.rev < Dashboard => d.site.category = Missing
                                      /\ d.site.description = Missing
         /\ d.rev < Dashboard => d.site.status = Missing
    /\ d.zone # Missing => (d.zone.zone_type = Missing <=> d.rev < Types)

ASSUME DeploymentAssumption ==
    /\ Loaders \cap Migrators = {}
    /\ HasFiles \in [Loaders -> BOOLEAN]
    /\ Missing \notin Names \cup {"text", "draft", "protected", "restricted"}
    /\ Missing \notin Site \cup Zone
    /\ StartDbs \subseteq Database /\ \A d \in StartDbs : Fits(d)
    /\ Attempts \in Nat \ {0}
    /\ MaxOutages \in Nat /\ MaxRestarts \in Nat

VARIABLES
    up,        \* whether the database accepts connections
    db,        \* what it holds, committed
    loaded,    \* whether a loader has put the records of a file of sites there
    pc,        \* where a container stands
    tries,     \* tries[c]: how often its entrypoint has tried to connect
    upgrades,  \* upgrades[c]: how many times it still runs "upgrade head"
    base,      \* base[c]: the revision its running upgrade started from
    pool,      \* the connections of the API's engine
    ready,     \* what the readiness probe reported last
    outages, restarts

dbVars == <<up, db, loaded, outages>>
probeVars == <<pool, ready>>
vars == <<dbVars, pc, tries, upgrades, base, probeVars, restarts>>

Init ==
    /\ up = TRUE /\ db \in StartDbs /\ loaded = FALSE
    /\ pc = [c \in Containers |-> "created"]
    /\ tries = [c \in Migrators |-> 0]
    /\ upgrades = [c \in Migrators |-> 0]
    /\ base = [c \in Migrators |-> 0]
    /\ pool = "empty" /\ ready = FALSE
    /\ outages = 0 /\ restarts = 0

Goes(c, from, to) == pc[c] = from /\ pc' = [pc EXCEPT ![c] = to]

-----------------------------------------------------------------------------
(* The migrations, as functions on the database. *)

\* Variant: the old column is dropped before its values are copied.
WithCategoriesDropFirst(d) ==
    IF d.site = Missing THEN d
    ELSE [d EXCEPT !.site.category = Missing, !.site.categories = {"unknown"},
                   !.site.description = Missing]

\* 37dbcfd51815: the category becomes the one member of categories; its column is
\* dropped, and the column of the description too.
WithCategories(d) ==
    IF d.site = Missing THEN d
    ELSE [d EXCEPT !.site.categories =
                     IF d.site.category # Missing THEN {d.site.category}
                                                  ELSE {"unknown"},
                   !.site.category = Missing, !.site.description = Missing]

\* 69835acf0ac2: zones are restricted unless they protect something.
WithTypes(d) ==
    IF d.zone = Missing THEN d
    ELSE [d EXCEPT !.zone.zone_type =
                     IF d.zone.subtype = "protected" THEN "protected" ELSE "restricted"]

\* c4b6e9d8a1f3: the dashboard's columns, with a default for rows that exist.
\* There is a category again, the same for all, and a description, which is empty.
WithDashboard(d) ==
    IF d.site = Missing THEN d
    ELSE [d EXCEPT !.site.category = "other", !.site.description = Missing,
                   !.site.status = "draft"]

\* f1463f63b28d adds a mandatory column without a default to reports, which no
\* existing row can satisfy.
CanStep(n, d) == n = Reports => ~d.reports

Step(n, d) ==
    [(CASE n = Categories -> WithCategories(d)
        [] n = Types -> WithTypes(d)
        [] n = NoReports -> [d EXCEPT !.reports = FALSE]
        [] n = Dashboard -> WithDashboard(d)
        [] OTHER -> d) EXCEPT !.rev = n]

\* upgradeTo[n]: the database d brought to revision n.
Upgraded(d) ==
    LET upgradeTo[n \in 0..Head] ==
            IF n <= d.rev THEN d ELSE Step(n, upgradeTo[n - 1])
    IN  upgradeTo[Head]

Upgradable(d) == \A n \in 1..Head : n > d.rev => CanStep(n, d)

-----------------------------------------------------------------------------
(* The entrypoint of the containers api and migrate. *)

\* docker-compose starts a container once the database is healthy.
Start(c) ==
    /\ up
    /\ Goes(c, "created", IF c \in Loaders THEN "connecting" ELSE "waiting")
    /\ tries' = [k \in Migrators |-> IF k = c THEN 0 ELSE tries[k]]
    /\ UNCHANGED <<dbVars, upgrades, base, probeVars, restarts>>

\* A container with the entrypoint is done waiting.  The command of the
\* container migrate is one more upgrade.
StopsWaiting(c) ==
    /\ Goes(c, "waiting", "upgrade")
    /\ upgrades' = [upgrades EXCEPT ![c] = IF c = "migrate" THEN 2 ELSE 1]
    /\ UNCHANGED <<dbVars, base, probeVars, restarts>>

KeepsWaiting(c) ==
    /\ Goes(c, "waiting", "waiting")
    /\ tries' = [tries EXCEPT ![c] = @ + 1]
    /\ UNCHANGED <<dbVars, upgrades, base, probeVars, restarts>>

\* Variants: the loop goes on until the database answers; one turn too many.
AttemptForever(c) == up /\ StopsWaiting(c) /\ UNCHANGED tries
AttemptOnceMore(c) ==
    IF up \/ tries[c] > Attempts
    THEN StopsWaiting(c) /\ UNCHANGED tries ELSE KeepsWaiting(c)

\* One turn of the loop that waits for the database.  When all are used up the
\* upgrade is run all the same.
Attempt(c) ==
    IF up \/ tries[c] = Attempts
    THEN StopsWaiting(c) /\ UNCHANGED tries ELSE KeepsWaiting(c)

\* alembic connects and reads the revision.
BeginUpgrade(c) ==
    /\ IF up
       THEN /\ Goes(c, "upgrade", "migrating")
            /\ base' = [base EXCEPT ![c] = db.rev]
       ELSE Goes(c, "upgrade", "failed") /\ UNCHANGED base
    /\ UNCHANGED <<dbVars, tries, upgrades, probeVars, restarts>>

\* What the container does when its upgrade has succeeded.
AfterUpgrade(c) ==
    IF upgrades[c] > 1 THEN "upgrade"
    ELSE IF c = "api" THEN "starting" ELSE "exited"

\* Variants: a transaction for each migration; a failed upgrade is ignored; the
\* transaction is never committed.
CommitUpgradeStepwise(c) ==
    /\ LET next == Step(db.rev + 1, db)
       IN  IF db.rev = Head
           THEN Goes(c, "migrating", AfterUpgrade(c)) /\ UNCHANGED <<db, base>>
           ELSE IF db.rev = base[c] /\ CanStep(db.rev + 1, db)
           THEN /\ Goes(c, "migrating", "migrating")
                /\ db' = next /\ base' = [base EXCEPT ![c] = next.rev]
           ELSE Goes(c, "migrating", "failed") /\ UNCHANGED <<db, base>>
    /\ UNCHANGED <<up, loaded, outages, tries, upgrades, probeVars, restarts>>
CommitUpgradeCarryingOn(c) ==
    /\ Goes(c, "migrating", AfterUpgrade(c))
    /\ db' = IF db.rev = base[c] /\ Upgradable(db) THEN Upgraded(db) ELSE db
    /\ upgrades' = [upgrades EXCEPT ![c] = @ - 1]
    /\ UNCHANGED <<up, loaded, outages, tries, base, probeVars, restarts>>

CommitUpgradeRolledBack(c) ==
    /\ Goes(c, "migrating", AfterUpgrade(c))
    /\ upgrades' = [upgrades EXCEPT ![c] = @ - 1]
    /\ UNCHANGED <<dbVars, tries, base, probeVars, restarts>>

\* All missing migrations run in one transaction.  Where another container has
\* migrated in the meantime the same changes are there already, and fail; so
\* does a step that the data does not allow.  "set -e" then ends the container.
CommitUpgrade(c) ==
    /\ IF base[c] = Head \/ (db.rev = base[c] /\ Upgradable(db))
       THEN /\ Goes(c, "migrating", AfterUpgrade(c))
            /\ db' = IF base[c] = Head THEN db ELSE Upgraded(db)
            /\ upgrades' = [upgrades EXCEPT ![c] = @ - 1]
       ELSE Goes(c, "migrating", "failed") /\ UNCHANGED <<db, upgrades>>
    /\ UNCHANGED <<up, loaded, outages, tries, base, probeVars, restarts>>

-----------------------------------------------------------------------------
(* The API and the loader. *)

\* The lifespan opens the raw pool.  When that fails the server process ends,
\* and "--reload" keeps the container waiting for a file to change.
Serve ==
    /\ Goes("api", "starting", IF up THEN "serving" ELSE "stalled")
    /\ UNCHANGED <<dbVars, tries, upgrades, base, probeVars, restarts>>

\* Variant: a dead connection goes back to the pool.
ProbeKeepingConnection ==
    /\ pc["api"] = "serving"
    /\ ready' = (up /\ pool # "stale")
    /\ pool' = IF up /\ pool = "empty" THEN "good" ELSE pool
    /\ UNCHANGED <<dbVars, pc, tries, upgrades, base, restarts>>

\* /readyz runs SELECT 1.  Connections are not tried before use: after an
\* outage the first statement fails, and only then are they replaced.
Probe ==
    /\ pc["api"] = "serving"
    /\ ready' = (up /\ pool # "stale")
    /\ pool' = IF up /\ pool # "stale" THEN "good" ELSE "empty"
    /\ UNCHANGED <<dbVars, pc, tries, upgrades, base, restarts>>

\* The loader's run opens the raw pool first.
Connect(l) ==
    /\ Goes(l, "connecting", IF up THEN "loading" ELSE "failed")
    /\ UNCHANGED <<dbVars, tries, upgrades, base, probeVars, restarts>>

\* A file that is not there is skipped, and a batch that fails (a table or
\* column is missing, the connection is lost) is logged and left out; either
\* way the run ends as complete.
Load(l) ==
    /\ Goes(l, "loading", "exited")
    /\ loaded' = (loaded \/ (HasFiles[l] /\ up /\ db.rev = Head))
    /\ UNCHANGED <<up, db, outages, tries, upgrades, base, probeVars, restarts>>

-----------------------------------------------------------------------------
(* The surroundings. *)

\* Connections break: a running upgrade fails and its transaction is undone.
StopDb ==
    /\ up /\ outages < MaxOutages
    /\ up' = FALSE /\ outages' = outages + 1
    /\ pc' = [c \in Containers |-> IF pc[c] = "migrating" THEN "failed" ELSE pc[c]]
    /\ pool' = IF pool = "good" THEN "stale" ELSE pool
    /\ UNCHANGED <<db, loaded, tries, upgrades, base, ready, restarts>>

StartDb ==
    /\ ~up /\ up' = TRUE
    /\ UNCHANGED <<db, loaded, outages, pc, tries, upgrades, base, probeVars, restarts>>

\* A container is killed; it takes its connections with it.
Kill(c) ==
    /\ pc[c] \notin {"created", "exited", "failed"} /\ restarts < MaxRestarts
    /\ pc' = [pc EXCEPT ![c] = "failed"]
    /\ restarts' = restarts + 1
    /\ IF c = "api" THEN pool' = "empty" /\ ready' = FALSE ELSE UNCHANGED probeVars
    /\ UNCHANGED <<dbVars, tries, upgrades, base>>

\* Nothing restarts a container by itself: the operator does, or, where the
\* server waits for a changed file, a changed file.
Restart(c) ==
    /\ restarts < MaxRestarts /\ restarts' = restarts + 1
    /\ \/ pc[c] \in {"exited", "failed"} /\ pc' = [pc EXCEPT ![c] = "created"]
       \/ c = "api" /\ Goes(c, "stalled", "starting")
    /\ UNCHANGED <<dbVars, tries, upgrades, base, probeVars>>

-----------------------------------------------------------------------------
Run(c) ==
    IF c \in Migrators
    THEN Attempt(c) \/ BeginUpgrade(c) \/ CommitUpgrade(c) \/ (c = "api" /\ Serve)
    ELSE Connect(c) \/ Load(c)

Next ==
    \/ \E c \in Containers : Start(c) \/ Run(c) \/ Kill(c) \/ Restart(c)
    \/ Probe \/ StopDb \/ StartDb

\* A running container goes on, and docker probes the API again and again.
Fairness == (\A c \in Containers : WF_vars(Run(c))) /\ WF_vars(Probe)

Spec == Init /\ [][Next]_vars
FairSpec == Spec /\ Fairness
-----------------------------------------------------------------------------
(* Properties *)

TypeOK ==
    /\ up \in BOOLEAN /\ db \in Database /\ loaded \in BOOLEAN
    /\ pc \in [Containers -> {"created", "waiting", "upgrade", "migrating",
                              "starting", "serving", "stalled", "connecting",
                              "loading", "exited", "failed"}]
    /\ tries \in [Migrators -> 0..Attempts]
    /\ upgrades \in [Migrators -> 0..2] /\ base \in [Migrators -> 0..Head]
    /\ pool \in {"empty", "good", "stale"} /\ ready \in BOOLEAN
    /\ outages \in 0..MaxOutages /\ restarts \in 0..MaxRestarts

\* The API never serves a schema it was not written for, whichever container
\* migrates, however often the database stops and whoever is killed when.
ServingMeansMigrated == pc["api"] \in {"starting", "serving", "stalled"} => db.rev = Head

\* The schema jumps to its last revision or stays: a killed or beaten
\* migrator leaves no half of a chain behind.
UpgradesAreWhole == [][db'.rev # db.rev => db'.rev = Head]_vars

\* What is left of the site and the zone of d in e, of the last revision.
CarriesOver(d, e) ==
    /\ d.site # Missing =>
         e.site = [description |-> Missing, category |-> "other", status |-> "draft",
                   categories |-> IF d.rev < Categories THEN {d.site.category}
                                                        ELSE d.site.categories]
    /\ d.zone # Missing =>
         /\ e.zone.subtype = d.zone.subtype
         /\ IF d.rev < Types
            THEN e.zone.zone_type = "protected" <=> d.zone.subtype = "protected"
            ELSE e.zone.zone_type = d.zone.zone_type

\* What an upgrade from any revision does to rows that exist, and nothing else
\* does anything: what a site is survives in its categories, and what a zone is
\* for in its type.  The description of a site from before it had categories is
\* lost, and the category the dashboard shows is "other" whatever it was.
UpgradesCarryOver ==
    [][IF db'.rev = db.rev THEN db' = db ELSE CarriesOver(db, db')]_db

\* Nobody waits for the database for ever: a started container comes to serve
\* or stops, even if the database never returns.
ContainersSettle ==
    \A c \in Containers :
        pc[c] = "waiting"
            ~> pc[c] \in {"starting", "serving", "stalled", "exited", "failed"}

\* Of two containers that migrate at once one succeeds: with a database that
\* stays and data that allow it, the schema gets there.
SomebodyMigrates ==
    [](up /\ Upgradable(db) /\ restarts = 0) =>
        \A c \in Migrators : pc[c] = "waiting" ~> db.rev = Head

\* After an outage the probe reports readiness again, although the pool keeps
\* the dead connections.
ReadinessReturns == <>[](up /\ pc["api"] = "serving") => <>[]ready

\* DEVELOPER.md:115, "Loads data, exits".
LoaderLoads == \A l \in Loaders : pc[l] = "exited" => loaded
=============================================================================
