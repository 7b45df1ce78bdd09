--------------------------- MODULE DeploymentProofs ---------------------------
(***************************************************************************)
(* Theorems about Deployment: what the chain of migrations does to a       *)
(* database of any revision, and what the API then serves.                 *)
(***************************************************************************)
EXTENDS Deployment, TLAPS

\* A container that has an upgrade before it counts it, and the database is never
\* behind the revision from which a running upgrade started.
Underway ==
    \A c \in Migrators :
        /\ pc[c] \in {"upgrade", "migrating"} => upgrades[c] # 0
        /\ pc[c] = "migrating" => base[c] <= db.rev

IInv == TypeOK /\ Fits(db) /\ Underway /\ ServingMeansMigrated

-----------------------------------------------------------------------------
(* The chain of migrations *)

\* d brought to revision n.
UpTo(n, d, e) == IF n <= d.rev THEN d ELSE Step(n, e)
Up1(d) == UpTo(1, d, d)
Up2(d) == UpTo(2, d, Up1(d))
Up3(d) == UpTo(3, d, Up2(d))
Up4(d) == UpTo(4, d, Up3(d))
Up5(d) == UpTo(5, d, Up4(d))
Up6(d) == UpTo(6, d, Up5(d))
Up7(d) == UpTo(7, d, Up6(d))

\* The recursive function of Upgraded goes through the seven revisions.
LEMMA UpgradedByRevision ==
    ASSUME NEW d \in Database
    PROVE  Upgraded(d) = Up7(d)
<1> DEFINE Eq(f) == f = [n \in 0..Head |-> IF n <= d.rev THEN d ELSE Step(n, f[n - 1])]
           Chain == [n \in 0..Head |->
                       IF n = 0 THEN d ELSE IF n = 1 THEN Up1(d) ELSE IF n = 2 THEN Up2(d)
                       ELSE IF n = 3 THEN Up3(d) ELSE IF n = 4 THEN Up4(d)
                       ELSE IF n = 5 THEN Up5(d) ELSE IF n = 6 THEN Up6(d) ELSE Up7(d)]
<1>1. d.rev \in Nat /\ 0 <= d.rev
  BY DEF Database, Head
<1>2. Eq(Chain)
  <2>1. ASSUME NEW n \in 0..Head
        PROVE  Chain[n] = IF n <= d.rev THEN d ELSE Step(n, Chain[n - 1])
    <3>1. n \in {0, 1, 2, 3, 4, 5, 6, 7}
      BY DEF Head
    <3>2. /\ Chain[0] = d /\ Chain[1] = Up1(d) /\ Chain[2] = Up2(d) /\ Chain[3] = Up3(d)
          /\ Chain[4] = Up4(d) /\ Chain[5] = Up5(d) /\ Chain[6] = Up6(d) /\ Chain[7] = Up7(d)
      BY DEF Head
    <3> HIDE DEF Chain
    <3> QED BY <1>1, <3>1, <3>2 DEF Up1, Up2, Up3, Up4, Up5, Up6, Up7, UpTo
  <2> QED BY <2>1
<1>3. Upgraded(d) = (CHOOSE f : Eq(f))[Head]
  BY DEF Upgraded
<1>4. PICK f : Eq(f) /\ Upgraded(d) = f[Head]
  <2> HIDE DEF Eq
  <2> QED BY <1>2, <1>3
<1>5. \A n \in 0..Head : f[n] = IF n <= d.rev THEN d ELSE Step(n, f[n - 1])
  BY <1>4
<1>6. f[0] = d
  BY <1>1, <1>5 DEF Head
<1>7. f[1] = Up1(d) /\ f[2] = Up2(d) /\ f[3] = Up3(d)
  BY <1>5, <1>6 DEF Head, Up1, Up2, Up3, UpTo
<1>8. f[4] = Up4(d) /\ f[5] = Up5(d) /\ f[6] = Up6(d) /\ f[7] = Up7(d)
  BY <1>5, <1>7 DEF Head, Up4, Up5, Up6, Up7, UpTo
<1> QED BY <1>4, <1>8 DEF Head

\* The columns in which all sites are alike after the last migration.
Defaulted(site) ==
    site.description = Missing /\ site.category = "other" /\ site.status = "draft"

\* What holds of d brought to revision n: it is d, or a database of that revision
\* which means the same, except for those columns.
Brought(d, n, e) ==
    /\ n <= d.rev => e = d
    /\ d.rev < n =>
         /\ e \in Database /\ e.rev = n /\ Fits(e)
         /\ d.site = Missing => e.site = Missing
         /\ d.zone = Missing => e.zone = Missing
         /\ d.site # Missing =>
              /\ e.site # Missing
              /\ IF d.rev < Categories /\ n < Categories THEN e.site = d.site
                 ELSE e.site.categories = IF d.rev < Categories THEN {d.site.category}
                                                                 ELSE d.site.categories
              /\ n = Head => Defaulted(e.site)
         /\ d.zone # Missing =>
              /\ e.zone # Missing /\ e.zone.subtype = d.zone.subtype
              /\ IF d.rev < Types
                 THEN n >= Types =>
                        (e.zone.zone_type = "protected" <=> d.zone.subtype = "protected")
                 ELSE e.zone = d.zone

\* What one migration does to a database of the revision before it.
LEMMA StepEffect ==
    ASSUME NEW n \in 1..Head, NEW e \in Database, Fits(e), e.rev = n - 1,
           NEW f, f = Step(n, e)
    PROVE  /\ f \in Database /\ f.rev = n /\ Fits(f)
           /\ e.site = Missing => f.site = Missing
           /\ e.zone = Missing => f.zone = Missing
           /\ e.site # Missing =>
                /\ f.site # Missing /\ (n < Categories => f.site = e.site)
                /\ f.site.categories = IF n = Categories THEN {e.site.category}
                                                         ELSE e.site.categories
                /\ n = Dashboard => Defaulted(f.site)
           /\ e.zone # Missing =>
                /\ f.zone # Missing /\ f.zone.subtype = e.zone.subtype
                /\ IF n = Types
                   THEN f.zone.zone_type = "protected" <=> e.zone.subtype = "protected"
                   ELSE f.zone = e.zone
<1>1. /\ e = [rev |-> e.rev, reports |-> e.reports, site |-> e.site, zone |-> e.zone]
      /\ e.reports \in BOOLEAN /\ e.site \in Site \cup {Missing}
      /\ e.zone \in Zone \cup {Missing} /\ Missing \notin Site \cup Zone
  BY DeploymentAssumption DEF Database
<1>2. CASE n \in {1, Tables, Reports}
  <2>1. f = [e EXCEPT !.rev = n]
    BY <1>2 DEF Step, Tables, Reports, Categories, Types, NoReports, Dashboard
  <2>2. /\ f.rev = n /\ f.reports = e.reports /\ f.site = e.site /\ f.zone = e.zone
        /\ f \in Database
    BY <1>1, <2>1 DEF Database, Head
  <2> QED
    BY <1>2, <2>2 DEF Fits, Tables, Reports, Categories, Types, NoReports, Dashboard
<1>3. CASE n = Categories
  <2> DEFINE w == WithCategories(e)
  <2>1. f = [w EXCEPT !.rev = n]
    BY <1>3 DEF Step, Tables, Reports, Categories, Types, NoReports, Dashboard
  <2>2. CASE e.site = Missing
    <3>1. /\ f.rev = n /\ f.reports = e.reports /\ f.site = e.site /\ f.zone = e.zone
          /\ f \in Database
      BY <1>1, <2>1, <2>2 DEF WithCategories, Database, Head
    <3> QED
      BY <1>3, <2>2, <3>1 DEF Fits, Tables, Reports, Categories, Types, NoReports, Dashboard
  <2>3. CASE e.site # Missing
    <3>1. e.site \in Site /\ e.site.category # Missing
      BY <1>1, <1>3, <2>3 DEF Fits, Categories
    <3>2. /\ f.rev = n /\ f.reports = e.reports /\ f.zone = e.zone
          /\ f.site = [e.site EXCEPT !.categories = {e.site.category}, !.category = Missing,
                                   !.description = Missing]
          /\ f = [rev |-> n, reports |-> f.reports, site |-> f.site, zone |-> f.zone]
      BY <1>1, <2>1, <2>3, <3>1 DEF WithCategories, Site
    <3>3. /\ f.site \in Site /\ f.site.categories = {e.site.category}
          /\ f.site.category = Missing /\ f.site.description = Missing
          /\ f.site.status = e.site.status
      <4>1. {e.site.category} \in SUBSET Names
        BY <3>1 DEF Site
      <4> QED BY <3>1, <3>2, <4>1 DEF Site
    <3>4. f \in Database
      BY <1>1, <3>2, <3>3 DEF Database
    <3> QED
      BY <1>1, <1>3, <2>3, <3>2, <3>3, <3>4
      DEF Fits, Tables, Reports, Categories, Types, NoReports, Dashboard
  <2> QED BY <2>2, <2>3
<1>4. CASE n = Types
  <2> DEFINE w == WithTypes(e)
  <2>1. f = [w EXCEPT !.rev = n]
    BY <1>4 DEF Step, Tables, Reports, Categories, Types, NoReports, Dashboard
  <2>2. CASE e.zone = Missing
    <3>1. /\ f.rev = n /\ f.reports = e.reports /\ f.site = e.site /\ f.zone = e.zone
          /\ f \in Database
      BY <1>1, <2>1, <2>2 DEF WithTypes, Database, Head
    <3> QED
      BY <1>4, <2>2, <3>1 DEF Fits, Tables, Reports, Categories, Types, NoReports, Dashboard
  <2>3. CASE e.zone # Missing
    <3> DEFINE t == IF e.zone.subtype = "protected" THEN "protected" ELSE "restricted"
    <3>1. e.zone \in Zone
      BY <1>1, <2>3
    <3>2. /\ f.rev = n /\ f.reports = e.reports /\ f.site = e.site
          /\ f.zone = [e.zone EXCEPT !.zone_type = t]
          /\ f = [rev |-> n, reports |-> f.reports, site |-> f.site, zone |-> f.zone]
      BY <1>1, <2>1, <2>3, <3>1 DEF WithTypes, Zone
    <3>3. f.zone \in Zone /\ f.zone.subtype = e.zone.subtype /\ f.zone.zone_type = t
      BY <3>1, <3>2 DEF Zone
    <3>4. f \in Database
      BY <1>1, <3>2, <3>3 DEF Database
    <3>5. t # Missing /\ (t = "protected" <=> e.zone.subtype = "protected")
      BY DeploymentAssumption
    <3> QED
      BY <1>1, <1>4, <2>3, <3>2, <3>3, <3>4, <3>5
      DEF Fits, Tables, Reports, Categories, Types, NoReports, Dashboard
  <2> QED BY <2>2, <2>3
<1>5. CASE n = NoReports
  <2>1. f = [[e EXCEPT !.reports = FALSE] EXCEPT !.rev = n]
    BY <1>5 DEF Step, Tables, Reports, Categories, Types, NoReports, Dashboard
  <2>2. f = [rev |-> n, reports |-> FALSE, site |-> e.site, zone |-> e.zone]
    BY <1>1, <2>1
  <2>3. /\ f.rev = n /\ f.reports = FALSE /\ f.site = e.site /\ f.zone = e.zone
        /\ f \in Database
    BY <1>1, <2>2 DEF Database
  <2> QED
    BY <1>5, <2>3 DEF Fits, Tables, Reports, Categories, Types, NoReports, Dashboard
<1>6. CASE n = Dashboard
  <2> DEFINE w == WithDashboard(e)
  <2>1. f = [w EXCEPT !.rev = n]
    BY <1>6 DEF Step, Tables, Reports, Categories, Types, NoReports, Dashboard
  <2>2. CASE e.site = Missing
    <3>1. /\ f.rev = n /\ f.reports = e.reports /\ f.site = e.site /\ f.zone = e.zone
          /\ f \in Database
      BY <1>1, <2>1, <2>2 DEF WithDashboard, Database, Head
    <3> QED
      BY <1>6, <2>2, <3>1 DEF Fits, Tables, Reports, Categories, Types, NoReports, Dashboard
  <2>3. CASE e.site # Missing
    <3>1. e.site \in Site
      BY <1>1, <2>3
    <3>2. /\ f.rev = n /\ f.reports = e.reports /\ f.zone = e.zone
          /\ f.site = [e.site EXCEPT !.category = "other", !.description = Missing,
                                   !.status = "draft"]
          /\ f = [rev |-> n, reports |-> f.reports, site |-> f.site, zone |-> f.zone]
      BY <1>1, <2>1, <2>3, <3>1 DEF WithDashboard, Site
    <3>3. f.site \in Site /\ f.site.categories = e.site.categories /\ Defaulted(f.site)
      BY <3>1, <3>2 DEF Site, Names, Defaulted
    <3>4. f \in Database
      BY <1>1, <3>2, <3>3 DEF Database
    <3> QED
      BY <1>1, <1>6, <2>3, <3>2, <3>3, <3>4
      DEF Fits, Tables, Reports, Categories, Types, NoReports, Dashboard
  <2> QED BY <2>2, <2>3
<1> QED
  BY <1>2, <1>3, <1>4, <1>5, <1>6
  DEF Head, Tables, Reports, Categories, Types, NoReports, Dashboard

\* One migration brings a database from one revision to the next.
LEMMA StepBrings ==
    ASSUME NEW d \in Database, Fits(d), NEW n \in 1..Head, NEW e, Brought(d, n - 1, e)
    PROVE  Brought(d, n, UpTo(n, d, e))
<1>1. d.rev \in 0..7 /\ n \in 1..7
  BY DEF Database, Head
<1>2. CASE n <= d.rev
  BY <1>1, <1>2 DEF Brought, UpTo
<1>3. CASE d.rev < n
  <2> DEFINE f == Step(n, e)
  <2>1. e \in Database /\ Fits(e) /\ e.rev = n - 1 /\ (d.rev = n - 1 => e = d)
    BY <1>1, <1>3 DEF Brought
  <2>2. /\ f \in Database /\ f.rev = n /\ Fits(f)
        /\ e.site = Missing => f.site = Missing
        /\ e.zone = Missing => f.zone = Missing
        /\ e.site # Missing =>
             /\ f.site # Missing /\ (n < Categories => f.site = e.site)
             /\ f.site.categories = IF n = Categories THEN {e.site.category}
                                                      ELSE e.site.categories
             /\ n = Dashboard => Defaulted(f.site)
        /\ e.zone # Missing =>
             /\ f.zone # Missing /\ f.zone.subtype = e.zone.subtype
             /\ IF n = Types
                THEN f.zone.zone_type = "protected" <=> e.zone.subtype = "protected"
                ELSE f.zone = e.zone
    BY <2>1, StepEffect
  <2>3. UpTo(n, d, e) = f
    BY <1>1, <1>3 DEF UpTo
  <2> HIDE DEF f
  <2>4. /\ d.site = Missing => e.site = Missing
        /\ d.zone = Missing => e.zone = Missing
        /\ d.site # Missing =>
             /\ e.site # Missing
             /\ IF d.rev < Categories /\ n - 1 < Categories THEN e.site = d.site
                ELSE e.site.categories = IF d.rev < Categories THEN {d.site.category}
                                                                ELSE d.site.categories
        /\ d.zone # Missing => e.zone # Missing /\ e.zone.subtype = d.zone.subtype
    BY <1>1, <1>3, <2>1 DEF Brought, Types
  <2>5. ASSUME d.zone # Missing
        PROVE  IF d.rev < Types
               THEN n - 1 >= Types =>
                      (e.zone.zone_type = "protected" <=> d.zone.subtype = "protected")
               ELSE e.zone = d.zone
    BY <1>1, <1>3, <2>1, <2>5 DEF Brought, Types
  <2>6. /\ d.site = Missing => f.site = Missing
        /\ d.zone = Missing => f.zone = Missing
    BY <2>2, <2>4
  <2>7. ASSUME d.site # Missing
        PROVE  /\ f.site # Missing
               /\ IF d.rev < Categories /\ n < Categories THEN f.site = d.site
                  ELSE f.site.categories = IF d.rev < Categories THEN {d.site.category}
                                                                  ELSE d.site.categories
    <3>1. CASE n < Categories
      BY <1>1, <1>3, <2>2, <2>4, <2>7, <3>1 DEF Categories
    <3>2. CASE n = Categories
      BY <1>1, <1>3, <2>2, <2>4, <2>7, <3>2 DEF Categories
    <3>3. CASE n > Categories
      BY <1>1, <1>3, <2>2, <2>4, <2>7, <3>3 DEF Categories
    <3> QED BY <1>1, <3>1, <3>2, <3>3 DEF Categories
  <2>8. ASSUME d.zone # Missing
        PROVE  /\ f.zone # Missing /\ f.zone.subtype = d.zone.subtype
               /\ IF d.rev < Types
                  THEN n >= Types =>
                         (f.zone.zone_type = "protected" <=> d.zone.subtype = "protected")
                  ELSE f.zone = d.zone
    BY <1>1, <1>3, <2>2, <2>4, <2>5, <2>8 DEF Types
  <2>9. d.site # Missing /\ n = Head => Defaulted(f.site)
    BY <2>2, <2>4 DEF Dashboard, Head
  <2> QED BY <1>1, <1>3, <2>2, <2>3, <2>6, <2>7, <2>8, <2>9 DEF Brought
<1> QED BY <1>1, <1>2, <1>3

\* An upgrade ends at the last revision, and carries over what it should.
LEMMA UpgradedKeeps ==
    ASSUME NEW d \in Database, Fits(d)
    PROVE  /\ Upgraded(d) \in Database /\ Fits(Upgraded(d)) /\ Upgraded(d).rev = Head
           /\ d.rev # Head => CarriesOver(d, Upgraded(d))
           /\ d.rev = Head => Upgraded(d) = d
<1>1. d.rev \in 0..7
  BY DEF Database, Head
<1>2. Brought(d, 0, d)
  BY <1>1 DEF Brought
<1>3. Brought(d, 1, Up1(d)) /\ Brought(d, 2, Up2(d))
  <2>1. Brought(d, 1, Up1(d))
    BY <1>2, StepBrings DEF Up1, Head
  <2> QED BY <2>1, StepBrings DEF Up2, Head
<1>4. Brought(d, 3, Up3(d)) /\ Brought(d, 4, Up4(d))
  <2>1. Brought(d, 3, Up3(d))
    BY <1>3, StepBrings DEF Up3, Head
  <2> QED BY <2>1, StepBrings DEF Up4, Head
<1>5. Brought(d, 5, Up5(d)) /\ Brought(d, 6, Up6(d))
  <2>1. Brought(d, 5, Up5(d))
    BY <1>4, StepBrings DEF Up5, Head
  <2> QED BY <2>1, StepBrings DEF Up6, Head
<1>6. Brought(d, Head, Upgraded(d))
  BY <1>5, StepBrings, UpgradedByRevision DEF Up7, Head
<1>7. CASE d.rev = Head
  BY <1>6, <1>7 DEF Brought, Head
<1>8. CASE d.rev < Head
  <2> DEFINE e == Upgraded(d)
  <2>1. e \in Database /\ e.rev = Head /\ Fits(e)
    BY <1>6, <1>8 DEF Brought
  <2>2. ASSUME d.site # Missing
        PROVE  e.site = [description |-> Missing, category |-> "other", status |-> "draft",
                         categories |-> IF d.rev < Categories THEN {d.site.category}
                                                              ELSE d.site.categories]
    <3>1. /\ e.site # Missing /\ Defaulted(e.site)
          /\ e.site.categories = IF d.rev < Categories THEN {d.site.category}
                                                       ELSE d.site.categories
      BY <1>6, <1>8, <2>2 DEF Brought, Head, Categories
    <3>2. e.site \in Site
      BY <2>1, <3>1 DEF Database
    <3> HIDE DEF e
    <3> QED BY <3>1, <3>2 DEF Site, Defaulted
  <2>3. ASSUME d.zone # Missing
        PROVE  /\ e.zone.subtype = d.zone.subtype
               /\ IF d.rev < Types
                  THEN e.zone.zone_type = "protected" <=> d.zone.subtype = "protected"
                  ELSE e.zone.zone_type = d.zone.zone_type
    BY <1>6, <1>8, <2>3 DEF Brought, Head, Types
  <2> HIDE DEF e
  <2>4. CarriesOver(d, e)
    BY <2>2, <2>3 DEF CarriesOver
  <2> QED BY <1>8, <2>1, <2>4 DEF e, Head
<1> QED BY <1>1, <1>7, <1>8 DEF Head

-----------------------------------------------------------------------------
(* The steps of the containers *)

\* Only the end of an upgrade changes the database, and to what the chain makes of it.
LEMMA OnlyUpgradesWrite ==
    ASSUME IInv, [Next]_vars
    PROVE  \/ db' = db
           \/ db' = Upgraded(db) /\ \E c \in Migrators : CommitUpgrade(c)
<1>1. CASE UNCHANGED vars
  BY <1>1 DEF vars, dbVars
<1>2. ASSUME NEW c \in Containers, Start(c) \/ Kill(c) \/ Restart(c) PROVE db' = db
  BY <1>2 DEF Start, Kill, Restart, dbVars
<1>3. ASSUME NEW c \in Containers, Run(c)
      PROVE  db' = db \/ (db' = Upgraded(db) /\ \E m \in Migrators : CommitUpgrade(m))
  <2>1. CASE c \in Migrators /\ (Attempt(c) \/ BeginUpgrade(c) \/ Serve)
    BY <2>1 DEF Attempt, StopsWaiting, KeepsWaiting, BeginUpgrade, Serve, dbVars
  <2>2. CASE c \in Migrators /\ CommitUpgrade(c)
    BY <2>2 DEF CommitUpgrade
  <2>3. CASE Connect(c) \/ Load(c)
    BY <2>3 DEF Connect, Load, dbVars
  <2> QED BY <1>3, <2>1, <2>2, <2>3 DEF Run
<1>4. CASE Probe \/ StopDb \/ StartDb
  BY <1>4 DEF Probe, StopDb, StartDb, dbVars
<1> QED BY <1>1, <1>2, <1>3, <1>4 DEF Next

\* While the database and the upgrades stay as they are, no container can be further.
LEMMA ElsewhereKeeps ==
    ASSUME IInv, TypeOK', UNCHANGED <<db, upgrades, base>>,
           \A c \in Containers : \/ pc'[c] = pc[c]
                                 \/ pc'[c] \notin {"upgrade", "migrating", "starting",
                                                   "serving", "stalled"}
                                 \/ /\ pc[c] \in {"starting", "serving", "stalled"}
                                    /\ pc'[c] \in {"starting", "serving", "stalled"}
    PROVE  IInv'
<1>1. Migrators \subseteq Containers /\ "api" \in Containers
  BY DEF Containers, Migrators
<1>2. Fits(db)'
  BY DEF IInv, Fits
<1>3. Underway'
  BY <1>1 DEF IInv, Underway
<1>4. ServingMeansMigrated'
  BY <1>1 DEF IInv, ServingMeansMigrated
<1> QED BY <1>2, <1>3, <1>4 DEF IInv

LEMMA CommitUpgradeKeeps ==
    ASSUME IInv, NEW c \in Migrators, CommitUpgrade(c) PROVE IInv'
<1>1. /\ c \in Containers /\ db \in Database /\ db.rev \in 0..Head
      /\ pc[c] = "migrating" /\ upgrades[c] \in 1..2 /\ base[c] <= db.rev /\ base[c] \in 0..Head
  <2>1. c \in Containers /\ pc[c] = "migrating"
    BY DEF CommitUpgrade, Goes, Containers
  <2> QED BY <2>1 DEF IInv, TypeOK, Underway, Database
<1>2. CASE Goes(c, "migrating", "failed") /\ UNCHANGED <<db, upgrades>>
  <2>1. TypeOK' /\ UNCHANGED base
    BY <1>2 DEF IInv, TypeOK, CommitUpgrade, Goes, probeVars
  <2>2. \A k \in Containers : pc'[k] = pc[k] \/ pc'[k] = "failed"
    BY <1>2 DEF Goes, IInv, TypeOK
  <2> QED BY <1>2, <2>1, <2>2, ElsewhereKeeps
<1>3. CASE /\ base[c] = Head \/ (db.rev = base[c] /\ Upgradable(db))
           /\ Goes(c, "migrating", AfterUpgrade(c))
           /\ db' = IF base[c] = Head THEN db ELSE Upgraded(db)
           /\ upgrades' = [upgrades EXCEPT ![c] = @ - 1]
  <2>1. db' \in Database /\ Fits(db') /\ db'.rev = Head
    <3>1. CASE base[c] = Head
      BY <1>1, <1>3, <3>1 DEF IInv, Head
    <3>2. CASE base[c] # Head
      BY <1>1, <1>3, <3>2, UpgradedKeeps DEF IInv
    <3> QED BY <3>1, <3>2
  <2>2. /\ pc'[c] \in {"upgrade", "starting", "exited"}
        /\ pc'[c] = "upgrade" => upgrades'[c] # 0
        /\ upgrades'[c] \in 0..2
        /\ \A k \in Containers \ {c} : pc'[k] = pc[k]
        /\ \A k \in Migrators \ {c} : upgrades'[k] = upgrades[k]
    BY <1>1, <1>3 DEF Goes, AfterUpgrade, IInv, TypeOK
  <2>3. UNCHANGED <<up, loaded, outages, tries, base, pool, ready, restarts>>
    BY DEF CommitUpgrade, probeVars
  <2>4. TypeOK'
    <3>1. upgrades' \in [Migrators -> 0..2]
      BY <1>3, <2>2 DEF IInv, TypeOK
    <3>2. AfterUpgrade(c) \in {"upgrade", "starting", "exited"}
      BY DEF AfterUpgrade
    <3> QED BY <1>3, <2>1, <2>3, <3>1, <3>2 DEF IInv, TypeOK, Goes
  <2>5. Underway'
    <3>1. \A k \in Migrators : base'[k] <= db'.rev
      BY <2>1, <2>3 DEF IInv, TypeOK, Head
    <3>2. Migrators \subseteq Containers
      BY DEF Containers
    <3> QED BY <2>2, <3>1, <3>2 DEF IInv, Underway
  <2> QED BY <2>1, <2>4, <2>5 DEF IInv, ServingMeansMigrated
<1> QED BY <1>2, <1>3 DEF CommitUpgrade

LEMMA UnchangedKeeps == IInv /\ UNCHANGED vars => IInv'
  BY DEF vars, dbVars, probeVars, IInv, TypeOK, Fits, Underway, ServingMeansMigrated

\* The wait, the upgrade, the start of the server and the loader.
LEMMA RunKeeps == ASSUME IInv, NEW c \in Containers, Run(c) PROVE IInv'
<1>1. CASE c \in Migrators /\ Attempt(c)
  <2>1. CASE StopsWaiting(c) /\ UNCHANGED tries
    <3>1. TypeOK'
      BY <2>1, <1>1 DEF IInv, TypeOK, StopsWaiting, Goes, dbVars, probeVars
    <3>2. /\ \A k \in Containers \ {c} : pc'[k] = pc[k]
          /\ pc'[c] = "upgrade" /\ upgrades'[c] # 0 /\ UNCHANGED <<db, base>>
          /\ \A k \in Migrators \ {c} : upgrades'[k] = upgrades[k]
      BY <2>1, <1>1 DEF IInv, TypeOK, StopsWaiting, Goes, dbVars
    <3>3. Underway' /\ ServingMeansMigrated' /\ Fits(db)'
      BY <3>2 DEF IInv, Underway, ServingMeansMigrated, Fits, Containers, Migrators
    <3> QED BY <3>1, <3>3 DEF IInv
  <2>2. CASE KeepsWaiting(c) /\ tries[c] # Attempts
    <3>1. Attempts \in Nat /\ tries[c] \in 0..Attempts
      BY <1>1, DeploymentAssumption DEF IInv, TypeOK
    <3>2. tries[c] + 1 \in 0..Attempts
      BY <2>2, <3>1
    <3>3. TypeOK'
      BY <2>2, <1>1, <3>2 DEF IInv, TypeOK, KeepsWaiting, Goes, dbVars, probeVars
    <3>4. \A k \in Containers : pc'[k] = pc[k]
      BY <2>2 DEF KeepsWaiting, Goes, IInv, TypeOK
    <3> QED BY <2>2, <3>3, <3>4, ElsewhereKeeps DEF KeepsWaiting, dbVars
  <2> QED BY <1>1, <2>1, <2>2 DEF Attempt
<1>2. CASE c \in Migrators /\ BeginUpgrade(c)
  <2>1. db.rev \in 0..Head
    BY DEF IInv, TypeOK, Database
  <2>2. TypeOK'
    BY <1>2, <2>1 DEF IInv, TypeOK, BeginUpgrade, Goes, dbVars, probeVars
  <2>3. CASE Goes(c, "upgrade", "failed") /\ UNCHANGED base
    <3>1. \A k \in Containers : pc'[k] = pc[k] \/ pc'[k] = "failed"
      BY <2>3 DEF Goes, IInv, TypeOK
    <3> QED BY <1>2, <2>2, <2>3, <3>1, ElsewhereKeeps DEF BeginUpgrade, dbVars
  <2>4. CASE Goes(c, "upgrade", "migrating") /\ base' = [base EXCEPT ![c] = db.rev]
    <3>1. /\ \A k \in Containers \ {c} : pc'[k] = pc[k]
          /\ pc[c] = "upgrade" /\ pc'[c] = "migrating" /\ base'[c] = db.rev
          /\ UNCHANGED <<db, upgrades>>
          /\ \A k \in Migrators \ {c} : base'[k] = base[k]
      BY <1>2, <2>4 DEF IInv, TypeOK, BeginUpgrade, Goes, dbVars
    <3>2. Underway'
      BY <1>2, <2>1, <3>1 DEF IInv, Underway, Containers, Head
    <3>3. ServingMeansMigrated' /\ Fits(db)'
      BY <3>1 DEF IInv, ServingMeansMigrated, Fits, Containers, Migrators
    <3> QED BY <2>2, <3>2, <3>3 DEF IInv
  <2> QED BY <1>2, <2>3, <2>4 DEF BeginUpgrade
<1>3. CASE c = "api" /\ Serve
  <2>1. TypeOK'
    BY <1>3 DEF IInv, TypeOK, Serve, Goes, dbVars, probeVars
  <2>2. /\ \A k \in Containers \ {c} : pc'[k] = pc[k]
        /\ pc[c] = "starting" /\ pc'[c] \in {"serving", "stalled"}
    BY <1>3 DEF IInv, TypeOK, Serve, Goes
  <2> QED BY <1>3, <2>1, <2>2, ElsewhereKeeps DEF Serve, dbVars
<1>4. CASE Connect(c) \/ Load(c)
  <2>1. TypeOK'
    BY <1>4 DEF IInv, TypeOK, Connect, Load, Goes, dbVars, probeVars
  <2>2. \A k \in Containers : pc'[k] = pc[k] \/ pc'[k] \in {"loading", "failed", "exited"}
    BY <1>4 DEF IInv, TypeOK, Connect, Load, Goes
  <2> QED BY <1>4, <2>1, <2>2, ElsewhereKeeps DEF Connect, Load, dbVars
<1> QED BY <1>1, <1>2, <1>3, <1>4, CommitUpgradeKeeps DEF Run

\* Starts, kills and restarts, probes, and the database going and coming.
LEMMA SurroundingsKeep ==
    ASSUME IInv,
           \/ \E c \in Containers : Start(c) \/ Kill(c) \/ Restart(c)
           \/ Probe \/ StopDb \/ StartDb
    PROVE  IInv'
<1>1. ASSUME NEW c \in Containers, Start(c) PROVE IInv'
  <2>1. TypeOK'
    <3>1. tries' \in [Migrators -> 0..Attempts]
      BY <1>1, DeploymentAssumption DEF IInv, TypeOK, Start
    <3> QED BY <1>1, <3>1 DEF IInv, TypeOK, Start, Goes, dbVars, probeVars
  <2>2. \A k \in Containers : pc'[k] = pc[k] \/ pc'[k] \in {"connecting", "waiting"}
    BY <1>1 DEF IInv, TypeOK, Start, Goes
  <2> QED BY <1>1, <2>1, <2>2, ElsewhereKeeps DEF Start, dbVars
<1>2. ASSUME NEW c \in Containers, Kill(c) PROVE IInv'
  <2>1. restarts + 1 \in 0..MaxRestarts
    BY <1>2, DeploymentAssumption DEF IInv, TypeOK, Kill
  <2>2. TypeOK'
    BY <1>2, <2>1 DEF IInv, TypeOK, Kill, dbVars, probeVars
  <2>3. \A k \in Containers : pc'[k] = pc[k] \/ pc'[k] = "failed"
    BY <1>2 DEF IInv, TypeOK, Kill
  <2> QED BY <1>2, <2>2, <2>3, ElsewhereKeeps DEF Kill, dbVars
<1>3. ASSUME NEW c \in Containers, Restart(c) PROVE IInv'
  <2>1. restarts + 1 \in 0..MaxRestarts
    BY <1>3, DeploymentAssumption DEF IInv, TypeOK, Restart
  <2>2. TypeOK'
    BY <1>3, <2>1 DEF IInv, TypeOK, Restart, Goes, dbVars, probeVars
  <2>3. \A k \in Containers : \/ pc'[k] = pc[k] \/ pc'[k] = "created"
                              \/ pc[k] = "stalled" /\ pc'[k] = "starting"
    BY <1>3 DEF IInv, TypeOK, Restart, Goes
  <2> QED BY <1>3, <2>2, <2>3, ElsewhereKeeps DEF Restart, dbVars
<1>4. CASE Probe
  <2>1. TypeOK'
    BY <1>4 DEF IInv, TypeOK, Probe, dbVars
  <2> QED BY <1>4, <2>1, ElsewhereKeeps DEF Probe, dbVars
<1>5. CASE StopDb
  <2>1. outages + 1 \in 0..MaxOutages
    BY <1>5, DeploymentAssumption DEF IInv, TypeOK, StopDb
  <2>2. TypeOK'
    BY <1>5, <2>1 DEF IInv, TypeOK, StopDb
  <2>3. \A k \in Containers : pc'[k] = pc[k] \/ pc'[k] = "failed"
    BY <1>5 DEF StopDb
  <2> QED BY <1>5, <2>2, <2>3, ElsewhereKeeps DEF StopDb
<1>6. CASE StartDb
  <2>1. TypeOK'
    BY <1>6 DEF IInv, TypeOK, StartDb, probeVars
  <2> QED BY <1>6, <2>1, ElsewhereKeeps DEF StartDb
<1> QED BY <1>1, <1>2, <1>3, <1>4, <1>5, <1>6

LEMMA Invariance == Spec => []IInv
<1>1. Init => IInv
  <2> SUFFICES ASSUME Init PROVE IInv
    OBVIOUS
  <2>1. TypeOK
    <3>1. 0 \in 0..Attempts /\ 0 \in 0..MaxOutages /\ 0 \in 0..MaxRestarts /\ 0 \in 0..Head
      BY DeploymentAssumption DEF Head
    <3>2. db \in Database
      BY DeploymentAssumption DEF Init
    <3>3. /\ tries \in [Migrators -> 0..Attempts] /\ upgrades \in [Migrators -> 0..2]
          /\ base \in [Migrators -> 0..Head]
      BY <3>1 DEF Init
    <3> QED BY <3>1, <3>2, <3>3 DEF Init, TypeOK
  <2>2. Fits(db)
    BY DeploymentAssumption DEF Init
  <2>3. Underway /\ ServingMeansMigrated
    BY DEF Init, Underway, ServingMeansMigrated, Containers, Migrators
  <2> QED BY <2>1, <2>2, <2>3 DEF IInv
<1>2. IInv /\ [Next]_vars => IInv'
  BY RunKeeps, SurroundingsKeep, UnchangedKeeps DEF Next
<1> QED BY <1>1, <1>2, PTL DEF Spec

-----------------------------------------------------------------------------
\* Every variable keeps its type, the counters their bounds: in particular the
\* entrypoint never tries more often than it should.
THEOREM TypeCorrect == Spec => []TypeOK
<1>1. IInv => TypeOK
  BY DEF IInv
<1> QED BY <1>1, Invariance, PTL

\* The API never serves a schema it was not written for, on whatever volume and
\* whoever migrates, however often anything is killed, stopped or restarted.
THEOREM OnlyMigratedIsServed == Spec => []ServingMeansMigrated
<1>1. IInv => ServingMeansMigrated
  BY DEF IInv
<1> QED BY <1>1, Invariance, PTL

\* An upgrade brings the schema to its last revision or leaves it as it was.
THEOREM ChainsAreWhole == Spec => UpgradesAreWhole
<1>1. IInv /\ [Next]_vars => [db'.rev # db.rev => db'.rev = Head]_vars
  BY OnlyUpgradesWrite, UpgradedKeeps DEF IInv, TypeOK
<1> QED BY <1>1, Invariance, PTL DEF Spec, UpgradesAreWhole

\* An upgrade from any revision and any data leaves of a site its categories, or
\* its category as the only one, and of a zone what it is for; the other columns
\* of a site are as the last migration sets them.  Nothing else changes a row.
THEOREM MigrationsCarryOver == Spec => UpgradesCarryOver
<1>1. IInv /\ [Next]_vars =>
        [IF db'.rev = db.rev THEN db' = db ELSE CarriesOver(db, db')]_db
  <2> SUFFICES ASSUME IInv, [Next]_vars
               PROVE  IF db'.rev = db.rev THEN db' = db ELSE CarriesOver(db, db')
    OBVIOUS
  <2>1. db \in Database /\ Fits(db)
    BY DEF IInv, TypeOK
  <2>2. db' = db \/ db' = Upgraded(db)
    BY OnlyUpgradesWrite
  <2> QED BY <2>1, <2>2, UpgradedKeeps
<1> QED BY <1>1, Invariance, PTL DEF Spec, UpgradesCarryOver
=============================================================================
