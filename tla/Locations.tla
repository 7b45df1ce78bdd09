------------------------------ MODULE Locations ------------------------------
(***************************************************************************)
(* The writing side of the Locations API (app/api/locations.py) over the   *)
(* tables sites, location_warnings and nearby_services.                    *)
(*                                                                         *)
(* A request is a process.  Between two awaits of its handler other        *)
(* requests run, and every statement reads the latest committed data       *)
(* (READ COMMITTED, one session per request), so a handler is split at its *)
(* statements: read the row, read the point again, flush and commit,       *)
(* refresh, read the point for the reply.  Flush and commit are one step:  *)
(* the row locks taken by the flush are held until the commit.             *)
(*                                                                         *)
(* Warnings and nearby services are two tables with the same handlers and  *)
(* the same foreign key; both are "kids" of a site here.                   *)
(***************************************************************************)
EXTENDS Naturals, FiniteSets

CONSTANTS
    Requests,    \* the requests that may be made
    Calls,       \* what a request may ask: a subset of Call
    Sites,       \* primary keys of sites, those not drawn yet included
    StartSites,  \* the sites the table holds at the start
    StartRow,    \* the row each of them starts with
    Warnings,    \* keys of the kids the tables hold at the start
    StartKids,   \* those kids
    Statuses, Published, Risks, Keys, Values, Lats, Lons, Admins,
    Unset,       \* a field the payload leaves out
    NULL,        \* the SQL NULL
    DbMayFail    \* whether a statement may fail (connection lost, deadlock)

ReadingOps == {"update_location", "set_location_status", "delete_location",
               "add_warning", "delete_warning"}
DirectOps == {"create_location", "import_geojson",
              "bulk_set_status", "bulk_delete_locations"}
EditOps == {"update_location", "set_location_status"}

KidIds == Warnings \cup Requests  \* a request inserts at most one kid
Kid == [id : KidIds, loc : Sites]
Maybe(S) == S \cup {Unset}

\* What the payload and the path of a request say.  "stamp": the payload has a
\* published_at (for a creation or an update, one without a time zone: with one
\* the statement fails).  "many": how many Point features an import carries.
Call == [op : ReadingOps \cup DirectOps, site : Sites, ids : SUBSET Sites,
         kid : KidIds, by : Admins, status : Maybe(Statuses),
         risk_level : Maybe(Risks), stamp : BOOLEAN,
         fields : [Keys -> Maybe(Values)],
         details : Maybe([Keys -> Values \cup {NULL}]),
         lat : Maybe(Lats), lng : Maybe(Lons), many : Nat, malformed : BOOLEAN]

Point == [x : Lons, y : Lats]

\* The columns of a site that the handlers treat differently; risk_level
\* stands for every column update_location assigns from the payload as it is.
\* A time stamp is named by the request that took it.
Row == [status : Statuses, published_at : Requests \cup {NULL},
        risk_level : Risks, details : [Keys -> Values \cup {NULL}],
        geometry : Point, updated_by : Admins \cup {NULL},
        version : Nat \ {0}]

ASSUME NamesAssumption ==
    /\ Published \in Statuses
    /\ Unset \notin Statuses \cup Risks \cup Values \cup Lats \cup Lons
    /\ NULL \notin Requests \cup Values \cup Admins
    /\ Warnings \cap Requests = {}
    /\ DbMayFail \in BOOLEAN
ASSUME CallsAssumption ==
    \A c \in Calls :
        /\ c \in Call
        /\ c.op \in {"create_location", "import_geojson"} =>
             Unset \notin {c.status, c.risk_level, c.lat, c.lng}
        /\ c.op = "bulk_set_status" => c.status # Unset
ASSUME StartAssumption ==
    /\ StartSites \subseteq Sites
    /\ StartRow \in Row /\ StartRow.version = 1
    /\ StartKids \subseteq [id : Warnings, loc : StartSites]

VARIABLES
    live,     \* keys of the committed rows of sites
    gone,     \* keys of the rows that were deleted
    row,      \* row[s]: the committed row of s, while s is live
    kids,     \* the committed rows of the two child tables
    pc,       \* where the handler of a request stands
    call,     \* what the request asks
    loaded,   \* the session's copy of the row, as last read
    point,    \* the point an edit starts from
    applied,  \* whether the request's transaction committed
    reply     \* "none", or how the request was answered

dbVars == <<live, gone, row, kids>>
reqVars == <<pc, call, loaded, point, applied, reply>>
vars == <<dbVars, reqVars>>

NoCall == [op |-> "none"]

Init ==
    /\ live = StartSites
    /\ gone = {}
    /\ row = [s \in Sites |-> StartRow]
    /\ kids = StartKids
    /\ pc = [r \in Requests |-> "idle"]
    /\ call = [r \in Requests |-> NoCall]
    /\ loaded = [r \in Requests |-> StartRow]
    /\ point = [r \in Requests |-> StartRow.geometry]
    /\ applied = [r \in Requests |-> FALSE]
    /\ reply = [r \in Requests |-> "none"]

-----------------------------------------------------------------------------
(* What the handlers assign to the row they read. *)

Given(v, default) == IF v = Unset THEN default ELSE v

Moves(c) == c.op = "update_location" /\ (c.lat # Unset \/ c.lng # Unset)

\* Variants of the definitions below, each with a plausible slip: the stamp is
\* kept when a site leaves "published"; the version is forgotten.
StatusAssignedKeepingStamp(l, c, r) ==
    [l EXCEPT !.status = c.status,
              !.published_at = IF c.status = Published /\ @ = NULL THEN r ELSE @,
              !.updated_by = c.by, !.version = @ + 1]
UpdateAssignedUncounted(l, c, r, p) ==
    [l EXCEPT !.status = Given(c.status, @), !.updated_by = c.by]

\* set_location_status: the first publication stamps, leaving "published"
\* removes the stamp.
StatusAssigned(l, c, r) ==
    [l EXCEPT !.status = c.status,
              !.published_at = IF c.status # Published THEN NULL
                               ELSE IF l.published_at = NULL THEN r ELSE @,
              !.updated_by = c.by,
              !.version = @ + 1]

\* update_location: the details fields are merged into the JSON document that
\* was read, and a "details" key then replaces the whole document.
UpdateAssigned(l, c, r, p) ==
    [status |-> Given(c.status, l.status),
     published_at |-> IF c.stamp THEN r ELSE l.published_at,
     risk_level |-> Given(c.risk_level, l.risk_level),
     details |-> Given(c.details,
                       [k \in Keys |-> Given(c.fields[k], l.details[k])]),
     geometry |-> [x |-> Given(c.lng, p.x), y |-> Given(c.lat, p.y)],
     updated_by |-> c.by,
     version |-> l.version + 1]

Assigned(r) ==
    IF call[r].op = "set_location_status"
    THEN StatusAssigned(loaded[r], call[r], r)
    ELSE UpdateAssigned(loaded[r], call[r], r, point[r])

\* Variants: the whole row is written back; a column somebody else changed in
\* the meantime is left alone.
FlushedWhole(now, l, w, moved) == w
FlushedUnlessChanged(now, l, w, moved) ==
    [[f \in DOMAIN now |-> IF now[f] # l[f] THEN now[f] ELSE w[f]]
        EXCEPT !.version = w.version]

\* The UPDATE of a flush names only the columns whose value differs from the
\* one that was read; a geometry is an SQL expression and always named.
Flushed(now, l, w, moved) ==
    LET Net(was, new, current) == IF new # was THEN new ELSE current
    IN  [status |-> Net(l.status, w.status, now.status),
         published_at |-> Net(l.published_at, w.published_at, now.published_at),
         risk_level |-> Net(l.risk_level, w.risk_level, now.risk_level),
         details |-> Net(l.details, w.details, now.details),
         geometry |-> IF moved THEN w.geometry ELSE now.geometry,
         updated_by |-> Net(l.updated_by, w.updated_by, now.updated_by),
         version |-> Net(l.version, w.version, now.version)]

\* Variant: the first version is left to the database, which says 0.
InsertedUnversioned(c, r) ==
    [status |-> c.status, published_at |-> NULL, risk_level |-> c.risk_level,
     details |-> [k \in Keys |-> NULL],
     geometry |-> [x |-> c.lng, y |-> c.lat], updated_by |-> NULL, version |-> 0]

\* The row create_location and import_geojson insert.
Inserted(c, r) ==
    [status |-> c.status,
     published_at |-> IF c.stamp THEN r ELSE NULL,
     risk_level |-> c.risk_level,
     details |-> [k \in Keys |-> Given(c.fields[k], NULL)],
     geometry |-> [x |-> c.lng, y |-> c.lat],
     updated_by |-> NULL,
     version |-> 1]

-----------------------------------------------------------------------------
(* The steps every handler is made of. *)

Answered(r, how) ==
    /\ pc' = [pc EXCEPT ![r] = "done"]
    /\ reply' = [reply EXCEPT ![r] = how]

GoTo(r, where) ==
    /\ pc' = [pc EXCEPT ![r] = where]
    /\ reply' = reply

\* The request's transaction committed; the handler goes on.
Applied(r, next) ==
    /\ applied' = [applied EXCEPT ![r] = TRUE]
    /\ GoTo(r, next)

\* The transaction did not commit and its error propagates out of the handler.
Aborted(r) ==
    /\ Answered(r, "error")
    /\ UNCHANGED <<dbVars, applied>>

\* Variant: a status change without a status is let through.
AcceptAnything(r, c) ==
    /\ pc[r] = "idle"
    /\ call' = [call EXCEPT ![r] = c]
    /\ GoTo(r, IF c.op \in ReadingOps THEN "read" ELSE "commit")
    /\ UNCHANGED <<dbVars, loaded, point, applied>>

\* The call is dispatched.  A status change without a status is refused before
\* the row is read; a creation with an empty name and an import that meets a
\* feature without a geometry object raise before anything is flushed.
Accept(r, c) ==
    /\ pc[r] = "idle"
    /\ call' = [call EXCEPT ![r] = c]
    /\ IF c.op = "set_location_status" /\ c.status = Unset
       THEN Answered(r, "refused")
       ELSE IF c.op \in {"create_location", "import_geojson"} /\ c.malformed
       THEN Answered(r, "error")
       ELSE GoTo(r, IF c.op \in ReadingOps THEN "read" ELSE "commit")
    /\ UNCHANGED <<dbVars, loaded, point, applied>>

\* Variant: a missing row counts as success.
LoadSiteOrSucceed(r) ==
    /\ pc[r] = "read"
    /\ call[r].op # "delete_warning"
    /\ IF call[r].site \in live
       THEN /\ loaded' = [loaded EXCEPT ![r] = row[call[r].site]]
            /\ GoTo(r, "commit")
       ELSE Answered(r, "ok") /\ UNCHANGED loaded
    /\ UNCHANGED <<dbVars, call, point, applied>>

\* session.get(Site, location_id), or 404.
LoadSite(r) ==
    /\ pc[r] = "read"
    /\ call[r].op # "delete_warning"
    /\ IF call[r].site \in live
       THEN /\ loaded' = [loaded EXCEPT ![r] = row[call[r].site]]
            /\ point' = [point EXCEPT ![r] = row[call[r].site].geometry]
            /\ GoTo(r, IF Moves(call[r]) THEN "geometry" ELSE "commit")
       ELSE /\ Answered(r, "refused")
            /\ UNCHANGED <<loaded, point>>
    /\ UNCHANGED <<dbVars, call, applied>>

\* delete_warning and delete_nearby_service select the kid by both keys.
LoadKid(r) ==
    /\ pc[r] = "read"
    /\ call[r].op = "delete_warning"
    /\ IF [id |-> call[r].kid, loc |-> call[r].site] \in kids
       THEN GoTo(r, "commit")
       ELSE Answered(r, "refused")
    /\ UNCHANGED <<dbVars, call, loaded, point, applied>>

\* update_location reads the point again when the payload moves the site; a row
\* deleted by now leaves the geometry unassigned.
ReadGeometry(r) ==
    /\ pc[r] = "geometry"
    /\ point' = IF call[r].site \in live
                THEN [point EXCEPT ![r] = row[call[r].site].geometry]
                ELSE point
    /\ GoTo(r, "commit")
    /\ UNCHANGED <<dbVars, call, loaded, applied>>

\* Variant: the row is merged back even when it was deleted meanwhile.
CommitEditMerging(r) ==
    /\ pc[r] = "commit"
    /\ call[r].op \in EditOps
    /\ live' = live \cup {call[r].site}
    /\ row' = [row EXCEPT ![call[r].site] = Assigned(r)]
    /\ Applied(r, "refresh")
    /\ UNCHANGED <<gone, kids, call, loaded, point>>

\* The flush and commit of update_location and set_location_status.  An UPDATE
\* that matches no row raises StaleDataError.
CommitEdit(r) ==
    /\ pc[r] = "commit"
    /\ call[r].op \in EditOps
    /\ LET s == call[r].site
       IN  IF s \in live
           THEN /\ row' = [row EXCEPT ![s] =
                             Flushed(@, loaded[r], Assigned(r), Moves(call[r]))]
                /\ Applied(r, "refresh")
                /\ UNCHANGED <<live, gone, kids>>
           ELSE Aborted(r)
    /\ UNCHANGED <<call, loaded, point>>

\* Variant: the bulk change forgets the version.
BulkRowUncounted(now, c, r) ==
    [now EXCEPT !.status = c.status, !.updated_by = c.by,
                !.published_at = IF c.status = Published THEN r ELSE NULL]

\* bulk_set_status: one UPDATE, computed by the database from the current row.
BulkRow(now, c, r) ==
    [now EXCEPT !.status = c.status,
                !.published_at = IF c.status = Published THEN r ELSE NULL,
                !.updated_by = c.by,
                !.version = @ + 1]

CommitBulkStatus(r) ==
    /\ pc[r] = "commit"
    /\ call[r].op = "bulk_set_status"
    /\ row' = [s \in Sites |-> IF s \in call[r].ids \cap live
                               THEN BulkRow(row[s], call[r], r)
                               ELSE row[s]]
    /\ Applied(r, "answer")
    /\ UNCHANGED <<live, gone, kids, call, loaded, point>>

\* Rows of sites go with their kids: by the session's cascade for the kids it
\* loaded and by the foreign key's ON DELETE CASCADE for the others.
Removed(S) ==
    /\ live' = live \ S
    /\ gone' = gone \cup (S \cap live)
    /\ kids' = {k \in kids : k.loc \notin S}
    /\ UNCHANGED row

\* delete_location: a row that is gone already only makes the DELETE match
\* nothing, and the request succeeds.
CommitRemoval(r) ==
    /\ pc[r] = "commit"
    /\ call[r].op = "delete_location"
    /\ Removed({call[r].site})
    /\ Applied(r, "answer")
    /\ UNCHANGED <<call, loaded, point>>

CommitBulkRemoval(r) ==
    /\ pc[r] = "commit"
    /\ call[r].op = "bulk_delete_locations"
    /\ Removed(call[r].ids)
    /\ Applied(r, "answer")
    /\ UNCHANGED <<call, loaded, point>>

\* Rows are inserted under fresh random keys.
InsertedAs(new, r) ==
    /\ live' = live \cup new
    /\ row' = [s \in Sites |-> IF s \in new THEN Inserted(call[r], r) ELSE row[s]]
    /\ UNCHANGED <<gone, kids, loaded, point>>

\* Variant: keys of deleted rows are drawn again.
CommitCreateReusingKeys(r) ==
    /\ pc[r] = "commit"
    /\ call[r].op = "create_location"
    /\ \E s \in Sites \ live : InsertedAs({s}, r)
    /\ Applied(r, "answer")
    /\ UNCHANGED call

\* create_location; the session knows the key it drew.
CommitCreate(r) ==
    /\ pc[r] = "commit"
    /\ call[r].op = "create_location"
    /\ \E s \in Sites \ (live \cup gone) :
         InsertedAs({s}, r) /\ call' = [call EXCEPT ![r].site = s]
    /\ Applied(r, "refresh")

\* import_geojson commits once, for all its Point features.  A publishedAt is
\* handed to the driver as a string, which a time stamp column does not take.
CommitImport(r) ==
    /\ pc[r] = "commit"
    /\ call[r].op = "import_geojson"
    /\ IF call[r].stamp
       THEN Aborted(r) /\ UNCHANGED <<loaded, point>>
       ELSE /\ \E new \in SUBSET (Sites \ (live \cup gone)) :
                 Cardinality(new) = call[r].many /\ InsertedAs(new, r)
            /\ Applied(r, "answer")
    /\ UNCHANGED call

\* Variant: no foreign key.
CommitKidUnchecked(r) ==
    /\ pc[r] = "commit"
    /\ call[r].op = "add_warning"
    /\ kids' = kids \cup {[id |-> r, loc |-> call[r].site]}
    /\ Applied(r, "refresh")
    /\ UNCHANGED <<live, gone, row, call, loaded, point>>

\* add_warning and add_nearby_service: the INSERT violates the foreign key when
\* the site is gone.
CommitKid(r) ==
    /\ pc[r] = "commit"
    /\ call[r].op = "add_warning"
    /\ IF call[r].site \in live
       THEN /\ kids' = kids \cup {[id |-> r, loc |-> call[r].site]}
            /\ Applied(r, "refresh")
            /\ UNCHANGED <<live, gone, row>>
       ELSE Aborted(r)
    /\ UNCHANGED <<call, loaded, point>>

CommitKidRemoval(r) ==
    /\ pc[r] = "commit"
    /\ call[r].op = "delete_warning"
    /\ kids' = {k \in kids : k.id # call[r].kid}
    /\ Applied(r, "answer")
    /\ UNCHANGED <<live, gone, row, call, loaded, point>>

\* session.refresh: the row is read again after the commit and must be there.
RefreshSite(r) ==
    /\ pc[r] = "refresh"
    /\ call[r].op \in EditOps \cup {"create_location"}
    /\ IF call[r].site \in live
       THEN /\ loaded' = [loaded EXCEPT ![r] = row[call[r].site]]
            /\ GoTo(r, IF call[r].op \in EditOps THEN "locate" ELSE "answer")
       ELSE /\ Answered(r, "error")
            /\ UNCHANGED loaded
    /\ UNCHANGED <<dbVars, call, point, applied>>

\* Variant: the refresh of a kid waits for a row that may be gone.
RefreshKidWaiting(r) ==
    /\ pc[r] = "refresh"
    /\ call[r].op = "add_warning"
    /\ \E k \in kids : k.id = r
    /\ GoTo(r, "answer")
    /\ UNCHANGED <<dbVars, call, loaded, point, applied>>

RefreshKid(r) ==
    /\ pc[r] = "refresh"
    /\ call[r].op = "add_warning"
    /\ IF \E k \in kids : k.id = r
       THEN GoTo(r, "answer")
       ELSE Answered(r, "error")
    /\ UNCHANGED <<dbVars, call, loaded, point, applied>>

\* The reply's point is one more SELECT; a row deleted by now leaves the
\* reply's coordinates at zero, and the request succeeds all the same.
Locate(r) ==
    /\ pc[r] = "locate"
    /\ GoTo(r, "answer")
    /\ UNCHANGED <<dbVars, call, loaded, point, applied>>

Answer(r) ==
    /\ pc[r] = "answer"
    /\ Answered(r, "ok")
    /\ UNCHANGED <<dbVars, call, loaded, point, applied>>

\* A statement fails, or the server stops: the session closes and rolls back
\* what was not committed, and the client gets a 500 or no answer at all.
Fail(r) ==
    /\ DbMayFail
    /\ pc[r] \notin {"idle", "done"}
    /\ Aborted(r)
    /\ UNCHANGED <<call, loaded, point>>

-----------------------------------------------------------------------------
Advance(r) ==
    \/ LoadSite(r) \/ LoadKid(r) \/ ReadGeometry(r)
    \/ CommitEdit(r) \/ CommitBulkStatus(r)
    \/ CommitRemoval(r) \/ CommitBulkRemoval(r)
    \/ CommitCreate(r) \/ CommitImport(r)
    \/ CommitKid(r) \/ CommitKidRemoval(r)
    \/ RefreshSite(r) \/ RefreshKid(r) \/ Locate(r) \/ Answer(r)

\* Every request that can be made was made and answered.
Finished ==
    /\ \A r \in Requests : pc[r] = "done"
    /\ UNCHANGED vars

Next ==
    \/ \E r \in Requests :
         \/ \E c \in Calls : Accept(r, c)
         \/ Advance(r)
         \/ Fail(r)
    \/ Finished

\* The event loop runs every handler whose statement has returned.
Fairness == \A r \in Requests : WF_vars(Advance(r))

Spec == Init /\ [][Next]_vars
FairSpec == Spec /\ Fairness
-----------------------------------------------------------------------------
(* Properties *)

TypeOK ==
    /\ live \subseteq Sites /\ gone \subseteq Sites
    /\ row \in [Sites -> Row]
    /\ kids \subseteq Kid
    /\ pc \in [Requests -> {"idle", "read", "geometry", "commit", "refresh",
                           "locate", "answer", "done"}]
    /\ call \in [Requests -> Call \cup {NoCall}]
    /\ loaded \in [Requests -> Row]
    /\ point \in [Requests -> Point]
    /\ applied \in [Requests -> BOOLEAN]
    /\ reply \in [Requests -> {"none", "ok", "refused", "error"}]

\* A warning or nearby service never outlives its site, whatever add, delete
\* and bulk delete requests overlap: the site was there when add_warning read
\* it, which says nothing of the moment its INSERT runs.
NoOrphanKid == \A k \in kids : k.loc \in live

\* A deleted site never comes back: an edit that read the row before the
\* deletion must not write it after.
DeletedStayDeleted == [][\A s \in gone : s \in gone' /\ s \notin live']_vars

\* The columns a request asks to change; version and updated_by go with it.
Asked(c) ==
    IF c.op = "set_location_status" THEN {"status", "published_at"}
    ELSE {f \in {"status", "risk_level"} : c[f] # Unset}
         \cup (IF c.stamp THEN {"published_at"} ELSE {})
         \cup (IF Moves(c) THEN {"geometry"} ELSE {})
         \cup (IF c.details # Unset \/ \E k \in Keys : c.fields[k] # Unset
              THEN {"details"} ELSE {})

\* A single-row edit leaves every column it was not asked to change as the
\* other requests left it, although its copy of the row may be older than
\* theirs: edits of different columns all survive.
EditsTouchOnlyTheirColumns ==
    [][\A r \in Requests :
        pc[r] = "commit" /\ call[r].op \in EditOps /\ applied'[r] /\ ~applied[r]
        => \A f \in {"status", "published_at", "risk_level", "details",
                     "geometry"} \ Asked(call[r]) :
               row'[call[r].site][f] = row[call[r].site][f]]_vars

\* Every request that was accepted is answered.
EveryRequestAnswered == \A r \in Requests : pc[r] # "idle" ~> pc[r] = "done"

-----------------------------------------------------------------------------
(* What became of a request, as LocationStore sees it. *)

outcome ==
    [r \in Requests |->
        IF pc[r] = "idle" THEN "none"
        ELSE IF pc[r] = "done" THEN reply[r]
        ELSE IF applied[r] THEN "applied" ELSE "open"]

Store == INSTANCE LocationStore

\* Every behaviour of the handlers is one the store promises: one atomic effect
\* at most, before the answer; success only after it, refusal only without it.
ImplementsStore == Store!Spec
=============================================================================
