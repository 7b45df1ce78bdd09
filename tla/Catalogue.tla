------------------------------ MODULE Catalogue ------------------------------
(***************************************************************************)
(* Create, update and delete of one of the catalogue's tables: sites       *)
(* (app/api/sites.py), boundaries (app/api/boundaries.py) or restricted    *)
(* zones (app/api/restricted_zones.py), with the loader's upsert           *)
(* (ingestion/upsert.py) as one more writer.  The three routers have the   *)
(* same handlers; Table says which differences apply.                      *)
(*                                                                         *)
(* As in Locations a request is a process, split at its statements; flush  *)
(* and commit are one step.  What identifies a row to OpenStreetMap is     *)
(* unique in its table, in the way SQL understands it.                     *)
(***************************************************************************)
EXTENDS FiniteSets

CONSTANTS
    Table,      \* "sites", "boundaries" or "restricted_zones"
    Requests,
    Calls,      \* what a request may ask: a subset of Call
    Ids,        \* primary keys, those not drawn yet included
    StartRows,  \* the rows at the start: a function from some of the keys
    Values, Lats, Lons,
    Unset,      \* a field the payload leaves out
    NULL,       \* the SQL NULL, and a null in a payload
    Absent,     \* what stands in the place of a row that is not there
    DbMayFail   \* whether a statement may fail

\* Columns that take the payload's value as it is: name stands for the
\* mandatory ones (subtype of a zone), name_en for the optional ones.
Columns == {"osm_type", "osm_id", "name", "name_en"}
NotNull ==
    IF Table = "restricted_zones" THEN {"name"}
    ELSE {"osm_type", "osm_id", "name"}

\* A geometry: the point of a site.  For the other tables a shape is named by
\* its reference point, and a payload has both coordinates of it or neither.
Point == [x : Lons, y : Lats]
Row == [fields : {f \in [Columns -> Values \cup {NULL}] :
                     \A c \in NotNull : f[c] # NULL},
        geometry : Point]

\* Two rows have the same identity to a unique constraint: it never holds two
\* NULLs equal.  (The partial index on zones leaves out rows without an osm_id,
\* which makes no difference.)
SameIdentity(v, w) ==
    \A f \in {"osm_type", "osm_id"} :
        v.fields[f] = w.fields[f] /\ v.fields[f] # NULL

Maybe(S) == S \cup {Unset, NULL}

\* "malformed": the geometry is no GeoJSON shape, so shape() raises.
Call == [op : {"create", "update", "delete", "upsert"}, id : Ids \cup {NULL},
         fields : [Columns -> Maybe(Values)], lat : Maybe(Lats),
         lon : Maybe(Lons), malformed : BOOLEAN]

ASSUME NamesAssumption ==
    /\ Table \in {"sites", "boundaries", "restricted_zones"}
    /\ Unset \notin Values \cup Lats \cup Lons \cup {NULL}
    /\ NULL \notin Values \cup Lats \cup Lons \cup Ids \cup Point
    /\ Absent \notin Row
    /\ DbMayFail \in BOOLEAN
\* What the request schemas and the loader guarantee: a creation is complete,
\* only SiteUpdate hands a null on to the handler, and a loaded feature has
\* its identity.
ASSUME CallsAssumption ==
    \A c \in Calls :
        /\ c \in Call
        /\ c.op \in {"update", "delete"} <=> c.id # NULL
        /\ c.op \in {"create", "upsert"} =>
             /\ \A f \in NotNull : c.fields[f] \in Values
             /\ c.lat \in Lats /\ c.lon \in Lons
        /\ c.op = "upsert" => {c.fields["osm_type"], c.fields["osm_id"]} \subseteq Values
        /\ Table # "sites" => NULL \notin {c.lat, c.lon}
ASSUME StartAssumption ==
    /\ DOMAIN StartRows \subseteq Ids
    /\ \A i \in DOMAIN StartRows : StartRows[i] \in Row
    /\ \A i, j \in DOMAIN StartRows :
         i # j => ~SameIdentity(StartRows[i], StartRows[j])

VARIABLES
    row,     \* row[i]: the committed row with key i, or Absent
    gone,    \* keys of the rows that were deleted
    pc,      \* where the handler of a request stands
    call,    \* what the request asks; a creation's key once it is drawn
    loaded,  \* the session's copy of the row
    point,   \* the geometry the reply will show, NULL for none
    reply,   \* "none", or how the request was answered
    past     \* history: what the request's row was at each moment it ran

dbVars == <<row, gone>>
vars == <<dbVars, pc, call, loaded, point, reply, past>>

NoCall == [op |-> "none"]

Init ==
    /\ row = [i \in Ids |-> IF i \in DOMAIN StartRows THEN StartRows[i] ELSE Absent]
    /\ gone = {}
    /\ pc = [r \in Requests |-> "idle"]
    /\ call = [r \in Requests |-> NoCall]
    /\ loaded = [r \in Requests |-> Absent]
    /\ point = [r \in Requests |-> NULL]
    /\ reply = [r \in Requests |-> "none"]
    /\ past = [r \in Requests |-> {}]

live == {i \in Ids : row[i] # Absent}

-----------------------------------------------------------------------------
(* What a payload does to a row. *)

Given(v, default) == IF v = Unset THEN default ELSE v

\* The columns an update assigns: model_dump(exclude_unset=True), and for
\* boundaries and zones exclude_none=True, so that there nothing is ever cleared.
Assigned(c) ==
    {f \in Columns : c.fields[f] # Unset /\ (Table = "sites" \/ c.fields[f] # NULL)}

Moves(c) == c.lat # Unset \/ c.lon # Unset

\* A coordinate that is left out is the one that was read with the row.
Moved(c, p) == [x |-> Given(c.lon, p.x), y |-> Given(c.lat, p.y)]

\* Variants: the whole copy is written back; a column somebody else changed in
\* the meantime is left alone.
FlushedWhole(now, l, c) ==
    [fields |-> [f \in Columns |-> IF f \in Assigned(c) THEN c.fields[f] ELSE l.fields[f]],
     geometry |-> IF Moves(c) THEN Moved(c, l.geometry) ELSE l.geometry]
FlushedUnlessChanged(now, l, c) ==
    [fields |-> [f \in Columns |-> IF f \in Assigned(c) /\ now.fields[f] = l.fields[f]
                                   THEN c.fields[f] ELSE now.fields[f]],
     geometry |-> IF Moves(c) THEN Moved(c, l.geometry) ELSE now.geometry]

\* A flush writes the assigned columns whose value differs from the one that
\* was read; a geometry is an expression or a text and always differs.
Flushed(now, l, c) ==
    [fields |-> [f \in Columns |-> IF f \in Assigned(c) /\ c.fields[f] # l.fields[f]
                                   THEN c.fields[f] ELSE now.fields[f]],
     geometry |-> IF Moves(c) THEN Moved(c, l.geometry) ELSE now.geometry]

\* Whether a flush sends an UPDATE at all.
Changes(l, c) == Moves(c) \/ \E f \in Assigned(c) : c.fields[f] # l.fields[f]

Inserted(c) ==
    [fields |-> [f \in Columns |-> Given(c.fields[f], NULL)],
     geometry |-> [x |-> c.lon, y |-> c.lat]]

\* Variants: NOT NULL is not declared; the identity is not declared unique.
AdmittedWithNulls(i, v) == \A j \in live \ {i} : ~SameIdentity(row[j], v)
AdmittedUnchecked(i, v) == v \in Row

\* The table takes v under the key i: no missing value (a point with a missing
\* coordinate is NULL as a whole) and no identity taken by another row.
Admitted(i, v) ==
    /\ v \in Row
    /\ \A j \in live \ {i} : ~SameIdentity(row[j], v)

-----------------------------------------------------------------------------
(* The steps of the handlers. *)

Answered(r, how) ==
    /\ pc' = [pc EXCEPT ![r] = "done"]
    /\ reply' = [reply EXCEPT ![r] = how]

GoTo(r, where) ==
    /\ pc' = [pc EXCEPT ![r] = where]
    /\ reply' = reply

\* The transaction does not commit and its error propagates.
Aborted(r) ==
    /\ Answered(r, "error")
    /\ UNCHANGED <<dbVars, call, loaded, point>>

\* A creation evaluates shape(payload.geometry) before anything else.
Accept(r, c) ==
    /\ pc[r] = "idle"
    /\ call' = [call EXCEPT ![r] = c]
    /\ IF c.op = "create" /\ c.malformed
       THEN Answered(r, "error")
       ELSE GoTo(r, IF c.op \in {"update", "delete"} THEN "read" ELSE "commit")
    /\ UNCHANGED <<dbVars, loaded, point>>

\* SELECT the row, with its coordinates, or 404.  An update then evaluates
\* shape() on the payload's geometry.
Load(r) ==
    /\ pc[r] = "read"
    /\ LET c == call[r]
           v == row[c.id]
       IN  IF v = Absent
           THEN Answered(r, "refused") /\ UNCHANGED <<loaded, point>>
           ELSE /\ loaded' = [loaded EXCEPT ![r] = v]
                /\ point' = [point EXCEPT ![r] = v.geometry]
                /\ IF c.op = "update" /\ Moves(c) /\ c.malformed
                   THEN Answered(r, "error")
                   ELSE GoTo(r, "commit")
    /\ UNCHANGED <<dbVars, call>>

\* Variant: the row is merged back even when it was deleted meanwhile.
CommitUpdateMerging(r) ==
    /\ pc[r] = "commit"
    /\ call[r].op = "update"
    /\ row' = [row EXCEPT ![call[r].id] = FlushedWhole(loaded[r], loaded[r], call[r])]
    /\ GoTo(r, "refresh")
    /\ UNCHANGED <<gone, call, loaded, point>>

\* An UPDATE that matches no row raises StaleDataError; without a net change
\* there is no UPDATE.  The reply of a site shows the point just assigned.
CommitUpdate(r) ==
    /\ pc[r] = "commit"
    /\ call[r].op = "update"
    /\ LET c == call[r]
           new == Flushed(row[c.id], loaded[r], c)
       IN  IF ~Changes(loaded[r], c)
           THEN /\ GoTo(r, "refresh")
                /\ UNCHANGED <<dbVars, call, loaded, point>>
           ELSE IF c.id \in live /\ Admitted(c.id, new)
           THEN /\ row' = [row EXCEPT ![c.id] = new]
                /\ point' = IF Moves(c) THEN [point EXCEPT ![r] = new.geometry] ELSE point
                /\ GoTo(r, "refresh")
                /\ UNCHANGED <<gone, call, loaded>>
           ELSE Aborted(r)

\* A row that is gone already only makes the DELETE match nothing.
CommitDelete(r) ==
    /\ pc[r] = "commit"
    /\ call[r].op = "delete"
    /\ row' = [row EXCEPT ![call[r].id] = Absent]
    /\ gone' = gone \cup ({call[r].id} \cap live)
    /\ GoTo(r, "answer")
    /\ UNCHANGED <<call, loaded, point>>

\* A row inserted under a fresh random key, which the session knows.
InsertedAs(i, r) ==
    /\ row' = [row EXCEPT ![i] = Inserted(call[r])]
    /\ call' = [call EXCEPT ![r].id = i]
    /\ point' = [point EXCEPT ![r] = Inserted(call[r]).geometry]
    /\ UNCHANGED <<gone, loaded>>

CommitCreate(r) ==
    /\ pc[r] = "commit"
    /\ call[r].op = "create"
    /\ \E i \in Ids \ (live \cup gone) :
         IF Admitted(i, Inserted(call[r]))
         THEN InsertedAs(i, r) /\ GoTo(r, "refresh")
         ELSE Aborted(r)

\* INSERT ... ON CONFLICT on the identity DO UPDATE every column but the key
\* and the identity: one statement of the loader, for one feature.
CommitUpsert(r) ==
    /\ pc[r] = "commit"
    /\ call[r].op = "upsert"
    /\ LET new == Inserted(call[r])
           same == {i \in live : SameIdentity(row[i], new)}
       IN  IF same = {}
           THEN \E i \in Ids \ (live \cup gone) : InsertedAs(i, r)
           ELSE \E i \in same :
                  /\ row' = [row EXCEPT ![i] = new]
                  /\ call' = [call EXCEPT ![r].id = i]
                  /\ UNCHANGED <<gone, loaded, point>>
    /\ GoTo(r, "answer")

\* Variant: the reply shows the session's own copy.
RefreshSkipped(r) ==
    /\ pc[r] = "refresh"
    /\ loaded' = IF call[r].op = "create" THEN [loaded EXCEPT ![r] = Inserted(call[r])]
                 ELSE [loaded EXCEPT ![r] = Flushed(@, @, call[r])]
    /\ GoTo(r, "answer")
    /\ UNCHANGED <<dbVars, call, point>>

\* session.refresh: the row is read again and must be there.
Refresh(r) ==
    /\ pc[r] = "refresh"
    /\ IF row[call[r].id] = Absent
       THEN Answered(r, "error") /\ UNCHANGED loaded
       ELSE /\ loaded' = [loaded EXCEPT ![r] = row[call[r].id]]
            /\ GoTo(r, IF Table = "sites" THEN "answer" ELSE "locate")
    /\ UNCHANGED <<dbVars, call, point>>

\* Boundaries and zones read the geometry for the reply once more; a row that
\* is gone by now leaves it out.
Locate(r) ==
    /\ pc[r] = "locate"
    /\ LET v == row[call[r].id]
       IN  point' = [point EXCEPT ![r] = IF v = Absent THEN NULL ELSE v.geometry]
    /\ GoTo(r, "answer")
    /\ UNCHANGED <<dbVars, call, loaded>>

Answer(r) ==
    /\ pc[r] = "answer"
    /\ Answered(r, "ok")
    /\ UNCHANGED <<dbVars, call, loaded, point>>

\* A statement fails, or the server stops; what was not committed is undone.
Fail(r) ==
    /\ DbMayFail
    /\ pc[r] \notin {"idle", "done"}
    /\ Aborted(r)

-----------------------------------------------------------------------------
Step(r) ==
    \/ \E c \in Calls : Accept(r, c)
    \/ Load(r)
    \/ CommitUpdate(r) \/ CommitDelete(r) \/ CommitCreate(r) \/ CommitUpsert(r)
    \/ Refresh(r) \/ Locate(r) \/ Answer(r)
    \/ Fail(r)

\* The history of the rows, kept while a request runs and its key is known.
Remember ==
    past' = [r \in Requests |->
                IF pc[r] = "done" \/ pc'[r] = "idle" THEN past[r]
                ELSE IF call'[r].id = NULL THEN {}
                ELSE past[r] \cup {row'[call'[r].id]}]

Finished == (\A r \in Requests : pc[r] = "done") /\ UNCHANGED vars

Next == ((\E r \in Requests : Step(r)) /\ Remember) \/ Finished

Spec == Init /\ [][Next]_vars
-----------------------------------------------------------------------------
(* Properties *)

TypeOK ==
    /\ row \in [Ids -> Row \cup {Absent}]
    /\ gone \subseteq Ids
    /\ pc \in [Requests -> {"idle", "read", "commit", "refresh", "locate",
                           "answer", "done"}]
    /\ call \in [Requests -> Call \cup {NoCall}]
    /\ loaded \in [Requests -> Row \cup {Absent}]
    /\ point \in [Requests -> Point \cup {NULL}]
    /\ reply \in [Requests -> {"none", "ok", "refused", "error"}]
    /\ past \in [Requests -> SUBSET (Row \cup {Absent})]

\* No two rows have the same identity, though one request may change the type
\* and another the number, each from a copy with which the pair was still free,
\* while the loader inserts.
IdentitiesUnique ==
    \A i, j \in live : i # j => ~SameIdentity(row[i], row[j])

\* What became of the row while the request ran: it was deleted, was the one
\* created or loaded, or had the value asked for in that column (each column at a
\* moment of its own: a flush leaves out what the copy already had, so an
\* overlapping update can win one column and lose another).
rowsSeen(r) == past[r] \ {Absent}
TookEffect(r) ==
    LET c == call[r]
    IN  /\ c.op = "delete" => c.id \in gone
        /\ c.op \in {"create", "upsert"} => Inserted(c) \in rowsSeen(r)
        /\ c.op = "update" =>
             /\ \A f \in Assigned(c) : \E v \in rowsSeen(r) : v.fields[f] = c.fields[f]
             /\ Moves(c) => \E v \in rowsSeen(r) : v.geometry = Moved(c, v.geometry)

\* A request that is answered with success had its effect at some moment while it
\* ran, whatever the others did before and after.
SuccessTookEffect == \A r \in Requests : reply[r] = "ok" => TookEffect(r)

\* The columns and the geometry of the row, each at some moment.
ColumnsWereTrue(r) == \E v \in rowsSeen(r) : v.fields = loaded[r].fields
GeometryWasTrue(r) ==
    IF point[r] = NULL THEN Absent \in past[r]
    ELSE \E v \in rowsSeen(r) : v.geometry = point[r]

\* The columns a successful reply shows were the row's columns at one moment
\* while the request ran, and the geometry was its geometry at one (perhaps
\* another) moment; it is missing only if the row was deleted in the meantime.
ReplyWasTrue ==
    \A r \in Requests : reply[r] = "ok" /\ call[r].op \in {"create", "update"} =>
        ColumnsWereTrue(r) /\ GeometryWasTrue(r)

\* What c asks of row i: an update that v be in column f, if its payload names f,
\* and an upsert, which names every column, the same.
AsksFor(c, i, f, v) ==
    /\ c.id = i
    /\ \/ c.op = "update" /\ f \in Assigned(c) /\ v = c.fields[f]
       \/ c.op = "upsert" /\ v = Inserted(c).fields[f]

\* A column of a row changes only by a request for that row which names the
\* column, and to the value it asks for: an update's copy may be old, and what it
\* leaves out is neither written back nor cleared.  (The point of a site is not a
\* column in this sense: a coordinate that is left out is written back.)
EditsTouchOnlyTheirColumns ==
    [][\A i \in live : \A f \in Columns :
         row'[i] # Absent /\ row'[i].fields[f] # row[i].fields[f] =>
            \E r \in Requests :
                /\ pc[r] = "commit" /\ pc'[r] # "commit"
                /\ AsksFor(call'[r], i, f, row'[i].fields[f])]_vars

\* A deleted row does not come back under its key.
DeletedStayDeleted == [][\A i \in gone : i \in gone' /\ row'[i] = Absent]_vars
=============================================================================
