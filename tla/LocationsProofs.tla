--------------------------- MODULE LocationsProofs ---------------------------
(***************************************************************************)
(* Theorems about Locations for every set of requests, calls and sites.    *)
(*                                                                         *)
(* The inductive invariant adds to the properties what a handler knows of  *)
(* its own progress: which calls can stand at which statement, that the    *)
(* effect comes with the commit and the answer last, and that a key is     *)
(* never live and gone at once.                                            *)
(***************************************************************************)
EXTENDS Locations, TLAPS

Inserting == {"create_location", "import_geojson"}

\* A call whose handler may reach its commit.
Sound(c) ==
    /\ c \in Call
    /\ c.op \in Inserting =>
         Unset \notin {c.status, c.risk_level, c.lat, c.lng}
    /\ c.op \in {"bulk_set_status", "set_location_status"} => c.status # Unset

CallsSound == \A r \in Requests : pc[r] \notin {"idle", "done"} => Sound(call[r])

Stages ==
    \A r \in Requests :
        /\ pc[r] \in {"idle", "read", "geometry", "commit"} => ~applied[r]
        /\ pc[r] \in {"refresh", "locate", "answer"} => applied[r]
        /\ pc[r] # "done" => reply[r] = "none"
        /\ pc[r] = "done" => /\ reply[r] \in {"ok", "refused", "error"}
                             /\ reply[r] = "ok" => applied[r]
                             /\ reply[r] = "refused" => ~applied[r]

KeysApart == live \cap gone = {}

IInv == TypeOK /\ CallsSound /\ Stages /\ KeysApart /\ NoOrphanKid

-----------------------------------------------------------------------------
(* What the pure operators return. *)

\* A field of the payload, or what it defaults to, is of the column's type.
LEMMA GivenType ==
    ASSUME NEW S, NEW v \in Maybe(S), NEW d \in S
    PROVE  Given(v, d) \in S
BY DEF Given, Maybe

\* The row set_location_status assigns is a row, of a later version.
LEMMA StatusAssignedType ==
    ASSUME NEW l \in Row, NEW c \in Call, c.status # Unset, NEW r \in Requests
    PROVE  /\ StatusAssigned(l, c, r) \in Row
           /\ StatusAssigned(l, c, r).version = l.version + 1
<1>1. c.status \in Statuses /\ c.by \in Admins
  BY DEF Call, Maybe
<1>2. l.version + 1 \in Nat \ {0}
  BY DEF Row
<1>3. (IF c.status # Published THEN NULL
       ELSE IF l.published_at = NULL THEN r ELSE l.published_at)
        \in Requests \cup {NULL}
  BY DEF Row
<1> QED
  BY <1>1, <1>2, <1>3 DEF StatusAssigned, Row

\* So is the row update_location assigns.
LEMMA UpdateAssignedType ==
    ASSUME NEW l \in Row, NEW c \in Call, NEW r \in Requests, NEW p \in Point
    PROVE  /\ UpdateAssigned(l, c, r, p) \in Row
           /\ UpdateAssigned(l, c, r, p).version = l.version + 1
<1>1. Given(c.status, l.status) \in Statuses
  BY GivenType DEF Call, Row
<1>2. Given(c.risk_level, l.risk_level) \in Risks
  BY GivenType DEF Call, Row
<1>3. /\ Given(c.lng, p.x) \in Lons
      /\ Given(c.lat, p.y) \in Lats
  BY GivenType DEF Call, Point
<1>4. ASSUME NEW k \in Keys
      PROVE  Given(c.fields[k], l.details[k]) \in Values \cup {NULL}
  BY DEF Call, Row, Given, Maybe
<1>5. Given(c.details, [k \in Keys |-> Given(c.fields[k], l.details[k])])
        \in [Keys -> Values \cup {NULL}]
  BY <1>4 DEF Call, Given, Maybe
<1>6. (IF c.stamp THEN r ELSE l.published_at) \in Requests \cup {NULL}
  BY DEF Row
<1>7. c.by \in Admins \cup {NULL} /\ l.version + 1 \in Nat \ {0}
  BY DEF Call, Row
<1> QED
  BY <1>1, <1>2, <1>3, <1>5, <1>6, <1>7 DEF UpdateAssigned, Row, Point

\* What either edit handler assigns is a row of the version after the one read.
LEMMA AssignedType ==
    ASSUME NEW r \in Requests, Sound(call[r]), call[r].op \in EditOps,
           loaded[r] \in Row, point[r] \in Point
    PROVE  Assigned(r) \in Row /\ Assigned(r).version = loaded[r].version + 1
<1>1. call[r] \in Call
  BY DEF Sound
<1>2. CASE call[r].op = "set_location_status"
  BY <1>1, <1>2, StatusAssignedType DEF Assigned, Sound
<1>3. CASE call[r].op # "set_location_status"
  BY <1>1, <1>3, UpdateAssignedType DEF Assigned
<1> QED
  BY <1>2, <1>3

\* A flush writes a row, and since the version always differs from the one
\* that was read, it writes the assigned version.
LEMMA FlushedType ==
    ASSUME NEW now \in Row, NEW l \in Row, NEW w \in Row, NEW moved,
           w.version = l.version + 1
    PROVE  /\ Flushed(now, l, w, moved) \in Row
           /\ Flushed(now, l, w, moved).version = w.version
BY DEF Flushed, Row

\* bulk_set_status turns a row into a row of the next version.
LEMMA BulkRowType ==
    ASSUME NEW now \in Row, NEW c \in Call, c.status # Unset, NEW r \in Requests
    PROVE  /\ BulkRow(now, c, r) \in Row
           /\ BulkRow(now, c, r).version = now.version + 1
<1>1. c.status \in Statuses /\ c.by \in Admins
  BY DEF Call, Maybe
<1>2. now.version + 1 \in Nat \ {0}
  BY DEF Row
<1> QED
  BY <1>1, <1>2 DEF BulkRow, Row

\* What create_location and import_geojson insert is a row of version 1.
LEMMA InsertedType ==
    ASSUME NEW c \in Call, NEW r \in Requests,
           Unset \notin {c.status, c.risk_level, c.lat, c.lng}
    PROVE  Inserted(c, r) \in Row /\ Inserted(c, r).version = 1
<1>1. [k \in Keys |-> Given(c.fields[k], NULL)] \in [Keys -> Values \cup {NULL}]
  BY DEF Call, Given, Maybe
<1>2. /\ c.status \in Statuses /\ c.risk_level \in Risks
      /\ c.lng \in Lons /\ c.lat \in Lats
  BY DEF Call, Maybe
<1> QED
  BY <1>1, <1>2 DEF Inserted, Row, Point

-----------------------------------------------------------------------------
(* The invariant *)

\* The tables and handlers start in the invariant.
LEMMA InitInvariant == Init => IInv
BY StartAssumption, NamesAssumption
   DEF Init, IInv, TypeOK, CallsSound, Stages, KeysApart, NoOrphanKid, Kid,
       KidIds, Row, NoCall

\* A handler that moves on, without touching the store, to a later statement of
\* the same call or to its answer.
LEMMA MovesOn ==
    ASSUME IInv, NEW r \in Requests, UNCHANGED <<dbVars, call, applied>>,
           pc[r] \notin {"idle", "done"},
           loaded' \in [Requests -> Row], point' \in [Requests -> Point],
           \/ /\ \E where \in {"geometry", "commit"} : GoTo(r, where)
              /\ pc[r] \in {"read", "geometry"}
           \/ /\ \E where \in {"locate", "answer"} : GoTo(r, where)
              /\ pc[r] \in {"refresh", "locate"}
           \/ Answered(r, "error")
           \/ Answered(r, "refused") /\ pc[r] = "read"
           \/ Answered(r, "ok") /\ pc[r] = "answer"
    PROVE  IInv'
<1> USE DEF IInv, dbVars
<1>1. TypeOK'
  BY DEF TypeOK, GoTo, Answered
<1>2. CallsSound'
  BY DEF TypeOK, CallsSound, GoTo, Answered
<1>3. Stages'
  BY DEF TypeOK, Stages, GoTo, Answered
<1>4. KeysApart' /\ NoOrphanKid'
  BY DEF KeysApart, NoOrphanKid
<1> QED
  BY <1>1, <1>2, <1>3, <1>4

\* A handler whose transaction commits.
LEMMA Commits ==
    ASSUME IInv, NEW r \in Requests, pc[r] = "commit",
           NEW where \in {"refresh", "answer"}, Applied(r, where),
           UNCHANGED <<loaded, point>>,
           call' \in [Requests -> Call \cup {NoCall}],
           \A q \in Requests : Sound(call[q]) => Sound(call'[q]),
           row' \in [Sites -> Row],
           live' \subseteq Sites, gone' \subseteq Sites, live' \cap gone' = {},
           kids' \subseteq Kid, \A k \in kids' : k.loc \in live'
    PROVE  IInv'
<1> USE DEF IInv
<1>1. TypeOK'
  BY DEF TypeOK, Applied, GoTo
<1>2. CallsSound'
  BY DEF TypeOK, CallsSound, Applied, GoTo
<1>3. Stages'
  BY DEF TypeOK, Stages, Applied, GoTo
<1>4. KeysApart' /\ NoOrphanKid'
  BY DEF KeysApart, NoOrphanKid
<1> QED
  BY <1>1, <1>2, <1>3, <1>4

\* The inductive step, one step per action of the handlers.
LEMMA NextInvariant == IInv /\ [Next]_vars => IInv'
<1> SUFFICES ASSUME IInv, [Next]_vars
             PROVE  IInv'
  OBVIOUS
<1>0. TypeOK /\ CallsSound /\ Stages /\ KeysApart /\ NoOrphanKid
  BY DEF IInv
<1>t. /\ loaded \in [Requests -> Row] /\ point \in [Requests -> Point]
      /\ row \in [Sites -> Row] /\ call \in [Requests -> Call \cup {NoCall}]
      /\ live \subseteq Sites /\ gone \subseteq Sites /\ kids \subseteq Kid
      /\ live \cap gone = {} /\ \A k \in kids : k.loc \in live
  BY <1>0 DEF TypeOK, KeysApart, NoOrphanKid
<1>c. ASSUME NEW r \in Requests, pc[r] \notin {"idle", "done"}
      PROVE  /\ Sound(call[r]) /\ call[r] \in Call
             /\ call[r].site \in Sites /\ call[r].ids \subseteq Sites
  <2>1. Sound(call[r])
    BY <1>0, <1>c DEF CallsSound
  <2> QED
    BY <2>1 DEF Sound, Call
<1>1. ASSUME NEW r \in Requests, NEW c \in Calls, Accept(r, c)
      PROVE  IInv'
  <2>1. c \in Call /\ ((c.op = "set_location_status" /\ c.status = Unset) \/ Sound(c))
    BY CallsAssumption DEF Sound, Inserting
  <2>2. UNCHANGED <<live, gone, row, kids, loaded, point, applied>>
    BY <1>1 DEF Accept, dbVars
  <2>3. TypeOK'
    BY <1>0, <1>1, <2>1, <2>2 DEF TypeOK, Accept, GoTo, Answered
  <2>4. CallsSound'
    BY <1>0, <1>1, <2>1 DEF TypeOK, CallsSound, Accept, GoTo, Answered
  <2>5. Stages'
    BY <1>0, <1>1, <2>2 DEF TypeOK, Stages, Accept, GoTo, Answered
  <2>6. KeysApart' /\ NoOrphanKid'
    BY <1>0, <2>2 DEF KeysApart, NoOrphanKid
  <2> QED
    BY <2>3, <2>4, <2>5, <2>6 DEF IInv
<1>2. ASSUME NEW r \in Requests, LoadSite(r)
      PROVE  IInv'
  <2>1. loaded' \in [Requests -> Row] /\ point' \in [Requests -> Point]
    <3>1. row[call[r].site] \in Row /\ row[call[r].site].geometry \in Point
      <4>1. row[call[r].site] \in Row
        BY <1>t, <1>c, <1>2 DEF LoadSite
      <4> QED
        BY <4>1 DEF Row
    <3> QED
      BY <1>t, <1>2, <3>1 DEF LoadSite
  <2>2. \/ \E where \in {"geometry", "commit"} : GoTo(r, where)
        \/ Answered(r, "refused")
    BY <1>2 DEF LoadSite
  <2> QED
    BY <1>2, <2>1, <2>2, MovesOn DEF LoadSite
<1>3. ASSUME NEW r \in Requests, LoadKid(r)
      PROVE  IInv'
  BY <1>t, <1>3, MovesOn DEF LoadKid
<1>4. ASSUME NEW r \in Requests, ReadGeometry(r)
      PROVE  IInv'
  <2>1. point' \in [Requests -> Point]
    BY <1>t, <1>c, <1>4 DEF ReadGeometry, Row
  <2> QED
    BY <1>t, <1>4, <2>1, MovesOn DEF ReadGeometry
<1>5. ASSUME NEW r \in Requests, CommitEdit(r)
      PROVE  IInv'
  <2>1. CASE call[r].site \notin live
    BY <1>t, <1>5, <2>1, MovesOn DEF CommitEdit, Aborted
  <2>2. CASE call[r].site \in live
    <3>1. row' \in [Sites -> Row]
      <4>1. Assigned(r) \in Row /\ Assigned(r).version = loaded[r].version + 1
        BY <1>t, <1>c, <1>5, AssignedType DEF CommitEdit
      <4>2. Flushed(row[call[r].site], loaded[r], Assigned(r), Moves(call[r])) \in Row
        BY <1>t, <1>c, <1>5, <4>1, FlushedType DEF CommitEdit
      <4> QED
        BY <1>t, <1>5, <2>2, <4>2 DEF CommitEdit
    <3> QED
      BY <1>t, <1>5, <2>2, <3>1, Commits DEF CommitEdit
  <2> QED
    BY <2>1, <2>2
<1>6. ASSUME NEW r \in Requests, CommitBulkStatus(r)
      PROVE  IInv'
  <2>1. \A s \in Sites : BulkRow(row[s], call[r], r) \in Row
    BY <1>t, <1>c, <1>6, BulkRowType DEF CommitBulkStatus, Sound
  <2>2. row' \in [Sites -> Row]
    BY <1>t, <1>6, <2>1 DEF CommitBulkStatus
  <2> QED
    BY <1>t, <1>6, <2>2, Commits DEF CommitBulkStatus
<1>7. ASSUME NEW r \in Requests, CommitRemoval(r) \/ CommitBulkRemoval(r)
      PROVE  IInv'
  <2>1. \E S \in SUBSET Sites : Removed(S)
    BY <1>c, <1>7 DEF CommitRemoval, CommitBulkRemoval
  <2>2. /\ live' \subseteq Sites /\ gone' \subseteq Sites /\ live' \cap gone' = {}
        /\ kids' \subseteq Kid /\ \A k \in kids' : k.loc \in live'
        /\ row' = row
    BY <1>t, <2>1 DEF Removed, Kid
  <2> QED
    BY <1>t, <1>7, <2>2, Commits DEF CommitRemoval, CommitBulkRemoval
<1>8. ASSUME NEW r \in Requests, CommitCreate(r) \/ CommitImport(r)
      PROVE  IInv'
  <2>1. Inserted(call[r], r) \in Row
    BY <1>c, <1>8, InsertedType
       DEF CommitCreate, CommitImport, Sound, Inserting
  <2>2. CASE CommitImport(r) /\ call[r].stamp
    BY <1>t, <1>8, <2>2, MovesOn DEF CommitImport, Aborted
  <2>3. CASE ~(CommitImport(r) /\ call[r].stamp)
    <3>1. \E new \in SUBSET (Sites \ (live \cup gone)) : InsertedAs(new, r)
      BY <1>8, <2>3 DEF CommitCreate, CommitImport
    <3>2. /\ row' \in [Sites -> Row]
          /\ live' \subseteq Sites /\ live' \cap gone = {} /\ live \subseteq live'
          /\ UNCHANGED <<gone, kids, loaded, point>>
      BY <1>t, <2>1, <3>1 DEF InsertedAs
    <3>3. \/ call' = call
          \/ \E s \in Sites : call' = [call EXCEPT ![r].site = s]
      BY <1>8 DEF CommitCreate, CommitImport
    <3>4. /\ call' \in [Requests -> Call \cup {NoCall}]
          /\ \A q \in Requests : Sound(call[q]) => Sound(call'[q])
      <4>1. \A s \in Sites : /\ [call[r] EXCEPT !.site = s] \in Call
                             /\ Sound([call[r] EXCEPT !.site = s])
        <5>1. pc[r] \notin {"idle", "done"}
          BY <1>8 DEF CommitCreate, CommitImport
        <5>2. call[r] \in Call /\ Sound(call[r])
          BY <1>c, <5>1
        <5> QED BY <5>2 DEF Sound, Call
      <4> QED
        BY <1>t, <3>3, <4>1
    <3> QED
      BY <1>t, <1>8, <2>3, <3>2, <3>4, Commits DEF CommitCreate, CommitImport
  <2> QED
    BY <2>2, <2>3
<1>9. ASSUME NEW r \in Requests, CommitKid(r)
      PROVE  IInv'
  <2>1. CASE call[r].site \notin live
    BY <1>t, <1>9, <2>1, MovesOn DEF CommitKid, Aborted
  <2>2. CASE call[r].site \in live
    <3>1. kids' \subseteq Kid /\ \A k \in kids' : k.loc \in live
      BY <1>t, <1>9, <2>2 DEF CommitKid, Kid, KidIds
    <3> QED
      BY <1>t, <1>9, <2>2, <3>1, Commits DEF CommitKid
  <2> QED
    BY <2>1, <2>2
<1>10. ASSUME NEW r \in Requests, CommitKidRemoval(r)
       PROVE  IInv'
  BY <1>t, <1>10, Commits DEF CommitKidRemoval
<1>11. ASSUME NEW r \in Requests, RefreshSite(r)
       PROVE  IInv'
  <2>1. loaded' \in [Requests -> Row]
    BY <1>t, <1>c, <1>11 DEF RefreshSite
  <2> QED
    BY <1>t, <1>11, <2>1, MovesOn DEF RefreshSite
<1>12. ASSUME NEW r \in Requests, RefreshKid(r) \/ Locate(r) \/ Answer(r) \/ Fail(r)
       PROVE  IInv'
  BY <1>t, <1>12, MovesOn DEF RefreshKid, Locate, Answer, Fail, Aborted
<1>13. CASE UNCHANGED vars
  BY <1>0, <1>13
     DEF IInv, vars, dbVars, reqVars, TypeOK, CallsSound, Stages, KeysApart,
         NoOrphanKid
<1> QED
  BY <1>1, <1>2, <1>3, <1>4, <1>5, <1>6, <1>7, <1>8, <1>9, <1>10, <1>11, <1>12,
     <1>13 DEF Next, Advance, Finished

\* The invariant holds throughout.
LEMMA Invariance == Spec => []IInv
BY InitInvariant, NextInvariant, PTL DEF Spec

\* Every variable of the handlers and the tables keeps its type, whatever
\* requests overlap and fail.
THEOREM TypeCorrect == Spec => []TypeOK
BY Invariance, PTL DEF IInv

\* No warning or nearby service is ever left without its site.
THEOREM KidsHaveSites == Spec => []NoOrphanKid
BY Invariance, PTL DEF IInv

-----------------------------------------------------------------------------
(* What an edit leaves alone *)

\* The columns that EditsTouchOnlyTheirColumns speaks of.
Columns == {"status", "published_at", "risk_level", "details", "geometry"}

\* In a flush only a column that was assigned a value other than the one read
\* reaches the row.
LEMMA FlushedKeeps ==
    ASSUME NEW now \in Row, NEW l \in Row, NEW w \in Row, NEW moved \in BOOLEAN,
           NEW f \in Columns,
           f = "geometry" => ~moved,
           f # "geometry" => w[f] = l[f]
    PROVE  Flushed(now, l, w, moved)[f] = now[f]
BY DEF Flushed, Row, Columns

\* Both edit handlers assign to a column they were not asked to change the
\* value they read.
LEMMA AssignedKeeps ==
    ASSUME TypeOK, NEW r \in Requests, call[r] \in Call, call[r].op \in EditOps,
           NEW f \in Columns \ Asked(call[r])
    PROVE  /\ f = "geometry" => ~Moves(call[r])
           /\ f # "geometry" => Assigned(r)[f] = loaded[r][f]
<1>1. loaded[r] \in Row
  BY DEF TypeOK
<1>2. CASE call[r].op = "set_location_status"
  BY <1>1, <1>2 DEF Asked, Assigned, StatusAssigned, Moves, Columns, Row
<1>3. CASE call[r].op = "update_location"
  <2> DEFINE c == call[r]
  <2>1. f = "geometry" => ~Moves(c)
    BY <1>3 DEF Asked
  <2>2. f \in {"status", "published_at", "risk_level"}
          => Assigned(r)[f] = loaded[r][f]
    BY <1>1, <1>3 DEF Asked, Assigned, UpdateAssigned, Given, Row
  <2>3. f = "details" => Assigned(r)[f] = loaded[r][f]
    <3> SUFFICES ASSUME f = "details"
                 PROVE  Assigned(r).details = loaded[r].details
      OBVIOUS
    <3>1. c.details = Unset /\ \A k \in Keys : c.fields[k] = Unset
      BY <1>3 DEF Asked
    <3>2. Assigned(r).details = [k \in Keys |-> loaded[r].details[k]]
      BY <1>3, <3>1 DEF Assigned, UpdateAssigned, Given
    <3>3. loaded[r].details \in [Keys -> Values \cup {NULL}]
      BY <1>1 DEF Row
    <3> QED
      BY <3>2, <3>3
  <2> QED
    BY <2>1, <2>2, <2>3 DEF Columns
<1> QED
  BY <1>2, <1>3 DEF EditOps

\* A single-row edit leaves every column it was not asked to change as it is in
\* the row now, however old the copy it works on.
THEOREM EditsAreNarrow == Spec => EditsTouchOnlyTheirColumns
<1> DEFINE Narrow ==
      \A r \in Requests :
        pc[r] = "commit" /\ call[r].op \in EditOps /\ applied'[r] /\ ~applied[r]
        => \A f \in {"status", "published_at", "risk_level", "details",
                     "geometry"} \ Asked(call[r]) :
               row'[call[r].site][f] = row[call[r].site][f]
<1>1. IInv /\ [Next]_vars => [Narrow]_vars
  <2> SUFFICES ASSUME IInv, [Next]_vars, NEW r \in Requests,
                      pc[r] = "commit", call[r].op \in EditOps,
                      applied'[r], ~applied[r],
                      NEW f \in Columns \ Asked(call[r])
               PROVE  row'[call[r].site][f] = row[call[r].site][f]
    BY DEF Columns
  <2>1. TypeOK /\ call[r] \in Call /\ call[r].site \in Sites
    BY DEF IInv, CallsSound, Sound, Call
  <2>2. CommitEdit(r)
    <3>1. PICK q \in Requests : \/ \E c \in Calls : Accept(q, c)
                               \/ Advance(q)
                               \/ Fail(q)
      BY DEF Next, Finished, vars, reqVars
    <3>2. Advance(q) /\ pc[q] = "commit" /\ q = r
      BY <2>1, <3>1 DEF Accept, Advance, Fail, Aborted, LoadSite, LoadKid,
         ReadGeometry, RefreshSite, RefreshKid, Locate, Answer, Applied,
         CommitEdit, CommitBulkStatus, CommitRemoval, CommitBulkRemoval,
         CommitCreate, CommitImport, CommitKid, CommitKidRemoval, TypeOK
    <3> QED
      BY <3>2 DEF Advance, LoadSite, LoadKid, ReadGeometry, RefreshSite,
         RefreshKid, Locate, Answer, EditOps, CommitBulkStatus, CommitRemoval,
         CommitBulkRemoval, CommitCreate, CommitImport, CommitKid,
         CommitKidRemoval
  <2>3. row' = [row EXCEPT ![call[r].site] =
                  Flushed(row[call[r].site], loaded[r], Assigned(r), Moves(call[r]))]
    BY <2>2 DEF CommitEdit, Aborted
  <2>4. Assigned(r) \in Row
    BY <2>1, AssignedType DEF IInv, CallsSound, TypeOK
  <2>5. Flushed(row[call[r].site], loaded[r], Assigned(r), Moves(call[r]))[f]
          = row[call[r].site][f]
    <3>1. /\ row[call[r].site] \in Row /\ loaded[r] \in Row
          /\ Moves(call[r]) \in BOOLEAN /\ f \in Columns
      BY <2>1 DEF TypeOK, Moves
    <3>2. /\ f = "geometry" => ~Moves(call[r])
          /\ f # "geometry" => Assigned(r)[f] = loaded[r][f]
      BY <2>1, AssignedKeeps
    <3> QED
      BY <2>4, <3>1, <3>2, FlushedKeeps
  <2>6. row'[call[r].site]
          = Flushed(row[call[r].site], loaded[r], Assigned(r), Moves(call[r]))
    BY <2>1, <2>3 DEF TypeOK
  <2> QED
    BY <2>5, <2>6
<1> QED
  BY <1>1, Invariance, PTL DEF Spec, EditsTouchOnlyTheirColumns

-----------------------------------------------------------------------------
(* The handlers implement the store *)

StatusOf(p, h, a) ==
    IF p = "idle" THEN "none"
    ELSE IF p = "done" THEN h
    ELSE IF a THEN "applied" ELSE "open"

\* A step of one request's handler changes the outcome of that request only.
LEMMA OutcomeOfAnswer ==
    ASSUME TypeOK, NEW r \in Requests, NEW h, Answered(r, h), UNCHANGED applied
    PROVE  outcome' = [outcome EXCEPT ![r] = h]
BY DEF TypeOK, outcome, Answered

\* A handler that goes on is applied or open, as its transaction is.
LEMMA OutcomeOfGoTo ==
    ASSUME TypeOK, NEW r \in Requests, NEW where, where \notin {"idle", "done"},
           GoTo(r, where), UNCHANGED applied
    PROVE  outcome' = [outcome EXCEPT ![r] = IF applied[r] THEN "applied" ELSE "open"]
BY DEF TypeOK, outcome, GoTo

\* A handler that commits is applied.
LEMMA OutcomeOfCommit ==
    ASSUME TypeOK, NEW r \in Requests, NEW where, where \notin {"idle", "done"},
           Applied(r, where)
    PROVE  outcome' = [outcome EXCEPT ![r] = "applied"]
BY DEF TypeOK, outcome, GoTo, Applied

\* The outcome of a request, by the place of its handler.
LEMMA OutcomeStart ==
    ASSUME NEW r \in Requests
    PROVE  outcome[r] = StatusOf(pc[r], reply[r], applied[r])
BY DEF outcome, StatusOf

\* A handler that goes on within its transaction, or after it, is not seen.
LEMMA GoesOnUnseen ==
    ASSUME IInv, NEW r \in Requests, NEW where, where \notin {"idle", "done"},
           GoTo(r, where),
           pc[r] \notin {"idle", "done"}, UNCHANGED <<dbVars, applied>>
    PROVE  UNCHANGED Store!vars
<1>1. TypeOK
  BY DEF IInv
<1>2. outcome' = [outcome EXCEPT ![r] = IF applied[r] THEN "applied" ELSE "open"]
  BY <1>1, OutcomeOfGoTo
<1>3. outcome[r] = IF applied[r] THEN "applied" ELSE "open"
  BY OutcomeStart DEF StatusOf
<1>4. outcome' = outcome
  BY <1>2, <1>3 DEF outcome
<1> QED
  BY <1>4 DEF Store!vars, Store!store, dbVars

\* Answers are steps of the store.
LEMMA AnswerIsSeen ==
    ASSUME IInv, NEW r \in Requests, UNCHANGED <<dbVars, applied>>, pc[r] # "done",
           \/ Answered(r, "error")
           \/ Answered(r, "refused") /\ ~applied[r]
           \/ Answered(r, "ok") /\ applied[r] /\ pc[r] # "idle"
    PROVE  Store!Next
<1>1. TypeOK
  BY DEF IInv
<1>2. outcome[r] \in {"none", "open", "applied"}
      /\ (~applied[r] => outcome[r] \in {"none", "open"})
      /\ (applied[r] /\ pc[r] # "idle" => outcome[r] = "applied")
  BY OutcomeStart DEF StatusOf
<1>3. ASSUME NEW h, Answered(r, h)
      PROVE  outcome' = [outcome EXCEPT ![r] = h]
  BY <1>1, <1>3, OutcomeOfAnswer
<1>4. CASE Answered(r, "error")
  <2>1. Store!Break(r)
    BY <1>2, <1>3, <1>4 DEF Store!Break, Store!Becomes, Store!store, dbVars
  <2> QED
    BY <2>1 DEF Store!Next
<1>5. CASE Answered(r, "refused") /\ ~applied[r]
  <2>1. Store!Refuse(r)
    BY <1>2, <1>3, <1>5 DEF Store!Refuse, Store!Becomes, Store!store, dbVars
  <2> QED
    BY <2>1 DEF Store!Next
<1>6. CASE Answered(r, "ok") /\ applied[r] /\ pc[r] # "idle"
  <2>1. Store!Succeed(r)
    BY <1>2, <1>3, <1>6 DEF Store!Succeed, Store!Becomes, Store!store, dbVars
  <2> QED
    BY <2>1 DEF Store!Next
<1> QED
  BY <1>4, <1>5, <1>6

\* A commit is the one effect of its request.
LEMMA CommitIsSeen ==
    ASSUME IInv, NEW r \in Requests, pc[r] = "commit",
           NEW where \in {"refresh", "answer"}, Applied(r, where),
           Store!Edit \/ Store!Insert \/ Store!Remove \/ Store!Attach(r) \/ Store!Detach
    PROVE  Store!Next
<1>1. TypeOK /\ ~applied[r]
  BY DEF IInv, Stages
<1>2. outcome[r] = "open"
  BY <1>1, OutcomeStart DEF StatusOf
<1>3. outcome' = [outcome EXCEPT ![r] = "applied"]
  BY <1>1, OutcomeOfCommit
<1>4. Store!TakeEffect(r)
  BY <1>2, <1>3 DEF Store!TakeEffect, Store!Becomes
<1> QED
  BY <1>4 DEF Store!Next

\* The initial states map to initial states of the store.
LEMMA StoreInit == Init => Store!Init
BY DEF Init, Store!Init, outcome

\* Every step of a handler maps to a step of the store or to none.
LEMMA StoreStep == IInv /\ [Next]_vars => [Store!Next]_(Store!vars)
<1> SUFFICES ASSUME IInv, [Next]_vars
             PROVE  [Store!Next]_(Store!vars)
  OBVIOUS
<1>0. TypeOK /\ CallsSound /\ Stages /\ KeysApart
  BY DEF IInv
<1>t. /\ loaded \in [Requests -> Row] /\ point \in [Requests -> Point]
      /\ row \in [Sites -> Row]
      /\ live \subseteq Sites /\ gone \subseteq Sites /\ kids \subseteq Kid
      /\ \A k \in kids : k.loc \in live
      /\ live \cap gone = {}
  BY DEF IInv, TypeOK, KeysApart, NoOrphanKid
<1>c. ASSUME NEW r \in Requests, pc[r] \notin {"idle", "done"}
      PROVE  /\ Sound(call[r]) /\ call[r] \in Call
             /\ call[r].site \in Sites /\ call[r].ids \subseteq Sites
  <2>1. Sound(call[r])
    BY <1>0, <1>c DEF CallsSound
  <2> QED
    BY <2>1 DEF Sound, Call
<1>1. ASSUME NEW r \in Requests, NEW c \in Calls, Accept(r, c)
      PROVE  Store!Next
  <2>1. pc[r] = "idle" /\ ~applied[r] /\ UNCHANGED <<dbVars, applied>>
    BY <1>0, <1>1 DEF Stages, Accept
  <2>2. CASE Answered(r, "refused") \/ Answered(r, "error")
    BY <2>1, <2>2, AnswerIsSeen
  <2>3. CASE \E where \in {"read", "commit"} : GoTo(r, where)
    <3>1. PICK where \in {"read", "commit"} : GoTo(r, where)
      BY <2>3
    <3>2. outcome' = [outcome EXCEPT ![r] = "open"]
      BY <1>0, <2>1, <3>1, OutcomeOfGoTo
    <3>3. Store!Open(r)
      BY <2>1, <3>2, OutcomeStart
         DEF Store!Open, Store!Becomes, Store!store, StatusOf, dbVars
    <3> QED
      BY <3>3 DEF Store!Next
  <2> QED
    BY <1>1, <2>2, <2>3 DEF Accept
<1>2. ASSUME NEW r \in Requests, LoadSite(r) \/ LoadKid(r)
      PROVE  [Store!Next]_(Store!vars)
  <2>1. pc[r] = "read" /\ ~applied[r] /\ UNCHANGED <<dbVars, applied>>
    BY <1>0, <1>2 DEF Stages, LoadSite, LoadKid
  <2>2. Answered(r, "refused") \/ \E where \in {"geometry", "commit"} : GoTo(r, where)
    BY <1>2 DEF LoadSite, LoadKid
  <2> QED
    BY <2>1, <2>2, AnswerIsSeen, GoesOnUnseen
<1>3. ASSUME NEW r \in Requests, ReadGeometry(r) \/ Locate(r)
      PROVE  UNCHANGED Store!vars
  BY <1>3, GoesOnUnseen DEF ReadGeometry, Locate
<1>4. ASSUME NEW r \in Requests, RefreshSite(r) \/ RefreshKid(r)
      PROVE  [Store!Next]_(Store!vars)
  <2>1. pc[r] = "refresh" /\ UNCHANGED <<dbVars, applied>>
    BY <1>4 DEF RefreshSite, RefreshKid
  <2>2. Answered(r, "error") \/ \E where \in {"locate", "answer"} : GoTo(r, where)
    BY <1>4 DEF RefreshSite, RefreshKid
  <2> QED
    BY <2>1, <2>2, AnswerIsSeen, GoesOnUnseen
<1>5. ASSUME NEW r \in Requests, Answer(r) \/ Fail(r)
      PROVE  Store!Next
  BY <1>0, <1>5, AnswerIsSeen DEF Answer, Fail, Aborted, Stages
<1>6. ASSUME NEW r \in Requests, CommitEdit(r)
      PROVE  Store!Next
  <2>1. CASE call[r].site \notin live
    BY <1>6, <2>1, AnswerIsSeen DEF CommitEdit, Aborted
  <2>2. CASE call[r].site \in live
    <3> DEFINE s == call[r].site
               new == Flushed(row[s], loaded[r], Assigned(r), Moves(call[r]))
    <3>1. Assigned(r) \in Row /\ Assigned(r).version = loaded[r].version + 1
      BY <1>t, <1>c, <1>6, AssignedType DEF CommitEdit
    <3>2. new \in Row /\ new.version = loaded[r].version + 1
      BY <1>t, <1>c, <1>6, <3>1, FlushedType DEF CommitEdit
    <3>3. new.version > 1
      BY <1>t, <3>2 DEF Row
    <3>4. row' = [row EXCEPT ![s] = new] /\ UNCHANGED <<live, gone, kids>>
      BY <1>6, <2>2 DEF CommitEdit
    <3>5. Store!Edit
      <4> HIDE DEF new
      <4>1. {s} \in SUBSET live /\ s \in Sites
        BY <1>t, <2>2
      <4>2. row' \in [Sites -> Row]
        BY <1>t, <3>2, <3>4
      <4>3. \A q \in {s} : row'[q].version > 1
        BY <1>t, <3>3, <3>4, <4>1
      <4>4. \A q \in Sites \ {s} : row'[q] = row[q]
        BY <1>t, <3>4
      <4> QED
        BY <3>4, <4>1, <4>2, <4>3, <4>4 DEF Store!Edit
    <3> QED
      BY <1>6, <2>2, <3>5, CommitIsSeen DEF CommitEdit
  <2> QED
    BY <2>1, <2>2
<1>7. ASSUME NEW r \in Requests, CommitBulkStatus(r)
      PROVE  Store!Next
  <2> DEFINE S == call[r].ids \cap live
  <2>1. \A s \in Sites : /\ BulkRow(row[s], call[r], r) \in Row
                         /\ BulkRow(row[s], call[r], r).version > 1
    <3>1. \A s \in Sites : row[s] \in Row /\ row[s].version + 1 > 1
      BY <1>t DEF Row
    <3>2. call[r] \in Call /\ call[r].status # Unset
      BY <1>c, <1>7 DEF CommitBulkStatus, Sound
    <3> QED
      BY <3>1, <3>2, BulkRowType
  <2>2. /\ row' \in [Sites -> Row] /\ S \in SUBSET live
        /\ \A s \in S : row'[s].version > 1
        /\ \A s \in Sites \ S : row'[s] = row[s]
        /\ UNCHANGED <<live, gone, kids>>
    BY <1>t, <1>7, <2>1 DEF CommitBulkStatus
  <2>3. Store!Edit
    BY <2>2 DEF Store!Edit
  <2> QED
    BY <1>7, <2>3, CommitIsSeen DEF CommitBulkStatus
<1>8. ASSUME NEW r \in Requests, CommitRemoval(r) \/ CommitBulkRemoval(r)
      PROVE  Store!Next
  <2>1. \E S \in SUBSET Sites : Removed(S)
    BY <1>c, <1>8 DEF CommitRemoval, CommitBulkRemoval
  <2>2. Store!Remove
    <3>1. PICK S \in SUBSET Sites : Removed(S)
      BY <2>1
    <3>2. \A k \in kids : k.loc \notin S <=> k.loc \in live'
      BY <1>t, <3>1 DEF Removed
    <3>3. S \cap live = live \ live'
      BY <3>1 DEF Removed
    <3> QED
      BY <3>1, <3>2, <3>3 DEF Removed, Store!Remove
  <2> QED
    BY <1>8, <2>2, CommitIsSeen DEF CommitRemoval, CommitBulkRemoval
<1>9. ASSUME NEW r \in Requests, CommitCreate(r) \/ CommitImport(r)
      PROVE  Store!Next
  <2>1. Inserted(call[r], r) \in Row /\ Inserted(call[r], r).version = 1
    BY <1>c, <1>9, InsertedType
       DEF CommitCreate, CommitImport, Sound, Inserting
  <2>2. CASE CommitImport(r) /\ call[r].stamp
    BY <1>9, <2>2, AnswerIsSeen DEF CommitImport, Aborted
  <2>3. CASE ~(CommitImport(r) /\ call[r].stamp)
    <3>1. PICK new \in SUBSET (Sites \ (live \cup gone)) : InsertedAs(new, r)
      BY <1>9, <2>3 DEF CommitCreate, CommitImport
    <3>2. Store!Insert
      BY <1>t, <2>1, <3>1 DEF InsertedAs, Store!Insert
    <3> QED
      BY <1>9, <2>3, <3>2, CommitIsSeen DEF CommitCreate, CommitImport
  <2> QED
    BY <2>2, <2>3
<1>10. ASSUME NEW r \in Requests, CommitKid(r)
       PROVE  Store!Next
  <2>1. CASE call[r].site \notin live
    BY <1>10, <2>1, AnswerIsSeen DEF CommitKid, Aborted
  <2>2. CASE call[r].site \in live
    <3>1. Store!Attach(r)
      BY <1>10, <2>2 DEF CommitKid, Store!Attach
    <3> QED
      BY <1>10, <2>2, <3>1, CommitIsSeen DEF CommitKid
  <2> QED
    BY <2>1, <2>2
<1>11. ASSUME NEW r \in Requests, CommitKidRemoval(r)
       PROVE  Store!Next
  <2>1. Store!Detach
    <3>1. CASE \E k \in kids : k.id = call[r].kid
      BY <1>11, <3>1 DEF CommitKidRemoval, Store!Detach
    <3>2. CASE \A k \in kids : k.id # call[r].kid
      BY <1>11, <3>2 DEF CommitKidRemoval, Store!Detach
    <3> QED
      BY <3>1, <3>2
  <2> QED
    BY <1>11, <2>1, CommitIsSeen DEF CommitKidRemoval
<1>12. CASE UNCHANGED vars
  BY <1>12 DEF vars, dbVars, reqVars, Store!vars, Store!store, outcome
<1> QED
  BY <1>1, <1>2, <1>3, <1>4, <1>5, <1>6, <1>7, <1>8, <1>9, <1>10, <1>11, <1>12
     DEF Next, Advance, Finished

\* Every behaviour of the handlers is one of the abstract store: at most one
\* atomic effect for each request, before its success and never with a refusal.
THEOREM HandlersImplementStore == Spec => ImplementsStore
BY StoreInit, StoreStep, Invariance, PTL DEF Spec, ImplementsStore, Store!Spec

\* A deleted site never comes back; it follows from what the store does.
THEOREM DeletionIsFinal == Spec => DeletedStayDeleted
<1>1. IInv /\ IInv' /\ [Next]_vars => [\A s \in gone : s \in gone' /\ s \notin live']_vars
  <2> SUFFICES ASSUME IInv, IInv', [Next]_vars
               PROVE  \A s \in gone : s \in gone' /\ s \notin live'
    OBVIOUS
  <2>1. [Store!Next]_(Store!vars)
    BY StoreStep
  <2>2. gone \subseteq gone'
    BY <2>1 DEF Store!Next, Store!Open, Store!Refuse, Store!Break, Store!Succeed,
                Store!TakeEffect, Store!Edit, Store!Insert, Store!Remove,
                Store!Attach, Store!Detach, Store!store, Store!vars
  <2>3. live' \cap gone' = {}
    BY DEF IInv, KeysApart
  <2> QED
    BY <2>2, <2>3
<1> QED
  BY <1>1, Invariance, PTL DEF Spec, DeletedStayDeleted

=============================================================================
