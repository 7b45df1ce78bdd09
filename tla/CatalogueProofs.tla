--------------------------- MODULE CatalogueProofs ---------------------------
(***************************************************************************)
(* Theorems about Catalogue for every table, set of requests, calls and    *)
(* rows.  The inductive invariant adds to the properties that a running    *)
(* request has a call of its kind (CallsSound) and that the key of a       *)
(* deleted row stays empty (GoneAreAbsent).                                *)
(***************************************************************************)
EXTENDS Catalogue, TLAPS

\* What the payload of a call carries that inserts a row.
Complete(c) ==
    /\ \A f \in NotNull : c.fields[f] \in Values
    /\ c.lat \in Lats /\ c.lon \in Lons

CallsSound ==
    \A r \in Requests :
        /\ pc[r] # "idle" => call[r] \in Call
        /\ pc[r] = "read" =>
             call[r].op \in {"update", "delete"} /\ call[r].id \in Ids
        /\ pc[r] = "commit" =>
             /\ call[r].op \in {"update", "delete"} => call[r].id \in Ids
             /\ call[r].op = "update" => loaded[r] \in Row
             /\ call[r].op \in {"create", "upsert"} => Complete(call[r])
             /\ call[r].op = "upsert" =>
                  \A f \in {"osm_type", "osm_id"} : call[r].fields[f] # NULL
        /\ pc[r] \in {"refresh", "locate"} => call[r].id \in Ids

GoneAreAbsent == \A i \in gone : row[i] = Absent

IInv == TypeOK /\ CallsSound /\ GoneAreAbsent /\ IdentitiesUnique

-----------------------------------------------------------------------------
(* The pure operators *)

\* Having the same identity can be read from either side.
LEMMA SameIdentitySymmetric ==
    ASSUME NEW v, NEW w, SameIdentity(v, w)
    PROVE  SameIdentity(w, v)
BY DEF SameIdentity

\* Two rows with the identity of a third have the same one.
LEMMA SameIdentityJoins ==
    ASSUME NEW u, NEW v, NEW w, SameIdentity(u, w), SameIdentity(v, w)
    PROVE  SameIdentity(u, v)
BY DEF SameIdentity

\* A complete payload makes a row.
LEMMA InsertedType ==
    ASSUME NEW c \in Call, Complete(c)
    PROVE  Inserted(c) \in Row
<1> DEFINE fs == [f \in Columns |-> Given(c.fields[f], NULL)]
<1>1. fs \in [Columns -> Values \cup {NULL}]
  BY DEF Call, Maybe, Given
<1>2. NotNull \subseteq Columns
  BY DEF NotNull, Columns
<1>3. ASSUME NEW f \in NotNull
      PROVE  fs[f] # NULL
  BY <1>2, <1>3, NamesAssumption DEF Complete, Given
<1>4. [x |-> c.lon, y |-> c.lat] \in Point
  BY DEF Complete, Point
<1> QED
  BY <1>1, <1>3, <1>4 DEF Inserted, Row

\* A payload's call that is given a key is a call still.
LEMMA KeyedCall ==
    ASSUME NEW r \in Requests, NEW i \in Ids, call[r] \in Call,
           call \in [Requests -> Call \cup {NoCall}]
    PROVE  LET new == [call EXCEPT ![r].id = i]
           IN  /\ new \in [Requests -> Call \cup {NoCall}]
               /\ new[r] \in Call /\ new[r].id = i
               /\ new[r].op = call[r].op /\ new[r].fields = call[r].fields
               /\ \A q \in Requests \ {r} : new[q] = call[q]
BY DEF Call

\* Writing a row whose identity no other row has keeps identities unique.
LEMMA PutKeepsUnique ==
    ASSUME row \in [Ids -> Row \cup {Absent}], IdentitiesUnique,
           NEW i \in Ids, NEW v \in Row,
           \A j \in live \ {i} : ~SameIdentity(row[j], v),
           row' = [row EXCEPT ![i] = v]
    PROVE  IdentitiesUnique'
<1> SUFFICES ASSUME NEW a \in live', NEW b \in live', a # b,
                    SameIdentity(row'[a], row'[b])
             PROVE  FALSE
  BY DEF IdentitiesUnique
<1>1. CASE a = i
  <2>1. b \in live \ {i} /\ row'[b] = row[b] /\ row'[a] = v
    BY <1>1 DEF live
  <2> QED
    BY <2>1, SameIdentitySymmetric
<1>2. CASE b = i
  <2>1. a \in live \ {i} /\ row'[a] = row[a] /\ row'[b] = v
    BY <1>2 DEF live
  <2> QED
    BY <2>1
<1>3. CASE a # i /\ b # i
  BY <1>3 DEF live, IdentitiesUnique
<1> QED
  BY <1>1, <1>2, <1>3

\* Removing a row does too.
LEMMA RemovalKeepsUnique ==
    ASSUME row \in [Ids -> Row \cup {Absent}], IdentitiesUnique,
           NEW i \in Ids, row' = [row EXCEPT ![i] = Absent]
    PROVE  IdentitiesUnique'
BY DEF IdentitiesUnique, live

-----------------------------------------------------------------------------
(* The invariant *)

\* Handlers and table start in it.
LEMMA InitInvariant == Init => IInv
<1> SUFFICES ASSUME Init PROVE IInv
  OBVIOUS
<1>1. TypeOK
  BY StartAssumption DEF Init, TypeOK
<1>2. CallsSound /\ GoneAreAbsent
  BY DEF Init, CallsSound, GoneAreAbsent
<1>3. ASSUME NEW i \in live
      PROVE  i \in DOMAIN StartRows /\ row[i] = StartRows[i]
  BY DEF Init, live
<1>4. IdentitiesUnique
  BY <1>3, StartAssumption DEF IdentitiesUnique
<1> QED
  BY <1>1, <1>2, <1>4 DEF IInv

\* What the table and its keys owe to a step that writes at most one row: a
\* row that the table admits, or the removal of one.
Tables == row \in [Ids -> Row \cup {Absent}] /\ gone \subseteq Ids
          /\ GoneAreAbsent /\ IdentitiesUnique

\* A row is put under a key that is in use or was never drawn.
LEMMA PutKeepsTables ==
    ASSUME Tables, NEW i \in Ids \ gone, NEW v \in Row,
           \A j \in live \ {i} : ~SameIdentity(row[j], v),
           row' = [row EXCEPT ![i] = v], UNCHANGED gone
    PROVE  Tables'
<1>1. IdentitiesUnique'
  BY PutKeepsUnique DEF Tables
<1> QED
  BY <1>1 DEF Tables, GoneAreAbsent

\* A step that leaves the table alone.
LEMMA QuietKeepsTables ==
    ASSUME Tables, UNCHANGED dbVars
    PROVE  Tables'
BY DEF Tables, dbVars, GoneAreAbsent, IdentitiesUnique, live

\* Every step of every handler keeps the table in order.
LEMMA StepKeepsTables ==
    ASSUME IInv, NEW r \in Requests, Step(r)
    PROVE  Tables'
<1> USE DEF IInv
<1>0. Tables
  BY DEF Tables, TypeOK
<1>1. CASE UNCHANGED dbVars
  BY <1>0, <1>1, QuietKeepsTables
<1>2. CASE CommitUpdate(r) /\ ~UNCHANGED dbVars
  <2> DEFINE i == call[r].id
             new == Flushed(row[i], loaded[r], call[r])
  <2>1. /\ i \in live /\ Admitted(i, new)
        /\ row' = [row EXCEPT ![i] = new] /\ UNCHANGED gone
    BY <1>2 DEF CommitUpdate, Aborted
  <2>2. i \in Ids \ gone
    BY <2>1 DEF live, GoneAreAbsent
  <2> QED
    BY <1>0, <2>1, <2>2, PutKeepsTables DEF Admitted
<1>3. CASE CommitDelete(r)
  <2>1. call[r].id \in Ids
    BY <1>3 DEF CommitDelete, CallsSound
  <2>2. IdentitiesUnique'
    BY <1>3, <2>1, RemovalKeepsUnique DEF CommitDelete, TypeOK
  <2> QED
    BY <1>3, <2>1, <2>2 DEF CommitDelete, Tables, TypeOK, GoneAreAbsent, live
<1>4. CASE CommitCreate(r) /\ ~UNCHANGED dbVars
  <2>1. PICK i \in Ids \ (live \cup gone) :
            Admitted(i, Inserted(call[r])) /\ InsertedAs(i, r)
    BY <1>4 DEF CommitCreate, Aborted
  <2> QED
    BY <1>0, <2>1, PutKeepsTables DEF Admitted, InsertedAs
<1>5. CASE CommitUpsert(r)
  <2> DEFINE new == Inserted(call[r])
             same == {i \in live : SameIdentity(row[i], new)}
  <2>1. new \in Row
    BY <1>5, InsertedType DEF CommitUpsert, CallsSound
  <2>2. CASE same = {}
    <3>1. PICK i \in Ids \ (live \cup gone) : InsertedAs(i, r)
      BY <1>5, <2>2 DEF CommitUpsert
    <3> QED
      BY <1>0, <2>1, <2>2, <3>1, PutKeepsTables DEF InsertedAs
  <2>3. CASE same # {}
    <3>1. PICK i \in same : row' = [row EXCEPT ![i] = new] /\ UNCHANGED gone
      BY <1>5, <2>3 DEF CommitUpsert
    <3>2. ASSUME NEW j \in live \ {i}, SameIdentity(row[j], new)
          PROVE  FALSE
      BY <3>1, <3>2, SameIdentityJoins DEF IdentitiesUnique
    <3>3. i \in Ids \ gone
      BY <3>1 DEF live, GoneAreAbsent
    <3> QED
      BY <1>0, <2>1, <3>1, <3>2, <3>3, PutKeepsTables
  <2> QED
    BY <2>2, <2>3
<1> QED
  BY <1>1, <1>2, <1>3, <1>4, <1>5
  DEF Step, Accept, Load, Refresh, Locate, Answer, Fail, Aborted

\* What the handlers' variables owe to a step, apart from the history.
Handlers ==
    /\ pc \in [Requests -> {"idle", "read", "commit", "refresh", "locate",
                           "answer", "done"}]
    /\ call \in [Requests -> Call \cup {NoCall}]
    /\ loaded \in [Requests -> Row \cup {Absent}]
    /\ point \in [Requests -> Point \cup {NULL}]
    /\ reply \in [Requests -> {"none", "ok", "refused", "error"}]
    /\ CallsSound

\* A request that ends leaves the others as they were.
LEMMA EndingKeepsHandlers ==
    ASSUME Handlers, NEW r \in Requests, pc[r] # "idle",
           NEW how \in {"ok", "refused", "error"}, Answered(r, how),
           UNCHANGED <<call, loaded, point>>
    PROVE  Handlers'
BY DEF Handlers, CallsSound, Answered

\* Every step of every handler keeps its variables in order.
LEMMA StepKeepsHandlers ==
    ASSUME IInv, NEW r \in Requests, Step(r)
    PROVE  Handlers'
<1>0. Handlers
  BY DEF IInv, TypeOK, Handlers
<1>t. row \in [Ids -> Row \cup {Absent}]
  BY DEF IInv, TypeOK
<1>1. ASSUME NEW c \in Calls, Accept(r, c)
      PROVE  Handlers'
  <2>1. /\ c \in Call
        /\ c.op \in {"update", "delete"} => c.id \in Ids
        /\ c.op \in {"create", "upsert"} => Complete(c)
        /\ c.op = "upsert" => \A f \in {"osm_type", "osm_id"} : c.fields[f] # NULL
    BY CallsAssumption, NamesAssumption DEF Call, Complete
  <2>2. call' = [call EXCEPT ![r] = c] /\ UNCHANGED <<loaded, point>>
    BY <1>1 DEF Accept
  <2>3. CASE Answered(r, "error")
    BY <1>0, <2>1, <2>2, <2>3 DEF Handlers, CallsSound, Answered, Complete
  <2>4. CASE GoTo(r, IF c.op \in {"update", "delete"} THEN "read" ELSE "commit")
    BY <1>0, <2>1, <2>2, <2>4 DEF Handlers, CallsSound, GoTo, Complete
  <2> QED
    BY <1>1, <2>3, <2>4 DEF Accept
<1>2. CASE Load(r)
  <2> DEFINE v == row[call[r].id]
  <2>1. call[r].id \in Ids /\ call[r] \in Call
    BY <1>0, <1>2 DEF Load, Handlers, CallsSound
  <2>2. CASE v = Absent
    BY <1>0, <1>2, <2>2, EndingKeepsHandlers DEF Load
  <2>3. CASE v # Absent
    <3>1. /\ v \in Row /\ v.geometry \in Point
          /\ loaded' = [loaded EXCEPT ![r] = v]
          /\ point' = [point EXCEPT ![r] = v.geometry]
          /\ Answered(r, "error") \/ GoTo(r, "commit")
          /\ UNCHANGED call
      BY <1>t, <1>2, <2>1, <2>3 DEF Load, Row
    <3>2. call[r].op \in {"update", "delete"}
      BY <1>0, <1>2 DEF Load, Handlers, CallsSound
    <3> QED
      BY <1>0, <2>1, <3>1, <3>2 DEF Handlers, CallsSound, Answered, GoTo
  <2> QED
    BY <2>2, <2>3
<1>3. CASE CommitUpdate(r)
  <2> DEFINE new == Flushed(row[call[r].id], loaded[r], call[r])
  <2>1. call[r].id \in Ids
    BY <1>0, <1>3 DEF CommitUpdate, Handlers, CallsSound
  <2>2. CASE Aborted(r)
    BY <1>0, <1>3, <2>2, EndingKeepsHandlers DEF CommitUpdate, Aborted
  <2>3. CASE ~Aborted(r)
    <3>1. /\ GoTo(r, "refresh") /\ UNCHANGED <<call, loaded>>
          /\ point' = point \/ (new \in Row /\ point' = [point EXCEPT ![r] = new.geometry])
      BY <1>3, <2>3 DEF CommitUpdate, Admitted
    <3>2. new \in Row => new.geometry \in Point
      BY DEF Row
    <3> HIDE DEF new
    <3>3. point' \in [Requests -> Point \cup {NULL}]
      BY <1>0, <3>1, <3>2 DEF Handlers
    <3>4. pc[r] = "commit" /\ GoTo(r, "refresh") /\ UNCHANGED <<call, loaded>>
      BY <1>3, <3>1 DEF CommitUpdate
    <3>5. CallsSound'
      BY <1>0, <2>1, <3>4 DEF Handlers, CallsSound, GoTo
    <3> QED
      BY <1>0, <3>3, <3>4, <3>5 DEF Handlers, GoTo
  <2> QED
    BY <2>2, <2>3
<1>4. CASE CommitDelete(r)
  BY <1>0, <1>4 DEF CommitDelete, Handlers, CallsSound, GoTo
<1>5. CASE CommitCreate(r) /\ ~Aborted(r)
  <2>1. PICK i \in Ids : /\ InsertedAs(i, r) /\ GoTo(r, "refresh")
                         /\ Inserted(call[r]) \in Row
    BY <1>5 DEF CommitCreate, Admitted
  <2>2. /\ call' \in [Requests -> Call \cup {NoCall}]
        /\ call'[r] \in Call /\ call'[r].id = i
        /\ \A q \in Requests \ {r} : call'[q] = call[q]
    BY <1>0, <1>5, <2>1, KeyedCall DEF InsertedAs, Handlers, CallsSound, CommitCreate
  <2>3. point' \in [Requests -> Point \cup {NULL}]
    BY <1>0, <2>1 DEF Handlers, InsertedAs, Row
  <2> QED
    BY <1>0, <2>1, <2>2, <2>3 DEF Handlers, CallsSound, InsertedAs, GoTo
<1>6. CASE CommitUpsert(r)
  <2>1. /\ call[r] \in Call /\ Inserted(call[r]) \in Row
    BY <1>0, <1>6, InsertedType DEF CommitUpsert, Handlers, CallsSound
  <2>2. PICK i \in Ids : /\ call' = [call EXCEPT ![r].id = i]
                         /\ GoTo(r, "answer") /\ UNCHANGED loaded
                         /\ point' = point \/
                              point' = [point EXCEPT ![r] = Inserted(call[r]).geometry]
    BY <1>6 DEF CommitUpsert, InsertedAs, live
  <2>3. /\ call' \in [Requests -> Call \cup {NoCall}]
        /\ call'[r] \in Call
        /\ \A q \in Requests \ {r} : call'[q] = call[q]
    BY <1>0, <2>1, <2>2, KeyedCall DEF Handlers
  <2>4. point' \in [Requests -> Point \cup {NULL}]
    BY <1>0, <2>1, <2>2 DEF Handlers, Row
  <2> QED
    BY <1>0, <2>2, <2>3, <2>4 DEF Handlers, CallsSound, GoTo
<1>7. CASE Refresh(r)
  <2>1. call[r].id \in Ids
    BY <1>0, <1>7 DEF Refresh, Handlers, CallsSound
  <2>2. CASE row[call[r].id] = Absent
    BY <1>0, <1>7, <2>2, EndingKeepsHandlers DEF Refresh
  <2>3. CASE row[call[r].id] # Absent
    BY <1>0, <1>t, <1>7, <2>1, <2>3 DEF Refresh, Handlers, CallsSound, GoTo
  <2> QED
    BY <2>2, <2>3
<1>8. CASE Locate(r)
  <2>1. call[r].id \in Ids
    BY <1>0, <1>8 DEF Locate, Handlers, CallsSound
  <2>2. point' \in [Requests -> Point \cup {NULL}]
    BY <1>0, <1>t, <1>8, <2>1 DEF Locate, Handlers, Row
  <2> QED
    BY <1>0, <1>8, <2>2 DEF Locate, Handlers, CallsSound, GoTo
<1>9. CASE Answer(r)
  BY <1>0, <1>9, EndingKeepsHandlers DEF Answer
<1>10. CASE Aborted(r) /\ pc[r] # "idle"
  BY <1>0, <1>10, EndingKeepsHandlers DEF Aborted
<1> QED
  BY <1>1, <1>2, <1>3, <1>4, <1>5, <1>6, <1>7, <1>8, <1>9, <1>10
  DEF Step, CommitCreate, Fail

\* Every step keeps the invariant.
LEMMA NextKeepsInvariant ==
    ASSUME IInv, [Next]_vars
    PROVE  IInv'
<1>1. CASE UNCHANGED vars
  BY <1>1 DEF vars, dbVars, IInv, TypeOK, CallsSound, GoneAreAbsent,
              IdentitiesUnique, live
<1>2. ASSUME NEW r \in Requests, Step(r), Remember
      PROVE  IInv'
  <2>1. Tables' /\ Handlers'
    BY <1>2, StepKeepsTables, StepKeepsHandlers
  <2>2. ASSUME NEW q \in Requests, ~(pc[q] = "done" \/ pc'[q] = "idle"),
               call'[q].id # NULL
        PROVE  row'[call'[q].id] \in Row \cup {Absent}
    BY <2>1, <2>2 DEF Tables, Handlers, CallsSound, Call
  <2>3. past' \in [Requests -> SUBSET (Row \cup {Absent})]
    BY <1>2, <2>2 DEF Remember, IInv, TypeOK
  <2> QED
    BY <2>1, <2>3 DEF IInv, TypeOK, Tables, Handlers
<1> QED
  BY <1>1, <1>2 DEF Next, Finished

\* IInv holds in every reachable state.
LEMMA Invariance == Spec => []IInv
BY InitInvariant, NextKeepsInvariant, PTL DEF Spec

-----------------------------------------------------------------------------
(* What a request knows of the history of its row *)

\* The table holds, while a request runs, a row that its history has; what an
\* update read is in the history, and what a deletion read is live or was deleted
\* by somebody else; after the commit the effect is in the history, after the
\* refresh the columns of the reply are, and before the answer its geometry.
Committed(q) == pc[q] \in {"refresh", "locate", "answer"} \/ reply[q] = "ok"
Refreshed(q) == pc[q] \in {"locate", "answer"} \/ reply[q] = "ok"
Located(q) == pc[q] = "answer" \/ reply[q] = "ok"
Shows(q) == call[q].op \in {"create", "update"}

Witnessed(q) ==
    /\ pc[q] \notin {"idle", "done"} /\ call[q].id # NULL =>
         row[call[q].id] \in past[q]
    /\ pc[q] = "commit" /\ call[q].op = "update" =>
         loaded[q] \in past[q] /\ point[q] = loaded[q].geometry
    /\ pc[q] = "commit" /\ call[q].op = "delete" => call[q].id \in live \cup gone
    /\ pc[q] \in {"refresh", "locate", "answer"} => call[q].id \in Ids
    /\ pc[q] \in {"refresh", "locate"} => Shows(q) /\ GeometryWasTrue(q)
    /\ Committed(q) => TookEffect(q)
    /\ Refreshed(q) /\ Shows(q) => ColumnsWereTrue(q)
    /\ Located(q) /\ Shows(q) => GeometryWasTrue(q)
    /\ reply[q] # "none" => pc[q] = "done"

HInv == IInv /\ \A q \in Requests : Witnessed(q)

\* The history of a running request grows by what its row is now.
LEMMA PastGrows ==
    ASSUME IInv, Remember, NEW q \in Requests
    PROVE  /\ pc[q] = "done" => past'[q] = past[q]
           /\ pc[q] # "done" /\ pc'[q] # "idle" /\ call'[q].id # NULL =>
                past'[q] = past[q] \cup {row'[call'[q].id]}
BY DEF Remember

\* What took effect and was true stays so in a history that only grows.
LEMMA EffectStays ==
    ASSUME NEW q \in Requests, past[q] \subseteq past'[q], gone \subseteq gone',
           call'[q] = call[q]
    PROVE  /\ TookEffect(q) => TookEffect(q)'
           /\ loaded'[q] = loaded[q] /\ ColumnsWereTrue(q) => ColumnsWereTrue(q)'
           /\ point'[q] = point[q] /\ GeometryWasTrue(q) => GeometryWasTrue(q)'
<1>1. rowsSeen(q) \subseteq rowsSeen(q)'
  BY DEF rowsSeen
<1>2. TookEffect(q) => TookEffect(q)'
  BY <1>1 DEF TookEffect
<1>3. loaded'[q] = loaded[q] /\ ColumnsWereTrue(q) => ColumnsWereTrue(q)'
  BY <1>1 DEF ColumnsWereTrue
<1>4. point'[q] = point[q] /\ GeometryWasTrue(q) => GeometryWasTrue(q)'
  BY <1>1 DEF GeometryWasTrue
<1> QED
  BY <1>2, <1>3, <1>4

\* Rows disappear only into gone, and nothing leaves it.
LEMMA NothingVanishes ==
    ASSUME IInv, NEW r \in Requests, Step(r)
    PROVE  gone \subseteq gone' /\ live \cup gone \subseteq live' \cup gone'
<1>t. row \in [Ids -> Row \cup {Absent}] /\ live \subseteq Ids /\ Absent \notin Row
  BY NamesAssumption DEF IInv, TypeOK, live
<1>1. CASE UNCHANGED dbVars
  BY <1>1 DEF dbVars, live
<1>2. CASE \E i \in Ids, v \in Row : row' = [row EXCEPT ![i] = v] /\ UNCHANGED gone
  BY <1>t, <1>2 DEF live
<1>3. CASE CommitDelete(r)
  BY <1>t, <1>3 DEF CommitDelete, live
<1>4. CASE CommitUpdate(r)
  BY <1>1, <1>2, <1>4 DEF CommitUpdate, Aborted, Admitted, live, dbVars
<1>5. CASE CommitCreate(r)
  <2>1. Aborted(r) \/ \E i \in Ids : InsertedAs(i, r) /\ Inserted(call[r]) \in Row
    BY <1>5 DEF CommitCreate, Admitted
  <2> QED
    BY <1>1, <1>2, <2>1 DEF Aborted, InsertedAs
<1>6. CASE CommitUpsert(r)
  <2>1. Inserted(call[r]) \in Row
    BY <1>6, InsertedType DEF CommitUpsert, IInv, CallsSound
  <2>2. \E i \in Ids : row' = [row EXCEPT ![i] = Inserted(call[r])] /\ UNCHANGED gone
    BY <1>6 DEF CommitUpsert, InsertedAs, live
  <2> QED
    BY <1>2, <2>1, <2>2
<1> QED
  BY <1>1, <1>3, <1>4, <1>5, <1>6
  DEF Step, Accept, Load, Refresh, Locate, Answer, Fail, Aborted

\* A step of one request is no step of another.
LEMMA StepIsOwn ==
    ASSUME IInv, NEW r \in Requests, Step(r), NEW q \in Requests \ {r}
    PROVE  /\ pc'[q] = pc[q] /\ call'[q] = call[q] /\ loaded'[q] = loaded[q]
           /\ point'[q] = point[q] /\ reply'[q] = reply[q]
<1>1. /\ pc \in [Requests -> {"idle", "read", "commit", "refresh", "locate",
                              "answer", "done"}]
      /\ call \in [Requests -> Call \cup {NoCall}]
      /\ loaded \in [Requests -> Row \cup {Absent}]
      /\ point \in [Requests -> Point \cup {NULL}]
      /\ reply \in [Requests -> {"none", "ok", "refused", "error"}]
  BY DEF IInv, TypeOK
<1>2. CASE \/ \E c \in Calls : Accept(r, c)
           \/ Load(r) \/ Refresh(r) \/ Locate(r) \/ Answer(r) \/ Fail(r)
  BY <1>1, <1>2 DEF Accept, Load, Refresh, Locate, Answer, Fail, Aborted, Answered, GoTo
<1>3. CASE CommitUpdate(r) \/ CommitDelete(r)
  BY <1>1, <1>3 DEF CommitUpdate, CommitDelete, Aborted, Answered, GoTo
<1>4. CASE CommitCreate(r) \/ CommitUpsert(r)
  BY <1>1, <1>4 DEF CommitCreate, CommitUpsert, InsertedAs, Aborted, Answered, GoTo
<1> QED
  BY <1>2, <1>3, <1>4 DEF Step

\* So the others know what they knew.
LEMMA OthersStayWitnessed ==
    ASSUME HInv, IInv', NEW r \in Requests, Step(r), Remember, NEW q \in Requests \ {r}
    PROVE  Witnessed(q)'
<1>1. /\ pc'[q] = pc[q] /\ call'[q] = call[q] /\ loaded'[q] = loaded[q]
      /\ point'[q] = point[q] /\ reply'[q] = reply[q]
  BY StepIsOwn DEF HInv
<1>2. gone \subseteq gone' /\ live \cup gone \subseteq live' \cup gone'
  BY NothingVanishes DEF HInv
<1>3. Witnessed(q)
  BY DEF HInv
<1>4. CASE past[q] \subseteq past'[q]
           /\ (pc[q] \notin {"idle", "done"} /\ call[q].id # NULL =>
                 row'[call[q].id] \in past'[q])
  BY <1>1, <1>2, <1>3, <1>4, EffectStays
  DEF Witnessed, Committed, Refreshed, Located, Shows
<1>5. CASE pc[q] = "done"
  BY <1>4, <1>5, PastGrows DEF HInv
<1>6. CASE pc[q] # "done" /\ pc[q] # "idle" /\ call[q].id # NULL
  BY <1>1, <1>4, <1>6, PastGrows DEF HInv
<1>7. CASE pc[q] = "idle"
  <2>1. reply[q] = "none"
    BY <1>3, <1>7 DEF Witnessed
  <2> QED
    BY <1>1, <1>7, <2>1 DEF Witnessed, Committed, Refreshed, Located
<1>8. CASE pc[q] \in {"read", "commit"} /\ call[q].id = NULL
  <2>1. reply[q] = "none" /\ call[q].op \notin {"update", "delete"}
    BY <1>3, <1>8, NamesAssumption DEF Witnessed, HInv, IInv, CallsSound
  <2> QED
    BY <1>1, <1>8, <2>1 DEF Witnessed, Committed, Refreshed, Located
<1>9. pc[q] \in {"idle", "read", "commit", "refresh", "locate", "answer", "done"}
  BY DEF HInv, IInv, TypeOK
<1>10. pc[q] \in {"refresh", "locate", "answer"} => call[q].id # NULL
  BY <1>3, NamesAssumption DEF Witnessed
<1> QED
  BY <1>5, <1>6, <1>7, <1>8, <1>9, <1>10

\* An accepted request knows nothing yet; the history starts with its row.
LEMMA AcceptWitnessed ==
    ASSUME HInv, IInv', NEW r \in Requests, NEW c \in Calls, Accept(r, c), Remember
    PROVE  Witnessed(r)'
<1>1. /\ pc[r] = "idle" /\ call'[r] = c /\ reply[r] = "none"
      /\ \/ pc'[r] = "done" /\ reply'[r] = "error"
         \/ pc'[r] = "read" /\ reply'[r] = "none"
         \/ /\ pc'[r] = "commit" /\ reply'[r] = "none"
            /\ c.op \notin {"update", "delete"}
  BY DEF Accept, Answered, GoTo, HInv, IInv, TypeOK, Witnessed
<1>2. pc'[r] # "done" /\ c.id # NULL => row'[c.id] \in past'[r]
  BY <1>1, PastGrows DEF HInv
<1> QED
  BY <1>1, <1>2 DEF Witnessed, Committed, Refreshed, Located

\* A request that ends without success claims nothing.
LEMMA FailureWitnessed ==
    ASSUME HInv, NEW r \in Requests, NEW how \in {"refused", "error"}, Answered(r, how)
    PROVE  Witnessed(r)'
<1>1. pc'[r] = "done" /\ reply'[r] = how
  BY DEF Answered, HInv, IInv, TypeOK
<1> QED
  BY <1>1 DEF Witnessed, Committed, Refreshed, Located

\* What is read is in the history, with its geometry.
LEMMA LoadWitnessed ==
    ASSUME HInv, IInv', NEW r \in Requests, Load(r), Remember
    PROVE  Witnessed(r)'
<1> DEFINE v == row[call[r].id]
<1>1. call[r].id \in Ids /\ pc[r] = "read" /\ call' = call /\ row' = row /\ gone' = gone
  BY DEF HInv, IInv, CallsSound, Load, dbVars
<1>2. CASE \E how \in {"refused", "error"} : Answered(r, how)
  BY <1>2, FailureWitnessed
<1>3. CASE ~\E how \in {"refused", "error"} : Answered(r, how)
  <2>1. /\ v # Absent /\ loaded'[r] = v /\ point'[r] = v.geometry
        /\ pc'[r] = "commit" /\ reply'[r] = reply[r]
    BY <1>3 DEF Load, GoTo, HInv, IInv, TypeOK
  <2>2. v \in past'[r]
    BY <1>1, <2>1, PastGrows, NamesAssumption DEF HInv
  <2>3. reply[r] = "none"
    BY <1>1 DEF HInv, Witnessed
  <2>4. call[r].id \in live'
    BY <1>1, <2>1 DEF live
  <2> QED
    BY <1>1, <2>1, <2>2, <2>3, <2>4 DEF Witnessed, Committed, Refreshed, Located
<1> QED
  BY <1>2, <1>3

\* Moving to the coordinates asked for a second time changes nothing.
LEMMA MovedTwice ==
    ASSUME NEW c, NEW p
    PROVE  Moved(c, Moved(c, p)) = Moved(c, p)
BY DEF Moved, Given

\* An update has its effect: a column that is left out of the flush had the value
\* asked for when it was read, the others have it now.
LEMMA UpdateWitnessed ==
    ASSUME HInv, IInv', NEW r \in Requests, CommitUpdate(r), Remember
    PROVE  Witnessed(r)'
<1> DEFINE c == call[r]
           new == Flushed(row[c.id], loaded[r], c)
<1>1. /\ pc[r] = "commit" /\ c.op = "update" /\ c.id \in Ids /\ loaded[r] \in Row
      /\ loaded[r] \in past[r] /\ point[r] = loaded[r].geometry /\ reply[r] = "none"
  BY DEF CommitUpdate, HInv, IInv, CallsSound, Witnessed
<1>2. CASE Aborted(r)
  BY <1>2, FailureWitnessed DEF Aborted
<1>3. CASE ~Aborted(r)
  <2>1. /\ pc'[r] = "refresh" /\ reply'[r] = "none" /\ call' = call /\ loaded' = loaded
    BY <1>1, <1>3 DEF CommitUpdate, GoTo, HInv, IInv, TypeOK
  <2>2. past'[r] = past[r] \cup {row'[c.id]}
    BY <1>1, <2>1, PastGrows, NamesAssumption DEF HInv
  <2>3. loaded[r] \in rowsSeen(r)'
    BY <1>1, <2>2, NamesAssumption DEF rowsSeen
  <2>4. CASE ~Changes(loaded[r], c)
    <3>1. point' = point
      BY <1>1, <1>3, <2>4 DEF CommitUpdate
    <3>2. \A f \in Assigned(c) : loaded[r].fields[f] = c.fields[f]
      BY <2>4 DEF Changes
    <3>3. TookEffect(r)'
      BY <1>1, <2>1, <2>3, <2>4, <3>2 DEF TookEffect, Changes
    <3>4. point[r] # NULL
      BY <1>1, NamesAssumption DEF Row
    <3>5. GeometryWasTrue(r)'
      BY <1>1, <2>3, <3>1, <3>4 DEF GeometryWasTrue
    <3> QED
      BY <1>1, <2>1, <2>2, <3>3, <3>5
      DEF Witnessed, Committed, Refreshed, Located, Shows
  <2>5. CASE Changes(loaded[r], c)
    <3>1. /\ c.id \in live /\ new \in Row
          /\ row' = [row EXCEPT ![c.id] = new]
          /\ point' = IF Moves(c) THEN [point EXCEPT ![r] = new.geometry] ELSE point
      BY <1>3, <2>5 DEF CommitUpdate, Admitted
    <3>2. row'[c.id] = new
      BY <1>1, <3>1 DEF HInv, IInv, TypeOK
    <3>3. new \in rowsSeen(r)'
      BY <2>2, <3>1, <3>2, NamesAssumption DEF rowsSeen
    <3>4. ASSUME NEW f \in Assigned(c)
          PROVE  new.fields[f] = c.fields[f] \/ loaded[r].fields[f] = c.fields[f]
      BY DEF Flushed, Assigned
    <3>5. Moves(c) => new.geometry = Moved(c, loaded[r].geometry)
      BY DEF Flushed
    <3>6. Moves(c) => new.geometry = Moved(c, new.geometry)
      BY <3>5, MovedTwice
    <3> HIDE DEF new
    <3>7. TookEffect(r)'
      BY <1>1, <2>1, <2>3, <3>3, <3>4, <3>6 DEF TookEffect
    <3>8. /\ point'[r] \in {new.geometry, loaded[r].geometry}
          /\ new.geometry # NULL /\ loaded[r].geometry # NULL
      BY <1>1, <3>1, NamesAssumption DEF HInv, IInv, TypeOK, Row
    <3>9. GeometryWasTrue(r)'
      BY <2>3, <3>3, <3>8 DEF GeometryWasTrue
    <3> QED
      BY <1>1, <2>1, <2>2, <3>7, <3>9
      DEF Witnessed, Committed, Refreshed, Located, Shows
  <2> QED
    BY <2>4, <2>5
<1> QED
  BY <1>2, <1>3

\* A deletion finds its row, or somebody else deleted it since it was read.
LEMMA DeleteWitnessed ==
    ASSUME HInv, IInv', NEW r \in Requests, CommitDelete(r), Remember
    PROVE  Witnessed(r)'
<1>1. /\ pc[r] = "commit" /\ call[r].op = "delete" /\ call[r].id \in Ids
      /\ call[r].id \in live \cup gone /\ reply[r] = "none"
  BY DEF CommitDelete, HInv, IInv, CallsSound, Witnessed
<1>2. pc'[r] = "answer" /\ reply'[r] = "none" /\ call' = call
  BY <1>1 DEF CommitDelete, GoTo, HInv, IInv, TypeOK
<1>3. call[r].id \in gone'
  BY <1>1 DEF CommitDelete
<1>4. row'[call[r].id] \in past'[r]
  BY <1>1, <1>2, PastGrows, NamesAssumption DEF HInv
<1> QED
  BY <1>1, <1>2, <1>3, <1>4
  DEF Witnessed, Committed, Refreshed, Located, Shows, TookEffect

\* A row that is inserted, or loaded over another, is in the history.
LEMMA InsertionWitnessed ==
    ASSUME HInv, IInv', NEW r \in Requests, CommitCreate(r) \/ CommitUpsert(r), Remember
    PROVE  Witnessed(r)'
<1> DEFINE c == call[r]
           new == Inserted(c)
<1>1. /\ pc[r] = "commit" /\ c.op \in {"create", "upsert"} /\ reply[r] = "none"
      /\ c \in Call /\ new \in Row
      /\ call \in [Requests -> Call \cup {NoCall}]
  BY InsertedType DEF CommitCreate, CommitUpsert, HInv, IInv, TypeOK, CallsSound, Witnessed
<1>2. CASE Aborted(r)
  BY <1>2, FailureWitnessed DEF Aborted
<1>3. CASE ~Aborted(r)
  <2>1. PICK i \in Ids :
            /\ row' = [row EXCEPT ![i] = new] /\ call' = [call EXCEPT ![r].id = i]
            /\ \/ c.op = "create" /\ GoTo(r, "refresh")
                  /\ point' = [point EXCEPT ![r] = new.geometry]
               \/ c.op = "upsert" /\ GoTo(r, "answer")
    BY <1>3 DEF CommitCreate, CommitUpsert, InsertedAs, live
  <2>2. /\ call'[r].id = i /\ call'[r].op = c.op /\ call'[r].fields = c.fields
        /\ call'[r].lat = c.lat /\ call'[r].lon = c.lon
    BY <1>1, <2>1 DEF Call
  <2>3. Inserted(call'[r]) = new
    BY <2>2 DEF Inserted
  <2>4. row'[i] = new
    BY <2>1 DEF HInv, IInv, TypeOK
  <2>5. /\ \/ c.op = "create" /\ pc'[r] = "refresh" /\ point'[r] = new.geometry
           \/ c.op = "upsert" /\ pc'[r] = "answer"
        /\ reply'[r] = "none"
    BY <1>1, <2>1 DEF GoTo, HInv, IInv, TypeOK
  <2>6. new \in past'[r]
    BY <1>1, <2>2, <2>4, <2>5, PastGrows, NamesAssumption DEF HInv
  <2> HIDE DEF new
  <2>7. new \in rowsSeen(r)' /\ new.geometry # NULL
    BY <1>1, <2>6, NamesAssumption DEF rowsSeen, Row
  <2>8. TookEffect(r)'
    BY <1>1, <2>2, <2>3, <2>7 DEF TookEffect
  <2>9. c.op = "create" => GeometryWasTrue(r)'
    BY <2>5, <2>7 DEF GeometryWasTrue
  <2> QED
    BY <1>1, <2>2, <2>4, <2>5, <2>6, <2>8, <2>9
    DEF Witnessed, Committed, Refreshed, Located, Shows
<1> QED
  BY <1>2, <1>3

\* The reads for the reply, and the answer.
LEMMA ReplyWitnessed ==
    ASSUME HInv, IInv', NEW r \in Requests, Refresh(r) \/ Locate(r) \/ Answer(r),
           Remember
    PROVE  Witnessed(r)'
<1> DEFINE v == row[call[r].id]
<1>1. /\ pc[r] \in {"refresh", "locate", "answer"} /\ call[r].id \in Ids
      /\ reply[r] = "none" /\ TookEffect(r)
      /\ row' = row /\ gone' = gone /\ call' = call
  BY DEF Refresh, Locate, Answer, HInv, Witnessed, Committed, dbVars
<1>2. past'[r] = past[r] \cup {v}
  <2>1. pc'[r] # "idle"
    BY DEF Refresh, Locate, Answer, Answered, GoTo, HInv, IInv, TypeOK
  <2> QED
    BY <1>1, <2>1, PastGrows, NamesAssumption DEF HInv
<1>3. TookEffect(r)'
  BY <1>1, <1>2, EffectStays
<1>4. v \in Row \cup {Absent}
  BY <1>1 DEF HInv, IInv, TypeOK
<1>5. CASE Refresh(r)
  <2>1. CASE Answered(r, "error")
    BY <2>1, FailureWitnessed
  <2>2. CASE ~Answered(r, "error")
    <3>1. /\ v # Absent /\ loaded'[r] = v /\ point' = point /\ reply'[r] = "none"
          /\ pc'[r] \in {"answer", "locate"} /\ pc[r] = "refresh"
      BY <1>1, <1>5, <2>2 DEF Refresh, GoTo, HInv, IInv, TypeOK
    <3>2. ColumnsWereTrue(r)'
      BY <1>2, <3>1 DEF ColumnsWereTrue, rowsSeen
    <3>3. GeometryWasTrue(r)' /\ Shows(r)
      BY <1>1, <1>2, <3>1, EffectStays DEF HInv, Witnessed
    <3> QED
      BY <1>1, <1>2, <1>3, <3>1, <3>2, <3>3
      DEF Witnessed, Committed, Refreshed, Located, Shows
  <2> QED
    BY <2>1, <2>2
<1>6. CASE Locate(r)
  <2>1. /\ pc[r] = "locate" /\ pc'[r] = "answer" /\ loaded' = loaded
        /\ reply'[r] = "none" /\ point'[r] = IF v = Absent THEN NULL ELSE v.geometry
    BY <1>1, <1>6 DEF Locate, GoTo, HInv, IInv, TypeOK
  <2>2. ColumnsWereTrue(r)' /\ Shows(r)
    BY <1>1, <1>2, <2>1, EffectStays DEF HInv, Witnessed, Refreshed
  <2>3. GeometryWasTrue(r)'
    <3>1. CASE v = Absent
      BY <1>2, <2>1, <3>1 DEF GeometryWasTrue
    <3>2. CASE v # Absent
      <4>1. v.geometry # NULL /\ v \in rowsSeen(r)'
        BY <1>2, <1>4, <3>2, NamesAssumption DEF Row, rowsSeen
      <4> QED
        BY <2>1, <3>2, <4>1 DEF GeometryWasTrue
    <3> QED
      BY <3>1, <3>2
  <2> QED
    BY <1>1, <1>2, <1>3, <2>1, <2>2, <2>3
    DEF Witnessed, Committed, Refreshed, Located, Shows
<1>7. CASE Answer(r)
  <2>1. /\ pc[r] = "answer" /\ pc'[r] = "done" /\ reply'[r] = "ok"
        /\ loaded' = loaded /\ point' = point
    BY <1>7 DEF Answer, Answered, HInv, IInv, TypeOK
  <2>2. Shows(r) => ColumnsWereTrue(r)' /\ GeometryWasTrue(r)'
    BY <1>1, <1>2, <2>1, EffectStays DEF HInv, Witnessed, Refreshed, Located
  <2> QED
    BY <1>1, <1>3, <2>1, <2>2
    DEF Witnessed, Committed, Refreshed, Located, Shows
<1> QED
  BY <1>5, <1>6, <1>7

\* Every step keeps what the requests know.
LEMMA NextKeepsWitnesses ==
    ASSUME HInv, [Next]_vars
    PROVE  HInv'
<1>1. IInv'
  BY NextKeepsInvariant DEF HInv
<1>2. CASE UNCHANGED vars
  <2>1. ASSUME NEW q \in Requests
        PROVE  Witnessed(q)'
    BY <1>2 DEF vars, dbVars, HInv, Witnessed, Committed, Refreshed, Located, Shows,
                TookEffect, ColumnsWereTrue, GeometryWasTrue, rowsSeen, live
  <2> QED
    BY <1>1, <2>1 DEF HInv
<1>3. ASSUME NEW r \in Requests, Step(r), Remember
      PROVE  HInv'
  <2>1. Witnessed(r)'
    BY <1>1, <1>3, AcceptWitnessed, LoadWitnessed, UpdateWitnessed, DeleteWitnessed,
       InsertionWitnessed, ReplyWitnessed, FailureWitnessed DEF Step, Fail, Aborted
  <2>2. ASSUME NEW q \in Requests \ {r}
        PROVE  Witnessed(q)'
    BY <1>1, <1>3, OthersStayWitnessed
  <2> QED
    BY <1>1, <2>1, <2>2 DEF HInv
<1> QED
  BY <1>2, <1>3 DEF Next, Finished

LEMMA WitnessInvariance == Spec => []HInv
<1>1. Init => HInv
  BY InitInvariant
  DEF Init, HInv, Witnessed, Committed, Refreshed, Located
<1> QED
  BY <1>1, NextKeepsWitnesses, PTL DEF Spec

-----------------------------------------------------------------------------
(* The theorems *)

\* Every variable keeps its type; for the table that means in particular that
\* no mandatory column and no geometry is ever missing.
THEOREM TypeCorrect == Spec => []TypeOK
BY Invariance, PTL DEF IInv

\* No two rows ever have the same identity, whatever requests change halves of
\* it from outdated copies and whatever the loader inserts.
THEOREM IdentitiesStayUnique == Spec => []IdentitiesUnique
BY Invariance, PTL DEF IInv

\* A key that was deleted stays empty: keys are never drawn twice, an upsert
\* puts rows under live or fresh keys, and an update needs its row.
THEOREM DeletionIsFinal == Spec => DeletedStayDeleted
<1>1. ASSUME IInv, IInv', [Next]_vars
      PROVE  [\A i \in gone : i \in gone' /\ row'[i] = Absent]_vars
  <2>1. gone \subseteq gone'
    BY <1>1 DEF Next, Finished, vars, dbVars, Step, Accept, Load, CommitUpdate,
       CommitDelete, CommitCreate, CommitUpsert, InsertedAs, Refresh, Locate,
       Answer, Fail, Aborted
  <2> QED
    BY <1>1, <2>1 DEF IInv, GoneAreAbsent
<1> QED
  BY <1>1, Invariance, PTL DEF Spec, DeletedStayDeleted

\* A column of a row only changes by a request for that row that names the column
\* and asks for its new value, however old the copy an update was computed from.
THEOREM EditsAreNarrow == Spec => EditsTouchOnlyTheirColumns
<1> DEFINE Asks(r, i, f) ==
              /\ pc[r] = "commit" /\ pc'[r] # "commit"
              /\ AsksFor(call'[r], i, f, row'[i].fields[f])
           Narrow ==
              \A i \in live : \A f \in Columns :
                 row'[i] # Absent /\ row'[i].fields[f] # row[i].fields[f] =>
                    \E r \in Requests : Asks(r, i, f)
<1>1. ASSUME IInv, [Next]_vars
      PROVE  Narrow
  <2> SUFFICES ASSUME NEW i \in live, NEW f \in Columns, row'[i] # Absent,
                      row'[i].fields[f] # row[i].fields[f]
               PROVE  \E r \in Requests : Asks(r, i, f)
    OBVIOUS
  <2>t. row \in [Ids -> Row \cup {Absent}] /\ i \in Ids
        /\ pc \in [Requests -> {"idle", "read", "commit", "refresh", "locate",
                                "answer", "done"}]
        /\ call \in [Requests -> Call \cup {NoCall}]
    BY <1>1 DEF IInv, TypeOK, live
  <2>1. PICK r \in Requests : Step(r)
    BY <1>1 DEF Next, Finished, vars, dbVars
  <2>2. ~UNCHANGED row
    OBVIOUS
  <2>3. CASE CommitUpdate(r)
    <3>1. /\ i = call[r].id /\ call' = call /\ GoTo(r, "refresh")
          /\ row'[i] = Flushed(row[i], loaded[r], call[r])
      BY <2>t, <2>2, <2>3 DEF CommitUpdate, Aborted, dbVars
    <3>2. f \in Assigned(call[r]) /\ row'[i].fields[f] = call[r].fields[f]
      BY <3>1 DEF Flushed
    <3> QED
      BY <2>t, <2>3, <3>1, <3>2 DEF CommitUpdate, GoTo, AsksFor
  <2>4. CASE CommitUpsert(r)
    <3>1. /\ row'[i] = Inserted(call[r]) /\ GoTo(r, "answer")
          /\ call' = [call EXCEPT ![r].id = i]
      BY <2>t, <2>2, <2>4 DEF CommitUpsert, InsertedAs
    <3>2. /\ call'[r].id = i /\ call'[r].op = "upsert"
          /\ Inserted(call'[r]) = Inserted(call[r])
      BY <2>t, <2>4, <3>1 DEF CommitUpsert, Inserted, Call, NoCall
    <3> QED
      BY <2>t, <2>4, <3>1, <3>2 DEF CommitUpsert, GoTo, AsksFor
  <2>5. CASE CommitCreate(r)
    BY <2>t, <2>2, <2>5 DEF CommitCreate, InsertedAs, Aborted, dbVars
  <2>6. CASE CommitDelete(r)
    BY <2>t, <2>6 DEF CommitDelete
  <2> QED
    BY <2>1, <2>2, <2>3, <2>4, <2>5, <2>6
    DEF Step, Accept, Load, Refresh, Locate, Answer, Fail, Aborted, dbVars
<1>2. IInv /\ [Next]_vars => [Narrow]_vars
  BY <1>1
<1> QED
  BY <1>2, Invariance, PTL DEF Spec, EditsTouchOnlyTheirColumns

\* Whoever is told that a request succeeded can rely on its effect: at some
\* moment while it ran the row was deleted, created, loaded, or had in each column
\* the value asked for, whatever the others did.
THEOREM SuccessIsReal == Spec => []SuccessTookEffect
<1>1. HInv => SuccessTookEffect
  BY DEF HInv, Witnessed, Committed, SuccessTookEffect
<1> QED
  BY <1>1, WitnessInvariance, PTL

\* What a reply shows was true of the row while the request ran.
THEOREM RepliesAreTrue == Spec => []ReplyWasTrue
<1>1. HInv => ReplyWasTrue
  BY DEF HInv, Witnessed, Refreshed, Located, Shows, ReplyWasTrue
<1> QED
  BY <1>1, WitnessInvariance, PTL
=============================================================================
