------------------------ MODULE LocationsHistoryProofs ------------------------
(***************************************************************************)
(* Theorems about LocationsHistory: what the version of a row and the      *)
(* success of a status change mean, for every set of requests and calls.   *)
(***************************************************************************)
EXTENDS LocationsHistory, LocationsProofs

HistoryTypeOK ==
    /\ commits \in [Sites -> Nat]
    /\ raced \in [Sites -> BOOLEAN]
    /\ inForce \in [Requests -> BOOLEAN]

\* No row has a history before it is inserted.
NewKeysUnused ==
    \A s \in Sites \ (live \cup gone) : commits[s] = 0 /\ ~raced[s]

\* An edit under way works on a copy of a row that was there, and the copy is no
\* later than the edits committed by now.
CopiesBehind ==
    \A r \in Requests :
        pc[r] \in {"geometry", "commit"} /\ call[r].op \in EditOps =>
            /\ call[r].site \in live \cup gone
            /\ loaded[r].version <= 1 + commits[call[r].site]

CountInv == HistoryTypeOK /\ NewKeysUnused /\ CopiesBehind /\ VersionCountsEdits

-----------------------------------------------------------------------------
(* The history variables observe and never restrict. *)

\* Behaviours with history are behaviours of the handlers.
LEMMA HistoryIsSpec == HSpec => Spec
<1>1. HInit => Init
  BY DEF HInit
<1>2. [HNext]_hvars => [Next]_vars
  BY DEF HNext, hvars
<1> QED
  BY <1>1, <1>2, PTL DEF HSpec, Spec

\* The tables and handlers start with an empty history.
LEMMA CountInit == HInit => CountInv
<1> SUFFICES ASSUME HInit PROVE CountInv
  OBVIOUS
<1>1. /\ live = StartSites /\ row = [s \in Sites |-> StartRow]
      /\ pc = [r \in Requests |-> "idle"]
      /\ commits = [s \in Sites |-> 0] /\ raced = [s \in Sites |-> FALSE]
      /\ inForce = [r \in Requests |-> FALSE]
  BY DEF HInit, Init
<1>2. HistoryTypeOK /\ NewKeysUnused /\ CopiesBehind
  BY <1>1 DEF HistoryTypeOK, NewKeysUnused, CopiesBehind
<1>3. VersionCountsEdits
  BY <1>1, StartAssumption DEF VersionCountsEdits
<1> QED
  BY <1>2, <1>3 DEF CountInv

-----------------------------------------------------------------------------
(* Counting edits *)

\* A step in which no edit is committed, no row changes its version and no
\* handler takes a copy from elsewhere than a row keeps the count.
LEMMA CountKept ==
    ASSUME CountInv, TypeOK, Observe,
           \A r \in Requests, s \in Sites : ~Edits(r, s),
           live' \subseteq live, live' \cup gone' = live \cup gone,
           gone' \subseteq Sites, row' = row,
           \A r \in Requests :
              pc'[r] \in {"geometry", "commit"} /\ call'[r].op \in EditOps =>
                 \/ /\ pc[r] \in {"geometry", "commit"}
                    /\ call'[r] = call[r] /\ loaded'[r] = loaded[r]
                 \/ call'[r].site \in live /\ loaded'[r] = row[call'[r].site]
    PROVE  CountInv'
<1>1. commits' = commits /\ raced' = raced
  BY DEF Observe, CountInv, HistoryTypeOK
<1>2. HistoryTypeOK'
  BY <1>1 DEF CountInv, HistoryTypeOK, Observe, InForceNow
<1>3. NewKeysUnused' /\ VersionCountsEdits'
  BY <1>1 DEF CountInv, NewKeysUnused, VersionCountsEdits
<1>4. CopiesBehind'
  <2> SUFFICES ASSUME NEW r \in Requests,
                      pc'[r] \in {"geometry", "commit"}, call'[r].op \in EditOps
               PROVE  /\ call'[r].site \in live' \cup gone'
                      /\ loaded'[r].version <= 1 + commits'[call'[r].site]
    BY DEF CopiesBehind
  <2>1. CASE pc[r] \in {"geometry", "commit"} /\ call'[r] = call[r]
             /\ loaded'[r] = loaded[r]
    BY <1>1, <2>1 DEF CountInv, CopiesBehind
  <2>2. CASE call'[r].site \in live /\ loaded'[r] = row[call'[r].site]
    BY <1>1, <2>2 DEF CountInv, VersionCountsEdits
  <2> QED
    BY <2>1, <2>2
<1> QED
  BY <1>2, <1>3, <1>4 DEF CountInv

\* A step that commits edits of the rows in S counts one edit of each.
LEMMA Counted ==
    ASSUME CountInv, TypeOK, Observe, NEW S \in SUBSET live,
           \A s \in Sites : s \in S <=> \E r \in Requests : Edits(r, s)
    PROVE  /\ commits' \in [Sites -> Nat] /\ raced' \in [Sites -> BOOLEAN]
           /\ inForce' \in [Requests -> BOOLEAN]
           /\ \A s \in S : commits'[s] = commits[s] + 1
           /\ \A s \in Sites \ S : commits'[s] = commits[s] /\ raced'[s] = raced[s]
           /\ \A s \in Sites : raced[s] => raced'[s]
           /\ \A s \in Sites : commits[s] <= commits'[s]
<1>1. commits \in [Sites -> Nat] /\ raced \in [Sites -> BOOLEAN]
      /\ inForce \in [Requests -> BOOLEAN]
  BY DEF CountInv, HistoryTypeOK
<1>2. commits' = [s \in Sites |-> IF s \in S THEN commits[s] + 1 ELSE commits[s]]
  BY DEF Observe
<1>3. /\ raced' \in [Sites -> BOOLEAN]
      /\ \A s \in Sites : raced[s] => raced'[s]
      /\ \A s \in Sites \ S : raced'[s] = raced[s]
  BY <1>1 DEF Observe
<1>4. inForce' \in [Requests -> BOOLEAN]
  BY DEF Observe, InForceNow
<1>5. /\ commits' \in [Sites -> Nat]
      /\ \A s \in S : commits'[s] = commits[s] + 1
      /\ \A s \in Sites \ S : commits'[s] = commits[s]
      /\ \A s \in Sites : commits[s] <= commits'[s]
  BY <1>1, <1>2 DEF TypeOK
<1> QED
  BY <1>3, <1>4, <1>5

\* So the count is kept when each of those rows gets a version that is above 1,
\* at most one above the count, and one above its own unless the edit raced.
LEMMA CountAfterEdits ==
    ASSUME CountInv, TypeOK, Observe, NEW S \in SUBSET live,
           \A s \in Sites : s \in S <=> \E r \in Requests : Edits(r, s),
           UNCHANGED <<live, gone, loaded, call>>,
           \A r \in Requests : pc'[r] \in {"geometry", "commit"} => pc[r] = pc'[r],
           \A s \in Sites \ S : row'[s] = row[s],
           \A s \in S : /\ row'[s].version \in Nat /\ row'[s].version > 1
                        /\ row'[s].version <= 2 + commits[s]
                        /\ ~raced'[s] => row'[s].version = row[s].version + 1
    PROVE  CountInv'
<1>0. /\ \A s \in S : commits'[s] = commits[s] + 1
      /\ \A s \in Sites \ S : commits'[s] = commits[s] /\ raced'[s] = raced[s]
      /\ \A s \in Sites : (raced[s] => raced'[s]) /\ commits[s] <= commits'[s]
      /\ commits \in [Sites -> Nat] /\ commits' \in [Sites -> Nat]
      /\ live \subseteq Sites /\ gone \subseteq Sites
  BY Counted DEF CountInv, HistoryTypeOK, TypeOK
<1>1. HistoryTypeOK'
  BY Counted DEF HistoryTypeOK
<1>2. NewKeysUnused'
  BY <1>0 DEF CountInv, NewKeysUnused
<1>3. CopiesBehind'
  <2> SUFFICES ASSUME NEW r \in Requests,
                      pc[r] \in {"geometry", "commit"}, call[r].op \in EditOps
               PROVE  /\ call[r].site \in live \cup gone
                      /\ loaded[r].version <= 1 + commits'[call[r].site]
    BY DEF CopiesBehind
  <2>1. call[r].site \in live \cup gone
        /\ loaded[r].version <= 1 + commits[call[r].site]
    BY DEF CountInv, CopiesBehind
  <2>2. loaded[r].version \in Nat
    BY DEF TypeOK, Row
  <2> QED
    BY <1>0, <2>1, <2>2
<1>4. VersionCountsEdits'
  <2> SUFFICES ASSUME NEW s \in live
               PROVE  /\ row'[s].version <= 1 + commits'[s]
                      /\ commits'[s] > 0 => row'[s].version > 1
                      /\ ~raced'[s] => row'[s].version = 1 + commits'[s]
    BY DEF VersionCountsEdits
  <2>1. /\ row[s].version <= 1 + commits[s]
        /\ commits[s] > 0 => row[s].version > 1
        /\ ~raced[s] => row[s].version = 1 + commits[s]
    BY DEF CountInv, VersionCountsEdits
  <2>2. CASE s \in S
    BY <1>0, <2>1, <2>2
  <2>3. CASE s \notin S
    BY <1>0, <2>1, <2>3
  <2> QED
    BY <2>2, <2>3
<1> QED
  BY <1>1, <1>2, <1>3, <1>4 DEF CountInv

\* New rows have version 1 and no history.
LEMMA CountAfterInsert ==
    ASSUME CountInv, IInv, Observe, NEW r \in Requests,
           CommitCreate(r) \/ CommitImport(r),
           NEW new \in SUBSET (Sites \ (live \cup gone)), InsertedAs(new, r),
           \A q \in Requests : pc'[q] \in {"geometry", "commit"} =>
                                 pc[q] = pc'[q] /\ call'[q] = call[q],
           \A q \in Requests, s \in Sites : ~Edits(q, s)
    PROVE  CountInv'
<1>0. /\ call[r] \in Call
      /\ live \subseteq Sites /\ gone \subseteq Sites
      /\ Inserted(call[r], r).version = 1
  BY InsertedType DEF IInv, CallsSound, Sound, Inserting, TypeOK, CommitCreate,
     CommitImport
<1>1. commits' = commits /\ raced' = raced
  BY DEF Observe, CountInv, HistoryTypeOK
<1>2. HistoryTypeOK'
  BY <1>1 DEF CountInv, HistoryTypeOK, Observe, InForceNow
<1>3. /\ live' = live \cup new /\ gone' = gone /\ loaded' = loaded
      /\ \A s \in new : row'[s].version = 1
      /\ \A s \in live : row'[s] = row[s]
  BY <1>0 DEF InsertedAs
<1>4. NewKeysUnused'
  BY <1>1, <1>3 DEF CountInv, NewKeysUnused
<1>5. CopiesBehind'
  BY <1>1, <1>3 DEF CountInv, CopiesBehind
<1>6. VersionCountsEdits'
  BY <1>1, <1>3 DEF CountInv, NewKeysUnused, VersionCountsEdits
<1> QED
  BY <1>2, <1>4, <1>5, <1>6 DEF CountInv

\* Every step of the handlers keeps the count.
LEMMA CountStep == IInv /\ CountInv /\ [HNext]_hvars => CountInv'
<1> SUFFICES ASSUME IInv, CountInv, [HNext]_hvars
             PROVE  CountInv'
  OBVIOUS
<1>t. /\ TypeOK /\ CallsSound /\ Stages
      /\ pc \in [Requests -> {"idle", "read", "geometry", "commit", "refresh",
                              "locate", "answer", "done"}]
      /\ call \in [Requests -> Call \cup {NoCall}]
      /\ loaded \in [Requests -> Row] /\ row \in [Sites -> Row]
      /\ applied \in [Requests -> BOOLEAN]
      /\ live \subseteq Sites /\ gone \subseteq Sites
  BY DEF IInv, TypeOK
<1>1. CASE UNCHANGED hvars
  BY <1>1 DEF hvars, vars, dbVars, reqVars, CountInv, HistoryTypeOK,
     NewKeysUnused, CopiesBehind, VersionCountsEdits
<1>2. ASSUME Observe, Finished
      PROVE  CountInv'
  BY <1>t, <1>2, CountKept DEF Finished, vars, dbVars, reqVars, Edits
<1>3. ASSUME NEW r \in Requests, NEW c \in Calls, Observe, Accept(r, c)
      PROVE  CountInv'
  <2>1. UNCHANGED <<live, gone, row, loaded, applied>>
        /\ call' = [call EXCEPT ![r] = c]
    BY <1>3 DEF Accept, dbVars
  <2>2. /\ \A q \in Requests \ {r} : pc'[q] = pc[q]
        /\ pc'[r] = "commit" => c.op \in DirectOps
        /\ pc'[r] # "geometry"
    BY <1>t, <1>3, CallsAssumption DEF Accept, GoTo, Answered, Call
  <2> QED
    BY <1>t, <1>3, <2>1, <2>2, CountKept DEF Edits, DirectOps, EditOps
<1>4. ASSUME NEW r \in Requests, Observe,
             \/ LoadSite(r) \/ LoadKid(r) \/ ReadGeometry(r) \/ RefreshSite(r)
             \/ RefreshKid(r) \/ Locate(r) \/ Answer(r) \/ Fail(r)
      PROVE  CountInv'
  <2>1. UNCHANGED <<live, gone, row, call, applied>>
    BY <1>4 DEF LoadSite, LoadKid, ReadGeometry, RefreshSite, RefreshKid, Locate,
       Answer, Fail, Aborted, dbVars
  <2>2. \A q \in Requests : pc'[q] \in {"geometry", "commit"} =>
          \/ pc[q] \in {"geometry", "commit"} /\ loaded'[q] = loaded[q]
          \/ call[q].site \in live /\ loaded'[q] = row[call[q].site]
          \/ call[q].op \notin EditOps
    BY <1>t, <1>4 DEF LoadSite, LoadKid, ReadGeometry, RefreshSite, RefreshKid,
       Locate, Answer, Fail, Aborted, GoTo, Answered, EditOps
  <2> QED
    BY <1>t, <1>4, <2>1, <2>2, CountKept DEF Edits
<1>5. ASSUME NEW r \in Requests, Observe, CommitEdit(r)
      PROVE  CountInv'
  <2>1. CASE call[r].site \notin live
    BY <1>t, <1>5, <2>1, CountKept
       DEF CommitEdit, Aborted, Answered, dbVars, Edits
  <2>2. CASE call[r].site \in live
    <3> DEFINE s == call[r].site
               new == Flushed(row[s], loaded[r], Assigned(r), Moves(call[r]))
    <3>1. Sound(call[r]) /\ ~applied[r]
      BY <1>t, <1>5 DEF CommitEdit, CallsSound, Stages
    <3>2. Assigned(r) \in Row /\ Assigned(r).version = loaded[r].version + 1
      BY <1>t, <1>5, <3>1, AssignedType DEF CommitEdit, TypeOK
    <3>3. new \in Row /\ new.version = loaded[r].version + 1
      BY <1>t, <2>2, <3>2, FlushedType
    <3>4. loaded[r].version \in Nat \ {0}
          /\ loaded[r].version <= 1 + commits[s] /\ commits[s] \in Nat
      BY <1>t, <1>5, <2>2 DEF CommitEdit, CountInv, CopiesBehind, HistoryTypeOK, Row
    <3>5. /\ row' = [row EXCEPT ![s] = new]
          /\ UNCHANGED <<live, gone, loaded, call>>
          /\ applied' = [applied EXCEPT ![r] = TRUE]
          /\ pc' = [pc EXCEPT ![r] = "refresh"]
      BY <1>5, <2>2 DEF CommitEdit, Applied, GoTo
    <3>6. \A q \in Sites : q \in {s} <=> \E p \in Requests : Edits(p, q)
      BY <1>t, <1>5, <3>1, <3>5 DEF Edits, CommitEdit, EditOps
    <3>7. ~raced'[s] => loaded[r] = row[s]
      BY <1>t, <1>5, <2>2, <3>1, <3>5 DEF Observe, Edits, CommitEdit
    <3> HIDE DEF new
    <3>8. /\ row'[s].version \in Nat /\ row'[s].version > 1
          /\ row'[s].version <= 2 + commits[s]
          /\ ~raced'[s] => row'[s].version = row[s].version + 1
      BY <1>t, <2>2, <3>3, <3>4, <3>5, <3>7
    <3>9. /\ {s} \in SUBSET live
          /\ \A q \in Requests : pc'[q] \in {"geometry", "commit"} => pc[q] = pc'[q]
          /\ \A q \in Sites \ {s} : row'[q] = row[q]
          /\ \A q \in {s} : /\ row'[q].version \in Nat /\ row'[q].version > 1
                            /\ row'[q].version <= 2 + commits[q]
                            /\ ~raced'[q] => row'[q].version = row[q].version + 1
      BY <1>t, <2>2, <3>5, <3>8
    <3> HIDE DEF s
    <3> QED
      BY <1>t, <1>5, <3>5, <3>6, <3>9, CountAfterEdits
  <2> QED
    BY <2>1, <2>2
<1>6. ASSUME NEW r \in Requests, Observe, CommitBulkStatus(r)
      PROVE  CountInv'
  <2> DEFINE S == call[r].ids \cap live
  <2>1. Sound(call[r]) /\ ~applied[r]
    BY <1>t, <1>6 DEF CommitBulkStatus, CallsSound, Stages
  <2>2. /\ row' = [s \in Sites |-> IF s \in S THEN BulkRow(row[s], call[r], r)
                                   ELSE row[s]]
        /\ UNCHANGED <<live, gone, loaded, call>>
        /\ applied' = [applied EXCEPT ![r] = TRUE]
        /\ pc' = [pc EXCEPT ![r] = "answer"]
    BY <1>6 DEF CommitBulkStatus, Applied, GoTo
  <2>3. \A s \in Sites : s \in S <=> \E p \in Requests : Edits(p, s)
    BY <1>t, <1>6, <2>1, <2>2 DEF Edits, CommitBulkStatus, EditOps
  <2>4. \A s \in S : row'[s].version = row[s].version + 1
    BY <1>t, <1>6, <2>1, <2>2, BulkRowType DEF Sound, CommitBulkStatus
  <2>5. \A s \in S : row[s].version \in Nat \ {0}
                     /\ row[s].version <= 1 + commits[s] /\ commits[s] \in Nat
    BY <1>t DEF CountInv, VersionCountsEdits, HistoryTypeOK, Row
  <2>6. \A s \in S : /\ row'[s].version \in Nat /\ row'[s].version > 1
                     /\ row'[s].version <= 2 + commits[s]
                     /\ ~raced'[s] => row'[s].version = row[s].version + 1
    BY <2>4, <2>5
  <2>7. \A s \in Sites \ S : row'[s] = row[s]
    BY <2>2
  <2>8. \A q \in Requests : pc'[q] \in {"geometry", "commit"} => pc[q] = pc'[q]
    BY <1>t, <2>2
  <2>9. S \in SUBSET live
    OBVIOUS
  <2> HIDE DEF S
  <2> QED
    BY <1>t, <1>6, <2>2, <2>3, <2>6, <2>7, <2>8, <2>9, CountAfterEdits
<1>7. ASSUME NEW r \in Requests, Observe,
             \/ CommitRemoval(r) \/ CommitBulkRemoval(r)
             \/ CommitKid(r) \/ CommitKidRemoval(r)
      PROVE  CountInv'
  <2>1. /\ live' \subseteq live /\ live' \cup gone' = live \cup gone
        /\ UNCHANGED <<row, call, loaded>>
    BY <1>7 DEF CommitRemoval, CommitBulkRemoval, CommitKid, CommitKidRemoval,
       Removed, Aborted, dbVars
  <2>2. /\ \A q \in Requests \ {r} : applied'[q] = applied[q] /\ pc'[q] = pc[q]
        /\ pc'[r] \notin {"geometry", "commit"}
        /\ call[r].op \notin EditOps \cup {"bulk_set_status"}
    BY <1>t, <1>7 DEF CommitRemoval, CommitBulkRemoval, CommitKid,
       CommitKidRemoval, Aborted, Applied, GoTo, Answered, EditOps
  <2>3. \A q \in Requests, s \in Sites : ~Edits(q, s)
    BY <2>1, <2>2 DEF Edits
  <2>4. gone' \subseteq Sites
    BY <1>t, <2>1
  <2> QED
    BY <1>t, <1>7, <2>1, <2>2, <2>3, <2>4, CountKept
<1>8. ASSUME NEW r \in Requests, Observe, CommitCreate(r) \/ CommitImport(r)
      PROVE  CountInv'
  <2>1. /\ \A q \in Requests \ {r} : applied'[q] = applied[q] /\ pc'[q] = pc[q]
                                     /\ call'[q] = call[q]
        /\ pc'[r] \notin {"geometry", "commit"}
        /\ call[r].op \notin EditOps \cup {"bulk_set_status"}
    BY <1>t, <1>8 DEF CommitCreate, CommitImport, Aborted, Applied, GoTo,
       Answered, EditOps
  <2>2. \A q \in Requests, s \in Sites : ~Edits(q, s)
    BY <2>1 DEF Edits
  <2>3. CASE CommitImport(r) /\ call[r].stamp
    <3>1. UNCHANGED <<live, gone, row, loaded, call>>
      BY <2>3 DEF CommitImport, Aborted, dbVars, CommitCreate
    <3> QED
      BY <1>t, <1>8, <2>1, <2>2, <3>1, CountKept
  <2>4. CASE ~(CommitImport(r) /\ call[r].stamp)
    <3>1. PICK new \in SUBSET (Sites \ (live \cup gone)) : InsertedAs(new, r)
      BY <1>8, <2>4 DEF CommitCreate, CommitImport
    <3> QED
      BY <1>8, <2>1, <2>2, <3>1, CountAfterInsert
  <2> QED
    BY <2>3, <2>4
<1> QED
  BY <1>1, <1>2, <1>3, <1>4, <1>5, <1>6, <1>7, <1>8 DEF HNext, Next, Advance

\* The version of a row never runs ahead of its committed edits, an edited row
\* never shows version 1, and the version counts the edits exactly as long as
\* none of them was based on an outdated copy.
THEOREM VersionsCount == HSpec => []VersionCountsEdits
<1>1. CountInv => VersionCountsEdits
  BY DEF CountInv
<1> QED
  BY <1>1, HistoryIsSpec, Invariance, CountInit, CountStep, PTL DEF HSpec

-----------------------------------------------------------------------------
(* What a successful status change means *)

\* What a status change that stands at place p knows: when its copy has the
\* status already, or once it has committed, the status was in force.
StatusSeen(p, c, l, how, seen) ==
    c.op = "set_location_status" =>
        /\ p # "geometry"
        /\ p = "commit" /\ l.status = c.status => seen
        /\ p \in {"refresh", "locate", "answer"} => seen
        /\ p = "done" /\ how = "ok" => seen

StatusInv ==
    /\ inForce \in [Requests -> BOOLEAN]
    /\ \A r \in Requests :
         pc[r] # "idle" => StatusSeen(pc[r], call[r], loaded[r], reply[r], inForce[r])

\* A request that stays where it is keeps what it knows.
LEMMA StatusKept ==
    ASSUME StatusInv, Observe, NEW q \in Requests,
           pc'[q] = pc[q], call'[q] = call[q], loaded'[q] = loaded[q],
           reply'[q] = reply[q]
    PROVE  pc'[q] # "idle" =>
             StatusSeen(pc'[q], call'[q], loaded'[q], reply'[q], inForce'[q])
<1>1. inForce[q] => inForce'[q]
  BY DEF StatusInv, Observe
<1> QED
  BY <1>1 DEF StatusInv, StatusSeen

\* A request that moves keeps it too.
LEMMA StatusMoves ==
    ASSUME IInv, StatusInv, Observe, NEW r \in Requests,
           Advance(r) \/ Fail(r) \/ \E c \in Calls : Accept(r, c)
    PROVE  pc'[r] # "idle" =>
             StatusSeen(pc'[r], call'[r], loaded'[r], reply'[r], inForce'[r])
<1>t. /\ TypeOK /\ CallsSound /\ Stages
      /\ pc \in [Requests -> {"idle", "read", "geometry", "commit", "refresh",
                              "locate", "answer", "done"}]
      /\ call \in [Requests -> Call \cup {NoCall}]
      /\ loaded \in [Requests -> Row] /\ row \in [Sites -> Row]
      /\ reply \in [Requests -> {"none", "ok", "refused", "error"}]
      /\ live \subseteq Sites
  BY DEF IInv, TypeOK
<1>1. inForce'[r] <=> inForce[r] \/ InForceNow(r)
  BY DEF Observe, InForceNow, StatusInv
<1>2. CASE \E c \in Calls : Accept(r, c)
  <2>1. PICK c \in Calls : Accept(r, c)
    BY <1>2
  <2>2. call'[r] = c /\ pc[r] = "idle" /\ reply[r] = "none"
    BY <1>t, <2>1 DEF Accept, Stages
  <2>3. \/ pc'[r] = "read"
        \/ pc'[r] = "done" /\ reply'[r] \in {"refused", "error"}
        \/ pc'[r] = "commit" /\ c.op \in DirectOps
    BY <1>t, <2>1, CallsAssumption DEF Accept, GoTo, Answered, Call
  <2> QED
    BY <2>2, <2>3 DEF StatusSeen, DirectOps
<1>3. CASE LoadSite(r)
  <2>1. call' = call /\ row' = row /\ live' = live
    BY <1>3 DEF LoadSite, dbVars
  <2>2. CASE call[r].site \notin live
    BY <1>t, <1>3, <2>2 DEF LoadSite, Answered, StatusSeen
  <2>3. CASE call[r].site \in live
    <3>1. /\ loaded'[r] = row[call[r].site]
          /\ pc'[r] = IF Moves(call[r]) THEN "geometry" ELSE "commit"
      BY <1>t, <1>3, <2>3 DEF LoadSite, GoTo
    <3>2. call[r].op = "set_location_status" /\ loaded'[r].status = call[r].status
            => InForceNow(r)
      BY <2>1, <2>3, <3>1 DEF InForceNow, Moves
    <3> QED
      BY <1>1, <2>1, <3>1, <3>2 DEF StatusSeen, Moves
  <2> QED
    BY <2>2, <2>3
<1>4. CASE CommitEdit(r)
  <2>1. CASE call[r].site \notin live
    BY <1>t, <1>4, <2>1 DEF CommitEdit, Aborted, Answered, StatusSeen
  <2>2. CASE call[r].site \in live
    <3> DEFINE s == call[r].site
    <3>1. /\ pc'[r] = "refresh" /\ call' = call /\ live' = live
          /\ row' = [row EXCEPT ![s] =
                       Flushed(row[s], loaded[r], Assigned(r), Moves(call[r]))]
      BY <1>t, <1>4, <2>2 DEF CommitEdit, Applied, GoTo
    <3>2. SUFFICES ASSUME call[r].op = "set_location_status", ~inForce[r]
                   PROVE  InForceNow(r)
      BY <1>1, <3>1 DEF StatusSeen
    <3>3. loaded[r].status # call[r].status
      BY <1>4, <3>2 DEF StatusInv, StatusSeen, CommitEdit
    <3>4. Assigned(r).status = call[r].status
      BY <1>t, <3>2 DEF Assigned, StatusAssigned, Row
    <3>5. row'[s].status = call[r].status
      BY <1>t, <2>2, <3>1, <3>3, <3>4 DEF Flushed
    <3> QED
      BY <2>2, <3>1, <3>2, <3>5 DEF InForceNow
  <2> QED
    BY <2>1, <2>2
<1>5. CASE RefreshSite(r) \/ Locate(r) \/ Answer(r)
  <2>1. pc[r] \in {"refresh", "locate", "answer"} /\ call' = call
    BY <1>5 DEF RefreshSite, Locate, Answer
  <2>2. pc'[r] \in {"locate", "answer", "done"}
    BY <1>t, <1>5 DEF RefreshSite, Locate, Answer, GoTo, Answered
  <2>3. call[r].op = "set_location_status" => inForce[r]
    BY <2>1 DEF StatusInv, StatusSeen
  <2> QED
    BY <1>1, <2>1, <2>2, <2>3 DEF StatusSeen
<1>6. CASE Fail(r)
  BY <1>t, <1>6 DEF Fail, Aborted, Answered, StatusSeen
<1>7. CASE \/ LoadKid(r) \/ ReadGeometry(r) \/ RefreshKid(r)
           \/ CommitBulkStatus(r) \/ CommitRemoval(r) \/ CommitBulkRemoval(r)
           \/ CommitCreate(r) \/ CommitImport(r) \/ CommitKid(r)
           \/ CommitKidRemoval(r)
  <2>1. call[r].op = "set_location_status" => ReadGeometry(r)
    BY <1>7 DEF LoadKid, RefreshKid, CommitBulkStatus, CommitRemoval,
       CommitBulkRemoval, CommitCreate, CommitImport, CommitKid, CommitKidRemoval
  <2>2. call[r].op = "set_location_status" => pc[r] # "geometry"
    BY <1>7 DEF StatusInv, StatusSeen, LoadKid, ReadGeometry, RefreshKid,
       CommitBulkStatus, CommitRemoval, CommitBulkRemoval, CommitCreate,
       CommitImport, CommitKid, CommitKidRemoval
  <2>3. call[r].op # "set_location_status"
    BY <2>1, <2>2 DEF ReadGeometry
  <2>4. call'[r].op = call[r].op
    <3>1. call' = call \/ CommitCreate(r)
      BY <1>7 DEF LoadKid, ReadGeometry, RefreshKid, CommitBulkStatus,
         CommitRemoval, CommitBulkRemoval, CommitImport, CommitKid,
         CommitKidRemoval
    <3>2. ASSUME CommitCreate(r)
          PROVE  call[r] \in Call /\ \E s \in Sites : call' = [call EXCEPT ![r].site = s]
      BY <1>t, <3>2 DEF CommitCreate, CallsSound, Sound
    <3> QED
      BY <1>t, <3>1, <3>2 DEF Call
  <2> QED
    BY <2>3, <2>4 DEF StatusSeen
<1> QED
  BY <1>2, <1>3, <1>4, <1>5, <1>6, <1>7 DEF Advance

\* A step of one handler leaves the others where they are.
LEMMA OthersStay ==
    ASSUME NEW r \in Requests, NEW q \in Requests \ {r}, TypeOK,
           Advance(r) \/ Fail(r) \/ \E c \in Calls : Accept(r, c)
    PROVE  /\ pc'[q] = pc[q] /\ call'[q] = call[q] /\ loaded'[q] = loaded[q]
           /\ reply'[q] = reply[q]
<1>1. CASE Fail(r) \/ \E c \in Calls : Accept(r, c)
  BY <1>1 DEF TypeOK, Fail, Aborted, Accept, Answered, GoTo
<1>2. CASE LoadSite(r) \/ LoadKid(r) \/ ReadGeometry(r) \/ RefreshSite(r)
           \/ RefreshKid(r) \/ Locate(r) \/ Answer(r)
  BY <1>2 DEF TypeOK, LoadSite, LoadKid, ReadGeometry, RefreshSite, RefreshKid,
     Locate, Answer, Answered, GoTo
<1>3. CASE CommitEdit(r) \/ CommitBulkStatus(r) \/ CommitRemoval(r)
           \/ CommitBulkRemoval(r) \/ CommitKid(r) \/ CommitKidRemoval(r)
  BY <1>3 DEF TypeOK, CommitEdit, CommitBulkStatus, CommitRemoval,
     CommitBulkRemoval, CommitKid, CommitKidRemoval, Aborted, Answered, Applied,
     GoTo
<1>4. CASE CommitCreate(r) \/ CommitImport(r)
  BY <1>4 DEF TypeOK, CommitCreate, CommitImport, InsertedAs, Aborted, Answered,
     Applied, GoTo
<1> QED
  BY <1>1, <1>2, <1>3, <1>4 DEF Advance

\* Every step keeps what the status changes know.
LEMMA StatusStep == IInv /\ StatusInv /\ [HNext]_hvars => StatusInv'
<1> SUFFICES ASSUME IInv, StatusInv, [HNext]_hvars
             PROVE  StatusInv'
  OBVIOUS
<1>1. CASE UNCHANGED hvars
  BY <1>1 DEF hvars, vars, reqVars, StatusInv
<1>2. ASSUME Observe
      PROVE  inForce' \in [Requests -> BOOLEAN]
  BY <1>2 DEF Observe, InForceNow, StatusInv
<1>3. CASE Observe /\ UNCHANGED vars
  BY <1>2, <1>3, StatusKept DEF StatusInv, vars, reqVars
<1>4. ASSUME Observe, NEW r \in Requests,
             Advance(r) \/ Fail(r) \/ \E c \in Calls : Accept(r, c)
      PROVE  StatusInv'
  <2> SUFFICES ASSUME NEW q \in Requests
               PROVE  pc'[q] # "idle" =>
                        StatusSeen(pc'[q], call'[q], loaded'[q], reply'[q], inForce'[q])
    BY <1>2, <1>4 DEF StatusInv
  <2>1. CASE q = r
    BY <1>4, <2>1, StatusMoves
  <2>2. CASE q # r
    <3>1. TypeOK /\ q \in Requests \ {r}
      BY <2>2 DEF IInv
    <3>2. /\ pc'[q] = pc[q] /\ call'[q] = call[q] /\ loaded'[q] = loaded[q]
          /\ reply'[q] = reply[q]
      BY <1>4, <3>1, OthersStay
    <3> QED
      BY <1>4, <3>2, StatusKept
  <2> QED
    BY <2>1, <2>2
<1> QED
  BY <1>1, <1>3, <1>4 DEF HNext, Next, Finished

\* A successful status change was in force at some moment while it ran, whatever
\* edits it overlapped with.
THEOREM SuccessMeansInForce == HSpec => []SuccessfulStatusWasInForce
<1>1. HInit => StatusInv
  BY DEF HInit, Init, StatusInv
<1>2. IInv /\ StatusInv => SuccessfulStatusWasInForce
  <2> SUFFICES ASSUME IInv, StatusInv, NEW r \in Requests, reply[r] = "ok",
                      call[r].op = "set_location_status"
               PROVE  inForce[r]
    BY DEF SuccessfulStatusWasInForce
  <2>1. pc[r] = "done"
    BY DEF IInv, Stages
  <2> QED
    BY <2>1 DEF StatusInv, StatusSeen
<1> QED
  BY <1>1, <1>2, HistoryIsSpec, Invariance, StatusStep, PTL DEF HSpec

-----------------------------------------------------------------------------
(* What the publication stamp means *)

StampInv == settled \in [Sites -> BOOLEAN] /\ StampedIffPublished

\* A site is settled after a step only if it was there before, no edit in the
\* step unsettled it, and it was settled already or by an edit in the step.
LEMMA SettledBefore ==
    ASSUME StampInv, Observe, NEW s \in live', live' \subseteq Sites, settled'[s]
    PROVE  /\ s \in live
           /\ settled[s] \/ \E r \in Requests : Settles(r, s)
           /\ \A r \in Requests : ~Unsettles(r, s)
  BY DEF Observe

\* What a single status change makes of its copy.
LEMMA StatusAssignedStamps ==
    ASSUME NEW l \in Row, NEW c \in Call, NEW r \in Requests
    PROVE  LET w == StatusAssigned(l, c, r)
           IN  w.status = Published <=> w.published_at # NULL
  BY NamesAssumption DEF StatusAssigned, Row

\* A flush that names both columns when they differ from an up-to-date copy
\* leaves them as they were assigned; one that assigns neither leaves them.
LEMMA FlushedStamps ==
    ASSUME NEW now \in Row, NEW l \in Row, NEW w \in Row, NEW moved
    PROVE  LET f == Flushed(now, l, w, moved)
           IN  /\ l.status = now.status => f.status = w.status
               /\ l.published_at = now.published_at => f.published_at = w.published_at
               /\ w.status = l.status => f.status = now.status
               /\ w.published_at = l.published_at => f.published_at = now.published_at
  BY DEF Flushed

\* The step of an edit keeps the stamps in line.
LEMMA StampEdit ==
    ASSUME IInv, StampInv, Observe, NEW r \in Requests, CommitEdit(r),
           NEW s \in live', settled'[s]
    PROVE  row'[s].status = Published <=> row'[s].published_at # NULL
<1>t. /\ TypeOK /\ CallsSound /\ Stages
      /\ call \in [Requests -> Call \cup {NoCall}]
      /\ loaded \in [Requests -> Row] /\ row \in [Sites -> Row]
      /\ applied \in [Requests -> BOOLEAN]
      /\ live \subseteq Sites
  BY DEF IInv, TypeOK
<1>1. /\ live' = live /\ call' = call /\ pc[r] = "commit" /\ call[r].op \in EditOps
      /\ \A q \in Requests \ {r} : applied'[q] = applied[q]
  BY <1>t DEF CommitEdit, Aborted, Applied, dbVars
<1>2. /\ s \in live
      /\ settled[s] \/ \E q \in Requests : Settles(q, s)
      /\ \A q \in Requests : ~Unsettles(q, s)
  BY <1>t, <1>1, SettledBefore
<1>3. \A q \in Requests : Edits(q, s) => q = r /\ s = call[r].site /\ applied'[r]
  BY <1>t, <1>1 DEF Edits, EditOps
<1>4. CASE row'[s] = row[s] /\ ~Edits(r, s)
  BY <1>2, <1>3, <1>4 DEF StampInv, StampedIffPublished, Settles
<1>5. CASE call[r].site \notin live
  BY <1>t, <1>1, <1>4, <1>5 DEF CommitEdit, Aborted, dbVars, Edits
<1>6. CASE call[r].site \in live /\ s # call[r].site
  <2>1. row'[s] = row[s]
    BY <1>t, <1>1, <1>2, <1>6 DEF CommitEdit
  <2> QED
    BY <1>3, <1>4, <1>6, <2>1
<1>7. CASE s = call[r].site
  <2> DEFINE w == Assigned(r)
             new == Flushed(row[s], loaded[r], w, Moves(call[r]))
  <2>1. /\ Sound(call[r]) /\ ~applied[r] /\ call[r] \in Call
        /\ row'[s] = new /\ applied'[r]
    BY <1>t, <1>1, <1>2, <1>7 DEF CommitEdit, Applied, CallsSound, Stages, Sound
  <2>2. Edits(r, s)
    BY <1>1, <1>7, <2>1 DEF Edits
  <2>3. w \in Row
    BY <1>t, <1>1, <2>1, AssignedType DEF TypeOK
  <2>4. /\ loaded[r].status = row[s].status => new.status = w.status
        /\ loaded[r].published_at = row[s].published_at
             => new.published_at = w.published_at
        /\ w.status = loaded[r].status => new.status = row[s].status
        /\ w.published_at = loaded[r].published_at
             => new.published_at = row[s].published_at
    BY <1>t, <1>2, <2>3, FlushedStamps
  <2> HIDE DEF new
  <2>5. CASE call[r].op = "set_location_status"
    <3>1. Settles(r, s)
      BY <1>2, <2>2, <2>5 DEF Unsettles
    <3>2. /\ loaded[r].status = row[s].status
          /\ loaded[r].published_at = row[s].published_at
      BY <2>5, <3>1 DEF Settles
    <3>3. w.status = Published <=> w.published_at # NULL
      BY <1>t, <2>1, <2>5, StatusAssignedStamps DEF Assigned
    <3> HIDE DEF w
    <3> QED
      BY <2>1, <2>4, <3>2, <3>3
  <2>6. CASE call[r].op = "update_location"
    <3>1. ~Settles(r, s)
      BY <2>6 DEF Settles
    <3>2. call[r].status = Unset /\ ~call[r].stamp
      BY <1>2, <2>2, <2>6, <3>1 DEF Unsettles
    <3>3. w.status = loaded[r].status /\ w.published_at = loaded[r].published_at
      BY <2>6, <3>2 DEF Assigned, UpdateAssigned, Given
    <3>4. settled[s]
      BY <1>2, <1>3, <3>1 DEF Settles
    <3> HIDE DEF w
    <3> QED
      BY <1>2, <2>1, <2>4, <3>3, <3>4 DEF StampInv, StampedIffPublished
  <2> QED
    BY <1>1, <2>5, <2>6 DEF EditOps
<1> QED
  BY <1>5, <1>6, <1>7

\* So does a bulk change, of the rows it hits and of the others.
LEMMA StampBulk ==
    ASSUME IInv, StampInv, Observe, NEW r \in Requests, CommitBulkStatus(r),
           NEW s \in live', settled'[s]
    PROVE  row'[s].status = Published <=> row'[s].published_at # NULL
<1>t. /\ TypeOK
      /\ call \in [Requests -> Call \cup {NoCall}]
      /\ row \in [Sites -> Row] /\ applied \in [Requests -> BOOLEAN]
      /\ live \subseteq Sites
  BY DEF IInv, TypeOK
<1>1. /\ live' = live /\ call[r].op = "bulk_set_status"
      /\ \A q \in Requests \ {r} : applied'[q] = applied[q]
      /\ row' = [q \in Sites |-> IF q \in call[r].ids \cap live
                                 THEN BulkRow(row[q], call[r], r) ELSE row[q]]
  BY <1>t DEF CommitBulkStatus, Applied
<1>2. /\ s \in live /\ s \in Sites
      /\ settled[s] \/ \E q \in Requests : Settles(q, s)
  BY <1>t, <1>1, SettledBefore
<1>3. CASE s \in call[r].ids
  <2>1. row'[s] = BulkRow(row[s], call[r], r) /\ row[s] \in Row
    BY <1>t, <1>1, <1>2, <1>3
  <2>2. /\ row'[s].status = call[r].status
        /\ row'[s].published_at = IF call[r].status = Published THEN r ELSE NULL
    BY <2>1 DEF BulkRow, Row
  <2> QED
    BY <2>2, NamesAssumption
<1>4. CASE s \notin call[r].ids
  <2>1. \A q \in Requests : ~Edits(q, s)
    BY <1>1, <1>4 DEF Edits, EditOps
  <2>2. settled[s] /\ row'[s] = row[s]
    BY <1>1, <1>2, <1>4, <2>1 DEF Settles
  <2> QED
    BY <1>2, <2>2 DEF StampInv, StampedIffPublished
<1> QED
  BY <1>3, <1>4

\* And every other step, which changes no row that stays.
LEMMA StampOther ==
    ASSUME IInv, StampInv, Observe,
           \A s \in live : row'[s] = row[s],
           \A r \in Requests, s \in live : ~Edits(r, s),
           NEW s \in live', live' \subseteq Sites, settled'[s]
    PROVE  row'[s].status = Published <=> row'[s].published_at # NULL
<1>1. /\ s \in live
      /\ settled[s] \/ \E q \in Requests : Settles(q, s)
  BY SettledBefore
<1>2. settled[s]
  BY <1>1 DEF Settles
<1> QED
  BY <1>1, <1>2 DEF StampInv, StampedIffPublished

LEMMA StampStep == IInv /\ IInv' /\ StampInv /\ [HNext]_hvars => StampInv'
<1> SUFFICES ASSUME IInv, IInv', StampInv, [HNext]_hvars
             PROVE  StampInv'
  OBVIOUS
<1>t. /\ call \in [Requests -> Call \cup {NoCall}]
      /\ applied \in [Requests -> BOOLEAN]
      /\ live \subseteq Sites /\ live' \subseteq Sites
  BY DEF IInv, TypeOK
<1>1. CASE UNCHANGED hvars
  BY <1>1 DEF hvars, vars, dbVars, StampInv, StampedIffPublished
<1>2. ASSUME Observe
      PROVE  settled' \in [Sites -> BOOLEAN]
  BY <1>2 DEF Observe, StampInv
<1>3. ASSUME Observe,
             \A s \in live : row'[s] = row[s],
             \A r \in Requests : applied'[r] => \/ applied[r]
                                                \/ call[r].op \notin EditOps
                                                     \cup {"bulk_set_status"}
      PROVE  StampInv'
  <2>1. \A r \in Requests, s \in live : ~Edits(r, s)
    BY <1>3 DEF Edits
  <2> QED
    BY <1>t, <1>2, <1>3, <2>1, StampOther DEF StampInv, StampedIffPublished
<1>4. ASSUME Observe, NEW r \in Requests,
             \/ LoadSite(r) \/ LoadKid(r) \/ ReadGeometry(r) \/ RefreshSite(r)
             \/ RefreshKid(r) \/ Locate(r) \/ Answer(r) \/ Fail(r)
             \/ \E c \in Calls : Accept(r, c)
      PROVE  StampInv'
  <2>1. row' = row /\ applied' = applied
    BY <1>4 DEF LoadSite, LoadKid, ReadGeometry, RefreshSite, RefreshKid, Locate,
       Answer, Fail, Aborted, Accept, dbVars
  <2> QED
    BY <1>3, <1>4, <2>1
<1>5. ASSUME Observe, NEW r \in Requests,
             \/ CommitRemoval(r) \/ CommitBulkRemoval(r)
             \/ CommitKid(r) \/ CommitKidRemoval(r)
      PROVE  StampInv'
  <2>1. /\ row' = row /\ call[r].op \notin EditOps \cup {"bulk_set_status"}
        /\ \A q \in Requests \ {r} : applied'[q] = applied[q]
    BY <1>t, <1>5 DEF CommitRemoval, CommitBulkRemoval, CommitKid,
       CommitKidRemoval, Removed, Aborted, Applied, dbVars, EditOps
  <2> QED
    BY <1>3, <1>5, <2>1
<1>6. ASSUME Observe, NEW r \in Requests, CommitCreate(r) \/ CommitImport(r)
      PROVE  StampInv'
  <2>1. /\ \A s \in live : row'[s] = row[s]
        /\ call[r].op \notin EditOps \cup {"bulk_set_status"}
        /\ \A q \in Requests \ {r} : applied'[q] = applied[q]
    BY <1>t, <1>6 DEF CommitCreate, CommitImport, InsertedAs, Aborted, Applied,
       dbVars, EditOps
  <2> QED
    BY <1>3, <1>6, <2>1
<1>7. ASSUME Observe, NEW r \in Requests, CommitEdit(r) \/ CommitBulkStatus(r)
      PROVE  StampInv'
  BY <1>2, <1>7, StampEdit, StampBulk DEF StampInv, StampedIffPublished
<1>8. ASSUME Observe, Finished
      PROVE  StampInv'
  BY <1>3, <1>8 DEF Finished, vars, dbVars, reqVars
<1> QED
  BY <1>1, <1>4, <1>5, <1>6, <1>7, <1>8 DEF HNext, Next, Advance

\* A row carries a publication stamp exactly when it is published, from any
\* status change that knew the row until an edit that sets one of the two by
\* hand, whatever overlaps.
THEOREM StampsFollowPublication == HSpec => []StampedIffPublished
<1>1. HInit => StampInv
  <2> SUFFICES ASSUME HInit PROVE StampInv
    OBVIOUS
  <2>1. settled \in [Sites -> BOOLEAN] /\ live \subseteq Sites
    BY StartAssumption DEF HInit, Init
  <2>2. ASSUME NEW s \in live, settled[s]
        PROVE  row[s].status = Published <=> row[s].published_at # NULL
    <3>1. row[s] = StartRow
      BY <2>1 DEF HInit, Init
    <3>2. settled[s] = (StartRow.status = Published <=> StartRow.published_at # NULL)
      BY <2>1 DEF HInit
    <3> QED
      BY <2>2, <3>1, <3>2, Zenon
  <2> QED
    BY <2>1, <2>2 DEF StampInv, StampedIffPublished
<1>2. StampInv => StampedIffPublished
  BY DEF StampInv
<1> QED
  BY <1>1, <1>2, HistoryIsSpec, Invariance, StampStep, PTL DEF HSpec

=============================================================================
