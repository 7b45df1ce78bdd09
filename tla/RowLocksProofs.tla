---------------------------- MODULE RowLocksProofs ----------------------------
(***************************************************************************)
(* Theorems about RowLocks: its types, the limit of the pool among them,   *)
(* which requests it takes for a deadlock, and that the locks implement    *)
(* LocationStore.                                                          *)
(***************************************************************************)
EXTENDS RowLocks, FiniteSetTheorems, TLAPS

\* A request that was accepted has a call, one that was not locks nothing.
CallsKnown ==
    \A r \in Requests :
        /\ pc[r] # "idle" => call[r] \in Call
        /\ pc[r] = "idle" => agenda[r] = {} /\ want[r] = None /\ line[r] = "none"

\* No two transactions have conflicting locks on a row.
Exclusive ==
    \A a, b \in Requests : a # b =>
        \A x \in Rows : Compatible(held[a][x], held[b][x])

\* Nothing is committed before the last statement of a request is done.
CommitsLast ==
    \A r \in Requests : applied[r] => pc[r] \in {"refresh", "answer", "done"}

IInv == TypeOK /\ IsFiniteSet(conn) /\ CallsKnown /\ Exclusive /\ CommitsLast

-----------------------------------------------------------------------------
\* Conflicts are mutual, and what is not locked conflicts with nothing.
LEMMA CompatibleBothWays ==
    \A m, n : /\ Compatible(m, n) <=> Compatible(n, m)
              /\ Compatible("none", n)
BY DEF Compatible

\* Only a key share lock goes with another transaction's lock of an update, and
\* nothing goes with that of a deletion.
LEMMA WritesConflict ==
    ASSUME NEW m, NEW n \in Modes, Compatible(m, n)
    PROVE  /\ m # "delete"
           /\ m = "update" => n = "share"
BY DEF Compatible, Modes

\* A connection is only taken when there is one.
LEMMA PoolIsBounded ==
    ASSUME TypeOK, IsFiniteSet(conn), NEW r \in Requests \cup Readers,
           \/ conn' = conn
           \/ conn' = conn \ {r}
           \/ conn' = conn \cup {r} /\ (r \in conn \/ Cardinality(conn) < PoolSize)
    PROVE  /\ conn' \subseteq Requests \cup Readers /\ IsFiniteSet(conn')
           /\ Cardinality(conn') <= PoolSize
<1>1. Cardinality(conn) \in Nat /\ Cardinality(conn) <= PoolSize /\ PoolSize \in Nat
  BY FS_CardinalityType, LocksAssumption DEF TypeOK
<1>2. CASE conn' = conn
  BY <1>1, <1>2 DEF TypeOK
<1>3. CASE conn' = conn \ {r}
  <2>1. /\ IsFiniteSet(conn \ {r})
        /\ Cardinality(conn \ {r}) =
             IF r \in conn THEN Cardinality(conn) - 1 ELSE Cardinality(conn)
    BY FS_RemoveElement
  <2> QED BY <1>1, <1>3, <2>1 DEF TypeOK
<1>4. CASE conn' = conn \cup {r} /\ (r \in conn \/ Cardinality(conn) < PoolSize)
  <2>1. /\ IsFiniteSet(conn \cup {r})
        /\ Cardinality(conn \cup {r}) =
             IF r \in conn THEN Cardinality(conn) ELSE Cardinality(conn) + 1
    BY FS_AddElement
  <2> QED BY <1>1, <1>4, <2>1 DEF TypeOK
<1> QED BY <1>2, <1>3, <1>4

\* The end of a request frees what it has and leaves the tables alone.
LEMMA AnsweredKeeps ==
    ASSUME IInv, NEW r \in Requests, NEW how \in {"ok", "refused", "error"},
           Answered(r, how), pc[r] # "idle"
    PROVE  IInv'
<1>1. conn' \subseteq Requests \cup Readers /\ IsFiniteSet(conn') /\ Cardinality(conn') <= PoolSize
  BY PoolIsBounded DEF IInv, Answered
<1>2. TypeOK'
  BY <1>1 DEF IInv, TypeOK, Answered, dbVars, Unlocked
<1>3. CallsKnown'
  BY DEF IInv, TypeOK, CallsKnown, Answered
<1>4. Exclusive'
  BY CompatibleBothWays DEF IInv, TypeOK, Exclusive, Answered, Unlocked
<1>5. CommitsLast'
  BY DEF IInv, TypeOK, CommitsLast, Answered
<1> QED BY <1>1, <1>2, <1>3, <1>4, <1>5 DEF IInv

\* The start of a statement: there is a connection, and nothing is locked yet.
LEMMA LocksKeeps ==
    ASSUME IInv, NEW r \in Requests, NEW S \in SUBSET Rows,
           NEW stage \in {"kids", "sites", "cascade", "gather", "answer"},
           Locks(r, stage, S), pc[r] # "idle",
           applied[r] => stage = "answer",
           \/ conn' = conn
           \/ conn' = conn \cup {r} /\ (r \in conn \/ Cardinality(conn) < PoolSize),
           UNCHANGED <<dbVars, call, reply, want, line, held, applied>>
    PROVE  IInv'
<1>1. conn' \subseteq Requests \cup Readers /\ IsFiniteSet(conn') /\ Cardinality(conn') <= PoolSize
  BY PoolIsBounded DEF IInv
<1>2. TypeOK'
  BY <1>1 DEF IInv, TypeOK, Locks, dbVars
<1>3. CallsKnown' /\ CommitsLast'
  BY DEF IInv, TypeOK, CallsKnown, CommitsLast, Locks
<1>4. Exclusive'
  BY DEF IInv, Exclusive
<1> QED BY <1>1, <1>2, <1>3, <1>4 DEF IInv

\* The kids of a set of sites, and the keys a call names, are rows.
LEMMA StatementsLockRows ==
    ASSUME IInv, NEW r \in Requests, pc[r] # "idle"
    PROVE  /\ \A S : KidsOf(S) \subseteq Rows
           /\ call[r].site \in Sites /\ call[r].kid \in Warnings
           /\ Sites \subseteq Rows /\ Warnings \subseteq Rows
           /\ call[r].ids \subseteq Sites
<1>1. call[r] \in Call
  BY DEF IInv, CallsKnown
<1>2. \A k \in kids : k.id \in KidIds
  BY DEF IInv, TypeOK
<1> QED BY <1>1, <1>2 DEF KidsOf, Rows, KidIds, Call

-----------------------------------------------------------------------------
\* A lock that is granted conflicts with no other.
LEMMA GrabKeeps == ASSUME IInv, NEW r \in Requests, Grab(r) PROVE IInv'
<1>1. want[r] \in Rows
  BY DEF IInv, TypeOK, Grab
<1>2. Mode(r) \in Modes
  BY DEF Mode, Modes
<1>3. \/ held' = held
      \/ held' = [held EXCEPT ![r][want[r]] = Mode(r)]
  BY DEF Grab
<1>4. held' \in [Requests -> [Rows -> Modes \cup {"none"}]]
  <2>1. held \in [Requests -> [Rows -> Modes \cup {"none"}]]
    BY DEF IInv, TypeOK
  <2>2. CASE held' = [held EXCEPT ![r][want[r]] = Mode(r)]
    <3>1. [held[r] EXCEPT ![want[r]] = Mode(r)] \in [Rows -> Modes \cup {"none"}]
      BY <1>1, <1>2, <2>1
    <3>2. held' = [held EXCEPT ![r] = [held[r] EXCEPT ![want[r]] = Mode(r)]]
      BY <2>2
    <3> QED BY <2>1, <3>1, <3>2
  <2> QED BY <1>3, <2>1, <2>2
<1>5. TypeOK'
  BY <1>4 DEF IInv, TypeOK, Grab, dbVars
<1>6. Exclusive'
  <2>1. \A b \in Requests \ {r} : Compatible(Mode(r), held[b][want[r]])
    BY DEF Grab, Holders
  <2>2. SUFFICES ASSUME NEW a \in Requests, NEW b \in Requests, a # b, NEW x \in Rows
                 PROVE  Compatible(held'[a][x], held'[b][x])
    BY DEF Exclusive
  <2>3. CASE held' = held
    BY <2>2, <2>3 DEF IInv, Exclusive
  <2>4. CASE held' = [held EXCEPT ![r][want[r]] = Mode(r)]
    <3>1. \A c \in Requests, y \in Rows :
            held'[c][y] = IF c = r /\ y = want[r] THEN Mode(r) ELSE held[c][y]
      BY <1>1, <2>4 DEF IInv, TypeOK
    <3>2. Compatible(held[a][x], held[b][x])
      BY <2>2 DEF IInv, Exclusive
    <3>3. CASE x # want[r] \/ (a # r /\ b # r)
      BY <3>1, <3>2, <3>3, <2>2
    <3>4. CASE x = want[r] /\ a = r
      BY <2>1, <2>2, <3>1, <3>4
    <3>5. CASE x = want[r] /\ b = r
      BY <2>1, <2>2, <3>1, <3>5, CompatibleBothWays
    <3> QED BY <3>3, <3>4, <3>5
  <2> QED BY <1>3, <2>3, <2>4
<1>7. CallsKnown' /\ CommitsLast' /\ IsFiniteSet(conn')
  BY DEF IInv, TypeOK, CallsKnown, CommitsLast, Grab
<1> QED BY <1>5, <1>6, <1>7 DEF IInv

\* A commit frees the locks of its own transaction.
LEMMA CommitKeeps == ASSUME IInv, NEW r \in Requests, Commit(r) PROVE IInv'
<1> DEFINE op == call[r].op
           out == {x \in Rows : held[r][x] = "delete"}
<1>1. pc[r] # "idle"
  BY DEF Commit
<1>2. CASE op \in {"update_location", "add_warning"} /\ HeldSites(r) = {}
  BY <1>1, <1>2, AnsweredKeeps DEF Commit
<1>3. CASE ~(op \in {"update_location", "add_warning"} /\ HeldSites(r) = {})
  <2>1. /\ live' = live \ out
        /\ edited' = edited \cup {s \in Sites : held[r][s] = "update"}
        /\ kids' = IF op = "add_warning"
                   THEN kids \cup {[id |-> r, loc |-> call[r].site]}
                   ELSE {k \in kids : k.id \notin out}
        /\ held' = [held EXCEPT ![r] = Unlocked]
        /\ conn' = conn \ {r}
        /\ applied' = [applied EXCEPT ![r] = TRUE]
        /\ pc' = [pc EXCEPT ![r] = IF op \in {"update_location", "add_warning"}
                                   THEN "refresh" ELSE "answer"]
        /\ UNCHANGED <<call, reply, agenda, want, line>>
    BY <1>3 DEF Commit
  <2>2. conn' \subseteq Requests \cup Readers /\ IsFiniteSet(conn') /\ Cardinality(conn') <= PoolSize
    BY <2>1, PoolIsBounded DEF IInv
  <2>3. kids' \subseteq [id : KidIds, loc : Sites]
    <3>1. [id |-> r, loc |-> call[r].site] \in [id : KidIds, loc : Sites]
      BY <1>1, StatementsLockRows DEF KidIds
    <3> QED BY <2>1, <3>1 DEF IInv, TypeOK
  <2>4. held' \in [Requests -> [Rows -> Modes \cup {"none"}]]
    BY <2>1 DEF IInv, TypeOK, Unlocked
  <2>5. TypeOK'
    BY <2>1, <2>2, <2>3, <2>4 DEF IInv, TypeOK
  <2>6. Exclusive'
    BY <2>1, CompatibleBothWays DEF IInv, TypeOK, Exclusive, Unlocked
  <2>7. CallsKnown' /\ CommitsLast'
    BY <1>1, <2>1 DEF IInv, TypeOK, CallsKnown, CommitsLast
  <2> QED BY <2>2, <2>5, <2>6, <2>7 DEF IInv
<1> QED BY <1>2, <1>3

\* Every step keeps the invariant.
LEMMA Step == IInv /\ [Next]_vars => IInv'
<1> SUFFICES ASSUME IInv, [Next]_vars PROVE IInv'
  OBVIOUS
<1>1. CASE UNCHANGED vars
  BY <1>1 DEF vars, dbVars, IInv, TypeOK, CallsKnown, Exclusive, CommitsLast
<1>2. ASSUME NEW r \in Requests, NEW c \in Calls[r], Accept(r, c) PROVE IInv'
  <2>1. c \in Call
    BY <1>2, LocksAssumption
  <2>2. TypeOK'
    BY <1>2, <2>1 DEF IInv, TypeOK, Accept, dbVars
  <2>3. CallsKnown' /\ CommitsLast'
    BY <1>2, <2>1 DEF IInv, TypeOK, CallsKnown, CommitsLast, Accept
  <2>4. Exclusive' /\ IsFiniteSet(conn')
    BY <1>2 DEF IInv, Exclusive, Accept
  <2> QED BY <2>2, <2>3, <2>4 DEF IInv
<1>3. ASSUME NEW r \in Requests, Read(r) PROVE IInv'
  <2>1. pc[r] = "read" /\ ~applied[r]
    BY <1>3 DEF Read, IInv, CommitsLast
  <2>2. CASE Answered(r, "refused")
    BY <2>1, <2>2, AnsweredKeeps
  <2>3. CASE /\ Connected(r)
             /\ UNCHANGED <<dbVars, call, reply, want, line, held, applied>>
             /\ \/ Locks(r, "gather", {})
                \/ Locks(r, "kids", {call[r].kid})
                \/ Locks(r, "sites", {call[r].site})
    <3>1. {call[r].kid} \subseteq Rows /\ {call[r].site} \subseteq Rows
      BY <2>1, StatementsLockRows
    <3> QED BY <2>1, <2>3, <3>1, LocksKeeps DEF Connected
  <2> QED BY <1>3, <2>2, <2>3 DEF Read
<1>4. ASSUME NEW r \in Requests, Gather(r) PROVE IInv'
  <2>1. pc[r] = "gather" /\ ~applied[r]
    BY <1>4 DEF Gather, IInv, CommitsLast
  <2>2. KidsOf({call[r].site}) \subseteq Rows
    BY <2>1, StatementsLockRows
  <2> QED BY <1>4, <2>1, <2>2, LocksKeeps DEF Gather
<1>5. ASSUME NEW r \in Requests, Bulk(r) PROVE IInv'
  <2>1. pc[r] = "bulk" /\ ~applied[r]
    BY <1>5 DEF Bulk, IInv, CommitsLast
  <2>2. call[r].ids \cap live \subseteq Rows
    BY <2>1, StatementsLockRows
  <2> QED BY <1>5, <2>1, <2>2, LocksKeeps DEF Bulk, Connected
<1>6. ASSUME NEW r \in Requests, Turn(r) PROVE IInv'
  <2>1. PICK x \in agenda[r] : want' = [want EXCEPT ![r] = x]
    BY <1>6 DEF Turn
  <2>2. TypeOK'
    BY <1>6, <2>1 DEF IInv, TypeOK, Turn, dbVars
  <2>3. CallsKnown' /\ CommitsLast' /\ Exclusive' /\ IsFiniteSet(conn')
    BY <1>6, <2>1 DEF IInv, TypeOK, CallsKnown, CommitsLast, Exclusive, Turn
  <2> QED BY <2>2, <2>3 DEF IInv
<1>7. ASSUME NEW r \in Requests, NextStatement(r) PROVE IInv'
  <2>1. pc[r] \in {"kids", "sites"} /\ ~applied[r]
    BY <1>7 DEF NextStatement, IInv, CommitsLast
  <2>2. {call[r].site} \cap live \subseteq Rows /\ KidsOf(HeldSites(r)) \subseteq Rows
    BY <2>1, StatementsLockRows
  <2> QED BY <1>7, <2>1, <2>2, LocksKeeps DEF NextStatement
<1>8. ASSUME NEW r \in Requests, Refresh(r) PROVE IInv'
  <2>1. pc[r] = "refresh"
    BY <1>8 DEF Refresh
  <2>2. CASE Answered(r, "error")
    BY <2>1, <2>2, AnsweredKeeps
  <2>3. CASE /\ Connected(r) /\ Locks(r, "answer", {})
             /\ UNCHANGED <<dbVars, call, reply, want, line, held, applied>>
    BY <2>1, <2>3, LocksKeeps DEF Connected
  <2> QED BY <1>8, <2>2, <2>3 DEF Refresh
<1>9. ASSUME NEW r \in Requests, Answer(r) \/ PoolTimeout(r) PROVE IInv'
  BY <1>9, AnsweredKeeps DEF Answer, PoolTimeout
<1>10. ASSUME NEW r \in Requests, DeadlockVictim(r) PROVE IInv'
  <2>1. line[r] # "none"
    BY <1>10 DEF DeadlockVictim, InCycle, Blockers
  <2>2. pc[r] # "idle"
    BY <2>1 DEF IInv, CallsKnown
  <2> QED BY <1>10, <2>2, AnsweredKeeps DEF DeadlockVictim
<1>11. ASSUME NEW r \in Requests, LineUp(r) \/ MoveUp(r) PROVE IInv'
  <2>1. line' \in [Requests -> {"none", "behind", "front"}]
    BY <1>11 DEF IInv, TypeOK, LineUp, MoveUp
  <2>2. TypeOK'
    BY <1>11, <2>1 DEF IInv, TypeOK, LineUp, MoveUp, dbVars
  <2>3. pc[r] # "idle"
    BY <1>11 DEF IInv, CallsKnown, LineUp, MoveUp, Holders
  <2>4. CallsKnown' /\ CommitsLast' /\ Exclusive' /\ IsFiniteSet(conn')
    BY <1>11, <2>3 DEF IInv, TypeOK, CallsKnown, CommitsLast, Exclusive, LineUp, MoveUp
  <2> QED BY <2>2, <2>4 DEF IInv
<1>12. ASSUME NEW o \in Readers, ReaderEnds(o) PROVE IInv'
  <2>1. conn' \subseteq Requests \cup Readers /\ IsFiniteSet(conn') /\ Cardinality(conn') <= PoolSize
    BY <1>12, PoolIsBounded DEF IInv, ReaderEnds
  <2> QED BY <1>12, <2>1 DEF IInv, TypeOK, CallsKnown, CommitsLast, Exclusive, ReaderEnds, dbVars
<1> QED
  BY <1>1, <1>2, <1>3, <1>4, <1>5, <1>6, <1>7, <1>8, <1>9, <1>10, <1>11,
     <1>12, GrabKeeps, CommitKeeps
  DEF Next, Advance, Finished

LEMMA Start == Init => IInv
<1> SUFFICES ASSUME Init PROVE IInv
  OBVIOUS
<1>1. IsFiniteSet(conn) /\ Cardinality(conn) <= PoolSize
  <2>1. conn \subseteq Readers
    BY DEF Init
  <2>2. IsFiniteSet(conn) /\ Cardinality(conn) <= Cardinality(Readers)
    BY <2>1, LocksAssumption, FS_Subset
  <2> QED BY <2>2, LocksAssumption, FS_CardinalityType
<1>2. TypeOK
  <2>1. kids \subseteq [id : KidIds, loc : Sites]
    BY LocksAssumption DEF Init, KidIds
  <2>2. held \in [Requests -> [Rows -> Modes \cup {"none"}]]
    BY DEF Init, Unlocked
  <2> QED BY <1>1, <2>1, <2>2 DEF Init, TypeOK
<1>3. CallsKnown /\ CommitsLast
  BY DEF Init, CallsKnown, CommitsLast
<1>4. Exclusive
  BY CompatibleBothWays DEF Init, Exclusive, Unlocked
<1> QED BY <1>1, <1>2, <1>3, <1>4 DEF IInv

LEMMA Invariance == Spec => []IInv
<1>1. Init => IInv
  BY Start
<1>2. IInv /\ [Next]_vars => IInv'
  BY Step
<1> QED BY <1>1, <1>2, PTL DEF Spec

-----------------------------------------------------------------------------
\* Every variable keeps its type, and no more connections are open than the pool
\* has, for any requests, calls, sites and pool.
THEOREM TypeCorrect == Spec => []TypeOK
<1>1. IInv => TypeOK
  BY DEF IInv
<1> QED BY <1>1, Invariance, PTL

\* What a commit changes, no other transaction has locked.
LEMMA CommitSparesLockedRows ==
    ASSUME IInv, NEW r \in Requests, Commit(r),
           NEW a \in Requests, applied'[a] = applied[a]
    PROVE  /\ \A s \in Sites :
                held[a][s] # "none" =>
                  /\ s \in live <=> s \in live'
                  /\ held[a][s] # "share" => (s \in edited <=> s \in edited')
           /\ \A k \in kids : held[a][k.id] # "none" => k \in kids'
<1> DEFINE op == call[r].op
           out == {x \in Rows : held[r][x] = "delete"}
<1>1. CASE op \in {"update_location", "add_warning"} /\ HeldSites(r) = {}
  BY <1>1 DEF Commit, Answered, dbVars
<1>2. CASE ~(op \in {"update_location", "add_warning"} /\ HeldSites(r) = {})
  <2>1. /\ live' = live \ out
        /\ edited' = edited \cup {s \in Sites : held[r][s] = "update"}
        /\ kids' = IF op = "add_warning"
                   THEN kids \cup {[id |-> r, loc |-> call[r].site]}
                   ELSE {k \in kids : k.id \notin out}
        /\ applied' = [applied EXCEPT ![r] = TRUE]
    BY <1>2 DEF Commit
  <2>2. a # r
    BY <2>1 DEF Commit, IInv, TypeOK, CommitsLast
  <2>3. \A x \in Rows : held[a][x] # "none" =>
          /\ held[r][x] # "delete"
          /\ held[r][x] = "update" => held[a][x] = "share"
    <3>1. SUFFICES ASSUME NEW x \in Rows, held[a][x] # "none"
                   PROVE  /\ held[r][x] # "delete"
                          /\ held[r][x] = "update" => held[a][x] = "share"
      OBVIOUS
    <3>2. held[a][x] \in Modes
      BY <3>1 DEF IInv, TypeOK
    <3>3. Compatible(held[r][x], held[a][x])
      BY <2>2 DEF IInv, Exclusive
    <3> QED BY <3>2, <3>3, WritesConflict
  <2>4. Sites \subseteq Rows /\ \A k \in kids : k.id \in Rows
    BY DEF IInv, TypeOK, Rows
  <2>5. ASSUME NEW s \in Sites, held[a][s] # "none"
        PROVE  /\ s \in live <=> s \in live'
               /\ held[a][s] # "share" => (s \in edited <=> s \in edited')
    BY <2>1, <2>3, <2>4, <2>5
  <2>6. ASSUME NEW k \in kids, held[a][k.id] # "none" PROVE k \in kids'
    BY <2>1, <2>3, <2>4, <2>6
  <2> QED BY <2>5, <2>6
<1> QED BY <1>1, <1>2

-----------------------------------------------------------------------------
(* What a transaction has locked and still will lock *)

OneRow(r) == IF call[r].op = "delete_warning" THEN call[r].kid ELSE call[r].site
Locked(r, x) == held[r][x] # "none"
Due(r, x) == x \in agenda[r] \/ Locked(r, x)

\* Each statement belongs to handlers of its kind, and between statements, before
\* the first and after the commit, nothing is locked.
Staged(r) ==
    /\ pc[r] \notin {"kids", "sites", "cascade"} =>
         held[r] = Unlocked /\ agenda[r] = {} /\ want[r] = None /\ line[r] = "none"
    /\ pc[r] = "read" => call[r].op \notin BulkOps
    /\ pc[r] = "gather" => call[r].op = "delete_location"
    /\ pc[r] = "bulk" => call[r].op \in BulkOps
    /\ pc[r] = "kids" => call[r].op \in {"delete_location", "delete_warning"}
    /\ pc[r] = "sites" => call[r].op # "delete_warning"
    /\ pc[r] = "cascade" => call[r].op \in DeletingOps
    /\ pc[r] = "refresh" => call[r].op \in {"update_location", "add_warning"}
    /\ pc[r] \in {"refresh", "answer"} => applied[r]
    /\ pc[r] = "idle" => ~applied[r]

\* The locks of a transaction are of its own kind and on rows that are there, and
\* the next ones are on rows of the table its statement is about; a kid that is to
\* be locked was committed before.  Nobody lines up for a row it has.
LocksOwn(r) ==
    /\ want[r] \in agenda[r] \cup {None}
    /\ line[r] # "none" => want[r] # None /\ ~Locked(r, want[r])
    /\ \A x \in Rows : held[r][x] \in {"none", Mode(r)}
    /\ \A x \in Rows : Locked(r, x) => Present(x)
    /\ pc[r] = "sites" => agenda[r] \subseteq Sites
    /\ pc[r] \in {"kids", "cascade"} =>
         agenda[r] \subseteq {x \in KidIds : x \in Requests => applied[x]}

\* A request about one row locks that row and no other, and having locked it
\* wants nothing more.
LocksOne(r) ==
    call[r].op \in OneRowOps =>
        \A x \in Rows :
            /\ x \in agenda[r] => x = OneRow(r)
            /\ Locked(r, x) => x = OneRow(r) /\ agenda[r] = {}

\* A deletion locks kids of the sites it deletes and, in the end, all of them.
LocksFamily(r) ==
    /\ call[r].op = "bulk_set_status" => \A x \in Rows : Locked(r, x) => x \in Sites
    /\ call[r].op \in DeletingOps /\ pc[r] \in {"kids", "sites"} =>
         \A k \in kids : Due(r, k.id) =>
            call[r].op = "delete_location" /\ k.loc = call[r].site
    /\ call[r].op = "delete_location" /\ pc[r] \in {"sites", "cascade"}
         /\ call[r].site \in live => Due(r, call[r].site)
    /\ pc[r] = "cascade" => \A k \in kids : Due(r, k.id) <=> k.loc \in HeldSites(r)

\* Kids have keys of their own and a site, and those of requests were committed.
KidsSound ==
    /\ \A k \in kids : k.loc \in live
    /\ \A j, k \in kids : j.id = k.id => j = k
    /\ \A k \in kids : k.id \in Requests => applied[k.id]

Holds(r) == Staged(r) /\ LocksOwn(r) /\ LocksOne(r) /\ LocksFamily(r)
LInv == IInv /\ KidsSound /\ \A r \in Requests : Holds(r)

-----------------------------------------------------------------------------
(* The steps of a request keep what it has locked in order *)

\* All that a request knows of itself.
Same(q) ==
    /\ pc'[q] = pc[q] /\ call'[q] = call[q] /\ agenda'[q] = agenda[q]
    /\ want'[q] = want[q] /\ line'[q] = line[q] /\ held'[q] = held[q]
    /\ applied'[q] = applied[q] /\ reply'[q] = reply[q]

Moves(r) ==
    \/ \E c \in Calls[r] : Accept(r, c)
    \/ Advance(r) \/ DeadlockVictim(r) \/ PoolTimeout(r)

\* A step of one request is no step of another.
LEMMA StepIsOwn ==
    ASSUME IInv, NEW r \in Requests, Moves(r), NEW q \in Requests \ {r}
    PROVE  Same(q)
<1>1. ASSUME NEW how, Answered(r, how) PROVE Same(q)
  BY <1>1 DEF IInv, TypeOK, Answered, Same
<1>2. ASSUME NEW stage, NEW S, Locks(r, stage, S), UNCHANGED <<call, reply, want, line, held, applied>>
      PROVE  Same(q)
  BY <1>2 DEF IInv, TypeOK, Locks, Same
<1>3. ASSUME NEW c, Accept(r, c) PROVE Same(q)
  BY <1>3 DEF IInv, TypeOK, Accept, Same
<1>4. CASE Read(r) \/ Gather(r) \/ Bulk(r) \/ NextStatement(r) \/ Refresh(r) \/ Answer(r)
           \/ DeadlockVictim(r) \/ PoolTimeout(r)
  BY <1>1, <1>2, <1>4 DEF Read, Gather, Bulk, NextStatement, Refresh, Answer,
                          DeadlockVictim, PoolTimeout
<1>5. CASE Turn(r) \/ LineUp(r) \/ MoveUp(r) \/ Grab(r)
  BY <1>5 DEF IInv, TypeOK, Turn, LineUp, MoveUp, Grab, Same
<1>6. CASE Commit(r)
  BY <1>1, <1>6 DEF IInv, TypeOK, Commit, Same
<1> QED BY <1>3, <1>4, <1>5, <1>6 DEF Moves, Advance

\* Only a commit changes the tables.
LEMMA OnlyCommitsWrite ==
    ASSUME NEW r \in Requests, Moves(r), ~Commit(r)
    PROVE  UNCHANGED <<dbVars, applied>>
<1>1. ASSUME NEW how, Answered(r, how) PROVE UNCHANGED <<dbVars, applied>>
  BY <1>1 DEF Answered
<1>2. CASE DeadlockVictim(r) \/ PoolTimeout(r) \/ Answer(r)
  BY <1>1, <1>2 DEF DeadlockVictim, PoolTimeout, Answer
<1>3. CASE Read(r) \/ Refresh(r)
  BY <1>1, <1>3 DEF Read, Refresh
<1> QED
  BY <1>2, <1>3 DEF Moves, Advance, Accept, Gather, Bulk, Turn, LineUp, MoveUp, Grab,
                          NextStatement

\* While the tables stay as they are, so does what another request holds.
LEMMA OthersHold ==
    ASSUME LInv, NEW q \in Requests, Same(q), UNCHANGED <<dbVars, applied>>
    PROVE  Holds(q)'
<1>1. Holds(q)
  BY DEF LInv
<1>2. Mode(q)' = Mode(q) /\ OneRow(q)' = OneRow(q) /\ HeldSites(q)' = HeldSites(q)
  BY DEF Same, Mode, OneRow, HeldSites
<1>3. \A x \in Rows : Present(x)' = Present(x)
  BY DEF dbVars, Present
<1>4. Staged(q)'
  BY <1>1 DEF Holds, Same, Staged
<1>5. LocksOwn(q)'
  BY <1>1, <1>2, <1>3 DEF Holds, Same, LocksOwn, Locked
<1>6. LocksOne(q)'
  BY <1>1, <1>2 DEF Holds, Same, LocksOne, Locked
<1>7. LocksFamily(q)'
  BY <1>1, <1>2 DEF Holds, Same, LocksFamily, Locked, Due, dbVars
<1> QED BY <1>4, <1>5, <1>6, <1>7 DEF Holds

\* A request without locks that is not in a statement holds nothing.
LEMMA NothingHeld ==
    ASSUME NEW r \in Requests, TypeOK',
           held'[r] = Unlocked, agenda'[r] = {}, want'[r] = None, line'[r] = "none",
           pc'[r] \notin {"kids", "sites", "cascade"},
           pc'[r] = "read" => call'[r].op \notin BulkOps,
           pc'[r] = "gather" => call'[r].op = "delete_location",
           pc'[r] = "bulk" => call'[r].op \in BulkOps,
           pc'[r] = "refresh" => call'[r].op \in {"update_location", "add_warning"},
           pc'[r] \in {"refresh", "answer"} => applied'[r],
           pc'[r] = "idle" => ~applied'[r]
    PROVE  Holds(r)'
<1>1. \A x \in Rows : ~Locked(r, x)'
  BY DEF Locked, Unlocked
<1>2. Staged(r)'
  BY DEF Staged
<1>3. LocksOwn(r)'
  BY <1>1 DEF LocksOwn, Locked
<1>4. LocksOne(r)' /\ LocksFamily(r)'
  BY <1>1 DEF LocksOne, LocksFamily
<1> QED BY <1>2, <1>3, <1>4 DEF Holds

LEMMA AcceptHolds ==
    ASSUME LInv, LInv => IInv', NEW r \in Requests, NEW c \in Calls[r], Accept(r, c)
    PROVE  Holds(r)'
<1>1. /\ pc[r] = "idle" /\ call'[r] = c /\ UNCHANGED <<agenda, want, line, held, applied>>
      /\ pc'[r] = IF c.op \in BulkOps THEN "bulk" ELSE "read"
  BY DEF Accept, LInv, IInv, TypeOK
<1>2. held[r] = Unlocked /\ agenda[r] = {} /\ want[r] = None /\ line[r] = "none"
  BY <1>1 DEF LInv, Holds, Staged
<1> QED BY <1>1, <1>2, NothingHeld DEF IInv, LInv

LEMMA AnsweredHolds ==
    ASSUME LInv, LInv => IInv', NEW r \in Requests, NEW how, Answered(r, how)
    PROVE  Holds(r)'
<1>1. /\ pc'[r] = "done" /\ held'[r] = Unlocked /\ agenda'[r] = {} /\ want'[r] = None
      /\ line'[r] = "none"
  BY DEF Answered, LInv, IInv, TypeOK
<1> QED BY <1>1, NothingHeld DEF IInv

\* The first statement of a transaction: nothing is locked so far.
LEMMA FirstStatementHolds ==
    ASSUME LInv, NEW r \in Requests, Read(r) \/ Gather(r) \/ Bulk(r), LInv => IInv'
    PROVE  Holds(r)'
<1> DEFINE c == call[r]
<1>1. pc[r] \in {"read", "gather", "bulk"} /\ pc[r] # "idle"
  BY DEF Read, Gather, Bulk
<1>2. /\ held[r] = Unlocked /\ want[r] = None /\ line[r] = "none" /\ Staged(r)
      /\ \A x \in Rows : ~Locked(r, x)
  BY <1>1 DEF LInv, Holds, Staged, Locked, Unlocked
<1>3. c \in Call /\ c.site \in Sites /\ c.kid \in Warnings /\ c.ids \subseteq Sites
  BY <1>1, StatementsLockRows DEF LInv, IInv, CallsKnown
<1>4. CASE Answered(r, "refused")
  BY <1>4, AnsweredHolds
<1>5. CASE ~Answered(r, "refused")
  <2>1. /\ UNCHANGED <<dbVars, call, want, line, held, applied>>
        /\ \/ pc[r] = "read" /\ c.op = "delete_location" /\ Locks(r, "gather", {})
           \/ pc[r] = "read" /\ c.op = "delete_warning" /\ Locks(r, "kids", {c.kid})
           \/ /\ c.op \in {"update_location", "add_warning"}
              /\ pc[r] = "read" /\ Locks(r, "sites", {c.site})
           \/ /\ c.op = "delete_location"
              /\ pc[r] = "gather" /\ Locks(r, "kids", KidsOf({c.site}))
           \/ /\ c.op \in BulkOps
              /\ pc[r] = "bulk" /\ Locks(r, "sites", c.ids \cap live)
    BY <1>2, <1>3, <1>5 DEF Read, Gather, Bulk, Staged, Call, BulkOps, OneRowOps, DeletingOps
  <2>2. PICK stage, S : Locks(r, stage, S) /\
          \/ stage = "gather" /\ c.op = "delete_location" /\ S = {}
          \/ stage = "kids" /\ c.op = "delete_warning" /\ S = {c.kid}
          \/ stage = "sites" /\ c.op \in {"update_location", "add_warning"} /\ S = {c.site}
          \/ stage = "kids" /\ c.op = "delete_location" /\ S = KidsOf({c.site})
          \/ stage = "sites" /\ c.op \in BulkOps /\ S = c.ids \cap live
    BY <2>1
  <2>3. /\ pc'[r] = stage /\ agenda'[r] = S /\ held'[r] = Unlocked /\ want'[r] = None
        /\ line'[r] = "none"
    BY <1>2, <2>1, <2>2 DEF Locks, LInv, IInv, TypeOK
  <2>4. \A x \in Rows : ~Locked(r, x)' /\ Mode(r)' = Mode(r)
    BY <2>1, <2>3 DEF Locked, Unlocked, Mode
  <2>5. Staged(r)'
    BY <2>1, <2>2, <2>3 DEF Staged, BulkOps, DeletingOps
  <2>6. \A k \in kids : k.id \in KidIds /\ (k.id \in Requests => applied[k.id])
    BY DEF LInv, IInv, TypeOK, KidsSound
  <2>7. LocksOwn(r)'
    <3>1. stage = "sites" => S \subseteq Sites
      BY <1>3, <2>2
    <3>2. stage \in {"kids", "cascade"} =>
            S \subseteq {x \in KidIds : x \in Requests => applied[x]}
      BY <1>3, <2>2, <2>6, LocksAssumption DEF KidsOf, KidIds
    <3> QED BY <2>1, <2>3, <2>4, <3>1, <3>2 DEF LocksOwn, Locked
  <2>8. LocksOne(r)'
    BY <2>1, <2>2, <2>3, <2>4 DEF LocksOne, OneRow, OneRowOps, BulkOps
  <2>9. LocksFamily(r)'
    <3>1. \A k \in kids' : ~Locked(r, k.id)'
      BY <2>1, <2>4, <2>6 DEF dbVars, Rows
    <3>2. ASSUME stage \in {"kids", "sites"}, c.op \in DeletingOps,
                 NEW k \in kids, k.id \in S
          PROVE  c.op = "delete_location" /\ k.loc = c.site
      <4>1. c.op = "delete_location" /\ S = KidsOf({c.site})
        BY <1>3, <2>2, <2>6, <3>2, LocksAssumption DEF BulkOps, DeletingOps
      <4> QED BY <3>2, <4>1 DEF KidsOf, LInv, KidsSound
    <3> HIDE DEF c
    <3>3. call' = call /\ kids' = kids
      BY <2>1 DEF dbVars
    <3>4. ASSUME call'[r].op \in DeletingOps, pc'[r] \in {"kids", "sites"},
                 NEW k \in kids', Due(r, k.id)'
          PROVE  call'[r].op = "delete_location" /\ k.loc = call'[r].site
      BY <2>3, <3>1, <3>2, <3>3, <3>4 DEF Due, c
    <3>5. pc'[r] # "cascade" /\ (call'[r].op = "delete_location" => pc'[r] # "sites")
      BY <2>2, <2>3, <3>3 DEF c, BulkOps
    <3> QED BY <2>4, <3>4, <3>5 DEF LocksFamily
  <2> QED BY <2>5, <2>7, <2>8, <2>9 DEF Holds
<1> QED BY <1>4, <1>5


LEMMA TurnHolds ==
    ASSUME LInv, NEW r \in Requests, Turn(r)
    PROVE  Holds(r)'
<1>1. PICK x \in agenda[r] : want' = [want EXCEPT ![r] = x]
  BY DEF Turn
<1>2. /\ want'[r] = x /\ Holds(r) /\ line[r] = "none"
      /\ UNCHANGED <<dbVars, pc, call, agenda, line, held, applied>>
  BY <1>1 DEF Turn, LInv, IInv, TypeOK, Holds, LocksOwn
<1>3. Staged(r)'
  BY <1>1, <1>2 DEF Holds, Staged
<1>4. LocksOwn(r)'
  <2>1. \A y \in Rows : Present(y)' = Present(y)
    BY <1>2 DEF dbVars, Present
  <2> QED BY <1>1, <1>2, <2>1 DEF Holds, LocksOwn, Locked, Mode
<1>5. LocksOne(r)' /\ LocksFamily(r)'
  BY <1>2 DEF Holds, LocksOne, LocksFamily, Locked, Due, OneRow, HeldSites, dbVars
<1> QED BY <1>3, <1>4, <1>5 DEF Holds

\* Who lines up does not have the row: its lock on it would be of the kind it asks
\* for, and nobody could hold a conflicting one.
LEMMA LineHolds ==
    ASSUME LInv, NEW r \in Requests, LineUp(r) \/ MoveUp(r)
    PROVE  Holds(r)'
<1>1. /\ Holds(r) /\ want[r] # None /\ want[r] \in Rows
      /\ UNCHANGED <<dbVars, pc, call, agenda, want, held, applied>>
  BY DEF LineUp, MoveUp, Holders, LInv, Holds, LocksOwn, IInv, TypeOK
<1>2. ~Locked(r, want[r])
  <2>1. CASE MoveUp(r)
    BY <2>1 DEF MoveUp, LInv, Holds, LocksOwn
  <2>2. CASE LineUp(r)
    <3>1. PICK b \in Requests \ {r} : ~Compatible(Mode(r), held[b][want[r]])
      BY <2>2 DEF LineUp, Holders
    <3>2. Compatible(held[r][want[r]], held[b][want[r]])
      BY <1>1 DEF LInv, IInv, Exclusive
    <3> QED BY <1>1, <3>1, <3>2 DEF Holds, LocksOwn, Locked
  <2> QED BY <2>1, <2>2
<1>3. Staged(r)'
  BY <1>1 DEF Holds, Staged, LocksOwn
<1>4. LocksOwn(r)'
  <2>1. \A y \in Rows : Present(y)' = Present(y)
    BY <1>1 DEF dbVars, Present
  <2> QED BY <1>1, <1>2, <2>1 DEF Holds, LocksOwn, Locked, Mode
<1>5. LocksOne(r)' /\ LocksFamily(r)'
  BY <1>1 DEF Holds, LocksOne, LocksFamily, Locked, Due, OneRow, HeldSites, dbVars
<1> QED BY <1>3, <1>4, <1>5 DEF Holds

\* What is granted was due, and stays due if the row is still there.
LEMMA GrabHolds ==
    ASSUME LInv, NEW r \in Requests, Grab(r)
    PROVE  Holds(r)'
<1> DEFINE x == want[r]
<1>1. x \in agenda[r] /\ x \in Rows /\ Holds(r)
  BY DEF Grab, LInv, Holds, LocksOwn, IInv, TypeOK
<1>2. /\ agenda'[r] = agenda[r] \ {x} /\ want'[r] = None /\ line'[r] = "none"
      /\ UNCHANGED <<dbVars, pc, call, applied>>
  BY DEF Grab, LInv, IInv, TypeOK
<1>3. /\ Mode(r)' = Mode(r) /\ Mode(r) # "none" /\ OneRow(r)' = OneRow(r)
      /\ \A y : Present(y)' = Present(y)
  BY <1>2 DEF Mode, OneRow, Present, dbVars
<1>4. \A y \in Rows : held'[r][y] = IF y = x /\ Present(x) THEN Mode(r) ELSE held[r][y]
  BY <1>1 DEF Grab, LInv, IInv, TypeOK
<1>5. \A y \in Rows : Locked(r, y)' <=> Locked(r, y) \/ (y = x /\ Present(x))
  BY <1>3, <1>4 DEF Locked
<1>6. \A y \in Rows : /\ Due(r, y)' => Due(r, y)
                      /\ Due(r, y) /\ (y = x => Present(x)) => Due(r, y)'
  BY <1>1, <1>2, <1>5 DEF Due
<1>7. pc[r] \in {"kids", "sites", "cascade"}
  BY <1>1 DEF Holds, Staged
<1> HIDE DEF x
<1>8. Staged(r)'
  BY <1>1, <1>2, <1>7 DEF Holds, Staged
<1>9. LocksOwn(r)'
  BY <1>1, <1>2, <1>3, <1>4, <1>5 DEF Holds, LocksOwn
<1>10. LocksOne(r)'
  <2>1. ASSUME NEW y \in Rows, call[r].op \in OneRowOps
        PROVE  /\ y \in agenda'[r] => y = OneRow(r)
               /\ (y = x /\ Present(x)) \/ Locked(r, y) => y = OneRow(r) /\ agenda'[r] = {}
    <3>1. agenda[r] \subseteq Rows
      BY DEF LInv, IInv, TypeOK
    <3>2. x = OneRow(r) /\ agenda[r] \subseteq {x}
      BY <1>1, <2>1, <3>1 DEF Holds, LocksOne
    <3> QED BY <1>1, <1>2, <2>1, <3>2 DEF Holds, LocksOne
  <2> QED BY <1>2, <1>3, <1>5, <2>1 DEF LocksOne, Locked
<1>11. LocksFamily(r)'
  <2>1. call[r].op = "bulk_set_status" => x \in Sites
    BY <1>1, <1>7 DEF Holds, Staged, LocksOwn, DeletingOps
  <2>2. \A k \in kids : k.id \in Rows /\ Present(k.id)
    BY DEF LInv, IInv, TypeOK, Rows, Present
  <2>3. call[r].site \in live => Present(call[r].site) /\ call[r].site \in Rows
    BY DEF LInv, IInv, TypeOK, Rows, Present
  <2>4. ASSUME pc[r] = "cascade" PROVE HeldSites(r)' = HeldSites(r)
    <3>1. x \notin Sites
      BY <1>1, <2>4, LocksAssumption DEF Holds, LocksOwn
    <3> QED BY <1>5, <3>1 DEF HeldSites, Locked, Rows
  <2>5. \A k \in kids : Due(r, k.id)' <=> Due(r, k.id)
    BY <1>6, <2>2 DEF Due, Locked
  <2>6. call[r].site \in live /\ Due(r, call[r].site) => Due(r, call[r].site)'
    BY <1>2, <1>6, <2>3 DEF Due, Locked
  <2>7. call' = call /\ pc' = pc /\ kids' = kids /\ live' = live
    BY <1>2 DEF dbVars
  <2>8. LocksFamily(r)
    BY <1>1 DEF Holds
  <2> QED
    <3>1. call[r].op = "bulk_set_status" => \A y \in Rows : Locked(r, y)' => y \in Sites
      BY <1>5, <2>1, <2>8 DEF LocksFamily
    <3> QED BY <2>4, <2>5, <2>6, <2>7, <2>8, <3>1 DEF LocksFamily, Due, Locked
<1> QED BY <1>8, <1>9, <1>10, <1>11 DEF Holds

\* After the kids a deletion locks its sites, and then the kids of those.
LEMMA NextStatementHolds ==
    ASSUME LInv, NEW r \in Requests, NextStatement(r)
    PROVE  Holds(r)'
<1> DEFINE c == call[r]
<1>1. /\ Holds(r) /\ agenda[r] = {} /\ want[r] = None /\ line[r] = "none"
      /\ pc[r] \in {"kids", "sites"} /\ pc[r] # "idle"
      /\ UNCHANGED <<dbVars, call, want, line, held, applied>>
  BY DEF NextStatement, StatementDone, LInv, Holds, LocksOwn
<1>2. PICK stage, S : /\ Locks(r, stage, S)
                      /\ \/ /\ stage = "sites" /\ S = {c.site} \cap live
                            /\ pc[r] = "kids" /\ c.op = "delete_location"
                         \/ /\ stage = "cascade" /\ S = KidsOf(HeldSites(r))
                            /\ pc[r] = "sites" /\ c.op \in DeletingOps
  BY DEF NextStatement, Follows
<1>3. pc'[r] = stage /\ agenda'[r] = S /\ call' = call /\ live' = live /\ kids' = kids
  BY <1>1, <1>2 DEF Locks, LInv, IInv, TypeOK, dbVars
<1>4. c.op \in DeletingOps /\ c.op \notin OneRowOps /\ c.op # "bulk_set_status"
  BY <1>2 DEF DeletingOps, OneRowOps
<1>5. \A y \in Rows : (Locked(r, y)' <=> Locked(r, y)) /\ (Due(r, y) <=> Locked(r, y))
  BY <1>1 DEF Locked, Due
<1>6. \A k \in kids : k.id \in KidIds /\ k.id \in Rows /\ k.loc \in live
                      /\ (k.id \in Requests => applied[k.id])
  BY DEF LInv, IInv, TypeOK, KidsSound, Rows
<1>7. Staged(r)'
  BY <1>1, <1>2, <1>3, <1>4 DEF Holds, Staged
<1>8. LocksOwn(r)'
  <2>1. \A y \in Rows : Present(y)' = Present(y)
    BY <1>1 DEF dbVars, Present
  <2>2. stage = "sites" => S \subseteq Sites
    BY <1>2 DEF LInv, IInv, TypeOK
  <2>3. stage = "cascade" => S \subseteq {x \in KidIds : x \in Requests => applied[x]}
    BY <1>2, <1>6 DEF KidsOf
  <2> QED BY <1>1, <1>2, <1>3, <2>1, <2>2, <2>3 DEF Holds, LocksOwn, Locked, Mode
<1>9. LocksOne(r)'
  BY <1>3, <1>4 DEF LocksOne
<1>10. LocksFamily(r)'
  <2>1. ASSUME NEW k \in kids, Due(r, k.id)
        PROVE  c.op = "delete_location" /\ k.loc = c.site
    BY <1>1, <1>4, <2>1 DEF Holds, LocksFamily
  <2>2. ASSUME stage = "cascade", c.op = "delete_location", c.site \in live
        PROVE  Locked(r, c.site) /\ c.site \in HeldSites(r)
    <3>1. c.site \in Sites /\ c.site \in Rows
      BY <2>2 DEF LInv, IInv, TypeOK, Rows
    <3>2. Due(r, c.site)
      BY <1>1, <1>2, <2>2 DEF Holds, LocksFamily
    <3> QED BY <1>5, <3>1, <3>2 DEF HeldSites, Locked
  <2>3. ASSUME NEW k \in kids, stage = "cascade" PROVE Due(r, k.id)' <=> k.loc \in HeldSites(r)
    <3>1. k.id \in S <=> k.loc \in HeldSites(r)
      BY <1>2, <2>3 DEF KidsOf, LInv, KidsSound
    <3>2. Locked(r, k.id) => k.loc \in HeldSites(r)
      BY <1>5, <1>6, <2>1, <2>2, <2>3
    <3> QED BY <1>3, <1>5, <1>6, <3>1, <3>2 DEF Due
  <2>4. ASSUME NEW k \in kids, stage = "sites", Due(r, k.id)'
        PROVE  c.op = "delete_location" /\ k.loc = c.site
    <3>1. k.id \notin S
      BY <1>2, <1>6, <2>4, LocksAssumption DEF LInv, IInv, TypeOK
    <3> QED BY <1>3, <1>5, <1>6, <2>1, <2>4, <3>1 DEF Due
  <2>5. ASSUME c.op = "delete_location", c.site \in live PROVE Due(r, c.site)'
    <3>1. CASE stage = "sites"
      BY <1>2, <1>3, <2>5, <3>1 DEF Due
    <3>2. CASE stage = "cascade"
      BY <1>1, <2>2, <2>5, <3>2 DEF Due, Locked
    <3> QED BY <1>2, <3>1, <3>2
  <2>6. HeldSites(r)' = HeldSites(r)
    BY <1>1 DEF HeldSites
  <2>7. stage \in {"sites", "cascade"}
    BY <1>2
  <2>8. call'[r] = call[r] /\ call'[r].op # "bulk_set_status"
    BY <1>3, <1>4
  <2>9. \A k \in kids : pc'[r] = "cascade" => (Due(r, k.id)' <=> k.loc \in HeldSites(r)')
    BY <1>3, <2>3, <2>6
  <2>10. \A k \in kids : pc'[r] \in {"kids", "sites"} /\ Due(r, k.id)' =>
           call'[r].op = "delete_location" /\ k.loc = call'[r].site
    BY <1>3, <2>4, <2>7, <2>8
  <2> QED
    BY <1>3, <2>5, <2>8, <2>9, <2>10 DEF LocksFamily, Due, Locked
<1> QED BY <1>7, <1>8, <1>9, <1>10 DEF Holds

LEMMA RefreshHolds ==
    ASSUME LInv, LInv => IInv', NEW r \in Requests, Refresh(r)
    PROVE  Holds(r)'
<1>1. CASE Answered(r, "error")
  BY <1>1, AnsweredHolds
<1>2. CASE Locks(r, "answer", {}) /\ UNCHANGED <<call, want, line, held, applied>>
  <2>1. pc'[r] = "answer" /\ agenda'[r] = {}
    BY <1>2 DEF Locks, LInv, IInv, TypeOK
  <2>2. held[r] = Unlocked /\ want[r] = None /\ line[r] = "none" /\ applied[r]
    BY DEF Refresh, LInv, Holds, Staged
  <2> QED BY <1>2, <2>1, <2>2, NothingHeld DEF IInv, LInv
<1> QED BY <1>1, <1>2 DEF Refresh

-----------------------------------------------------------------------------
(* What a commit does to the tables *)

\* What a transaction locked for a deletion.
Out(r) == {x \in Rows : held[r][x] = "delete"}

Updates(r) ==
    /\ edited' = edited \cup HeldSites(r) /\ HeldSites(r) \subseteq live
    /\ UNCHANGED <<live, kids>>
Attaches(r) ==
    /\ call[r].op = "add_warning" /\ call[r].site \in live
    /\ held[r][call[r].site] = "share"
    /\ kids' = kids \cup {[id |-> r, loc |-> call[r].site]}
    /\ UNCHANGED <<live, edited>>
Detaches ==
    /\ \/ \E j \in kids : kids' = {k \in kids : k.id # j.id}
       \/ kids' = kids
    /\ UNCHANGED <<live, edited>>
Removes ==
    /\ live' \subseteq live
    /\ kids' = {k \in kids : k.loc \in live'}
    /\ UNCHANGED edited

\* A commit that succeeds updates the sites it locked, attaches a kid to a site that
\* is there, takes away the kid it locked, or removes sites with all their kids.
LEMMA CommitEffects ==
    ASSUME LInv, NEW r \in Requests, Commit(r)
    PROVE  \/ Answered(r, "error") /\ call[r].op \in {"update_location", "add_warning"}
           \/ /\ Updates(r) \/ Attaches(r) \/ Detaches \/ Removes
              /\ applied' = [applied EXCEPT ![r] = TRUE]
              /\ held'[r] = Unlocked /\ agenda'[r] = {} /\ want'[r] = None
              /\ line'[r] = "none"
              /\ call' = call /\ reply' = reply
              /\ pc'[r] = IF call[r].op \in {"update_location", "add_warning"}
                          THEN "refresh" ELSE "answer"
<1> DEFINE c == call[r]
<1>1. CASE c.op \in {"update_location", "add_warning"} /\ HeldSites(r) = {}
  BY <1>1 DEF Commit
<1>2. CASE ~(c.op \in {"update_location", "add_warning"} /\ HeldSites(r) = {})
  <2>1. /\ live' = live \ Out(r)
        /\ edited' = edited \cup {s \in Sites : held[r][s] = "update"}
        /\ kids' = IF c.op = "add_warning"
                   THEN kids \cup {[id |-> r, loc |-> c.site]}
                   ELSE {k \in kids : k.id \notin Out(r)}
        /\ applied' = [applied EXCEPT ![r] = TRUE]
        /\ held'[r] = Unlocked
        /\ UNCHANGED <<call, reply, agenda, want, line>>
        /\ pc'[r] = IF c.op \in {"update_location", "add_warning"}
                    THEN "refresh" ELSE "answer"
    BY <1>2 DEF Commit, Out, LInv, IInv, TypeOK
  <2>2. /\ Holds(r) /\ agenda[r] = {} /\ want[r] = None /\ line[r] = "none"
        /\ Follows(r) = "commit"
        /\ pc[r] \in {"kids", "sites", "cascade"} /\ pc[r] # "idle"
    BY DEF Commit, StatementDone, LInv, Holds, LocksOwn
  <2>3. c \in Call /\ c.site \in Sites /\ c.kid \in Warnings
    BY <2>2, StatementsLockRows DEF LInv, IInv, CallsKnown
  <2>4. \A x \in Rows : held[r][x] \in {"none", Mode(r)} /\ (Locked(r, x) => Present(x))
    BY <2>2 DEF Holds, LocksOwn
  <2>5. live \subseteq Sites /\ Sites \subseteq Rows /\ \A k \in kids : k.id \in KidIds /\ k.id \in Rows
    BY DEF LInv, IInv, TypeOK, Rows
  <2>6. \A s \in HeldSites(r) : s \in live
    BY <2>4, <2>5, LocksAssumption DEF HeldSites, Locked, Present
  <2>7. CASE c.op \in {"update_location", "bulk_set_status"}
    <3>1. Mode(r) = "update" /\ Out(r) = {}
      BY <2>4, <2>7 DEF Mode, Out
    <3>2. {s \in Sites : held[r][s] = "update"} = HeldSites(r)
      BY <2>4, <2>5, <3>1 DEF HeldSites
    <3> QED BY <2>1, <2>6, <2>7, <2>2, <3>1, <3>2 DEF Updates
  <2>8. CASE c.op = "add_warning"
    <3>1. Mode(r) = "share" /\ Out(r) = {} /\ {s \in Sites : held[r][s] = "update"} = {}
      BY <2>4, <2>5, <2>8 DEF Mode, Out
    <3>2. PICK s \in HeldSites(r) : TRUE
      BY <1>2, <2>8
    <3>3. s = c.site
      BY <2>2, <2>5, <2>8, <3>2 DEF Holds, LocksOne, OneRow, OneRowOps, HeldSites, Locked
    <3> QED BY <2>1, <2>2, <2>4, <2>5, <2>6, <2>8, <3>1, <3>2, <3>3 DEF Attaches, HeldSites
  <2>9. CASE c.op = "delete_warning"
    <3>1. \A x \in Out(r) : x = c.kid /\ Present(x)
      BY <2>2, <2>4, <2>9 DEF Holds, LocksOne, OneRow, OneRowOps, Out, Locked
    <3>2. c.kid \notin live
      BY <2>3, <2>5, LocksAssumption DEF KidIds
    <3>3. live' = live /\ edited' = edited
      <4>1. {s \in Sites : held[r][s] = "update"} = {}
        BY <2>4, <2>5, <2>9 DEF Mode
      <4> QED BY <2>1, <3>1, <3>2, <4>1
    <3>4. CASE c.kid \in Out(r)
      <4>1. PICK j \in kids : j.id = c.kid
        BY <3>1, <3>2, <3>4 DEF Present
      <4>2. kids' = {k \in kids : k.id # j.id}
        BY <2>1, <2>9, <3>1, <3>4, <4>1
      <4> QED BY <2>1, <2>2, <3>3, <4>2 DEF Detaches
    <3>5. CASE c.kid \notin Out(r)
      BY <2>1, <2>2, <2>9, <3>1, <3>3, <3>5 DEF Detaches
    <3> QED BY <3>4, <3>5
  <2>10. CASE c.op \in DeletingOps
    <3>1. pc[r] = "cascade" /\ Mode(r) = "delete" /\ c.op # "add_warning"
      BY <2>2, <2>10 DEF Follows, Holds, Staged, DeletingOps, Mode
    <3>2. \A k \in kids : k.id \in Out(r) <=> k.loc \in HeldSites(r)
      <4>1. \A k \in kids : Due(r, k.id) <=> k.loc \in HeldSites(r)
        BY <2>2, <3>1 DEF Holds, LocksFamily
      <4>2. \A k \in kids : k.id \in Out(r) <=> Due(r, k.id)
        BY <2>2, <2>4, <2>5, <3>1 DEF Due, Locked, Out
      <4> QED BY <4>1, <4>2
    <3>3. \A s \in Sites : s \in Out(r) <=> s \in HeldSites(r)
      BY <2>4, <2>5, <3>1 DEF HeldSites, Out
    <3>4. \A k \in kids : k.loc \in live /\ k.loc \in Sites
      BY DEF LInv, KidsSound, IInv, TypeOK
    <3>5. kids' = {k \in kids : k.loc \in live'}
      BY <2>1, <3>1, <3>2, <3>3, <3>4
    <3>6. edited' = edited /\ live' \subseteq live
      BY <2>1, <2>4, <2>5, <3>1
    <3> QED BY <2>1, <2>2, <3>5, <3>6 DEF Removes
  <2> QED BY <2>3, <2>7, <2>8, <2>9, <2>10 DEF Call, OneRowOps, BulkOps, DeletingOps
<1> QED BY <1>1, <1>2

\* No commit leaves a kid without its site.
LEMMA KidsStaySound ==
    ASSUME LInv, NEW r \in Requests, Moves(r)
    PROVE  KidsSound'
<1>1. CASE UNCHANGED <<dbVars, applied>>
  BY <1>1 DEF LInv, KidsSound, dbVars
<1>2. CASE Commit(r) /\ applied' = [applied EXCEPT ![r] = TRUE]
  <2>1. \A q \in Requests : applied[q] => applied'[q]
    BY <1>2 DEF LInv, IInv, TypeOK
  <2>2. KidsSound /\ ~applied[r] /\ applied'[r]
    BY <1>2 DEF Commit, LInv, IInv, TypeOK, CommitsLast
  <2>3. CASE Updates(r) \/ Detaches \/ Removes
    BY <2>1, <2>2, <2>3 DEF Updates, Detaches, Removes, KidsSound
  <2>4. CASE Attaches(r)
    BY <2>1, <2>2, <2>4 DEF Attaches, KidsSound
  <2>5. CASE Answered(r, "error")
    BY <2>2, <2>5 DEF Answered
  <2> QED BY <1>2, <2>3, <2>4, <2>5, CommitEffects
<1>3. CASE Commit(r) /\ Answered(r, "error")
  BY <1>1, <1>3 DEF Answered
<1> QED BY <1>1, <1>2, <1>3, CommitEffects, OnlyCommitsWrite

\* A commit leaves alone what another transaction locked and will lock.
LEMMA OthersHoldAtCommit ==
    ASSUME LInv, NEW r \in Requests, Commit(r), NEW q \in Requests \ {r}, Same(q)
    PROVE  Holds(q)'
<1>1. CASE Answered(r, "error")
  BY <1>1, OthersHold DEF Answered
<1>2. CASE applied' = [applied EXCEPT ![r] = TRUE] /\ ~Answered(r, "error")
  <2>1. Holds(q) /\ ~applied[r] /\ (\A p \in Requests : applied[p] => applied'[p])
    BY <1>2 DEF Commit, LInv, IInv, TypeOK, CommitsLast
  <2>2. /\ Mode(q)' = Mode(q) /\ OneRow(q)' = OneRow(q) /\ HeldSites(q)' = HeldSites(q)
        /\ \A x : Locked(q, x)' = Locked(q, x) /\ Due(q, x)' = Due(q, x)
    BY DEF Same, Mode, OneRow, HeldSites, Locked, Due
  <2>3. /\ \A s \in Sites : Locked(q, s) => (s \in live <=> s \in live')
        /\ \A k \in kids : Locked(q, k.id) => k \in kids'
    BY CommitSparesLockedRows DEF Same, LInv, Locked
  <2>4. \A x \in Rows : Locked(q, x) => Present(x)'
    <3>1. SUFFICES ASSUME NEW x \in Rows, Locked(q, x) PROVE Present(x)'
      OBVIOUS
    <3>2. Present(x)
      BY <2>1, <3>1 DEF Holds, LocksOwn
    <3> QED BY <2>3, <3>1, <3>2 DEF Present, LInv, IInv, TypeOK
  <2>5. live' \subseteq live /\ \A k \in kids' \ kids : k = [id |-> r, loc |-> call[r].site]
                                                         /\ Attaches(r)
    BY <1>2, CommitEffects DEF Updates, Attaches, Detaches, Removes
  <2>6. ~Present(r) /\ r \in Rows /\ r \in KidIds /\ r \notin Sites
    BY <2>1, LocksAssumption DEF Present, Rows, KidIds, LInv, IInv, TypeOK, KidsSound
  <2>7. ~Locked(q, r)
    BY <2>1, <2>6 DEF Holds, LocksOwn
  <2>8. pc[q] \in {"kids", "sites", "cascade"} => ~Due(q, r)
    BY <2>1, <2>6, <2>7 DEF Due, Holds, LocksOwn
  <2>9. ASSUME NEW k \in kids' \ kids, pc[q] = "cascade" PROVE k.loc \notin HeldSites(q)
    <3>1. k.loc = call[r].site /\ held[r][k.loc] = "share" /\ k.loc \in Rows
      BY <2>5, <2>9 DEF Attaches, LInv, IInv, TypeOK, Rows
    <3>2. Mode(q) = "delete"
      BY <2>1, <2>9 DEF Holds, Staged, Mode, DeletingOps
    <3>3. held[q][k.loc] # "delete"
      BY <3>1 DEF LInv, IInv, Exclusive, Compatible
    <3> QED BY <2>1, <3>1, <3>2, <3>3 DEF Holds, LocksOwn, HeldSites
  <2>10. Staged(q)'
    BY <2>1 DEF Holds, Same, Staged
  <2>11. LocksOwn(q)'
    BY <2>1, <2>2, <2>4 DEF Holds, Same, LocksOwn, Locked
  <2>12. LocksOne(q)'
    BY <2>1, <2>2 DEF Holds, Same, LocksOne, Locked
  <2>13. LocksFamily(q)'
    <3>1. LocksFamily(q) /\ call'[q] = call[q] /\ pc'[q] = pc[q]
      BY <2>1 DEF Holds, Same
    <3>2. \A k \in kids' : pc[q] \in {"kids", "sites", "cascade"} /\ Due(q, k.id) => k \in kids
      BY <2>5, <2>8
    <3>3. \A k \in kids' : pc[q] = "cascade" => (Due(q, k.id) <=> k.loc \in HeldSites(q))
      BY <2>9, <3>1, <3>2 DEF LocksFamily
    <3>4. \A k \in kids' : call[q].op \in DeletingOps /\ pc[q] \in {"kids", "sites"}
            /\ Due(q, k.id) => call[q].op = "delete_location" /\ k.loc = call[q].site
      BY <3>1, <3>2 DEF LocksFamily
    <3> QED BY <2>2, <2>5, <3>1, <3>3, <3>4 DEF LocksFamily, Due, Locked, Same
  <2> QED BY <2>10, <2>11, <2>12, <2>13 DEF Holds
<1> QED BY <1>1, <1>2, CommitEffects

\* Every request keeps its locks in order.
LEMMA LocksStep == LInv /\ [Next]_vars => LInv'
<1> SUFFICES ASSUME LInv, [Next]_vars PROVE LInv'
  OBVIOUS
<1>1. IInv'
  BY Step DEF LInv
<1>2. CASE UNCHANGED vars
  <2>1. ASSUME NEW q \in Requests PROVE Holds(q)'
    BY <1>2, OthersHold DEF vars, Same, dbVars
  <2>2. KidsSound'
    BY <1>2 DEF vars, dbVars, LInv, KidsSound
  <2> QED BY <1>1, <2>1, <2>2 DEF LInv
<1>3. ASSUME NEW r \in Requests, Moves(r) PROVE LInv'
  <2>1. KidsSound'
    BY <1>3, KidsStaySound
  <2>2. ASSUME NEW q \in Requests \ {r} PROVE Holds(q)'
    <3>1. Same(q)
      BY <1>3, StepIsOwn DEF LInv
    <3> QED BY <1>3, <3>1, OthersHold, OthersHoldAtCommit, OnlyCommitsWrite
  <2>3. Holds(r)'
    <3>1. CASE \E c \in Calls[r] : Accept(r, c)
      BY <1>1, <3>1, AcceptHolds
    <3>2. CASE Read(r) \/ Gather(r) \/ Bulk(r)
      BY <1>1, <3>2, FirstStatementHolds
    <3>3. CASE Turn(r) \/ LineUp(r) \/ MoveUp(r) \/ Grab(r) \/ NextStatement(r) \/ Refresh(r)
      BY <1>1, <3>3, TurnHolds, LineHolds, GrabHolds, NextStatementHolds, RefreshHolds
    <3>4. CASE Commit(r)
      <4>1. CASE Answered(r, "error")
        BY <1>1, <4>1, AnsweredHolds
      <4>2. CASE ~Answered(r, "error")
        <5>1. /\ held'[r] = Unlocked /\ agenda'[r] = {} /\ want'[r] = None /\ line'[r] = "none"
              /\ applied'[r] /\ call' = call
              /\ pc'[r] = IF call[r].op \in {"update_location", "add_warning"}
                          THEN "refresh" ELSE "answer"
          BY <3>4, <4>2, CommitEffects DEF LInv, IInv, TypeOK
        <5> QED BY <1>1, <5>1, NothingHeld DEF IInv
      <4> QED BY <4>1, <4>2
    <3>5. CASE Answer(r) \/ DeadlockVictim(r) \/ PoolTimeout(r)
      BY <1>1, <3>5, AnsweredHolds DEF Answer, DeadlockVictim, PoolTimeout
    <3> QED BY <1>3, <3>1, <3>2, <3>3, <3>4, <3>5 DEF Moves, Advance
  <2> QED BY <1>1, <2>1, <2>2, <2>3 DEF LInv
<1>4. ASSUME NEW o \in Readers, ReaderEnds(o) PROVE LInv'
  <2>1. ASSUME NEW q \in Requests PROVE Holds(q)'
    BY <1>4, OthersHold DEF ReaderEnds, Same, dbVars
  <2>2. KidsSound'
    BY <1>4 DEF ReaderEnds, dbVars, LInv, KidsSound
  <2> QED BY <1>1, <2>1, <2>2 DEF LInv
<1> QED BY <1>2, <1>3, <1>4 DEF Next, Moves, Finished

LEMMA LocksStart == Init => LInv
<1> SUFFICES ASSUME Init PROVE LInv
  OBVIOUS
<1>1. KidsSound
  BY LocksAssumption DEF Init, KidsSound
<1>2. ASSUME NEW r \in Requests PROVE Holds(r)
  <2>1. \A x \in Rows : ~Locked(r, x)
    BY DEF Init, Locked, Unlocked
  <2>2. LocksOwn(r) /\ Staged(r)
    BY <2>1 DEF Init, Staged, LocksOwn, Locked
  <2>3. LocksOne(r) /\ LocksFamily(r)
    BY <2>1 DEF Init, LocksOne, LocksFamily
  <2> QED BY <2>2, <2>3 DEF Holds
<1> QED BY <1>1, <1>2, Start DEF LInv

LEMMA LocksInvariance == Spec => []LInv
<1>1. Init => LInv
  BY LocksStart
<1>2. LInv /\ [Next]_vars => LInv'
  BY LocksStep
<1> QED BY <1>1, <1>2, PTL DEF Spec

-----------------------------------------------------------------------------
(* Cycles of waits *)

\* In a cycle every request waits for one that is in a cycle.
LEMMA CyclesGoOn ==
    ASSUME NEW r \in Requests, InCycle(r)
    PROVE  \E s \in Blockers(r) : s \in Requests /\ InCycle(s)
<1>1. PICK n \in 1..Cardinality(Requests) : \E path \in [0..n -> Requests] :
             /\ path[0] = r /\ path[n] = r
             /\ \A i \in 0..(n - 1) : path[i + 1] \in Blockers(path[i])
  BY DEF InCycle, WaitsForItself
<1>2. PICK path \in [0..n -> Requests] :
             /\ path[0] = r /\ path[n] = r
             /\ \A i \in 0..(n - 1) : path[i + 1] \in Blockers(path[i])
  BY <1>1
<1>3. n \in Int /\ 1 <= n
  BY <1>1
<1> DEFINE s == path[1]
           turned == [i \in 0..n |-> IF i = n THEN s ELSE path[i + 1]]
<1>4. s \in Blockers(r) /\ s \in Requests
  <2>1. 0 \in 0..(n - 1) /\ 1 \in 0..n
    BY <1>3
  <2> QED BY <1>2, <2>1
<1>5. turned \in [0..n -> Requests]
  <2>1. ASSUME NEW i \in 0..n, i # n PROVE i + 1 \in 0..n
    BY <1>3, <2>1
  <2> QED BY <1>2, <1>4, <2>1
<1>6. turned[0] = s /\ turned[n] = s
  <2>1. 0 \in 0..n /\ n \in 0..n /\ 0 # n
    BY <1>3
  <2> QED BY <2>1
<1>7. ASSUME NEW i \in 0..(n - 1) PROVE turned[i + 1] \in Blockers(turned[i])
  <2>1. i \in 0..n /\ i + 1 \in 0..n /\ i # n
    BY <1>3
  <2>2. turned[i] = path[i + 1]
    BY <2>1
  <2>3. CASE i + 1 = n
    BY <1>2, <1>4, <2>1, <2>2, <2>3
  <2>4. CASE i + 1 # n
    <3>1. i + 1 \in 0..(n - 1) /\ turned[i + 1] = path[(i + 1) + 1]
      BY <1>3, <2>1, <2>4
    <3> QED BY <1>2, <2>2, <3>1
  <2> QED BY <2>3, <2>4
<1> HIDE DEF turned
<1>8. Blockers(s) # {}
  <2>1. 0 \in 0..(n - 1)
    BY <1>3
  <2> QED BY <1>6, <1>7, <2>1
<1>9. WaitsForItself(s)
  BY <1>1, <1>5, <1>6, <1>7 DEF WaitsForItself
<1> QED BY <1>4, <1>8, <1>9 DEF InCycle

\* Whom the first in line waits for has the row, and whom the others wait for is the
\* first in line.
LEMMA WaitsInLine ==
    ASSUME LInv, NEW r \in Requests, NEW s \in Blockers(r)
    PROVE  /\ s \in Requests \ {r} /\ line[r] \in {"front", "behind"}
           /\ want[r] \in agenda[r] /\ ~Locked(r, want[r])
           /\ line[r] = "front" => Locked(s, want[r])
           /\ line[r] = "behind" => line[s] = "front" /\ want[s] = want[r]
<1>1. line[r] \in {"front", "behind"}
  BY DEF Blockers, LInv, IInv, TypeOK
<1>2. want[r] # None /\ want[r] \in agenda[r] /\ ~Locked(r, want[r])
  BY <1>1 DEF LInv, Holds, LocksOwn
<1>3. CASE line[r] = "front"
  <2>1. s \in Requests \ {r} /\ ~Compatible(Mode(r), held[s][want[r]])
    BY <1>3 DEF Blockers, Holders
  <2> QED BY <1>2, <1>3, <2>1, CompatibleBothWays DEF Locked
<1>4. CASE line[r] = "behind"
  BY <1>2, <1>4 DEF Blockers, FirstInLine
<1> QED BY <1>1, <1>3, <1>4

\* Who has a row and waits for another is not a request about one row.
LEMMA HoldersInCycles ==
    ASSUME LInv, NEW s \in Requests, InCycle(s), NEW x \in Rows, Locked(s, x)
    PROVE  call[s].op \notin OneRowOps
<1>1. PICK t \in Blockers(s) : TRUE
  BY DEF InCycle
<1>2. want[s] \in agenda[s]
  BY <1>1, WaitsInLine
<1> QED BY <1>2 DEF LInv, Holds, LocksOne

\* Somebody in a cycle has the row that a request of a cycle wants: the next in the
\* cycle, or the one after, for whom the first in line waits.
LEMMA HolderAhead ==
    ASSUME LInv, NEW r \in Requests, InCycle(r)
    PROVE  \E a \in Requests : /\ InCycle(a) /\ call[a].op \notin OneRowOps
                               /\ Locked(a, want[r])
<1>1. PICK s \in Blockers(r) : s \in Requests /\ InCycle(s)
  BY CyclesGoOn
<1>2. /\ line[r] \in {"front", "behind"} /\ want[r] \in agenda[r]
      /\ line[r] = "front" => Locked(s, want[r])
      /\ line[r] = "behind" => line[s] = "front" /\ want[s] = want[r]
  BY <1>1, WaitsInLine
<1>3. want[r] \in Rows
  BY <1>2 DEF LInv, IInv, TypeOK
<1>4. CASE line[r] = "front"
  BY <1>1, <1>2, <1>3, <1>4, HoldersInCycles
<1>5. CASE line[r] = "behind"
  <2>1. PICK t \in Blockers(s) : t \in Requests /\ InCycle(t)
    BY <1>1, CyclesGoOn
  <2>2. Locked(t, want[r])
    BY <1>1, <1>2, <1>5, <2>1, WaitsInLine
  <2> QED BY <1>3, <2>1, <2>2, HoldersInCycles
<1> QED BY <1>2, <1>4, <1>5

\* Two requests that lock several rows are part of every deadlock.  A request about
\* one row wants nothing once it has that row, so whom the first in line of a cycle
\* waits for locks several; and nobody in a line has the row it waits for, so the
\* holder of what that one wants is another.
THEOREM DeadlocksNeedTwo == Spec => []DeadlocksTakeTwo
<1>1. ASSUME LInv, NEW r \in Requests, InCycle(r)
      PROVE  \E a, b \in Requests :
                /\ a # b /\ InCycle(a) /\ InCycle(b)
                /\ {call[a].op, call[b].op} \cap OneRowOps = {}
  <2>1. PICK a \in Requests : InCycle(a) /\ call[a].op \notin OneRowOps
    BY <1>1, HolderAhead
  <2>2. PICK b \in Requests : /\ InCycle(b) /\ call[b].op \notin OneRowOps
                              /\ Locked(b, want[a])
    BY <1>1, <2>1, HolderAhead
  <2>3. PICK t \in Blockers(a) : TRUE
    BY <2>1 DEF InCycle
  <2>4. a # b
    BY <1>1, <2>2, <2>3, WaitsInLine
  <2> QED BY <2>1, <2>2, <2>4
<1>2. LInv => DeadlocksTakeTwo
  BY <1>1 DEF DeadlocksTakeTwo
<1> QED BY <1>2, LocksInvariance, PTL

-----------------------------------------------------------------------------
(* The locks make each handler one step of LocationStore *)

\* What becomes of a request, in terms of LocationStore.
OutcomeOf(r) ==
    IF pc[r] = "idle" THEN "none"
    ELSE IF pc[r] = "done" THEN reply[r]
    ELSE IF applied[r] THEN "applied" ELSE "open"

\* A step of a request changes no other's outcome.
LEMMA OutcomeIsOwn ==
    ASSUME IInv, NEW r \in Requests, Moves(r)
    PROVE  outcome' = [outcome EXCEPT ![r] = OutcomeOf(r)']
<1>1. \A q \in Requests \ {r} : OutcomeOf(q)' = OutcomeOf(q)
  BY StepIsOwn DEF Same, OutcomeOf
<1>2. outcome = [q \in Requests |-> OutcomeOf(q)]
  BY DEF outcome, OutcomeOf
<1>3. outcome' = [q \in Requests |-> OutcomeOf(q)']
  BY DEF outcome, OutcomeOf
<1> QED BY <1>1, <1>2, <1>3

\* The commit of a request is the one step in which it takes effect.
LEMMA CommitTakesEffect ==
    ASSUME LInv, LInv', NEW r \in Requests, Commit(r), ~Answered(r, "error")
    PROVE  Store!TakeEffect(r)
<1>1. /\ Updates(r) \/ Attaches(r) \/ Detaches \/ Removes
      /\ applied' = [applied EXCEPT ![r] = TRUE]
      /\ pc'[r] \in {"refresh", "answer"}
  BY CommitEffects
<1>2. OutcomeOf(r) = "open" /\ OutcomeOf(r)' = "applied"
  BY <1>1 DEF Commit, OutcomeOf, LInv, IInv, TypeOK, CommitsLast
<1>3. Store!Becomes(r, {"open"}, "applied")
  <2>1. outcome' = [outcome EXCEPT ![r] = "applied"]
    BY <1>2, OutcomeIsOwn DEF LInv, Moves, Advance
  <2> QED BY <1>2, <2>1 DEF Store!Becomes, outcome, OutcomeOf
<1>4. live \subseteq Sites /\ live' \subseteq Sites /\ edited \subseteq Sites
  BY DEF LInv, IInv, TypeOK
<1>5. CASE Updates(r)
  <2> DEFINE Rowed == [s \in Sites |-> Content(s)]
  <2>1. \A s \in Sites : Content(s)' = IF s \in edited \cup HeldSites(r)
                                       THEN [version |-> 2] ELSE [version |-> 1]
    BY <1>5 DEF Updates, Content
  <2>2. Rowed' = [s \in Sites |-> Content(s)']
    OBVIOUS
  <2>3. /\ Rowed' \in [Sites -> {[version |-> 1], [version |-> 2]}]
        /\ \A s \in HeldSites(r) : Rowed'[s].version > 1
        /\ \A s \in Sites \ HeldSites(r) : Rowed'[s] = Rowed[s]
    BY <2>1, <2>2 DEF Content, HeldSites
  <2>4. HeldSites(r) \in SUBSET live /\ live' = live /\ kids' = kids
    BY <1>5 DEF Updates
  <2>5. Store!Edit
    BY <2>3, <2>4 DEF Store!Edit
  <2> QED BY <1>3, <2>5 DEF Store!TakeEffect
<1>6. CASE Attaches(r) \/ Detaches \/ Removes
  <2>1. [s \in Sites |-> Content(s)]' = [s \in Sites |-> Content(s)]
    BY <1>6 DEF Attaches, Detaches, Removes, Content
  <2>2. CASE Attaches(r)
    <3>1. Store!Attach(r)
      BY <2>1, <2>2 DEF Attaches, Store!Attach
    <3> QED BY <1>3, <3>1 DEF Store!TakeEffect
  <2>3. CASE Detaches
    <3>1. Store!Detach
      BY <2>1, <2>3 DEF Detaches, Store!Detach
    <3> QED BY <1>3, <3>1 DEF Store!TakeEffect
  <2>4. CASE Removes
    <3>1. Sites \ live' = (Sites \ live) \cup (live \ live')
      BY <1>4, <2>4 DEF Removes
    <3>2. Store!Remove
      BY <2>1, <2>4, <3>1 DEF Removes, Store!Remove
    <3> QED BY <1>3, <3>2 DEF Store!TakeEffect
  <2> QED BY <1>6, <2>2, <2>3, <2>4
<1> QED BY <1>1, <1>5, <1>6

\* While the tables stay as they are, the store does.
LEMMA StoreUnchanged ==
    ASSUME UNCHANGED dbVars PROVE UNCHANGED Store!store
<1>1. [s \in Sites |-> Content(s)]' = [s \in Sites |-> Content(s)]
  BY DEF dbVars, Content
<1> QED BY <1>1 DEF dbVars, Store!store

\* Every step is a step of the store or one it does not see.
LEMMA StoreStep ==
    ASSUME LInv, LInv', [Next]_vars PROVE [Store!Next]_(Store!vars)
<1>1. CASE UNCHANGED vars
  <2>1. outcome' = outcome
    BY <1>1 DEF vars, outcome
  <2> QED BY <1>1, <2>1, StoreUnchanged DEF vars, Store!vars
<1>2. ASSUME NEW r \in Requests, Moves(r) PROVE [Store!Next]_(Store!vars)
  <2>1. outcome' = [outcome EXCEPT ![r] = OutcomeOf(r)'] /\ outcome[r] = OutcomeOf(r)
    BY <1>2, OutcomeIsOwn DEF LInv, outcome, OutcomeOf
  <2>2. ASSUME UNCHANGED dbVars, OutcomeOf(r)' = OutcomeOf(r)
        PROVE  UNCHANGED Store!vars
    <3>1. outcome' = outcome
      BY <2>1, <2>2 DEF outcome
    <3> QED BY <2>2, <3>1, StoreUnchanged DEF Store!vars
  <2>3. Staged(r) /\ (pc[r] \notin {"idle", "done"} =>
                        OutcomeOf(r) = IF applied[r] THEN "applied" ELSE "open")
    BY DEF LInv, Holds, OutcomeOf
  <2>4. ASSUME NEW how, Answered(r, how) PROVE OutcomeOf(r)' = how /\ UNCHANGED Store!store
    <3>1. pc'[r] = "done" /\ reply'[r] = how
      BY <2>4 DEF Answered, LInv, IInv, TypeOK
    <3> QED BY <2>4, <3>1, StoreUnchanged DEF Answered, OutcomeOf
  <2>5. ASSUME Answered(r, "error"), pc[r] \notin {"idle", "done"} PROVE Store!Break(r)
    BY <2>1, <2>3, <2>4, <2>5 DEF Store!Break, Store!Becomes
  <2>6. ASSUME NEW c \in Calls[r], Accept(r, c) PROVE Store!Open(r)
    <3>1. UNCHANGED dbVars /\ OutcomeOf(r) = "none" /\ OutcomeOf(r)' = "open"
      BY <2>3, <2>6 DEF Accept, OutcomeOf, Staged, LInv, IInv, TypeOK
    <3> QED BY <2>1, <3>1, StoreUnchanged DEF Store!Open, Store!Becomes
  <2>7. CASE Read(r) /\ Answered(r, "refused")
    <3>1. OutcomeOf(r) = "open"
      BY <2>3, <2>7 DEF Read, LInv, IInv, CommitsLast
    <3>2. Store!Refuse(r)
      BY <2>1, <2>4, <2>7, <3>1 DEF Store!Refuse, Store!Becomes
    <3> QED BY <3>2 DEF Store!Next
  <2>8. ASSUME NEW stage \in {"gather", "kids", "sites", "cascade", "answer"}, NEW S,
               Locks(r, stage, S), UNCHANGED <<dbVars, applied>>,
               pc[r] \notin {"idle", "done"}
        PROVE  UNCHANGED Store!vars
    <3>1. pc'[r] = stage
      BY <2>8 DEF Locks, LInv, IInv, TypeOK
    <3> QED BY <2>2, <2>8, <3>1 DEF OutcomeOf
  <2>9. CASE Read(r) /\ ~Answered(r, "refused")
    BY <2>8, <2>9 DEF Read
  <2>10. CASE Gather(r) \/ Bulk(r) \/ NextStatement(r)
    BY <2>8, <2>10 DEF Gather, Bulk, NextStatement
  <2>11. CASE Turn(r) \/ LineUp(r) \/ MoveUp(r) \/ Grab(r)
    <3>1. UNCHANGED <<dbVars, pc, reply, applied>>
      BY <2>11 DEF Turn, LineUp, MoveUp, Grab
    <3> QED BY <2>2, <3>1 DEF OutcomeOf
  <2>12. CASE Commit(r)
    <3>1. pc[r] \notin {"idle", "done"}
      BY <2>12 DEF Commit
    <3> QED BY <2>5, <2>12, <3>1, CommitTakesEffect DEF Store!Next
  <2>13. CASE Refresh(r)
    <3>1. pc[r] \notin {"idle", "done"}
      BY <2>13 DEF Refresh
    <3>2. CASE Answered(r, "error")
      BY <2>5, <3>1, <3>2 DEF Store!Next
    <3>3. CASE ~Answered(r, "error")
      BY <2>8, <2>13, <3>1, <3>3 DEF Refresh
    <3> QED BY <3>2, <3>3
  <2>14. CASE Answer(r)
    <3>1. OutcomeOf(r) = "applied" /\ Answered(r, "ok")
      BY <2>3, <2>14 DEF Answer, Staged
    <3>2. Store!Succeed(r)
      BY <2>1, <2>4, <3>1 DEF Store!Succeed, Store!Becomes
    <3> QED BY <3>2 DEF Store!Next
  <2>15. CASE DeadlockVictim(r) \/ PoolTimeout(r)
    <3>1. Answered(r, "error")
      BY <2>15 DEF DeadlockVictim, PoolTimeout
    <3>2. pc[r] \notin {"idle", "done"}
      BY <2>3, <2>15 DEF DeadlockVictim, PoolTimeout, InCycle, Blockers, Staged
    <3> QED BY <2>5, <3>1, <3>2 DEF Store!Next
  <2> QED BY <1>2, <2>6, <2>7, <2>9, <2>10, <2>11, <2>12, <2>13, <2>14, <2>15
          DEF Moves, Advance, Store!Next
<1>3. ASSUME NEW o \in Readers, ReaderEnds(o) PROVE [Store!Next]_(Store!vars)
  <2>1. outcome' = outcome
    BY <1>3 DEF ReaderEnds, outcome
  <2> QED BY <1>3, <2>1, StoreUnchanged DEF ReaderEnds, Store!vars
<1> QED BY <1>1, <1>2, <1>3 DEF Next, Moves, Finished

\* Whatever the interleaving of locks, waits, deadlocks and timeouts, each handler is
\* one atomic step of LocationStore, or none.
THEOREM LocksImplementStore == Spec => ImplementsStore
<1>1. Init => Store!Init
  <2>1. SUFFICES ASSUME Init PROVE Store!Init
    OBVIOUS
  <2>2. [s \in Sites |-> Content(s)] = [s \in Sites |-> [version |-> 1]]
    BY <2>1 DEF Init, Content
  <2>3. outcome = [r \in Requests |-> "none"]
    BY <2>1 DEF Init, outcome
  <2> QED BY <2>1, <2>2, <2>3 DEF Init, Store!Init
<1>2. LInv /\ LInv' /\ [Next]_vars => [Store!Next]_(Store!vars)
  BY StoreStep
<1> QED BY <1>1, <1>2, LocksInvariance, PTL DEF Spec, ImplementsStore, Store!Spec
=============================================================================
