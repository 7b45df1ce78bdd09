------------------------------- MODULE RowLocks -------------------------------
(***************************************************************************)
(* What Locations takes for one step, the flush and commit of a handler,   *)
(* at the level of the locks PostgreSQL takes on rows of sites,            *)
(* location_warnings and nearby_services, and of the connections of the    *)
(* engine's pool.                                                          *)
(*                                                                         *)
(* A transaction locks row after row and keeps what it has until it ends.  *)
(* Who comes to a row that is locked lines up: the first in line waits for *)
(* those who hold the row, the others for the first in line.               *)
(* delete_location deletes the kids it loaded and then the site; a bulk    *)
(* delete the sites and then, by ON DELETE CASCADE, the kids: the two can  *)
(* wait for each other, and the database then ends one of them.            *)
(***************************************************************************)
EXTENDS Naturals, FiniteSets

CONSTANTS
    Requests,   \* the requests that may be made
    Calls,      \* Calls[r]: what the request r may ask, a subset of Call
    Sites,      \* the sites the table holds at the start
    Warnings,   \* keys of the kids the tables hold at the start
    StartKids,  \* those kids
    Rank,       \* the order of primary keys, in which a flush deletes kids
    PoolSize,   \* pool_size + max_overflow
    Readers,    \* requests of other kinds, which only read: at the start any of
                \* them may have a connection
    None        \* no row

KidIds == Warnings \cup Requests  \* a request inserts at most one kid
Rows == Sites \cup KidIds

OneRowOps == {"update_location", "add_warning", "delete_warning"}
BulkOps == {"bulk_set_status", "bulk_delete_locations"}
DeletingOps == {"delete_location", "bulk_delete_locations"}

\* update_location stands for every edit of one site, set_location_status
\* included.
Call == [op : OneRowOps \cup BulkOps \cup DeletingOps, site : Sites,
         ids : SUBSET Sites, kid : Warnings]

ASSUME LocksAssumption ==
    /\ Sites \cap KidIds = {} /\ Warnings \cap Requests = {}
    /\ None \notin Rows
    /\ Calls \in [Requests -> SUBSET Call]
    /\ StartKids \subseteq [id : Warnings, loc : Sites]
    /\ \A j, k \in StartKids : j.id = k.id => j = k
    /\ Rank \in [KidIds -> Nat]
    /\ PoolSize \in Nat /\ IsFiniteSet(Readers) /\ Cardinality(Readers) < PoolSize
    /\ Readers \cap Requests = {}

VARIABLES
    live,    \* keys of the committed rows of sites
    edited,  \* the sites a committed transaction updated
    kids,    \* the committed rows of the two child tables
    pc, call, reply,
    agenda,  \* the rows the statement of a request has yet to lock
    want,    \* the row it is locking
    line,    \* its place in the line of those who wait for that row
    held,    \* held[r][x]: the lock r has on the row x
    conn,    \* the requests and readers that have a connection
    applied  \* whether the request's transaction committed

dbVars == <<live, edited, kids>>
vars == <<dbVars, pc, call, reply, agenda, want, line, held, conn, applied>>

NoCall == [op |-> "none"]
Unlocked == [x \in Rows |-> "none"]

Init ==
    /\ live = Sites /\ edited = {} /\ kids = StartKids
    /\ pc = [r \in Requests |-> "idle"]
    /\ call = [r \in Requests |-> NoCall]
    /\ reply = [r \in Requests |-> "none"]
    /\ agenda = [r \in Requests |-> {}]
    /\ want = [r \in Requests |-> None]
    /\ line = [r \in Requests |-> "none"]
    /\ held = [r \in Requests |-> Unlocked]
    /\ conn \in SUBSET Readers
    /\ applied = [r \in Requests |-> FALSE]

-----------------------------------------------------------------------------
(* Locks and connections. *)

\* FOR KEY SHARE (taken by the foreign key check of an INSERT), FOR NO KEY
\* UPDATE (an UPDATE that leaves the key alone), FOR UPDATE (a DELETE).
Modes == {"share", "update", "delete"}
Compatible(m, n) == "none" \in {m, n} \/ {m, n} \in {{"share"}, {"share", "update"}}

Mode(r) ==
    CASE call[r].op = "add_warning" -> "share"
      [] call[r].op \in {"update_location", "bulk_set_status"} -> "update"
      [] OTHER -> "delete"

\* Those whose locks on the row r wants conflict with the one it asks for.
Holders(r) ==
    {b \in Requests \ {r} :
        want[r] # None /\ ~Compatible(Mode(r), held[b][want[r]])}

\* The first in line has the lock on the line itself (heap_acquire_tuplock), with
\* the conflicts of the locks on the row.
FirstInLine(r) ==
    {b \in Requests \ {r} : /\ want[b] = want[r] /\ line[b] = "front"
                            /\ ~Compatible(Mode(r), Mode(b))}

\* Whom r waits for.  That it may also stand behind others in line is left out:
\* the detector reorders a line before it ends anybody.
Blockers(r) ==
    CASE line[r] = "front" -> Holders(r)
      [] line[r] = "behind" -> FirstInLine(r)
      [] OTHER -> {}

\* PostgreSQL's deadlock detector: r waits for a request that, over others,
\* waits for r.
WaitsForItself(r) ==
    \E n \in 1..Cardinality(Requests) : \E path \in [0..n -> Requests] :
        /\ path[0] = r /\ path[n] = r
        /\ \A i \in 0..(n - 1) : path[i + 1] \in Blockers(path[i])
InCycle(r) == Blockers(r) # {} /\ WaitsForItself(r)

\* Variant: connections are opened without a limit.
ConnectedBeyondPool(r) == conn' = conn \cup {r}

\* The session has a connection, or gets one for its first statement.
Connected(r) ==
    /\ r \in conn \/ Cardinality(conn) < PoolSize
    /\ conn' = conn \cup {r}

\* The end of a request: the session closes, the transaction if there is one
\* ends with it, locks and connection are free.
Answered(r, how) ==
    /\ pc' = [pc EXCEPT ![r] = "done"]
    /\ reply' = [reply EXCEPT ![r] = how]
    /\ conn' = conn \ {r}
    /\ held' = [held EXCEPT ![r] = Unlocked]
    /\ agenda' = [agenda EXCEPT ![r] = {}]
    /\ want' = [want EXCEPT ![r] = None]
    /\ line' = [line EXCEPT ![r] = "none"]
    /\ UNCHANGED <<dbVars, call, applied>>

\* A statement of r starts that locks the rows S.
Locks(r, stage, S) ==
    /\ pc' = [pc EXCEPT ![r] = stage]
    /\ agenda' = [agenda EXCEPT ![r] = S]

-----------------------------------------------------------------------------
(* The handlers. *)

\* The two bulk handlers start with the statement that locks.
Accept(r, c) ==
    /\ pc[r] = "idle"
    /\ call' = [call EXCEPT ![r] = c]
    /\ pc' = [pc EXCEPT ![r] = IF c.op \in BulkOps THEN "bulk" ELSE "read"]
    /\ UNCHANGED <<dbVars, reply, agenda, want, line, held, conn, applied>>

KidsOf(S) == {k.id : k \in {j \in kids : j.loc \in S}}
Present(x) == x \in live \/ \E k \in kids : k.id = x

\* session.get, or the SELECT of a kid by both keys; no locks.
Read(r) ==
    /\ pc[r] = "read"
    /\ LET c == call[r]
       IN  IF IF c.op = "delete_warning" THEN [id |-> c.kid, loc |-> c.site] \in kids
                                         ELSE c.site \in live
           THEN /\ Connected(r)
                /\ IF c.op = "delete_location"
                   THEN Locks(r, "gather", {})
                   ELSE IF c.op = "delete_warning"
                   THEN Locks(r, "kids", {c.kid})
                   ELSE Locks(r, "sites", {c.site})
                /\ UNCHANGED <<dbVars, call, reply, want, line, held, applied>>
           ELSE /\ r \in conn \/ Cardinality(conn) < PoolSize
                /\ Answered(r, "refused")

\* The relationships are loaded by statements of their own, after the row.
Gather(r) ==
    /\ pc[r] = "gather"
    /\ Locks(r, "kids", KidsOf({call[r].site}))
    /\ UNCHANGED <<dbVars, call, reply, want, line, held, conn, applied>>

\* The one statement of a bulk handler finds its rows.
Bulk(r) ==
    /\ pc[r] = "bulk"
    /\ Connected(r)
    /\ Locks(r, "sites", call[r].ids \cap live)
    /\ UNCHANGED <<dbVars, call, reply, want, line, held, applied>>

\* The next row to lock: a flush goes through kids by primary key, a scan and
\* a cascade in the order they meet them.
Turn(r) ==
    /\ want[r] = None
    /\ \E x \in agenda[r] :
         /\ pc[r] = "kids" => \A y \in agenda[r] : Rank[x] <= Rank[y]
         /\ want' = [want EXCEPT ![r] = x]
    /\ UNCHANGED <<dbVars, pc, call, reply, agenda, line, held, conn, applied>>

\* Another transaction has the row locked: r lines up for it.
LineUp(r) ==
    /\ line[r] = "none" /\ Holders(r) # {}
    /\ line' = [line EXCEPT ![r] = IF FirstInLine(r) = {} THEN "front" ELSE "behind"]
    /\ UNCHANGED <<dbVars, pc, call, reply, agenda, want, held, conn, applied>>

\* Nobody is left in front; any of those behind may be next.
MoveUp(r) ==
    /\ line[r] = "behind" /\ FirstInLine(r) = {}
    /\ line' = [line EXCEPT ![r] = "front"]
    /\ UNCHANGED <<dbVars, pc, call, reply, agenda, want, held, conn, applied>>

\* The lock is granted once nobody holds a conflicting one, to who is first in
\* line or comes just then.  A row that was deleted by then no longer matches the
\* statement.
Grab(r) ==
    /\ want[r] # None /\ line[r] # "behind"
    /\ Holders(r) = {}
    /\ held' = IF Present(want[r])
               THEN [held EXCEPT ![r][want[r]] = Mode(r)] ELSE held
    /\ agenda' = [agenda EXCEPT ![r] = @ \ {want[r]}]
    /\ want' = [want EXCEPT ![r] = None]
    /\ line' = [line EXCEPT ![r] = "none"]
    /\ UNCHANGED <<dbVars, pc, call, reply, conn, applied>>

HeldSites(r) == {s \in Sites : held[r][s] # "none"}

\* The transaction has locked all its statement asked for.
StatementDone(r) == agenda[r] = {} /\ want[r] = None

\* Variants: the kids are left to those who loaded them; the deletion of a kid
\* goes on to its site.
FollowsWithoutCascade(r) ==
    IF pc[r] = "kids" /\ call[r].op = "delete_location" THEN "sites" ELSE "commit"
FollowsUpToSite(r) ==
    CASE pc[r] = "kids" -> "sites"
      [] pc[r] = "sites" /\ call[r].op \in DeletingOps -> "cascade"
      [] OTHER -> "commit"

\* What a request still has to do when that statement is done.
Follows(r) ==
    CASE pc[r] = "kids" /\ call[r].op = "delete_location" -> "sites"
      [] pc[r] = "sites" /\ call[r].op \in DeletingOps -> "cascade"
      [] OTHER -> "commit"

\* After the kids a flush deletes the site; at the end of a deletion of sites
\* the cascade looks, afresh, for their kids.
NextStatement(r) ==
    /\ pc[r] \in {"kids", "sites"} /\ StatementDone(r)
    /\ \/ Follows(r) = "sites" /\ Locks(r, "sites", {call[r].site} \cap live)
       \/ Follows(r) = "cascade" /\ Locks(r, "cascade", KidsOf(HeldSites(r)))
    /\ UNCHANGED <<dbVars, call, reply, want, line, held, conn, applied>>

\* The changes become visible and the locks are free; the session gives its
\* connection back.  An UPDATE that matched no row raises StaleDataError, an
\* INSERT whose site is gone violates the foreign key.
Commit(r) ==
    /\ pc[r] \in {"kids", "sites", "cascade"} /\ StatementDone(r)
    /\ Follows(r) = "commit"
    /\ LET op == call[r].op
           out == {x \in Rows : held[r][x] = "delete"}
       IN  IF op \in {"update_location", "add_warning"} /\ HeldSites(r) = {}
           THEN Answered(r, "error")
           ELSE /\ live' = live \ out
                /\ edited' = edited \cup {s \in Sites : held[r][s] = "update"}
                /\ kids' = IF op = "add_warning"
                           THEN kids \cup {[id |-> r, loc |-> call[r].site]}
                           ELSE {k \in kids : k.id \notin out}
                /\ held' = [held EXCEPT ![r] = Unlocked]
                /\ conn' = conn \ {r}
                /\ applied' = [applied EXCEPT ![r] = TRUE]
                /\ pc' = [pc EXCEPT ![r] = IF op \in {"update_location", "add_warning"}
                                           THEN "refresh" ELSE "answer"]
                /\ UNCHANGED <<call, reply, agenda, want, line>>

\* session.refresh begins a transaction, and so needs a connection again.
Refresh(r) ==
    /\ pc[r] = "refresh"
    /\ IF Present(IF call[r].op = "add_warning" THEN r ELSE call[r].site)
       THEN /\ Connected(r)
            /\ Locks(r, "answer", {})
            /\ UNCHANGED <<dbVars, call, reply, want, line, held, applied>>
       ELSE /\ Cardinality(conn) < PoolSize
            /\ Answered(r, "error")

Answer(r) == pc[r] = "answer" /\ Answered(r, "ok")

\* Variant: the victim of a deadlock starts over.
DeadlockVictimRetries(r) ==
    /\ InCycle(r)
    /\ pc' = [pc EXCEPT ![r] = IF call[r].op \in BulkOps THEN "bulk" ELSE "read"]
    /\ conn' = conn \ {r}
    /\ held' = [held EXCEPT ![r] = Unlocked]
    /\ agenda' = [agenda EXCEPT ![r] = {}]
    /\ want' = [want EXCEPT ![r] = None]
    /\ line' = [line EXCEPT ![r] = "none"]
    /\ UNCHANGED <<dbVars, call, reply, applied>>

\* The database ends one of the transactions that wait for each other, and
\* nothing in the handlers tries again.
DeadlockVictim(r) == InCycle(r) /\ Answered(r, "error")

\* The pool has no connection to give within its timeout: an exception, also
\* from a refresh, after the commit.
PoolTimeout(r) ==
    /\ pc[r] \in {"read", "bulk", "refresh"}
    /\ r \notin conn /\ Cardinality(conn) = PoolSize
    /\ Answered(r, "error")

-----------------------------------------------------------------------------
Advance(r) ==
    \/ Read(r) \/ Gather(r) \/ Bulk(r)
    \/ Turn(r) \/ LineUp(r) \/ MoveUp(r) \/ Grab(r)
    \/ NextStatement(r) \/ Commit(r) \/ Refresh(r) \/ Answer(r)

\* A reader is done with its connection.
ReaderEnds(o) ==
    /\ o \in conn
    /\ conn' = conn \ {o}
    /\ UNCHANGED <<dbVars, pc, call, reply, agenda, want, line, held, applied>>

Finished == (\A r \in Requests : pc[r] = "done") /\ UNCHANGED vars

Next ==
    \/ \E r \in Requests :
         \/ \E c \in Calls[r] : Accept(r, c)
         \/ Advance(r) \/ DeadlockVictim(r) \/ PoolTimeout(r)
    \/ \E o \in Readers : ReaderEnds(o)
    \/ Finished

\* The event loop and the database go on with every request that can go on,
\* and the detector looks at every wait that lasts.
Fairness ==
    \A r \in Requests : WF_vars(Advance(r) \/ DeadlockVictim(r))

Spec == Init /\ [][Next]_vars
FairSpec == Spec /\ Fairness
-----------------------------------------------------------------------------
(* Properties *)

TypeOK ==
    /\ live \subseteq Sites /\ edited \subseteq Sites
    /\ kids \subseteq [id : KidIds, loc : Sites]
    /\ pc \in [Requests -> {"idle", "read", "gather", "bulk", "kids", "sites",
                           "cascade", "refresh", "answer", "done"}]
    /\ call \in [Requests -> Call \cup {NoCall}]
    /\ reply \in [Requests -> {"none", "ok", "refused", "error"}]
    /\ agenda \in [Requests -> SUBSET Rows]
    /\ want \in [Requests -> Rows \cup {None}]
    /\ line \in [Requests -> {"none", "behind", "front"}]
    /\ held \in [Requests -> [Rows -> Modes \cup {"none"}]]
    /\ conn \subseteq Requests \cup Readers /\ Cardinality(conn) <= PoolSize
    /\ applied \in [Requests -> BOOLEAN]

\* A request about one row can be the victim of a deadlock, since those who line up
\* behind it wait for it: but only while two requests that lock several rows, a
\* deletion of a site or a bulk change, wait for each other.  One of those alone
\* never deadlocks, however many edits, status changes and warnings it meets.
DeadlocksTakeTwo ==
    \A r \in Requests : InCycle(r) =>
        \E a, b \in Requests :
            /\ a # b /\ InCycle(a) /\ InCycle(b)
            /\ {call[a].op, call[b].op} \cap OneRowOps = {}

\* Every request is answered although handlers lock rows in opposite orders
\* and wait for connections while others wait for locks.
EveryRequestAnswered == \A r \in Requests : pc[r] # "idle" ~> pc[r] = "done"

-----------------------------------------------------------------------------
(* The locks make each handler the one atomic effect of LocationStore. *)

outcome ==
    [r \in Requests |->
        IF pc[r] = "idle" THEN "none"
        ELSE IF pc[r] = "done" THEN reply[r]
        ELSE IF applied[r] THEN "applied" ELSE "open"]

\* Of the content of a row, whether it was edited.
Content(s) == [version |-> IF s \in edited THEN 2 ELSE 1]

Store == INSTANCE LocationStore
    WITH StartSites <- Sites, StartRow <- [version |-> 1],
         Row <- {[version |-> 1], [version |-> 2]},
         gone <- Sites \ live, row <- [s \in Sites |-> Content(s)]

ImplementsStore == Store!Spec
=============================================================================
