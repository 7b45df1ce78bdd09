---------------------------- MODULE LocationStore ----------------------------
(***************************************************************************)
(* What the writing side of the Locations API promises, whatever requests  *)
(* overlap: a request changes the store at most once and in one step, one  *)
(* that is answered with success did so, one that is refused never does,   *)
(* deleted sites stay deleted and their kids go with them.  How an edit    *)
(* computes the new row is left open; that is what Locations adds.         *)
(***************************************************************************)
EXTENDS FiniteSets, Naturals

CONSTANTS Requests, Sites, StartSites, StartRow, StartKids, Row

VARIABLES live, gone, row, kids,
          outcome  \* outcome[r]: what became of request r so far

store == <<live, gone, row, kids>>
vars == <<store, outcome>>

Init ==
    /\ live = StartSites /\ gone = {} /\ kids = StartKids
    /\ row = [s \in Sites |-> StartRow]
    /\ outcome = [r \in Requests |-> "none"]

Becomes(r, from, to) ==
    /\ outcome[r] \in from
    /\ outcome' = [outcome EXCEPT ![r] = to]

Open(r) == Becomes(r, {"none"}, "open") /\ UNCHANGED store
Refuse(r) == Becomes(r, {"none", "open"}, "refused") /\ UNCHANGED store
Break(r) == Becomes(r, {"none", "open", "applied"}, "error") /\ UNCHANGED store
Succeed(r) == Becomes(r, {"applied"}, "ok") /\ UNCHANGED store

\* Rows that are live get a new content of a later version than a new row's.
Edit ==
    /\ \E S \in SUBSET live :
         /\ row' \in [Sites -> Row]
         /\ \A s \in S : row'[s].version > 1
         /\ \A s \in Sites \ S : row'[s] = row[s]
    /\ UNCHANGED <<live, gone, kids>>

Insert ==
    /\ live \subseteq live' /\ live' \cap gone = {}
    /\ row' \in [Sites -> Row]
    /\ \A s \in live' \ live : row'[s].version = 1
    /\ \A s \in Sites \ (live' \ live) : row'[s] = row[s]
    /\ UNCHANGED <<gone, kids>>

Remove ==
    /\ live' \subseteq live
    /\ gone' = gone \cup (live \ live')
    /\ kids' = {k \in kids : k.loc \in live'}
    /\ UNCHANGED row

Attach(r) ==
    /\ \E s \in live : kids' = kids \cup {[id |-> r, loc |-> s]}
    /\ UNCHANGED <<live, gone, row>>

Detach ==
    /\ \/ \E gone_kid \in kids : kids' = {k \in kids : k.id # gone_kid.id}
       \/ kids' = kids
    /\ UNCHANGED <<live, gone, row>>

TakeEffect(r) ==
    /\ Becomes(r, {"open"}, "applied")
    /\ Edit \/ Insert \/ Remove \/ Attach(r) \/ Detach

Next ==
    \E r \in Requests :
        Open(r) \/ Refuse(r) \/ Break(r) \/ Succeed(r) \/ TakeEffect(r)

Spec == Init /\ [][Next]_vars
=============================================================================
