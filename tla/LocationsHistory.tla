--------------------------- MODULE LocationsHistory ---------------------------
(***************************************************************************)
(* Locations with history variables: what became of the rows and the       *)
(* requests so far.  They observe the steps and never restrict them.       *)
(***************************************************************************)
EXTENDS Locations

VARIABLES
    commits,  \* commits[s]: how many edits of the row of s were committed
    raced,    \* raced[s]: one of them was based on a row no longer current
    inForce,  \* inForce[r]: the status r asks for was the row's status, at
              \* some moment since r read the row
    settled   \* settled[s]: the status of s was last set by a status change that
              \* knew the row's current status and stamp

hvars == <<vars, commits, raced, inForce, settled>>

HInit ==
    /\ Init
    /\ commits = [s \in Sites |-> 0]
    /\ raced = [s \in Sites |-> FALSE]
    /\ inForce = [r \in Requests |-> FALSE]
    /\ settled = [s \in Sites |->
                    StartRow.status = Published <=> StartRow.published_at # NULL]

\* In this step, r commits an edit of the row of s.
Edits(r, s) ==
    /\ ~applied[r] /\ applied'[r]
    /\ \/ call[r].op \in EditOps /\ s = call[r].site
       \/ call[r].op = "bulk_set_status" /\ s \in call[r].ids \cap live

InForceNow(r) ==
    /\ pc'[r] \notin {"idle", "read", "done"}
    /\ call'[r].op = "set_location_status"
    /\ call'[r].site \in live'
    /\ row'[call'[r].site].status = call'[r].status

\* A status change that computes status and stamp from what the row holds: a
\* bulk change does so in its UPDATE, a single one when its copy of the two
\* columns is up to date.
Settles(r, s) ==
    /\ Edits(r, s)
    /\ call[r].op = "set_location_status" =>
         /\ loaded[r].status = row[s].status
         /\ loaded[r].published_at = row[s].published_at
    /\ call[r].op # "update_location"

\* Another edit of the status or the stamp.
Unsettles(r, s) ==
    /\ Edits(r, s) /\ ~Settles(r, s)
    /\ call[r].op = "update_location" => call[r].status # Unset \/ call[r].stamp

Observe ==
    /\ commits' = [s \in Sites |-> IF \E r \in Requests : Edits(r, s)
                                   THEN commits[s] + 1 ELSE commits[s]]
    /\ raced' = [s \in Sites |->
                   \/ raced[s]
                   \/ \E r \in Requests :
                        Edits(r, s) /\ call[r].op \in EditOps
                                    /\ loaded[r] # row[s]]
    /\ inForce' = [r \in Requests |-> inForce[r] \/ InForceNow(r)]
    /\ settled' = [s \in Sites |->
                     /\ s \notin live' \ live
                     /\ settled[s] \/ \E r \in Requests : Settles(r, s)
                     /\ \A r \in Requests : ~Unsettles(r, s)]

HNext == Next /\ Observe
HSpec == HInit /\ [][HNext]_hvars
HFairSpec == HSpec /\ Fairness

-----------------------------------------------------------------------------
(* Properties *)

\* The version of a row, although each handler computes it from its own copy:
\* it never runs ahead of the number of committed edits, an edited row never
\* shows version 1, and as long as no edit was based on an outdated copy the
\* version counts the edits exactly.
VersionCountsEdits ==
    \A s \in live :
        /\ row[s].version <= 1 + commits[s]
        /\ commits[s] > 0 => row[s].version > 1
        /\ ~raced[s] => row[s].version = 1 + commits[s]

\* A row carries a publication stamp exactly when it is published, from any
\* status change that knew the row's status and stamp until an edit that did not
\* or that set one of the two by hand (update_location may, and so may a
\* creation), whatever other edits and stale copies there are in between.
StampedIffPublished ==
    \A s \in live :
        settled[s] => (row[s].status = Published <=> row[s].published_at # NULL)

\* A successful status change was true at some moment while it ran.  (The flush
\* leaves the status out when the copy it read already had it, so the row need
\* not have it after the commit.)
SuccessfulStatusWasInForce ==
    \A r \in Requests :
        reply[r] = "ok" /\ call[r].op = "set_location_status" => inForce[r]
=============================================================================
