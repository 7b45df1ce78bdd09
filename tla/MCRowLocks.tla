------------------------------ MODULE MCRowLocks ------------------------------
(* A small instance of RowLocks: two sites, a kid of one, three requests and a  *)
(* reader.                                                                     *)
EXTENDS RowLocks, TLC

CONSTANTS r1, r2, r3, s1, s2, w1, o1

MCStartKids == {[id |-> w1, loc |-> s1]}
\* A kid that is added may come before or after the one that is there.
MCRank == [k \in KidIds |-> IF k = w1 THEN 1 ELSE IF k = r1 THEN 0 ELSE 2]

Base(op) == [op |-> op, site |-> s1, ids |-> {}, kid |-> w1]

OneRow(ops) == {Base(op) : op \in ops}
SeveralRow(ops) ==
    {IF op \in BulkOps THEN [Base(op) EXCEPT !.ids = {s1, s2}] ELSE Base(op) : op \in ops}

\* r1 locks several rows, r3 one, r2 may do either.
MCCalls ==
    r1 :> SeveralRow(BulkOps \cup DeletingOps)
    @@ r2 :> (OneRow(OneRowOps) \cup SeveralRow(BulkOps \cup DeletingOps))
    @@ r3 :> OneRow(OneRowOps)
=============================================================================
