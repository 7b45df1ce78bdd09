---------------------------- MODULE MCIngestion ----------------------------
(* Small files shaped as those of SOURCE_MAP: an identity in several site     *)
(* files, twice in one file, in a batch with a row the table does not take, *)
(* and in a feature that does not normalise; and a file that is empty.      *)
EXTENDS Ingestion

F(i, n, p) == [id |-> i, normal |-> n, fits |-> p]
Good(i) == F(i, TRUE, TRUE)

SiteFile(type, cat, fs) ==
    [model |-> "Site", type |-> type, cats |-> {cat}, broken |-> FALSE,
     features |-> fs]

MCFiles ==
    <<[model |-> "Boundary", type |-> "none", cats |-> {}, broken |-> FALSE,
       features |-> <<>>],
      SiteFile("tourist", "archaeological",
               <<Good("a"), F("b", FALSE, TRUE), Good("b"), Good("a"), Good("c")>>),
      SiteFile("tourist", "islamic",
               <<Good("c"), F("d", TRUE, FALSE), Good("e")>>),
      [model |-> "RestrictedZone", type |-> "zone", cats |-> {}, broken |-> FALSE,
       features |-> <<Good("z"), Good("z")>>],
      SiteFile("infrastructure", "infrastructure",
               <<Good("a"), Good("f"), Good("a"), Good("e")>>)>>

MCIds == {"a", "b", "c", "d", "e", "f", "z"}
=============================================================================
