----------------------------- MODULE MCDeployment -----------------------------
(* Volumes as earlier releases left them, and both ways to run the loader.     *)
EXTENDS Deployment

At(n, site, zone, reports) ==
    [rev |-> n, reports |-> reports, site |-> site, zone |-> zone]

OldSite == [description |-> "text", category |-> "mosque", categories |-> {},
            status |-> Missing]
NewSite == [OldSite EXCEPT !.description = Missing, !.category = Missing,
                           !.categories = {"mosque"}]
LiveSite == [OldSite EXCEPT !.category = "other", !.categories = {"mosque"},
                            !.status = "published"]
OldZone(t) == [subtype |-> t, zone_type |-> Missing]

MCStartDbs ==
    {At(0, Missing, Missing, FALSE),
     At(Tables, OldSite, OldZone("protected"), FALSE),
     At(Tables, OldSite, OldZone("military"), TRUE),
     At(Categories, NewSite, OldZone("protected"), TRUE),
     At(NoReports, NewSite, [subtype |-> "protected", zone_type |-> "protected"], FALSE),
     At(Head, LiveSite, Missing, FALSE)}

\* The image of the loader has no data directory.
MCHasFiles == [l \in Loaders |-> l = "hand"]
=============================================================================
