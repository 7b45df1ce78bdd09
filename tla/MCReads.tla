------------------------------- MODULE MCReads -------------------------------
(* Three sites in three places, two of them in both governorates, and names of *)
(* which one is the term, one begins with it, one contains it.                *)
EXTENDS Reads

CONSTANTS q1, q2, s1, s2, s3, w1, w2, g1, g2

MCNames == {"giza", "giza museum", "old giza", "cairo"}
MCNameRank == [n \in MCNames |-> CASE n = "cairo" -> 1 [] n = "giza" -> 2
                                   [] n = "giza museum" -> 3 [] n = "old giza" -> 4]
FitOfGiza == [n \in MCNames |-> CASE n = "giza" -> "whole" [] n = "giza museum" -> "start"
                                  [] n = "old giza" -> "inside" [] n = "cairo" -> "none"]
FitOfCairo == [n \in MCNames |-> IF n = "cairo" THEN "whole" ELSE "none"]
MCFit == [t \in {"giza", "Giza", "cairo"} |->
            IF t = "cairo" THEN FitOfCairo ELSE FitOfGiza]
MCDistance == [p \in {"near", "mid", "far"} |->
                 CASE p = "near" -> 1 [] p = "mid" -> 2 [] p = "far" -> 9]

Site(name, en, place) ==
    [updated |-> 0, name |-> name, name_en |-> en, name_ar |-> NULL, category |-> "temple",
     categories |-> {"temple"}, tourist |-> TRUE, place |-> place]

MCNewRows ==
    {Site("old giza", NULL, "mid"),
     [Site("cairo", NULL, "near") EXCEPT !.category = NULL, !.categories = {},
                                         !.tourist = FALSE, !.name_ar = "giza"]}

Giza == [name_en |-> "giza", area |-> {"near", "mid"}]
MCGovs == (g1 :> Giza) @@ (g2 :> [name_en |-> "old giza", area |-> {"mid", "far"}])

MCStartTables ==
    {[sites |-> (s1 :> Site("giza museum", NULL, "mid"))
                @@ (s2 :> Site("old giza", "giza", "near"))
                @@ (s3 :> Site("old giza", NULL, "far")),
      warnings |-> {[id |-> w1, loc |-> s1, active |-> TRUE, severity |-> "high"],
                    [id |-> w2, loc |-> s2, active |-> FALSE, severity |-> "low"]},
      govs |-> MCGovs],
     [sites |-> (s1 :> Site("giza museum", NULL, "near"))
                @@ (s2 :> [Site("giza", NULL, "far") EXCEPT !.category = Blank]),
      warnings |-> {[id |-> w1, loc |-> s2, active |-> TRUE, severity |-> Blank]},
      govs |-> [MCGovs EXCEPT ![g1].area = {"near"}]]}

List(page) == [op |-> "list", page |-> page, limit |-> 2, category |-> NULL,
               hasWarnings |-> NULL, sortBy |-> "name", descending |-> FALSE]

MCAsks ==
    {List(1), List(2),
     [List(1) EXCEPT !.hasWarnings = TRUE, !.sortBy = "updated", !.descending = TRUE],
     [List(1) EXCEPT !.hasWarnings = FALSE, !.category = "temple"],
     [op |-> "get", site |-> s1], [op |-> "analytics"], [op |-> "health"],
     [op |-> "nearby", radius |-> 9, limit |-> 2, category |-> Blank],
     [op |-> "nearby", radius |-> 2, limit |-> NULL, category |-> "temple"],
     [op |-> "by_governorate", governorate |-> "giza", limit |-> 1, category |-> NULL],
     [op |-> "by_governorate", governorate |-> "cairo", limit |-> NULL,
      category |-> NULL],
     [op |-> "search", term |-> "giza", limit |-> 1, category |-> NULL,
      governorate |-> NULL],
     [op |-> "search", term |-> "Giza", limit |-> 2, category |-> NULL,
      governorate |-> NULL],
     [op |-> "search", term |-> "giza", limit |-> 2, category |-> "temple",
      governorate |-> "giza"]}

Interchangeable == Permutations(Readers)
=============================================================================
