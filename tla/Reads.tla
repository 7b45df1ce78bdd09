-------------------------------- MODULE Reads --------------------------------
(***************************************************************************)
(* The reading side: the lists, analytics and single locations of          *)
(* app/api/locations.py, nearby sites and sites by governorate of          *)
(* app/api/sites.py, app/api/search.py and the table counts of             *)
(* app/api/health.py, while other requests and the loader write.           *)
(*                                                                         *)
(* A request runs its statements one after the other, and each sees what   *)
(* is committed at that moment.  Where a statement leaves the order or the *)
(* choice of its rows open, the database may return any.  What PostGIS and *)
(* LIKE compute are attributes: the distance of a place from the one       *)
(* coordinate that is asked for, the places a governorate covers, and how  *)
(* a term fits a name.                                                     *)
(***************************************************************************)
EXTENDS Naturals, SequencesExt

CONSTANTS
    Readers,      \* the requests that may be made
    Asks,         \* what they may ask
    Sites, Warnings, Governorates,  \* keys
    StartTables,  \* the tables at the start: [sites, warnings, govs]
    NewRows,      \* the rows the writers store, which then get their time of change
    Names, Categories, Severities, Places,  \* what the columns hold
    NameRank,     \* the collation order of the names
    Distance,     \* of a place from the coordinate
    Fit,          \* Fit[t][n]: "whole", "start", "inside" or "none", ignoring case
    LowerTerms,   \* the search terms without capitals
    ZoneCount, LogCount,  \* rows of restricted_zones and audit_logs
    NULL,
    Blank,        \* the empty string, which may be a category or a severity too
    MaxWrites     \* bound: how many changes the writers make

\* The columns of a site that are read.
Row == [updated : Nat, name : Names, name_en : Names \cup {NULL},
        name_ar : Names \cup {NULL}, category : Categories \cup {NULL},
        categories : SUBSET Categories, tourist : BOOLEAN, place : Places]

Maybe(S) == S \cup {NULL}

\* What may be asked: pages and limits the routers let through, a radius that is
\* a distance.
Ask ==
    [op : {"list"}, page : Nat \ {0}, limit : Nat \ {0}, category : Maybe(Categories),
     hasWarnings : Maybe(BOOLEAN), sortBy : {"name", "updated"}, descending : BOOLEAN]
    \cup [op : {"get"}, site : Sites]
    \cup [op : {"analytics", "health"}]
    \cup [op : {"nearby"}, radius : Nat, limit : Maybe(Nat \ {0}),
          category : Maybe(Categories)]
    \cup [op : {"by_governorate"}, governorate : DOMAIN Fit, limit : Maybe(Nat \ {0}),
          category : Maybe(Categories)]
    \cup [op : {"search"}, term : DOMAIN Fit, limit : Nat \ {0},
          category : Maybe(Categories), governorate : Maybe(DOMAIN Fit \cup {Blank})]

ASSUME ReadsAssumption ==
    /\ IsFiniteSet(Sites) /\ IsFiniteSet(Governorates)
    /\ NameRank \in [Names -> Nat] /\ Distance \in [Places -> Nat]
    /\ \A t \in DOMAIN Fit : Fit[t] \in [Names -> {"whole", "start", "inside", "none"}]
    /\ LowerTerms \subseteq DOMAIN Fit
    /\ NULL \notin Names \cup Categories \cup {Blank} \cup DOMAIN Fit \cup Nat \cup BOOLEAN
    /\ ZoneCount \in Nat /\ LogCount \in Nat /\ MaxWrites \in Nat
    /\ Asks \subseteq Ask
    /\ NewRows \subseteq Row
    /\ \A t \in StartTables :
         /\ DOMAIN t.sites \subseteq Sites /\ DOMAIN t.govs \subseteq Governorates
         /\ t.sites \in [DOMAIN t.sites -> Row]
         /\ IsFiniteSet(t.warnings)
         /\ \A w \in t.warnings : w.loc \in DOMAIN t.sites

VARIABLES
    sites,     \* the rows of sites by key
    warnings,  \* the rows of location_warnings
    govs,      \* the governorates by key: their name and the places they cover
    writes,    \* how many changes were committed
    ask,       \* what a request asks
    todo,      \* the statements it has still to run
    got,       \* the parts of its reply so far
    aborted,   \* whether its transaction is in the failed state
    outcome,   \* how it ended
    since      \* history: writes when it began

tables == <<sites, warnings, govs, writes>>
vars == <<tables, ask, todo, got, aborted, outcome, since>>

NoAsk == [op |-> "none"]

HealthTables == <<"sites", "boundaries", "restricted_zones", "audit_logs">>

\* The statements of a request, named for what they contribute to the reply.
\* recently_updated, top_updated and the coverage of governorates are left out.
Statements(op) ==
    CASE op = "list" -> <<"total", "page", "warnings">>
      [] op = "get" -> <<"row", "warnings">>
      [] op = "analytics" -> <<"total_locations", "tourist_places", "active_warnings",
                               "by_category", "warnings_by_severity">>
      [] op = "nearby" -> <<"nearby">>
      [] op = "by_governorate" -> <<"governorate", "inside">>
      [] op = "search" -> <<"found">>
      [] op = "health" -> HealthTables

Init ==
    /\ \E t \in StartTables :
         sites = t.sites /\ warnings = t.warnings /\ govs = t.govs
    /\ writes = 0
    /\ ask = [r \in Readers |-> NoAsk]
    /\ todo = [r \in Readers |-> <<>>]
    /\ got = [r \in Readers |-> <<>>]
    /\ aborted = [r \in Readers |-> FALSE]
    /\ outcome = [r \in Readers |-> "none"]
    /\ since = [r \in Readers |-> 0]

-----------------------------------------------------------------------------
(* What the statements select *)

AtMost(q, limit) ==
    IF limit = NULL \/ Len(q) <= limit THEN q ELSE SubSeq(q, 1, limit)

\* ORDER BY: rows that neither comes before the other are in any order.
OrderedBy(S, Before(_, _)) ==
    {q \in SetToSeqs(S) : \A i, j \in DOMAIN q : i < j => ~Before(q[j], q[i])}

\* A filter that is left out or empty is none.
Chosen(filter) == filter \notin {NULL, Blank}

HasWarning(s) == \E w \in warnings : w.loc = s /\ w.active

\* The filters of a list; status, risk, governorate and search are of the
\* same kind as category.
Matching(a) ==
    {s \in DOMAIN sites :
        /\ Chosen(a.category) => sites[s].category = a.category
        /\ a.hasWarnings # NULL => (a.hasWarnings <=> HasWarning(s))}

\* Variant: the count forgets the filter on warnings.
CountedUnfiltered(a) == Matching([a EXCEPT !.hasWarnings = NULL])
Counted(a) == Matching(a)

\* Variant: an empty list has no page at all.
TotalPagesFromZero(total, limit) == (total + limit - 1) \div limit
TotalPages(total, limit) ==
    IF total = 0 THEN 1 ELSE (total + limit - 1) \div limit

\* Variant: pages counted from zero.
OffsetFromZero(a) == a.page * a.limit
Offset(a) == (a.page - 1) * a.limit

\* One column, ascending or descending, and nothing to break ties.
SortKey(s, a) ==
    IF a.sortBy = "name" THEN NameRank[sites[s].name] ELSE sites[s].updated

Slice(q, from, size) ==
    SubSeq(q, from + 1, IF Len(q) < from + size THEN Len(q) ELSE from + size)

Pages(a) ==
    LET Before(s, t) == IF a.descending THEN SortKey(s, a) > SortKey(t, a)
                        ELSE SortKey(s, a) < SortKey(t, a)
    IN  {Slice(q, Offset(a), a.limit) : q \in OrderedBy(Matching(a), Before)}

\* Variant: warnings that are switched off are counted by severity too.
BySeverityOfAll ==
    [v \in {w.severity : w \in warnings} \ {Blank} |->
        Cardinality({w \in warnings : w.severity = v})]

\* The warnings without a severity form a group of their own, which is not shown.
BySeverity ==
    [v \in {w.severity : w \in {x \in warnings : x.active}} \ {Blank} |->
        Cardinality({w \in warnings : w.active /\ w.severity = v})]

\* Neither are the groups of the sites without a category and of an empty one.
ByCategory ==
    [c \in {sites[s].category : s \in DOMAIN sites} \ {NULL, Blank} |->
        Cardinality({s \in DOMAIN sites : sites[s].category = c})]

Figure(part) ==
    CASE part = "total_locations" -> Cardinality(DOMAIN sites)
      [] part = "tourist_places" -> Cardinality({s \in DOMAIN sites : sites[s].tourist})
      [] part = "active_warnings" -> Cardinality({w \in warnings : w.active})
      [] part = "by_category" -> ByCategory
      [] part = "warnings_by_severity" -> BySeverity

RowCount(table) ==
    CASE table = "sites" -> Cardinality(DOMAIN sites)
      [] table = "boundaries" -> Cardinality(DOMAIN govs)
      [] table = "restricted_zones" -> ZoneCount
      [] table = "audit_logs" -> LogCount

InCategory(s, a) == Chosen(a.category) => a.category \in sites[s].categories

Within(a) ==
    {s \in DOMAIN sites : Distance[sites[s].place] <= a.radius /\ InCategory(s, a)}

Covering(place) == {g \in DOMAIN govs : place \in govs[g].area}

\* The outer join with the governorates: a site in two of them is two rows, a
\* site in none is one.
Joined(S) ==
    UNION {{[site |-> s, gov |-> g] :
              g \in IF Covering(sites[s].place) = {} THEN {NULL}
                    ELSE Covering(sites[s].place)} : s \in S}

\* The loop over the rows: only the first of each site is shown.
FirstPerSite(rows) ==
    FoldLeft(LAMBDA shown, j :
               IF \E i \in DOMAIN shown : shown[i].site = j.site
               THEN shown ELSE Append(shown, j),
             <<>>, rows)

\* Variant: the order of the rows is not asked for.
NearbyUnordered(a) ==
    {FirstPerSite(AtMost(q, a.limit)) : q \in SetToSeqs(Joined(Within(a)))}

\* The limit is applied to the rows, before those of the same site are dropped.
Nearby(a) ==
    LET Dist(j) == Distance[sites[j.site].place]
        rows == OrderedBy(Joined(Within(a)), LAMBDA i, j : Dist(i) < Dist(j))
    IN  {FirstPerSite(AtMost(q, a.limit)) : q \in rows}

\* ILIKE and LIKE: nothing fits NULL.
Fits(term, name) == IF name = NULL THEN "none" ELSE Fit[term][name]
Mentions(term, name) == Fits(term, name) # "none"

Inside(area, a) == {s \in DOMAIN sites : sites[s].place \in area /\ InCategory(s, a)}

\* LIMIT without an order: any rows.
AnyOf(S, limit) ==
    {T \in SUBSET S :
        Cardinality(T) = IF limit = NULL \/ Cardinality(S) <= limit
                         THEN Cardinality(S) ELSE limit}

GovernoratesLike(term) == {g \in DOMAIN govs : Mentions(term, govs[g].name_en)}

\* Variant: only the primary name counts.
RelevanceByName(s, term) ==
    CASE Fits(term, sites[s].name) = "whole" -> 0
      [] Fits(term, sites[s].name) = "start" -> 1
      [] OTHER -> 2

\* A whole name is compared in lower case; a beginning is too, but the term is
\* left as it was typed, so one with capitals never is a beginning.
Relevance(s, term) ==
    LET fit == {Fits(term, sites[s].name), Fits(term, sites[s].name_en)}
    IN  CASE "whole" \in fit -> 0
          [] "whole" \notin fit /\ "start" \in fit /\ term \in LowerTerms -> 1
          [] OTHER -> 2

\* The sites that contain the term, in the governorate asked for: of several
\* that match, any one; of none, no site is inside it.
Found(a, area) ==
    {s \in DOMAIN sites :
        /\ \/ Mentions(a.term, sites[s].name) \/ Mentions(a.term, sites[s].name_en)
           \/ Mentions(a.term, sites[s].name_ar)
        /\ InCategory(s, a)
        /\ Chosen(a.governorate) => sites[s].place \in area}

Areas(a) ==
    IF ~Chosen(a.governorate) \/ GovernoratesLike(a.governorate) = {} THEN {{}}
    ELSE {govs[g].area : g \in GovernoratesLike(a.governorate)}

\* ORDER BY relevance, name.
Ranked(S, term) ==
    LET Before(s, t) ==
          \/ Relevance(s, term) < Relevance(t, term)
          \/ /\ Relevance(s, term) = Relevance(t, term)
             /\ NameRank[sites[s].name] < NameRank[sites[t].name]
    IN  OrderedBy(S, Before)

-----------------------------------------------------------------------------
(* The requests *)

Begin(r, a) ==
    /\ ask[r] = NoAsk
    /\ ask' = [ask EXCEPT ![r] = a]
    /\ todo' = [todo EXCEPT ![r] = Statements(a.op)]
    /\ since' = [since EXCEPT ![r] = writes]
    /\ UNCHANGED <<tables, got, aborted, outcome>>

Runs(r, part) == todo[r] # <<>> /\ Head(todo[r]) = part

WithPart(reply, part, v) ==
    [p \in DOMAIN reply \cup {part} |-> IF p = part THEN v ELSE reply[p]]

\* The statement returned v; the reply is sent after the last one.
Return(r, v) ==
    /\ got' = [got EXCEPT ![r] = WithPart(@, Head(todo[r]), v)]
    /\ todo' = [todo EXCEPT ![r] = Tail(@)]
    /\ outcome' = [outcome EXCEPT ![r] = IF Tail(todo[r]) = <<>> THEN "ok" ELSE @]
    /\ UNCHANGED <<tables, ask, since>>

Unanswered(r, how) ==
    /\ todo' = [todo EXCEPT ![r] = <<>>]
    /\ outcome' = [outcome EXCEPT ![r] = how]
    /\ UNCHANGED <<tables, ask, got, aborted, since>>

\* list_locations
CountLocations(r) ==
    /\ Runs(r, "total")
    /\ LET total == Cardinality(Counted(ask[r]))
       IN  Return(r, [rows |-> total, pages |-> TotalPages(total, ask[r].limit)])
    /\ UNCHANGED aborted

PageOfLocations(r) ==
    /\ Runs(r, "page")
    /\ \E page \in Pages(ask[r]) : Return(r, page)
    /\ UNCHANGED aborted

\* get_location, list_warnings
Location(r) ==
    /\ Runs(r, "row")
    /\ IF ask[r].site \in DOMAIN sites
       THEN Return(r, ask[r].site) /\ UNCHANGED aborted
       ELSE Unanswered(r, "missing")

Shown(r) == IF ask[r].op = "list" THEN ToSet(got[r].page) ELSE {got[r].row}

\* The warnings of the rows are read by a statement of their own, whether they
\* are active or not.
WarningsOfLocations(r) ==
    /\ Runs(r, "warnings")
    /\ Return(r, {w \in warnings : w.loc \in Shown(r)})
    /\ UNCHANGED aborted

Analytics(r) ==
    /\ ask[r].op = "analytics" /\ todo[r] # <<>>
    /\ Return(r, Figure(Head(todo[r])))
    /\ UNCHANGED aborted

\* health_models: the count of a table whose statement failed is given as zero,
\* and in a failed transaction every later statement fails.
CountTable(r) ==
    /\ ask[r].op = "health" /\ todo[r] # <<>>
    /\ Return(r, IF aborted[r] THEN 0 ELSE RowCount(Head(todo[r])))
    /\ UNCHANGED aborted

CountFails(r) ==
    /\ ask[r].op = "health" /\ todo[r] # <<>>
    /\ Return(r, 0)
    /\ aborted' = [aborted EXCEPT ![r] = TRUE]

NearbySites(r) ==
    /\ Runs(r, "nearby")
    /\ \E rows \in Nearby(ask[r]) : Return(r, rows)
    /\ UNCHANGED aborted

\* Variant: when no name contains the one asked for, some governorate is taken.
MatchSomeGovernorate(r) ==
    /\ Runs(r, "governorate")
    /\ \E g \in DOMAIN govs :
         /\ GovernoratesLike(ask[r].governorate) # {} =>
              g \in GovernoratesLike(ask[r].governorate)
         /\ Return(r, govs[g])
    /\ UNCHANGED aborted

\* get_sites_by_governorate: a governorate whose name contains the one asked
\* for, then the sites in the area it had at that moment.
MatchGovernorate(r) ==
    /\ Runs(r, "governorate")
    /\ IF GovernoratesLike(ask[r].governorate) = {}
       THEN Unanswered(r, "missing")
       ELSE /\ \E g \in GovernoratesLike(ask[r].governorate) : Return(r, govs[g])
            /\ UNCHANGED aborted

SitesInside(r) ==
    /\ Runs(r, "inside")
    /\ \E S \in AnyOf(Inside(got[r].governorate.area, ask[r]), ask[r].limit) :
         Return(r, S)
    /\ UNCHANGED aborted

SearchSites(r) ==
    /\ Runs(r, "found")
    /\ \E area \in Areas(ask[r]) :
         \E q \in Ranked(Found(ask[r], area), ask[r].term) :
           Return(r, AtMost(q, ask[r].limit))
    /\ UNCHANGED aborted

\* Every other handler lets the error of a statement propagate.
Fail(r) ==
    /\ todo[r] # <<>> /\ ask[r].op # "health"
    /\ Unanswered(r, "error")

-----------------------------------------------------------------------------
(* The writers: one committed change of the tables *)

Committed ==
    /\ writes < MaxWrites
    /\ writes' = writes + 1
    /\ UNCHANGED <<ask, todo, got, aborted, outcome, since>>

\* Later than every change so far.
Now == writes * Cardinality(Sites) + 1

\* A creation or an import: every row is stamped when its turn comes.
AddSites ==
    /\ \E S \in SUBSET (Sites \ DOMAIN sites), row \in NewRows :
         \E at \in [S -> Now .. Now + Cardinality(S) - 1] :
           /\ S # {}
           /\ sites' = [s \in DOMAIN sites \cup S |->
                         IF s \in S THEN [row EXCEPT !.updated = at[s]] ELSE sites[s]]
    /\ UNCHANGED <<warnings, govs>>

EditSite ==
    /\ \E s \in DOMAIN sites, row \in NewRows :
         sites' = [sites EXCEPT ![s] = [row EXCEPT !.updated = Now]]
    /\ UNCHANGED <<warnings, govs>>

\* bulk_set_status: one UPDATE, and one time stamp for all its rows.
TouchSites ==
    /\ \E S \in SUBSET DOMAIN sites :
         sites' = [s \in DOMAIN sites |->
                     IF s \in S THEN [sites[s] EXCEPT !.updated = Now] ELSE sites[s]]
    /\ UNCHANGED <<warnings, govs>>

RemoveSite ==
    /\ \E gone \in DOMAIN sites :
         /\ sites' = [s \in DOMAIN sites \ {gone} |-> sites[s]]
         /\ warnings' = {w \in warnings : w.loc # gone}
    /\ UNCHANGED govs

AddWarning ==
    /\ \E id \in Warnings \ {w.id : w \in warnings}, s \in DOMAIN sites, on \in BOOLEAN,
          severity \in Severities :
         warnings' = warnings \cup
                        {[id |-> id, loc |-> s, active |-> on, severity |-> severity]}
    /\ UNCHANGED <<sites, govs>>

RemoveWarning ==
    /\ \E w \in warnings : warnings' = warnings \ {w}
    /\ UNCHANGED <<sites, govs>>

\* update_boundary
Redraw ==
    /\ \E g \in DOMAIN govs, area \in SUBSET Places :
         govs' = [govs EXCEPT ![g].area = area]
    /\ UNCHANGED <<sites, warnings>>

Write ==
    /\ Committed
    /\ \/ AddSites \/ EditSite \/ TouchSites \/ RemoveSite
       \/ AddWarning \/ RemoveWarning \/ Redraw

Advance(r) ==
    \/ CountLocations(r) \/ PageOfLocations(r) \/ Location(r) \/ WarningsOfLocations(r)
    \/ Analytics(r) \/ CountTable(r) \/ CountFails(r)
    \/ NearbySites(r) \/ MatchGovernorate(r) \/ SitesInside(r) \/ SearchSites(r)

Finished == (\A r \in Readers : outcome[r] # "none") /\ UNCHANGED vars

Next ==
    \/ \E r \in Readers :
         \/ \E a \in Asks : Begin(r, a)
         \/ Advance(r)
         \/ Fail(r)
    \/ Write
    \/ Finished

Spec == Init /\ [][Next]_vars
-----------------------------------------------------------------------------
(* Properties *)

TypeOK ==
    /\ DOMAIN sites \subseteq Sites
    /\ \A w \in warnings : w.loc \in DOMAIN sites
    /\ writes \in 0..MaxWrites
    /\ ask \in [Readers -> Asks \cup {NoAsk}]
    /\ aborted \in [Readers -> BOOLEAN]
    /\ outcome \in [Readers -> {"none", "ok", "missing", "error"}]
    /\ since \in [Readers -> 0..MaxWrites]
    /\ \A r \in Readers :
         /\ outcome[r] = "ok" => DOMAIN got[r] = ToSet(Statements(ask[r].op))
         /\ "total" \in DOMAIN got[r] => got[r].total.pages >= 1

\* The request ended, and nothing changed since before its first statement.
Quiet(r, op) == outcome[r] = "ok" /\ ask[r].op = op /\ since[r] = writes

SumOf(f) == FoldFunction(+, 0, f)
Smaller(m, n) == IF m < n THEN m ELSE n

\* Turning the pages of one list in separate requests shows every matching row
\* exactly once, as long as nothing is written and no two rows have the same
\* sort key (a bulk status change stamps all its rows alike, so lists by time of
\* change may break the second condition).
PagesShowEachOnce ==
    \A r \in Readers : Quiet(r, "list") =>
        LET a == ask[r]
            turned == {q \in Readers : Quiet(q, "list")
                                       /\ ask[q] = [a EXCEPT !.page = ask[q].page]}
            distinct == \A s, t \in Matching(a) :
                            SortKey(s, a) = SortKey(t, a) => s = t
        IN  distinct =>
              /\ \A q \in turned : ask[q].page # a.page =>
                    ToSet(got[q].page) \cap ToSet(got[r].page) = {}
              /\ {ask[q].page : q \in turned} = 1..got[r].total.pages =>
                    UNION {ToSet(got[q].page) : q \in turned} = Matching(a)

\* The three statements of a list and the two of a location: the total agrees
\* with the length of the page, ties or not, and the filter on warnings with the
\* warnings that are shown.
ListsAndRowsAgree ==
    \A r \in Readers :
        /\ Quiet(r, "list") =>
             LET a == ask[r]
                 before == (a.page - 1) * a.limit
                 total == got[r].total.rows
             IN  /\ Len(got[r].page) = IF total < before THEN 0
                                       ELSE Smaller(a.limit, total - before)
                 /\ a.hasWarnings # NULL =>
                      \A s \in ToSet(got[r].page) :
                        a.hasWarnings <=> \E w \in got[r].warnings :
                                             w.loc = s /\ w.active
        /\ Quiet(r, "list") \/ Quiet(r, "get") =>
             \A w \in got[r].warnings : w.loc \in Shown(r)

\* The figures of the dashboard add up, but for the groups that are not shown: the
\* sites of no or an empty category are missing from the categories, and the
\* active warnings of an empty severity, which a request may well name, from the
\* severities.
AnalyticsAddUp ==
    \A r \in Readers : Quiet(r, "analytics") =>
        /\ got[r].total_locations =
             SumOf(got[r].by_category)
               + Cardinality({s \in DOMAIN sites : sites[s].category \in {NULL, Blank}})
        /\ got[r].active_warnings =
             SumOf(got[r].warnings_by_severity)
               + Cardinality({w \in warnings : w.active /\ w.severity = Blank})
        /\ got[r].tourist_places <= got[r].total_locations

\* A site listed for a governorate lies in the one it is labelled with.
SitesLieInGovernorate ==
    \A r \in Readers : Quiet(r, "by_governorate") =>
        /\ got[r].governorate \in {govs[g] : g \in DOMAIN govs}
        /\ Mentions(ask[r].governorate, got[r].governorate.name_en)
        /\ \A s \in got[r].inside : sites[s].place \in got[r].governorate.area

\* A list, a location, the analytics and the sites of a governorate are put
\* together from several statements, which see different tables.  When nothing
\* was written in between, the parts of the reply agree.
QuietRepliesAgree == ListsAndRowsAgree /\ AnalyticsAddUp /\ SitesLieInGovernorate

\* Nearby sites come nearest first and each once; none that is nearer than one
\* shown is left out.  Only overlapping governorates, whose rows use up the
\* limit, can make the reply shorter than it and than the sites in reach.
NearestComeFirst ==
    \A r \in Readers : Quiet(r, "nearby") =>
        LET shown == got[r].nearby
            Dist(s) == Distance[sites[s].place]
            here == {shown[i].site : i \in DOMAIN shown}
            reach == Within(ask[r])
        IN  /\ Cardinality(here) = Len(shown)
            /\ \A i, j \in DOMAIN shown :
                 i < j => Dist(shown[i].site) <= Dist(shown[j].site)
            /\ \A s \in reach \ here, t \in here : Dist(t) <= Dist(s)
            /\ (\A s \in reach : Cardinality(Covering(sites[s].place)) <= 1) =>
                 \/ here = reach
                 \/ Len(shown) = ask[r].limit

\* A search without filters never drops or postpones a site that is called
\* exactly like the term, in its primary or its English name, for one that is
\* not; nor, when the term has no capitals, one of which either name begins with
\* it for one that merely contains it.  Nothing is said of Arabic names, which
\* are searched and not ranked, nor of the beginnings of a term with capitals.
BestMatchesFirst ==
    \A r \in Readers :
        Quiet(r, "search") /\ ~Chosen(ask[r].category) /\ ~Chosen(ask[r].governorate) =>
        LET term == ask[r].term
            found == got[r].found
            Fit2(s) == {Fits(term, sites[s].name), Fits(term, sites[s].name_en)}
            Better(s, t) ==
                \/ "whole" \in Fit2(s) /\ "whole" \notin Fit2(t)
                \/ /\ term \in LowerTerms /\ "start" \in Fit2(s)
                   /\ Fit2(t) \cap {"whole", "start"} = {}
        IN  /\ \A i, j \in DOMAIN found : i < j => ~Better(found[j], found[i])
            /\ \A s \in DOMAIN sites \ ToSet(found), t \in ToSet(found) : ~Better(s, t)
=============================================================================
