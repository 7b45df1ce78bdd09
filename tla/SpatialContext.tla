---------------------------- MODULE SpatialContext ----------------------------
(***************************************************************************)
(* GET /context and GET /context/zones for one fixed coordinate, while     *)
(* other requests and the loader change the tables.  The service runs one  *)
(* statement after the other (app/services/spatial.py); each sees the data *)
(* committed at that moment.  What PostGIS computes of a geometry and the  *)
(* coordinate is an attribute here: a distance in metres, and whether a    *)
(* boundary or zone covers the point.                                      *)
(***************************************************************************)
EXTENDS Integers, Sequences, FiniteSets, SequencesExt

CONSTANTS
    Places,        \* the sites that may exist
    Distance,      \* Distance[p]: from the coordinate to site p
    Zones,         \* the restricted zones that may exist
    ZoneDistance,  \* ZoneDistance[z]: from the coordinate to zone z, on the globe
    Around,        \* the zones around the coordinate, on the plane: near a border
                   \* this need not mean a distance of 0
    ZoneType,      \* ZoneType[z]: its class
    Governorates,  \* the governorates whose boundary covers the coordinate
    Radii,         \* the values a client may send as radius
    Default, MaxRadius, AtSite,  \* settings: the three radii of config.py
    GuideLimit,    \* 5 in the code
    NaN,           \* the float that is not a number, which the query accepts
    None,
    MaxWrites      \* bound: how many changes the other writers make

ASSUME SettingsAssumption ==
    /\ IsFiniteSet(Places) /\ IsFiniteSet(Zones) /\ None \notin Places
    /\ Around \subseteq Zones /\ None \notin Governorates
    /\ Distance \in [Places -> Nat] /\ ZoneDistance \in [Zones -> Nat]
    /\ Default \in Nat /\ MaxRadius \in Nat /\ AtSite \in Nat
    /\ GuideLimit \in Nat \ {0} /\ MaxWrites \in Nat
    /\ Radii \subseteq Int \cup {NaN, None} /\ NaN \notin Int /\ None \notin Int

VARIABLES
    db,       \* the committed tables: [country, governorates, kind, zones]
    pc,       \* the next statement of the request
    op,       \* "context" or "zones"
    radius,   \* the effective radius
    reply,    \* the parts of the reply so far
    writes,   \* how many changes the other writers made
    history   \* history: the committed tables since the request began

vars == <<db, pc, op, radius, reply, writes, history>>

Kinds == {"tourist", "infrastructure", "absent"}
Tables == [country : BOOLEAN, governorates : SUBSET Governorates,
           kind : [Places -> Kinds], zones : SUBSET Zones]

NoReply == [in_egypt |-> FALSE, governorate |-> None, at_site |-> None,
            nearby_sites |-> <<>>, nearby_services |-> <<>>,
            area_advisories |-> {}, guidance |-> <<>>, zones |-> {}]

Init ==
    /\ db \in {d \in Tables : d.country /\ d.zones = Zones
                              /\ \A p \in Places : d.kind[p] # "absent"}
    /\ pc = "idle" /\ op = None /\ radius = 0 /\ reply = NoReply
    /\ writes = 0 /\ history = {}

-----------------------------------------------------------------------------
(* The effective radius.  Every comparison with NaN is false in Python. *)

Less(a, b) == a # NaN /\ b # NaN /\ a < b
PyMin(a, b) == IF Less(b, a) THEN b ELSE a

Effective(given) ==
    PyMin(IF given = None THEN Default ELSE given, MaxRadius)

Within(d, r) == r # NaN /\ d <= r  \* ST_DWithin

-----------------------------------------------------------------------------
(* The statements *)

\* ORDER BY distance: rows of equal distance come in any order.
Ordered(S, dist) ==
    {q \in [1..Cardinality(S) -> S] :
        /\ \A i, j \in DOMAIN q : i < j => q[i] # q[j] /\ dist[q[i]] <= dist[q[j]]}

\* Variant: the type of the site is not asked for.
NearAnyKind(d, kind, r) ==
    {p \in Places : d.kind[p] # "absent" /\ Within(Distance[p], r)}

Near(d, kind, r) == {p \in Places : d.kind[p] = kind /\ Within(Distance[p], r)}
NearZones(d, r) == {z \in d.zones : Within(ZoneDistance[z], r)}
Covering(d) == d.zones \cap Around  \* ST_Intersects, without the cast to geography

InReach(rows) == {i \in DOMAIN rows : Distance[rows[i]] <= AtSite}
AtSiteOf(rows, i) == [at_site |-> rows[i], nearby_sites |-> RemoveAt(rows, i)]

\* Variant: each site in reach takes the place of the one before, which is lost.
SplitTakingLast(rows) ==
    IF InReach(rows) = {} THEN [at_site |-> None, nearby_sites |-> rows]
    ELSE LET last == Max(InReach(rows))
         IN  [at_site |-> rows[last], nearby_sites |-> SubSeq(rows, last + 1, Len(rows))]

\* The loop over the tourist sites: the first one in reach is where the user
\* is, every other one is nearby.
Split(rows) ==
    IF InReach(rows) = {} THEN [at_site |-> None, nearby_sites |-> rows]
                          ELSE AtSiteOf(rows, Min(InReach(rows)))

Severity(class) ==
    CASE class = "restricted" -> "critical"
      [] class = "caution" -> "warning"
      [] class = "protected" -> "info"
      [] OTHER -> "warning"

At(here, next) == pc = here /\ pc' = next
Quiet == UNCHANGED <<db, op, radius, writes, history>>

\* The radius is settled before the first statement; a negative one is refused.
Begin(o, given) ==
    /\ pc \in {"idle", "done"}
    /\ op' = o /\ reply' = NoReply
    /\ radius' = Effective(given)
    /\ pc' = IF Less(Effective(given), 0) THEN "idle"
             ELSE IF o = "context" THEN "country" ELSE "zones"
    /\ history' = {db}
    /\ UNCHANGED <<db, writes>>

\* Outside the country boundary the reply is complete, and empty.
Country ==
    /\ At("country", IF db.country THEN "governorate" ELSE "done")
    /\ reply' = [reply EXCEPT !.in_egypt = db.country]
    /\ Quiet

\* Variant: the name is made up when there is none.
GovernorateUnknown ==
    /\ At("governorate", "sites")
    /\ reply' = [reply EXCEPT !.governorate = "Unknown"]
    /\ Quiet

\* LIMIT 1 without an order: any of the governorates that cover the point.
Governorate ==
    /\ At("governorate", "sites")
    /\ \E g \in IF db.governorates = {} THEN {None} ELSE db.governorates :
         reply' = [reply EXCEPT !.governorate = g]
    /\ Quiet

Sites ==
    /\ At("sites", "services")
    /\ \E rows \in Ordered(Near(db, "tourist", radius), Distance) :
         reply' = [reply EXCEPT !.at_site = Split(rows).at_site,
                                !.nearby_sites = Split(rows).nearby_sites]
    /\ Quiet

Services ==
    /\ At("services", "advisories")
    /\ \E rows \in Ordered(Near(db, "infrastructure", radius), Distance) :
         reply' = [reply EXCEPT !.nearby_services = rows]
    /\ Quiet

Advisories ==
    /\ At("advisories", "guidance")
    /\ reply' = [reply EXCEPT !.area_advisories = Covering(db)]
    /\ Quiet

Guidance ==
    /\ At("guidance", "done")
    /\ \E rows \in Ordered(NearZones(db, radius), ZoneDistance) :
         reply' = [reply EXCEPT !.guidance =
                     SubSeq(rows, 1, PyMin(Len(rows), GuideLimit))]
    /\ Quiet

\* GET /context/zones: one statement, the class and severity of each zone.
NearbyZones ==
    /\ At("zones", "done")
    /\ reply' = [reply EXCEPT !.zones =
                   {[zone_type |-> ZoneType[z], severity |-> Severity(ZoneType[z])] :
                      z \in NearZones(db, radius)}]
    /\ Quiet

\* Another request or the loader commits: a site appears, goes or changes its
\* type, a zone or a boundary comes or goes.
Write ==
    /\ writes < MaxWrites /\ writes' = writes + 1
    /\ \/ \E p \in Places, k \in Kinds : db' = [db EXCEPT !.kind[p] = k]
       \/ \E z \in Zones : db' = [db EXCEPT !.zones = SymDiff(@, {z})]
       \/ \E g \in Governorates : db' = [db EXCEPT !.governorates = SymDiff(@, {g})]
       \/ db' = [db EXCEPT !.country = ~@]
    /\ history' = history \cup {db'}
    /\ UNCHANGED <<pc, op, radius, reply>>

Next ==
    \/ \E o \in {"context", "zones"}, given \in Radii : Begin(o, given)
    \/ Country \/ Governorate \/ Sites \/ Services \/ Advisories \/ Guidance
    \/ NearbyZones
    \/ Write

Spec == Init /\ [][Next]_vars

-----------------------------------------------------------------------------
(* Properties *)

TypeOK ==
    /\ db \in Tables /\ writes \in 0..MaxWrites
    /\ pc \in {"idle", "country", "governorate", "sites", "services",
               "advisories", "guidance", "zones", "done"}
    /\ radius \in Int \cup {NaN}
    /\ reply.at_site \in Places \cup {None}
    /\ reply.governorate \in Governorates \cup {None}
    /\ Range(reply.nearby_sites) \cup Range(reply.nearby_services) \subseteq Places
    /\ history \subseteq Tables

Answered == pc = "done" /\ op = "context" /\ reply.in_egypt

\* The tourist part of a reply is the answer to one committed state: the user
\* is at the nearest site if that is within reach, and every other site in the
\* radius is listed once, nearest first.
SitePartIsTrueOf(d) ==
    LET near == Near(d, "tourist", radius)
        reach == {p \in near : Distance[p] <= AtSite}
    IN  /\ reply.at_site = None <=> reach = {}
        /\ reply.at_site # None =>
             /\ reply.at_site \in reach
             /\ \A p \in reach : Distance[reply.at_site] <= Distance[p]
        /\ reply.nearby_sites \in Ordered(near \ {reply.at_site}, Distance)

GuidancePartIsTrueOf(d) ==
    /\ Len(reply.guidance) = PyMin(Cardinality(NearZones(d, radius)), GuideLimit)
    /\ Range(reply.guidance) \subseteq NearZones(d, radius)
    /\ \A i, j \in DOMAIN reply.guidance : i < j =>
         /\ reply.guidance[i] # reply.guidance[j]
         /\ ZoneDistance[reply.guidance[i]] <= ZoneDistance[reply.guidance[j]]
    /\ \A z \in NearZones(d, radius) \ Range(reply.guidance) :
         \A i \in DOMAIN reply.guidance :
            ZoneDistance[reply.guidance[i]] <= ZoneDistance[z]

GovernoratePartIsTrueOf(d) ==
    reply.governorate \in IF d.governorates = {} THEN {None} ELSE d.governorates

\* Each part of a reply was true of the tables at some moment of the request.
EachPartWasTrue ==
    Answered =>
        /\ \E d \in history : GovernoratePartIsTrueOf(d)
        /\ \E d \in history : SitePartIsTrueOf(d)
        /\ \E d \in history :
             reply.nearby_services \in Ordered(Near(d, "infrastructure", radius), Distance)
        /\ \E d \in history : reply.area_advisories = Covering(d)
        /\ \E d \in history : GuidancePartIsTrueOf(d)

\* While nothing is written the parts agree with one another: no site is in two
\* lists, and a zone that is advised of and within the radius is guided to as well,
\* unless the list is full of zones that are as near.  Within a radius that is not
\* a number is nothing: advisories then come without guidance.
QuietReplyIsConsistent ==
    Answered /\ Cardinality(history) = 1 =>
        /\ Range(reply.nearby_services)
             \cap (Range(reply.nearby_sites) \cup {reply.at_site}) = {}
        /\ \A z \in reply.area_advisories \ Range(reply.guidance) :
             Within(ZoneDistance[z], radius) =>
               /\ Len(reply.guidance) = GuideLimit
               /\ \A i \in DOMAIN reply.guidance :
                    ZoneDistance[reply.guidance[i]] <= ZoneDistance[z]

\* "Cap the radius to the system maximum", "Ensure radius is non-negative"
\* (app/api/context.py:34 and 37).
RadiusIsCapped == pc \notin {"idle"} => radius \in 0..MaxRadius
=============================================================================
