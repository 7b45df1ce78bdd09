----------------------------- MODULE MCLocations -----------------------------
(* Small instances of Locations for TLC: sets of calls, one per group of        *)
(* handlers that can disturb each other.                                      *)
EXTENDS LocationsHistory, TLC

CONSTANTS s1, s2, s3, s4, s5, w1, a1, a2, r1, r2, r3, r4,
          draft, published, archived, low, high, k1, k2, v0, v1, v2,
          lat0, lat1, lon0, lon1

MCStartRow ==
    [status |-> draft, published_at |-> NULL, risk_level |-> low,
     details |-> [k \in Keys |-> v0],
     geometry |-> [x |-> lon0, y |-> lat0], updated_by |-> NULL, version |-> 1]

MCStartKids == {[id |-> w1, loc |-> s1]}

\* A call with every optional field left out, on site s1.
Base(op, by) ==
    [op |-> op, site |-> s1, ids |-> {}, kid |-> w1, by |-> by,
     status |-> Unset, risk_level |-> Unset, stamp |-> FALSE,
     fields |-> [k \in Keys |-> Unset], details |-> Unset,
     lat |-> Unset, lng |-> Unset, many |-> 0, malformed |-> FALSE]

\* Edits of one site that share some columns and not others, single and bulk
\* status changes among them.
EditCalls ==
    {[Base("update_location", a1) EXCEPT !.lat = lat1],
     [Base("update_location", a1) EXCEPT !.lng = lon1, !.risk_level = high],
     [Base("update_location", a2) EXCEPT !.fields[k1] = v1],
     [Base("update_location", a1) EXCEPT !.fields[k2] = v2, !.status = published],
     [Base("update_location", a2) EXCEPT !.details = [k \in Keys |-> v2],
                                         !.stamp = TRUE],
     [Base("set_location_status", a1) EXCEPT !.status = draft],
     [Base("set_location_status", a2) EXCEPT !.status = published],
     [Base("bulk_set_status", a1) EXCEPT !.status = archived, !.ids = {s1}],
     [Base("bulk_set_status", a1) EXCEPT !.status = published, !.ids = {s1}],
     Base("set_location_status", a1),
     Base("delete_location", a1)}

\* The life of sites and of the rows that hang on them.
TreeCalls ==
    {Base("add_warning", a1),
     Base("delete_warning", a1),
     Base("delete_location", a1),
     [Base("bulk_delete_locations", a1) EXCEPT !.ids = {s1, s2}],
     [Base("update_location", a1) EXCEPT !.risk_level = high],
     [Base("add_warning", a1) EXCEPT !.site = s2]}

\* New sites, and removals that may hit them.
InsertCalls ==
    {[Base("delete_location", a1) EXCEPT !.site = s2],
     [Base("bulk_delete_locations", a1) EXCEPT !.ids = {s1, s2}],
     [Base("create_location", a1) EXCEPT !.status = draft, !.risk_level = low,
        !.lat = lat0, !.lng = lon0],
     [Base("create_location", a1) EXCEPT !.status = draft, !.risk_level = low,
        !.lat = lat0, !.lng = lon0, !.malformed = TRUE],
     [Base("import_geojson", a1) EXCEPT !.status = draft, !.risk_level = low,
        !.lat = lat0, !.lng = lon0, !.many = 1, !.stamp = TRUE],
     [Base("import_geojson", a1) EXCEPT !.status = draft, !.risk_level = low,
        !.lat = lat0, !.lng = lon0, !.many = 2],
     [Base("import_geojson", a1) EXCEPT !.status = draft, !.risk_level = low,
        !.lat = lat0, !.lng = lon0, !.many = 2, !.malformed = TRUE]}

\* Calls of every kind, for what any two handlers do to each other.
MixedCalls == TreeCalls \cup InsertCalls
    \cup {[Base("update_location", a1) EXCEPT !.lat = lat1],
          [Base("set_location_status", a2) EXCEPT !.status = published],
          [Base("bulk_set_status", a2) EXCEPT !.status = published, !.ids = {s1}]}

Interchangeable == Permutations(Requests)
=============================================================================
