----------------------------- MODULE MCCatalogue -----------------------------
(* Small instances of Catalogue for TLC, one with points, one with shapes. *)
EXTENDS Catalogue, TLC

CONSTANTS i1, i2, i3, i4, i5, r1, r2, r3,
          node, way, n1, n2, v0, v1, v2, lat0, lat1, lon0, lon1

Fields(t, n, name, name_en) ==
    [osm_type |-> t, osm_id |-> n, name |-> name, name_en |-> name_en]
At(x, y) == [x |-> x, y |-> y]

\* Two rows whose identities differ in both parts.
MCStartRows ==
    (i1 :> [fields |-> Fields(node, n1, v0, v0), geometry |-> At(lon0, lat0)])
    @@ (i2 :> [fields |-> Fields(way, n2, v0, v0), geometry |-> At(lon0, lat0)])

\* A zone somebody drew by hand, without an identity.
MCStartZones ==
    (i1 :> [fields |-> Fields(NULL, NULL, v0, NULL), geometry |-> At(lon0, lat0)])

Update(i, fields) ==
    [op |-> "update", id |-> i, fields |-> fields, lat |-> Unset, lon |-> Unset,
     malformed |-> FALSE]
Nothing == Fields(Unset, Unset, Unset, Unset)
Delete(i) == [Update(i, Nothing) EXCEPT !.op = "delete"]
New(op, fields) ==
    [op |-> op, id |-> NULL, fields |-> fields, lat |-> lat0, lon |-> lon0,
     malformed |-> FALSE]

\* Changes that touch one part of an identity each, the columns and the point.
SiteCalls ==
    {Update(i1, Fields(way, Unset, Unset, Unset)),
     Update(i1, Fields(Unset, n2, v1, Unset)),
     Update(i1, Fields(Unset, Unset, v0, v2)),
     Update(i1, Fields(Unset, Unset, NULL, Unset)),
     Update(i1, Fields(Unset, Unset, Unset, NULL)),
     Update(i2, Fields(node, Unset, Unset, Unset)),
     [Update(i1, Nothing) EXCEPT !.lat = lat1],
     [Update(i1, Nothing) EXCEPT !.lon = lon1],
     [Update(i1, Nothing) EXCEPT !.lat = NULL],
     Delete(i1),
     New("create", Fields(way, n1, v1, Unset)),
     New("upsert", Fields(node, n1, v2, NULL))}

Shape(c) == [c EXCEPT !.lat = lat1, !.lon = lon1]

\* Zones with a whole identity, with half of one and with none.
ZoneCalls ==
    {Update(i1, Fields(way, Unset, Unset, Unset)),
     Update(i1, Fields(Unset, n1, v1, NULL)),
     Shape(Update(i1, Fields(Unset, Unset, Unset, NULL))),
     [Shape(Update(i1, Nothing)) EXCEPT !.malformed = TRUE],
     Delete(i1),
     New("create", Fields(way, n1, v1, Unset)),
     New("create", Fields(Unset, n1, v1, Unset)),
     [New("create", Fields(Unset, Unset, v1, Unset)) EXCEPT !.malformed = TRUE],
     New("upsert", Fields(way, n1, v2, NULL))}

Interchangeable == Permutations(Requests)
=============================================================================
