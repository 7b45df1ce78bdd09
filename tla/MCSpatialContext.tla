-------------------------- MODULE MCSpatialContext --------------------------
(* Three sites around a coordinate, two of them equally near and in reach,  *)
(* three zones, one around it and one around it on the plane only, and the  *)
(* radii of config.py.                                                      *)
EXTENDS SpatialContext

MCPlaces == {"a", "b", "c"}
MCDistance == [p \in MCPlaces |-> IF p = "c" THEN 400 ELSE 30]
MCZones == {"x", "y", "z"}
MCZoneDistance == [z \in MCZones |-> CASE z = "x" -> 0 [] z = "y" -> 0 [] z = "z" -> 15]
MCZoneType == [z \in MCZones |-> CASE z = "x" -> "restricted" [] z = "y" -> "caution"
                                   [] z = "z" -> "manual_risk"]
\* None is the default, and the last number is above the maximum.
MCRadii == {-1, 0, 20, 50, 2000000, NaN, None}
=============================================================================
