SPECIFICATION Spec
CONSTANTS
    r1 = r1 r2 = r2 r3 = r3 i1 = i1 i2 = i2 i3 = i3 i4 = i4 i5 = i5
    node = node way = way n1 = n1 n2 = n2 v0 = v0 v1 = v1 v2 = v2
    lat0 = lat0 lat1 = lat1 lon0 = lon0 lon1 = lon1
    Unset = Unset NULL = NULL Absent = Absent
    Values = {node, way, n1, n2, v0, v1, v2}
    Lats = {lat0, lat1} Lons = {lon0, lon1}
    Requests = {r1, r2, r3}
    Table = "sites"
    Ids = {i1, i2, i3, i4, i5} StartRows <- MCStartRows Calls <- SiteCalls
    DbMayFail = FALSE
SYMMETRY Interchangeable
INVARIANTS TypeOK IdentitiesUnique SuccessTookEffect ReplyWasTrue
PROPERTIES EditsTouchOnlyTheirColumns
