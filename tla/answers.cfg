SPECIFICATION HFairSpec
CONSTANTS
    r1 = r1 r2 = r2 r3 = r3 r4 = r4 a1 = a1 a2 = a2 w1 = w1
    s1 = s1 s2 = s2 s3 = s3 s4 = s4 s5 = s5
    draft = draft published = published archived = archived
    low = low high = high k1 = k1 k2 = k2 v0 = v0 v1 = v1 v2 = v2
    lat0 = lat0 lat1 = lat1 lon0 = lon0 lon1 = lon1
    Unset = Unset NULL = NULL
    Statuses = {draft, published, archived} Published = published
    Risks = {low, high} Keys = {k1, k2} Values = {v0, v1, v2}
    Lats = {lat0, lat1} Lons = {lon0, lon1} Admins = {a1, a2}
    StartRow <- MCStartRow Warnings = {w1} StartKids <- MCStartKids
    Requests = {r1, r2}
    Sites = {s1, s2, s3, s4, s5} StartSites = {s1}
    Calls <- MixedCalls
    DbMayFail = TRUE
INVARIANTS NoOrphanKid
PROPERTIES EveryRequestAnswered ImplementsStore
