SPECIFICATION Spec
CONSTANTS
    s1 = s1 s2 = s2 s3 = s3 w1 = w1 w2 = w2 g1 = g1 g2 = g2
    q1 = q1 q2 = q2 NULL = NULL
    Readers = {q1, q2} Sites = {s1, s2, s3} Warnings = {w1, w2}
    Governorates = {g1, g2}
    Categories = {"temple", ""} Severities = {"high", ""} Blank = "" Places = {"near", "mid", "far"}
    Names <- MCNames NameRank <- MCNameRank Distance <- MCDistance
    Fit <- MCFit LowerTerms = {"giza", "cairo"}
    ZoneCount = 1 LogCount = 0
    StartTables <- MCStartTables NewRows <- MCNewRows Asks <- MCAsks
    MaxWrites = 1
SYMMETRY Interchangeable
INVARIANTS TypeOK PagesShowEachOnce QuietRepliesAgree NearestComeFirst BestMatchesFirst
