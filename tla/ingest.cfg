SPECIFICATION Spec
CONSTANTS
    Files <- MCFiles
    Ids <- MCIds
    BatchSize = 2
    MaxRuns = 2
    MaxEdits = 1
CHECK_DEADLOCK FALSE
INVARIANTS TypeOK CleanRunConverges
PROPERTIES LoaderKeepsRows
