SPECIFICATION Spec
CONSTANTS
    Loaders = {"ingestion"}
    HasFiles <- MCHasFiles
    StartDbs <- MCStartDbs
    Attempts = 2
    MaxOutages = 0
    MaxRestarts = 0
    Missing = Missing
CHECK_DEADLOCK FALSE
INVARIANTS LoaderLoads
