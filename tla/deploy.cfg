SPECIFICATION FairSpec
CONSTANTS
    Loaders = {"hand"}
    HasFiles <- MCHasFiles
    StartDbs <- MCStartDbs
    Attempts = 2
    MaxOutages = 1
    MaxRestarts = 2
    Missing = Missing
CHECK_DEADLOCK FALSE
INVARIANTS TypeOK ServingMeansMigrated
PROPERTIES UpgradesAreWhole UpgradesCarryOver ContainersSettle SomebodyMigrates ReadinessReturns
