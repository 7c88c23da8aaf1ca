\* Up to two readers, one failing step, two deaths and two stops.
CONSTANTS
    Readers = {1, 2} MaxReaders = 2
    MaxFailures = 1 MaxKills = 2 MaxStops = 2
    Absent = Absent Partial = Partial
SPECIFICATION FairSpec
INVARIANTS TenantKept NoneLeft
PROPERTIES FailsWhole ServesAgain
