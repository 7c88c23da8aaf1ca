\* Two changes of goal, one stop, two failing steps and a write.
CONSTANTS
    MaxGoals = 2 MaxStops = 1 MaxFaults = 2 MaxWrites = 1
    None = None
SPECIFICATION FairSpec
INVARIANTS RollbackReady NoOrphans
PROPERTIES TargetKept Converges
