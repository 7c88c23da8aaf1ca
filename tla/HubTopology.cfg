\* Two readers, two stops, two failing steps, two writes and two changes of goal.
CONSTANTS
    Readers = {r1, r2}
    MaxStops = 2 MaxFaults = 2 MaxWrites = 2 MaxGoals = 2
    Partial = Partial None = None
SPECIFICATION FairSpec
INVARIANTS CutoverExact HubAccounted
PROPERTIES ServiceReturns Converges
