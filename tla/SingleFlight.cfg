SPECIFICATION FlightFairSpec
CONSTANTS
    Callers = {c1, c2, c3}
    Keys = {1, 2, 3}
    Outcomes = {v1}
    MaxEntries = 2
    ResultTTL = 1
    MaxCalls = 3
    MaxClock = 2
INVARIANTS
    OneLeaderPerKey
    WaiterAccounting
PROPERTIES
    SharedResultIsFresh
    FollowersReturn
