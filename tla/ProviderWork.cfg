CONSTANTS
    Requests = {b, s}
    Singles = {s}
    Consenting = {b}
    NGroups = 2
    GroupSize = 2
    ContextWindow = 0
    MaxConcurrent = 2
    Slots = 1
    Caps <- TightCaps
    Fallback = "remote"
SPECIFICATION FairSpec
INVARIANTS
    SlotsConserved
    WholeGroupProvenance
PROPERTIES
    NoWorkAfterFailure
    RequestsEnd
