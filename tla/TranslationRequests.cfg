\* Two threads, two deployments of a local and a remote provider, a glossary edit.
CONSTANTS
    Threads = {p1, p2}
    t1 = t1 t2 = t2 x1 = x1 x2 = x2
    Tenants <- Tenants2
    Offers <- MixedOffers
    Deployments <- Swapped
    ContextWindow = 1
    Slots = 1
    Managed = TRUE
    MaxRequests = 3
    Glossaries <- Glossaries2
    MaxDeltas = 1
    None = None
SPECIFICATION Spec
SYMMETRY ThreadSymmetry
INVARIANTS RowsTrue AnswersAllowed LocalityShown OneVoice SlotsReturned
