\* One thread, one process whose two providers are two models of one account.
CONSTANTS
    Threads = {p1}
    t1 = t1 t2 = t2 x1 = x1 x2 = x2
    Tenants <- Tenants2
    Glossaries <- Glossaries2
    Offers <- MixedOffers
    Deployments <- OneNamespace
    ContextWindow = 1
    Slots = 1
    Managed = TRUE
    MaxRequests = 1
    MaxDeltas = 1
    None = None
SPECIFICATION Spec
INVARIANTS FallbackModel
