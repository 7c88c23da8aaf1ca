\* Two threads, two clients of one subject, tables of one key.
CONSTANTS
    Threads = {p1, p2}
    Clients = {c1, c2}
    Subjects = {s1}
    AuthLimit = 2
    ApiLimit = 1
    MaxInflight = 1
    MaxClients = 1
    Window = 3
    Stall = 1
    MaxTime = 3
    Anonymous = Anonymous
    None = None
SPECIFICATION Spec
SYMMETRY AdmissionSymmetry
INVARIANTS SlotsMatch SlidingWindow
PROPERTIES JustRefusal
