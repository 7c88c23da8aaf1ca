\* The session table: both types of reader, two threads, a table of two entries.
CONSTANTS
    Threads = {p1, p2}
    u1 = u1
    u2 = u2
    Users <- MCUsers
    Bindings = {b1, b2}
    Tokens = {t1, t2, t3}
    Credentials <- MCCredentials
    TTL = 1
    MaxEntries = 2
    MaxTime = 1
    None = None
SPECIFICATION Spec
SYMMETRY TableSymmetry
INVARIANTS NoResurrection Vouched
PROPERTIES NoEarlyDrop
