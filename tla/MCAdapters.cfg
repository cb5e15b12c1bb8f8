\* Two writes and a search that race for the collection, three publishes that
\* race for the connection with two calls of close(), and one sandbox call.
SPECIFICATION Spec
CONSTANTS
    u1 = u1
    u2 = u2
    q1 = q1
    p1 = p1
    p2 = p2
    p3 = p3
    Upserts <- MCUpserts
    Searches <- MCSearches
    Publishes <- MCPublishes
    MaxCloses = 2
INVARIANTS
    OnlyFirstUsesConflict
    OrphansWereRaced
    LeftRunningHasCause
\* When every call is over nothing is left to do.
CHECK_DEADLOCK FALSE
