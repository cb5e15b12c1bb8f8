\* The code's default of two retries, and fewer workers than callers.
SPECIFICATION Spec
CONSTANTS
    c1 = c1
    c2 = c2
    c3 = c3
    Callers <- MCCallers
    Routes <- MCRoutes
    Wanted <- MCWanted
    None = None
    MaxRetries = 2
    Workers = 1
INVARIANTS
    VerdictIsOfLastAttempt
    RouteIsBest
    QueuedIsAwaited
PROPERTIES
    CallsEnd
\* When all calls are over and all requests finished nothing is left to do.
CHECK_DEADLOCK FALSE
