\* No sink; tasks are cancelled at any time, as an event loop that shuts down does.
SPECIFICATION Spec
CONSTANTS
    r1 = r1
    r2 = r2
    r3 = r3
    Runs <- TwoRuns
    HasSink = FALSE
    SinkFails = FALSE
    Cancels = TRUE
INVARIANTS
    CancellationPropagates
PROPERTIES
    ImplementsSafeLifecycle
    EverySubmissionEnds
\* When all runs are done and collected nothing is left to do.
CHECK_DEADLOCK FALSE
