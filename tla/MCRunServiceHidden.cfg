\* A sink that fails while it is told of the cancellation.
SPECIFICATION Spec
CONSTANTS
    r1 = r1
    r2 = r2
    r3 = r3
    Runs <- TwoRuns
    HasSink = TRUE
    SinkFails = TRUE
    Cancels = TRUE
SYMMETRY Symmetry
INVARIANTS
    CancellationPropagates
CHECK_DEADLOCK FALSE
