\* The composition api/app.py ships: no sink, and nobody cancels a run.
SPECIFICATION Spec
CONSTANTS
    r1 = r1
    r2 = r2
    r3 = r3
    Runs <- ThreeRuns
    HasSink = FALSE
    SinkFails = FALSE
    Cancels = FALSE
PROPERTIES
    ImplementsLifecycle
\* When all runs are done and collected nothing is left to do.
CHECK_DEADLOCK FALSE
