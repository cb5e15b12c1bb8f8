\* With a sink that may fail, and cancellations.
SPECIFICATION Spec
CONSTANTS
    r1 = r1
    r2 = r2
    r3 = r3
    Runs <- TwoRuns
    HasSink = TRUE
    SinkFails = TRUE
    Cancels = TRUE
INVARIANTS
    ReturnedMeansRecorded
    CompletedIsEarned
    StrandedHasCause
    SinkFollowsRun
PROPERTIES
    ReplacedOnlyWhileAnnounced
\* When all runs are done and collected nothing is left to do, and a sink may
\* keep a task for ever.
CHECK_DEADLOCK FALSE
