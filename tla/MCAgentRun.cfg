\* A run with a memory and an event handler.
SPECIFICATION Spec
CONSTANTS
    Tools <- MCTools
    Names <- MCNames
    Final = "final"
    None = None
    MaxIterations = 3
    TokenLimit = 11
    MaxEstimate = 2
    HasMemory = TRUE
    HasHandler = TRUE
INVARIANTS
    SpendBounded
    CompletedMeansDone
    ExhaustionIsReal
    TraceShape
    FailureIsTraced
    DeadlineEnforced
    ObserversFollowTrace
PROPERTIES
    ActsAsRunner
    RunEnds
\* A run that has ended takes no further step.
CHECK_DEADLOCK FALSE
