\* Agents with neither memory nor handler; as many hops as nodes, fewer than a cycle wants.
SPECIFICATION GraphSpec
CONSTANTS
    Tools <- MCTools
    Names <- MCNames
    Final = "final"
    None = None
    MaxIterations = 2
    TokenLimit = 4
    MaxEstimate = 2
    HasMemory = FALSE
    HasHandler = FALSE
    NodeNames <- MCNodeNames
    NextLists <- MCNextLists
    MaxHops = 3
INVARIANTS
    RouteIsFollowed
    HopsAreSeparate
PROPERTIES
    WalkEnds
\* A walk that is over takes no further step.
CHECK_DEADLOCK FALSE
