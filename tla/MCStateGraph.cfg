\* Enough steps for one walk to visit both nodes twice, fewer than two
\* walks want, and a second edge out of each node that must not be taken.
SPECIFICATION Spec
CONSTANTS
    w1 = w1
    w2 = w2
    plain = plain
    guarded = guarded
    Walkers <- MCWalkers
    Names <- MCNames
    Sensitive <- MCSensitive
    MaxSteps = 4
    MaxEdges = 2
INVARIANTS
    StepsAreShared
    ApprovedEachVisit
    FollowsFirstEdges
PROPERTIES
    WalksEnd
\* When every walk is over and no edge can be added nothing is left to do.
CHECK_DEADLOCK FALSE
