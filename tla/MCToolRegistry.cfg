\* Two registrations make both tools available, or let a name be taken up again.
SPECIFICATION Spec
CONSTANTS
    a1 = a1
    a2 = a2
    search = search
    write = write
    Agents <- MCAgents
    Names <- MCNames
    Permitted <- MCPermitted
    MaxRegistrations = 2
    MaxCalls = 2
    Workers = 1
INVARIANTS
    StartedAsRegistered
    VerdictIsOfJob
PROPERTIES
    CallsEnd
\* When every call is made and every job finished nothing is left to do.
CHECK_DEADLOCK FALSE
