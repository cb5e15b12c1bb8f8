\* Limits that leave room for three entries, so that add() returns.
SPECIFICATION MCSpec
CONSTANTS
    MaxItems = 4
    MaxChars = 13500
    Texts <- MCTexts
    MaxCalls <- MCMaxCalls
    ShortTermLimit = 2
    Score <- MCScore
INVARIANTS
    WindowKept
    StoresAgree
    RecallIsBest
    RoundsShrink
PROPERTIES
    AddReturns
\* When all calls are made and over nothing is left to do.
CHECK_DEADLOCK FALSE
