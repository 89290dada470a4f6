SPECIFICATION FairSpec
CONSTANTS
    a = a
    g = g
    none = none
    Calls <- McCalls
    Fills <- McFills
    NoCall <- none
    MaxFaults = 1
INVARIANT ReaderNeverBlocks
PROPERTY ImplementsContract
PROPERTY EveryCallReturns
PROPERTY ShutdownCompletes
PROPERTY InFlightCallsFailPromptly
