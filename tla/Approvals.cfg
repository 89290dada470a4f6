SPECIFICATION FairSpec
CONSTANTS
    r1 = r1
    r2 = r2
    NoRequest = none
    Kinds <- MCBoth
    Requests <- MCRequests
    Commands <- MCOneRequest
    MaxPresses = 2
    MaxChildren = 2
    MaxFaults = 2
INVARIANT AnsweredOnce
INVARIANT CompletedCardsAreTrue
INVARIANT OpenAsksStayDecidable
PROPERTY ToldAsksSettle
