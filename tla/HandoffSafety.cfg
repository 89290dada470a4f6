SPECIFICATION FairSpec
CONSTANTS
    a = a
    o = o
    n1 = n1
    n2 = n2
    muse = muse
    claude = claude
    codex = codex
    NoSession = none
    Session <- McSessions
    Lane <- McLanes
    Muse = muse
    ClosingLanes <- McClosing
    HomeLane <- McHome
    Here <- McHere
    Stored <- McStored
    MaxHandoffs = 2
    MaxNavigations = 3
INVARIANT OverMeansUnlinked
INVARIANT PackOnTheRequestedLane
PROPERTY OutcomesStand
PROPERTY UndisturbedHandoffsSettle
