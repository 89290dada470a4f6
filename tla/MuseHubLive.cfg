SPECIFICATION FairSpec
CONSTANTS
    s1 = s1
    s2 = s2
    l1 = l1
    l2 = l2
    NoLane = nolane
    NoSession = nosession
    Sessions <- McSessions
    Lanes <- McOneLane
    MaxChildren = 2
    MaxReconnects = 2
    MaxEvents = 1
    OrphanLimit = 1
    Hints <- McHints
INVARIANT NoSessionLeftBehind
PROPERTY ReconnectSettles
