SPECIFICATION Spec
CONSTANTS
    s1 = s1
    s2 = s2
    l1 = l1
    l2 = l2
    NoLane = nolane
    NoSession = nosession
    Sessions <- McOneSession
    Lanes <- McLanes
    MaxChildren = 2
    MaxReconnects = 2
    MaxEvents = 3
    OrphanLimit = 2
    Hints <- McOneHint
INVARIANT OnceAndInOrder
INVARIANT RoutesAreCurrent
