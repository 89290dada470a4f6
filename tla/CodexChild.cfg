SPECIFICATION Spec
CONSTANTS
    t1 = t1
    t2 = t2
    d1 = d1
    NoMode = nomode
    Nobody = nobody
    Turns <- MCTurns
    Detached <- MCDetached
    MaxOpen = 2
    MaxPicks = 1
    MaxAsks = 1
    MaxFaults = 1
SYMMETRY TurnsAreAlike
CHECK_DEADLOCK FALSE
INVARIANT ReadOnlyTurnsAskNothing
INVARIANT LastPickStands
INVARIANT EndFreesEveryWaiter
PROPERTY KeepsTheContract
