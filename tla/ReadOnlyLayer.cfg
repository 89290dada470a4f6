SPECIFICATION Spec
CONSTANT Lists <- MCLists
CONSTANT OwnModes <- MCOwnModes
CONSTANT MaxPicks = 2
CONSTANT MaxTurns = 1
CONSTANT MaxFaults = 1
INVARIANT TurnsUnderTheShownLayer
INVARIANT ConfirmedIsHeld
INVARIANT ChipIsTheChildsMode
