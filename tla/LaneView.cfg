SPECIFICATION Spec
CONSTANT Kinds <- MCBoth
CONSTANT MaxSends = 2
CONSTANT MaxStops = 1
CONSTANT MaxFaults = 2
INVARIANT OneBubbleEach
INVARIANT OrderedUnlessBetween
INVARIANT QuietIsIdle
INVARIANT NamedUnlessCleared
