SPECIFICATION FairGapSpec
CONSTANTS
    MaxCursor = 4
    MaxGaps = 2
    PageLimit = 1
    MaxPages = 2
    MaxBuffered = 2
INVARIANT OnceAndInOrder
INVARIANT CompleteOrReported
INVARIANT InOrderUnlessOvertaken
PROPERTY ParkingEnds
