SPECIFICATION FairSpec
CONSTANTS
    Interval = 5
    Deadline = 4
    MaxPause = 4
    MaxSent = 2
    MaxTicks = 2
INVARIANT RequestsInv
INVARIANT AvailabilityHasTime
PROPERTY FreshWhenUp
PROPERTY PublishesInOrder
PROPERTY TicksEnd
CHECK_DEADLOCK FALSE
