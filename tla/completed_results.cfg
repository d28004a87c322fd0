CONSTANTS
    Producers = {worker, late}
    LaneCapacity = 2
    MaxResults = 3
SPECIFICATION FairSpec
INVARIANTS
    OneOwner
PROPERTIES
    OvertakesNoFront
    EventuallyDelivered
