CONSTANTS
    c1 = c1
    c2 = c2
    c3 = c3
    c4 = c4
    c5 = c5
    Script <- FiveCrates
    Capacity = 2
    MaxRmRetries = 2
SPECIFICATION FairSpec
INVARIANTS SlotsAccounted NoIdleSlot NoStaleOutput
PROPERTIES EveryBuildEnds PoolRefined
