CONSTANTS
    m1 = m1
    m2 = m2
    p1 = p1
    p2 = p2
    Origin = Origin
    None = None
    Monitors <- MCMonitors
    Places <- MCPlaces
    Methods <- Method
    EmptyOk = FALSE
SPECIFICATION FairSpec
INVARIANTS PollsMonitor ResultDelivered
PROPERTIES WatchesOperation PollEnds
