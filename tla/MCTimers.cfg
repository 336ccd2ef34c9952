CONSTANTS
    JumpLimit = 2
    MaxWall = 7
    MaxSetBacks = 1
    Windows = {3}
    Second = 4
    Bursts = {1}
    MaxCount = 4
    Monitor = monitor
    Reporter = reporter
    Other = other
    Timer <- MCTimer
    Interval <- MCInterval
    Stall = 2
    Latency = 1
    MaxJumps = 1
    MaxFailures = 1
SPECIFICATION TimersSpec
INVARIANTS
    TimersTypeOK
    CacheFresh
    StallsExplained
    RateBounded
PROPERTIES
    UptimeStep
    
    TrafficShows
