CONSTANTS
    JumpLimit = 3
    MaxWall = 8
    MaxSetBacks = 2
SPECIFICATION ClockSpec
INVARIANT UptimeRelative
