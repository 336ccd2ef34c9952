CONSTANTS
    main1 = main1
    w1 = w1
    w2 = w2
    w3 = w3
    w4 = w4
    Workers = {w1, w2, w3, w4}
    Waiters = {main1}
    Owner = main1
    MaxInterrupts = 1
    Timers = 4
    Servers = 2
SPECIFICATION HybridSpec
INVARIANTS UndisturbedWait 
PROPERTY MainReturns
\* The process ends.
CHECK_DEADLOCK FALSE
