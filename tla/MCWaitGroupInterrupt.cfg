CONSTANTS
    o1 = o1
    w1 = w1
    w2 = w2
    w3 = w3
    w4 = w4
    Workers = {w1, w2, w3, w4}
    Waiters = {o1}
    Owner = o1
    MaxInterrupts = 1
SPECIFICATION Spec
INVARIANT WaitMeansDone
CHECK_DEADLOCK FALSE
