CONSTANTS
    Co = {query}
    Trd = query
    MaxRelease = 1
SPECIFICATION Spec
INVARIANT InterruptWakes
CHECK_DEADLOCK FALSE
