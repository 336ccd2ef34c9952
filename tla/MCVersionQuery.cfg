CONSTANTS
    Co = {query}
    Trd = query
    MaxRelease = 3
SPECIFICATION FairSpec
INVARIANTS
    AsksRested
    OneLateSleep
    
PROPERTIES
    StopReturns
\* The object is destroyed, and there is nothing left to run.
CHECK_DEADLOCK FALSE
