CONSTANTS
    c1 = c1
    c2 = c2
    Co = {c1, c2}
    Main = Main
    NoCo = NoCo
    Starts <- MCStarts
    Stops <- MCStops
    Interrupts <- MCInterrupts
SPECIFICATION FairSpec
INVARIANT NoAssertFails
PROPERTY StopReturns
