CONSTANTS
    parent = parent
    child = child
    Co = {parent, child}
    Main = Main
    NoCo = NoCo
    Starts <- NestedStarts
    Stops <- NestedStops
    Interrupts <- NestedInterrupts
SPECIFICATION Spec
INVARIANT NoAssertFails
