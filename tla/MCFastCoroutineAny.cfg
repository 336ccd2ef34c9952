CONSTANTS
    c1 = c1
    c2 = c2
    Co = {c1, c2}
    Main = Main
    NoCo = NoCo
    Starts <- AnyCall
    Stops <- AnyCall
    Interrupts <- AnyCall
SPECIFICATION Spec
INVARIANTS ThreadUseSafe StopWaits InterruptNotLost ExitNotMissed
PROPERTIES ErrorSticky ImplementsLifecycle
CHECK_DEADLOCK FALSE
