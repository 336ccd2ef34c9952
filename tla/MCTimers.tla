------------------------------ MODULE MCTimers ------------------------------
EXTENDS Timers, TLC
CONSTANT Other

MCTimer == {Monitor, Reporter, Other}
MCInterval == (Monitor :> 1) @@ (Reporter :> 2) @@ (Other :> 2)
=============================================================================
