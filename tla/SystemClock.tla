----------------------------- MODULE SystemClock -----------------------------
(***************************************************************************)
(* The cached wall clock of the process (srs_update_system_time and        *)
(* srs_get_system_time, trunk/src/kernel/srs_kernel_utility.cpp).          *)
(*                                                                         *)
(* Every timer, statistic and uptime of the server is computed from the    *)
(* cache, which is refreshed by a timer.  Between two refreshes the clock  *)
(* of the operating system goes on, and an administrator or NTP may set it *)
(* forward or back.  One unit of time stands for any number of             *)
(* microseconds that divides the limit of 300 s.                           *)
(***************************************************************************)
EXTENDS Integers

CONSTANTS
    JumpLimit,   \* 1000 * SYS_TIME_RESOLUTION_US: a larger step is a jump
    MaxWall,     \* bound: the latest time of the operating system's clock
    MaxSetBacks  \* bound: how often that clock is set back

ASSUME ClockAssumption == JumpLimit \in Nat /\ MaxWall \in Nat /\ MaxSetBacks \in Nat

VARIABLES
    wall,        \* what gettimeofday would return
    setBacks,    \* how often it was set back
    cache,       \* _srs_system_time_us_cache
    startup      \* _srs_system_time_startup_time

clock == <<cache, startup>>
clockVars == <<wall, setBacks, clock>>

Larger(a, b) == IF a < b THEN b ELSE a

\* The clock of the operating system is past the epoch when the process starts.
ClockInit ==
    /\ wall \in 1 .. MaxWall
    /\ setBacks = 0
    /\ cache = 0
    /\ startup = 0

\* Time passes, or the clock is set, forward or back.
Tick(t) ==
    /\ wall' = t
    /\ setBacks' = IF t < wall THEN setBacks + 1 ELSE setBacks
    /\ setBacks' <= MaxSetBacks
    /\ UNCHANGED clock

\* Faulty variant: a jump is not recognised.
RefreshedUnchecked ==
    /\ startup' = IF cache <= 0 THEN wall ELSE startup
    /\ cache' = wall

\* Faulty variant: the cache does not follow a step back.
RefreshedForward ==
    /\ startup' = IF cache <= 0 THEN wall
                  ELSE IF wall - cache > JumpLimit THEN startup + wall - cache ELSE startup
    /\ cache' = Larger(cache, wall)

\* srs_update_system_time when gettimeofday succeeds.  A jump forward moves the
\* startup time along; a step back counts as no time at all, but the cache
\* follows it.
Refreshed ==
    LET diff == Larger(0, wall - cache)
    IN  /\ startup' = IF cache <= 0 THEN wall
                      ELSE IF diff > JumpLimit THEN startup + diff ELSE startup
        /\ cache' = wall

\* srs_update_system_time: when gettimeofday fails it returns -1, all is left alone.
Refresh ==
    /\ Refreshed \/ UNCHANGED clock
    /\ UNCHANGED <<wall, setBacks>>

\* srs_get_system_time reads the clock only when there is no cache yet.
Get == IF cache <= 0 THEN Refresh ELSE UNCHANGED clockVars

ClockNext ==
    \/ \E t \in 1 .. MaxWall : Tick(t)
    \/ Refresh
    \/ Get

ClockSpec == ClockInit /\ [][ClockNext]_clockVars

-----------------------------------------------------------------------------
\* srs_get_system_time() - srs_get_system_startup_time()
Uptime == cache - startup

\* Every variable has its type.
ClockTypeOK ==
    /\ wall \in 1 .. MaxWall
    /\ setBacks \in 0 .. MaxSetBacks
    /\ cache \in 0 .. MaxWall
    /\ startup \in Nat

\* However far the clock of the operating system is set, a refresh adds at most
\* the limit to the uptime: a jump that is not recognised as one would be counted
\* as time the server has been up.
UptimeStep == [][Uptime' - Uptime <= JumpLimit]_clockVars

\* The time at which the server was started never moves back, so that two jumps,
\* or a step back and a jump, do not make the server older than it is.
StartupStays == [][startup' >= startup]_clockVars

\* The comment in srs_update_system_time, "so we use relative time": the uptime
\* is relative to the startup time, and a step of the clock does not make the
\* server younger than its startup.
UptimeRelative == Uptime >= 0
=============================================================================
