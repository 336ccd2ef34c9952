------------------------------- MODULE Timers -------------------------------
(***************************************************************************)
(* The shared timers (SrsFastTimer and SrsClockWallMonitor in              *)
(* trunk/src/app/srs_app_hourglass.cpp), with the statistics of the hybrid *)
(* server as handler, on the sleep queue of state-threads.                 *)
(*                                                                         *)
(* A timer is a coroutine that calls its handlers and sleeps.  It sleeps   *)
(* until a time of the operating system's clock that is computed from the  *)
(* scheduler's last reading, not from the cache of SystemClock.  So three  *)
(* readings of one clock live side by side: the scheduler's, the cache,    *)
(* and the monitor's own previous one, which is -1 after a failure.        *)
(* "sugar" is the counter of stalls, _srs_pps_timer_s; none of the other   *)
(* eight counters of the monitor is read by anything.                      *)
(***************************************************************************)
EXTENDS Pps

CONSTANTS
    Timer,         \* the coroutines
    Interval,      \* the time each sleeps
    Monitor,       \* the 20 ms timer, which refreshes the clock
    Reporter,      \* the 5 s timer, which updates the statistics
    Stall,         \* 160 ms: a longer time between two readings is a stall
    Latency,       \* how late the scheduler resumes a timer, unless it is held up
    MaxJumps,      \* bound: how often time makes a jump forward
    MaxFailures    \* bound: how often the monitor's reading fails

ASSUME TimersAssumption ==
    /\ Monitor \in Timer /\ Reporter \in Timer /\ Monitor # Reporter
    /\ Interval \in [Timer -> Nat]
    /\ Stall \in Nat /\ Latency \in Nat /\ MaxJumps \in Nat /\ MaxFailures \in Nat
    /\ 1 \in Bursts

\* A timer that is resumed in time is not a stall.
ASSUME LatencyAssumption == Interval[Monitor] + Latency <= Stall

VARIABLES
    state,       \* of every timer's coroutine
    due,         \* when the scheduler wakes it
    checked,     \* the scheduler's last reading, _st_this_vp.last_clock
    previous,    \* the monitor's last reading; 0 is none, -1 a failed one
    jumps, failures,  \* how often it happened
    settled      \* the monitor's readings since the clock was disturbed, up to two

sched == <<state, due, checked>>
history == <<jumps, failures, settled>>
timerVars == <<vars, sched, previous, history>>

States == {"sleeping", "ready", "counting", "handled"}

TimersInit ==
    /\ Init
    /\ state = [t \in Timer |-> "ready"]
    /\ due = [t \in Timer |-> wall]
    /\ checked = wall
    /\ previous = 0
    /\ jumps = 0 /\ failures = 0 /\ settled = 0

\* Time passes: no timer is overdue for longer than the scheduler needs.
Pass ==
    /\ \A t \in Timer : wall < due[t] + Latency
    /\ wall < MaxWall
    /\ Tick(wall + 1)
    /\ UNCHANGED <<sugar, samples, sched, previous, history>>

\* The clock is set; or the process is held up, which looks like a jump forward.
SetClock(w) ==
    /\ w # wall
    /\ Tick(w)
    /\ jumps' = IF w > wall THEN jumps + 1 ELSE jumps
    /\ jumps' <= MaxJumps
    /\ settled' = 0
    /\ UNCHANGED <<sugar, samples, sched, previous, failures>>

\* _st_vp_check_clock, in the idle thread or a yield.  Those who are due go to the
\* head of the run queue, so none is left of an earlier call.
Check ==
    /\ \A t \in Timer : state[t] = "sleeping"
    /\ checked' = wall
    /\ state' = [t \in Timer |-> IF due[t] <= wall THEN "ready" ELSE "sleeping"]
    /\ UNCHANGED <<vars, due, previous, history>>

\* cycle(): t begins its round.  Nobody switches to another coroutine before it sleeps.
Begins(t) ==
    /\ state[t] = "ready"
    /\ \A u \in Timer : state[u] \in {"sleeping", "ready"}

\* Faulty variant: only the first reading is remembered.
RememberFirst(now) == previous' = IF previous = 0 THEN now ELSE previous

\* Every reading is the one the next is compared with, a failed one too.
Remember(now) == previous' = now

\* on_timer of the monitor, up to the choice of the counter.
MonitorReads ==
    /\ Begins(Monitor)
    /\ \E now \in {wall, -1} :
          /\ now = wall => Refreshed
          /\ now = -1 => UNCHANGED clock
          /\ failures' = IF now = -1 THEN failures + 1 ELSE failures
          /\ failures' <= MaxFailures
          /\ settled' = IF now = -1 THEN 0 ELSE IF settled = 2 THEN 2 ELSE settled + 1
          /\ state' = [state EXCEPT ![Monitor] =
                IF previous # 0 /\ now - previous > Stall THEN "counting" ELSE "handled"]
          /\ Remember(now)
    /\ UNCHANGED <<wall, setBacks, sugar, samples, due, checked, jumps>>

MonitorCounts ==
    /\ state[Monitor] = "counting"
    /\ Count(1)
    /\ state' = [state EXCEPT ![Monitor] = "handled"]
    /\ UNCHANGED <<due, checked, previous, history>>

\* on_timer of the hybrid server.
Reports ==
    /\ Begins(Reporter)
    /\ Update
    /\ state' = [state EXCEPT ![Reporter] = "handled"]
    /\ UNCHANGED <<due, checked, previous, history>>

\* A timer nothing has subscribed to (100 ms, 1 s).
Idles(t) ==
    /\ t \notin {Monitor, Reporter}
    /\ Begins(t)
    /\ state' = [state EXCEPT ![t] = "handled"]
    /\ UNCHANGED <<vars, due, checked, previous, history>>

\* srs_usleep
Sleeps(t) ==
    /\ state[t] = "handled"
    /\ state' = [state EXCEPT ![t] = "sleeping"]
    /\ due' = [due EXCEPT ![t] = checked + Interval[t]]
    /\ UNCHANGED <<vars, checked, previous, history>>

TimersNext ==
    \/ Pass
    \/ \E w \in 1 .. MaxWall : SetClock(w)
    \/ Check
    \/ MonitorReads
    \/ MonitorCounts
    \/ Reports
    \/ \E t \in Timer : Idles(t) \/ Sleeps(t)

TimersSpec == TimersInit /\ [][TimersNext]_timerVars

-----------------------------------------------------------------------------
TimersTypeOK ==
    /\ TypeOK
    /\ state \in [Timer -> States]
    /\ due \in [Timer -> Nat]
    /\ checked \in Nat
    /\ previous \in -1 .. MaxWall
    /\ jumps \in 0 .. MaxJumps
    /\ failures \in 0 .. MaxFailures
    /\ settled \in 0 .. 2

\* The cache from which the server takes its time is never ahead of the clock, and
\* never older than an interval of the monitor and the latency of its coroutine,
\* once the monitor has read an undisturbed clock twice: after the first reading
\* it may still sleep until a time the scheduler took before the clock was set.
CacheFresh ==
    settled = 2 => wall - cache \in 0 .. Interval[Monitor] + Latency

\* The stalls that are counted have a cause, and no cause counts twice: a hold-up
\* or a jump, a failed reading, which is remembered as the time -1, or a step
\* back after which the coroutine slept too long.
StallsExplained == sugar <= jumps + failures + setBacks
=============================================================================
