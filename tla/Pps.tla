--------------------------------- MODULE Pps ---------------------------------
(***************************************************************************)
(* SrsPps, the rate of a counter over several windows, and its samples     *)
(* (trunk/src/kernel/srs_kernel_kbps.cpp), on the cached clock.            *)
(*                                                                         *)
(* The coroutines of the server increment "sugar", the 20 ms timer         *)
(* refreshes the clock, the 5 s timer calls update(); gettimeofday may     *)
(* fail and the clock may be set between any two of them.                  *)
(***************************************************************************)
EXTENDS SystemClock

CONSTANTS
    Windows,     \* the lengths of the windows (10 s, 30 s, 1 m, 5 m, 60 m)
    Second,      \* units of time per second
    Bursts,      \* how much is counted at once
    MaxCount     \* bound: the largest value of the counter

ASSUME WindowAssumption == Windows \subseteq Nat \ {0} /\ Second \in Nat
ASSUME BurstAssumption == Bursts \subseteq Nat /\ MaxCount \in Nat

VARIABLES
    sugar,              \* the counter
    total, time, rate   \* the sample of every window

samples == <<total, time, rate>>
vars == <<clockVars, sugar, samples>>

Init ==
    /\ ClockInit
    /\ sugar = 0
    /\ total = [w \in Windows |-> -1]
    /\ time = [w \in Windows |-> -1]
    /\ rate = [w \in Windows |-> 0]

Count(k) ==
    /\ sugar + k <= MaxCount
    /\ sugar' = sugar + k
    /\ UNCHANGED <<clockVars, samples>>

\* srs_pps_init: there is no sample yet, or the counter has gone back.
Restarts(w) == time[w] < 0 \/ sugar < total[w]

\* Faulty variants: the window is not awaited, left one unit too late, or a step
\* back of the clock ends it.
DueSoon(w, now) == ~Restarts(w) /\ now - time[w] > 0
DueLate(w, now) == ~Restarts(w) /\ now - time[w] > w
DueBackwards(w, now) == ~Restarts(w) /\ (now - time[w] >= w \/ now < time[w])

Due(w, now) == ~Restarts(w) /\ now - time[w] >= w

\* Faulty variant: a rate between zero and one is rounded to zero.
AverageTruncated(w, now) == ((sugar - total[w]) * Second) \div (now - time[w])

\* srs_pps_update: "For pps in (0, 1), we set to 1."
Average(w, now) ==
    LET pps == ((sugar - total[w]) * Second) \div (now - time[w])
    IN  IF pps = 0 /\ sugar > total[w] THEN 1 ELSE pps

\* update(): all windows against the same reading of the clock.
Sample(now) ==
    /\ total' = [w \in Windows |->
                    IF Restarts(w) \/ Due(w, now) THEN sugar ELSE total[w]]
    /\ time' = [w \in Windows |->
                    IF Restarts(w) \/ Due(w, now) THEN now ELSE time[w]]
    /\ rate' = [w \in Windows |->
                    IF Restarts(w) THEN 0
                    ELSE IF Due(w, now) THEN Average(w, now) ELSE rate[w]]

\* clk_->now() may have to read the clock first.
Update ==
    /\ Get
    /\ Sample(cache')
    /\ UNCHANGED sugar

Next ==
    \/ ClockNext /\ UNCHANGED <<sugar, samples>>
    \/ \E k \in Bursts : Count(k)
    \/ Update

Spec == Init /\ [][Next]_vars

-----------------------------------------------------------------------------
\* Every variable has its type; in particular no rate is negative, whatever is
\* done to the clock.
TypeOK ==
    /\ ClockTypeOK
    /\ sugar \in 0 .. MaxCount
    /\ total \in [Windows -> -1 .. MaxCount]
    /\ time \in [Windows -> -1 .. MaxWall]
    /\ rate \in [Windows -> Nat]

\* A rate is never inflated: it is an average over at least the whole window, so
\* a burst is not divided by a short time because the clock was set, read before
\* it was there, or read twice.  (One stands for any rate between zero and one.)
RateBounded == \A w \in Windows : rate[w] > 1 => rate[w] * w <= sugar * Second

\* No sample is older than its window when update() has run, by the clock that
\* update() has read: no reading of the clock makes a window skip its turn.
SampleCurrent ==
    [][Update => \A w \in Windows : time'[w] >= 0 /\ cache' - time'[w] < w]_vars

\* A new sample shows a rate if and only if something was counted since the last
\* one, however little; nothing that was counted falls between two samples.
TrafficShows ==
    [][\A w \in Windows : time[w] >= 0 /\ time'[w] # time[w] =>
          (rate'[w] > 0 <=> sugar > total[w])]_vars
=============================================================================
