---------------------------- MODULE TimersProofs ----------------------------
(***************************************************************************)
(* The invariants and action properties of SystemClock and Pps, for all    *)
(* windows, all counts and all settings of the operating system's clock.   *)
(*                                                                         *)
(* The timers drive the statistics and the clock as Pps allows it, the     *)
(* cache they keep is fresh, and the stalls they count have a cause: for   *)
(* any timers, intervals, latency and settings of the clock.               *)
(***************************************************************************)
EXTENDS Timers, TLAPS

-----------------------------------------------------------------------------
(* The clock *)

\* Every step of the clock either leaves the cached times alone or refreshes them.
LEMMA ClockStep ==
    ASSUME [ClockNext]_clockVars
    PROVE  UNCHANGED clock \/ (Refreshed /\ wall' = wall)
BY DEF ClockNext, clockVars, clock, Tick, Refresh, Get

\* The type invariant of the clock is inductive.
LEMMA ClockInitType == ClockInit => ClockTypeOK
BY ClockAssumption DEF ClockInit, ClockTypeOK

LEMMA ClockTypeStep ==
    ASSUME ClockTypeOK, [ClockNext]_clockVars
    PROVE  ClockTypeOK'
<1>1. wall' \in 1 .. MaxWall /\ setBacks' \in 0 .. MaxSetBacks
  BY ClockAssumption
     DEF ClockTypeOK, ClockNext, clockVars, Tick, Refresh, Get
<1>2. cache' \in 0 .. MaxWall /\ startup' \in Nat
  <2>1. CASE UNCHANGED clock
    BY <2>1 DEF ClockTypeOK, clock
  <2>2. CASE Refreshed /\ wall' = wall
    BY <2>2, ClockAssumption DEF ClockTypeOK, Refreshed, Larger
  <2> QED
    BY <2>1, <2>2, ClockStep
<1> QED
  BY <1>1, <1>2 DEF ClockTypeOK

\* The clock has its types (srs_update_system_time, srs_get_system_time).
THEOREM ClockTypeCorrect == ClockSpec => []ClockTypeOK
<1>1. ClockInit => ClockTypeOK
  BY ClockInitType
<1>2. ClockTypeOK /\ [ClockNext]_clockVars => ClockTypeOK'
  BY ClockTypeStep
<1> QED
  BY <1>1, <1>2, PTL DEF ClockSpec

\* What the action properties of the clock rest on: the clock was never read
\* as the epoch, so a cache that is zero has not been set yet, nor the startup.
ClockInv == ClockTypeOK /\ (cache = 0 => startup = 0)

LEMMA ClockInvInit == ClockInit => ClockInv
BY ClockInitType DEF ClockInit, ClockInv

LEMMA ClockInvStep ==
    ASSUME ClockInv, [ClockNext]_clockVars
    PROVE  ClockInv'
<1>1. ClockTypeOK'
  BY ClockTypeStep DEF ClockInv
<1>2. CASE UNCHANGED clock
  BY <1>1, <1>2 DEF ClockInv, clock
<1>3. CASE Refreshed /\ wall' = wall
  <2>1. cache' # 0
    BY <1>3, ClockAssumption DEF ClockInv, ClockTypeOK, Refreshed
  <2> QED
    BY <1>1, <2>1 DEF ClockInv
<1> QED
  BY <1>2, <1>3, ClockStep

LEMMA ClockInductive == ClockSpec => []ClockInv
<1>1. ClockInv /\ [ClockNext]_clockVars => ClockInv'
  BY ClockInvStep
<1> QED
  BY ClockInvInit, <1>1, PTL DEF ClockSpec

\* A step adds at most the limit to the uptime, and does not move the startup back.
LEMMA ClockOneStep ==
    ASSUME ClockInv, [ClockNext]_clockVars
    PROVE  Uptime' - Uptime <= JumpLimit /\ startup' >= startup
<1> USE ClockAssumption DEF ClockInv, ClockTypeOK
<1>1. CASE UNCHANGED clock
  BY <1>1 DEF clock, Uptime
<1>2. CASE Refreshed /\ cache <= 0
  <2>1. startup' = wall /\ cache' = wall /\ startup = 0 /\ cache = 0
    BY <1>2 DEF Refreshed
  <2> QED
    BY <2>1 DEF Uptime
<1>3. CASE Refreshed /\ ~(cache <= 0)
  <2> DEFINE diff == Larger(0, wall - cache)
  <2>1. diff \in Nat /\ wall - cache <= diff
    BY DEF Larger
  <2>2. cache' = wall /\ startup' = IF diff > JumpLimit THEN startup + diff ELSE startup
    BY <1>3 DEF Refreshed
  <2> HIDE DEF diff
  <2>3. CASE diff > JumpLimit
    BY <2>1, <2>2, <2>3 DEF Uptime
  <2>4. CASE ~(diff > JumpLimit)
    BY <2>1, <2>2, <2>4 DEF Uptime
  <2> QED
    BY <2>3, <2>4
<1> QED
  BY <1>1, <1>2, <1>3, ClockStep

\* A refresh adds at most the limit to the uptime, however far the clock is set
\* (srs_update_system_time).
THEOREM UptimeTheorem == ClockSpec => UptimeStep
<1>1. ClockInv /\ [ClockNext]_clockVars => [Uptime' - Uptime <= JumpLimit]_clockVars
  BY ClockOneStep
<1> QED
  BY ClockInductive, <1>1, PTL DEF ClockSpec, UptimeStep

\* The startup time never moves back (srs_update_system_time).
THEOREM StartupTheorem == ClockSpec => StartupStays
<1>1. ClockInv /\ [ClockNext]_clockVars => [startup' >= startup]_clockVars
  BY ClockOneStep
<1> QED
  BY ClockInductive, <1>1, PTL DEF ClockSpec, StartupStays

-----------------------------------------------------------------------------
(* The rates *)

\* What division does to a non-negative numerator.
LEMMA Division ==
    ASSUME NEW a \in Nat, NEW b \in Nat \ {0}
    PROVE  a \div b \in Nat /\ (a \div b) * b <= a
OBVIOUS

\* A longer divisor only makes the product larger.
LEMMA Product ==
    ASSUME NEW q \in Nat, NEW w \in Nat, NEW b \in Nat, w <= b
    PROVE  q * w <= q * b
OBVIOUS

\* A longer divisor only makes the product larger.
LEMMA Scale ==
    ASSUME NEW m \in Nat, NEW n \in Nat, NEW f \in Nat, m <= n
    PROVE  m * f <= n * f
OBVIOUS

\* The sample of a window: there is none yet, or it is a reading of the counter
\* and of the clock, and its rate is bounded.
SampleOK(w) ==
    \/ time[w] = -1 /\ total[w] = -1 /\ rate[w] = 0
    \/ /\ time[w] \in 0 .. MaxWall
       /\ total[w] \in 0 .. sugar
       /\ rate[w] \in Nat
       /\ rate[w] > 1 => rate[w] * w <= sugar * Second

\* The inductive invariant.  TypeOK alone is not inductive: that no rate is
\* negative needs that no sample is ahead of the counter.
IInv ==
    /\ ClockInv
    /\ sugar \in 0 .. MaxCount
    /\ total \in [Windows -> Int] /\ time \in [Windows -> Int] /\ rate \in [Windows -> Int]
    /\ \A w \in Windows : SampleOK(w)

\* srs_pps_update, for a window that is due.
LEMMA AverageLemma ==
    ASSUME IInv, NEW w \in Windows, NEW now \in Int, Due(w, now)
    PROVE  /\ Average(w, now) \in Nat
           /\ Average(w, now) > 1 => Average(w, now) * w <= sugar * Second
           /\ Average(w, now) > 0 <=> sugar > total[w]
<1> DEFINE n == sugar - total[w]
           e == now - time[w]
           q == (n * Second) \div e
<1>1. w \in Nat \ {0} /\ Second \in Nat
  BY WindowAssumption
<1>2. sugar \in Nat /\ time[w] \in Nat /\ total[w] \in Nat /\ sugar >= total[w]
  BY BurstAssumption DEF IInv, SampleOK, Due, Restarts
<1>3. n \in Nat /\ n <= sugar /\ (n > 0 <=> sugar > total[w])
  BY <1>2
<1>4. e \in Nat \ {0} /\ w <= e
  BY <1>1, <1>2 DEF Due
<1>5. Average(w, now) = IF q = 0 /\ sugar > total[w] THEN 1 ELSE q
  BY DEF Average
<1> HIDE DEF n, e
<1>6. n * Second \in Nat /\ n * Second <= sugar * Second
  BY <1>1, <1>2, <1>3, Scale
<1>7. q \in Nat /\ q * e <= n * Second
  BY <1>4, <1>6, Division
<1>8. n = 0 => q = 0
  <2> SUFFICES ASSUME n = 0 PROVE q = 0
    OBVIOUS
  <2>1. n * Second = 0
    BY <1>1
  <2>2. q * e <= 0
    BY <1>7, <2>1
  <2> HIDE DEF q
  <2> QED
    BY <1>4, <1>7, <2>2
<1> HIDE DEF q
<1>9. q * w <= q * e
  BY <1>1, <1>4, <1>7, Product
<1>10. q * w <= sugar * Second
  BY <1>1, <1>2, <1>4, <1>6, <1>7, <1>9
<1> QED
  BY <1>2, <1>3, <1>5, <1>7, <1>8, <1>10

\* update(): the sample of every window afterwards, whatever the clock reads.
LEMMA SampleLemma ==
    ASSUME IInv, NEW now \in 0 .. MaxWall, NEW w \in Windows,
           Sample(now), sugar' = sugar
    PROVE  /\ SampleOK(w)'
           /\ time'[w] >= 0 /\ now - time'[w] < w
           /\ time[w] >= 0 /\ time'[w] # time[w] => (rate'[w] > 0 <=> sugar > total[w])
<1>1. w \in Nat \ {0} /\ w > 0 /\ now \in Nat /\ now \in Int /\ now >= 0
  BY WindowAssumption, ClockAssumption
<1>2. sugar \in Nat /\ sugar >= total[w] /\ (time[w] < 0 \/ time[w] \in 0 .. MaxWall)
      /\ time[w] \in Int /\ total[w] \in Int
  BY BurstAssumption DEF IInv, SampleOK
<1>3. Restarts(w) <=> time[w] < 0
  BY <1>2 DEF Restarts
<1>4. CASE Restarts(w)
  <2>1. total'[w] = sugar /\ time'[w] = now /\ rate'[w] = 0
    BY <1>4 DEF Sample
  <2>2. SampleOK(w)'
    BY <1>2, <2>1 DEF SampleOK
  <2>3. time'[w] >= 0 /\ now - time'[w] < w
    BY <1>1, <2>1
  <2> QED
    BY <1>2, <1>3, <1>4, <2>2, <2>3
<1>5. CASE ~Restarts(w) /\ Due(w, now)
  <2>1. total'[w] = sugar /\ time'[w] = now /\ rate'[w] = Average(w, now)
    BY <1>5 DEF Sample
  <2>2. /\ Average(w, now) \in Nat
        /\ Average(w, now) > 1 => Average(w, now) * w <= sugar * Second
        /\ Average(w, now) > 0 <=> sugar > total[w]
    BY <1>1, <1>5, AverageLemma
  <2>3. SampleOK(w)'
    BY <1>2, <2>1, <2>2 DEF SampleOK
  <2>4. time'[w] >= 0 /\ now - time'[w] < w
    BY <1>1, <2>1
  <2> QED
    BY <2>1, <2>2, <2>3, <2>4
<1>6. CASE ~Restarts(w) /\ ~Due(w, now)
  <2>1. total'[w] = total[w] /\ time'[w] = time[w] /\ rate'[w] = rate[w]
    BY <1>6 DEF Sample
  <2>2. now - time[w] < w
    BY <1>1, <1>2, <1>6 DEF Due
  <2> QED
    BY <1>1, <1>2, <1>3, <1>6, <2>1, <2>2 DEF SampleOK, IInv
<1> QED
  BY <1>4, <1>5, <1>6

LEMMA PpsInit == Init => IInv
BY ClockInvInit, BurstAssumption DEF Init, IInv, SampleOK

LEMMA PpsStep ==
    ASSUME IInv, [Next]_vars
    PROVE  IInv'
<1>1. [ClockNext]_clockVars
  BY DEF Next, vars, Count, Update, ClockNext
<1>2. ClockInv'
  BY <1>1, ClockInvStep DEF IInv
<1>3. CASE UNCHANGED <<sugar, samples>>
  BY <1>2, <1>3 DEF IInv, SampleOK, samples
<1>4. ASSUME NEW k \in Bursts, Count(k)
      PROVE  IInv'
  <2>1. /\ sugar' \in 0 .. MaxCount /\ sugar' >= sugar
        /\ sugar \in Nat /\ sugar' \in Nat
    BY <1>4, BurstAssumption DEF IInv, Count
  <2>2. UNCHANGED <<total, time, rate>>
    BY <1>4 DEF Count, samples
  <2>3. ASSUME NEW w \in Windows
        PROVE  SampleOK(w)'
    <3>1. SampleOK(w) /\ w \in Nat /\ Second \in Nat
      BY WindowAssumption DEF IInv
    <3>2. sugar * Second <= sugar' * Second
      BY <2>1, <3>1, Scale
    <3>3. rate[w] * w \in Int /\ sugar * Second \in Int /\ sugar' * Second \in Int
      BY <2>1, <3>1 DEF IInv
    <3>4. rate[w] * w <= sugar * Second => rate[w] * w <= sugar' * Second
      BY <3>2, <3>3
    <3>5. total[w] \in 0 .. sugar => total[w] \in 0 .. sugar'
      BY <2>1
    <3> QED
      BY <2>2, <3>1, <3>4, <3>5 DEF SampleOK
  <2> QED
    BY <1>2, <2>1, <2>2, <2>3 DEF IInv
<1>5. CASE Update
  <2>1. Sample(cache') /\ sugar' = sugar
    BY <1>5 DEF Update
  <2>2. cache' \in 0 .. MaxWall
    BY <1>2 DEF ClockInv, ClockTypeOK
  <2>3. \A w \in Windows : SampleOK(w)'
    BY <2>1, <2>2, SampleLemma
  <2>4. /\ total' \in [Windows -> Int] /\ time' \in [Windows -> Int]
        /\ rate' \in [Windows -> Int]
    <3>1. sugar \in Int /\ cache' \in Int
      BY <2>2 DEF IInv
    <3>2. \A w \in Windows : Due(w, cache') => Average(w, cache') \in Int
      BY <3>1, AverageLemma
    <3> QED
      BY <2>1, <3>1, <3>2 DEF Sample, IInv
  <2> QED
    BY <1>2, <2>1, <2>3, <2>4 DEF IInv
<1> QED
  BY <1>3, <1>4, <1>5 DEF Next, vars

\* The invariant the other theorems rest on.
THEOREM PpsInductive == Spec => []IInv
<1>1. IInv /\ [Next]_vars => IInv'
  BY PpsStep
<1> QED
  BY PpsInit, <1>1, PTL DEF Spec

\* Every variable has its type: whatever is done to the clock, no sample is ahead
\* of the counter and no rate is negative (SrsPps::update, srs_pps_update).
THEOREM PpsTypeCorrect == Spec => []TypeOK
<1>1. IInv => TypeOK
  <2> SUFFICES ASSUME IInv PROVE TypeOK
    OBVIOUS
  <2>1. \A w \in Windows : /\ total[w] \in -1 .. MaxCount
                           /\ time[w] \in -1 .. MaxWall
                           /\ rate[w] \in Nat
    BY BurstAssumption, ClockAssumption DEF IInv, SampleOK
  <2> QED
    BY <2>1 DEF IInv, TypeOK, ClockInv
<1> QED
  BY PpsInductive, <1>1, PTL

\* A rate is never inflated (srs_pps_init, srs_pps_update).
THEOREM RateTheorem == Spec => []RateBounded
<1>1. IInv => RateBounded
  BY DEF IInv, RateBounded, SampleOK
<1> QED
  BY PpsInductive, <1>1, PTL

\* No sample is older than its window after update() (SrsPps::update).
THEOREM CurrentTheorem == Spec => SampleCurrent
<1> DEFINE Current == Update => \A w \in Windows : time'[w] >= 0 /\ cache' - time'[w] < w
<1>1. IInv /\ IInv' /\ [Next]_vars => [Current]_vars
  <2> SUFFICES ASSUME IInv, IInv', Update
               PROVE  \A w \in Windows : time'[w] >= 0 /\ cache' - time'[w] < w
    OBVIOUS
  <2>1. Sample(cache') /\ sugar' = sugar /\ cache' \in 0 .. MaxWall
    BY DEF Update, IInv, ClockInv, ClockTypeOK
  <2> QED
    BY <2>1, SampleLemma
<1> QED
  BY PpsInductive, <1>1, PTL DEF Spec, SampleCurrent

\* A new sample has a rate if and only if something was counted (srs_pps_update).
THEOREM TrafficTheorem == Spec => TrafficShows
<1> DEFINE Shows == \A w \in Windows : time[w] >= 0 /\ time'[w] # time[w] =>
                       (rate'[w] > 0 <=> sugar > total[w])
<1>1. IInv /\ IInv' /\ [Next]_vars => [Shows]_vars
  <2> SUFFICES ASSUME IInv, IInv', Next
               PROVE  Shows
    OBVIOUS
  <2>1. CASE Update
    <3>1. Sample(cache') /\ sugar' = sugar /\ cache' \in 0 .. MaxWall
      BY <2>1 DEF Update, IInv, ClockInv, ClockTypeOK
    <3> QED
      BY <3>1, SampleLemma
  <2>2. CASE UNCHANGED samples
    BY <2>2 DEF samples
  <2> QED
    BY <2>1, <2>2 DEF Next, Count
<1> QED
  BY PpsInductive, <1>1, PTL DEF Spec, TrafficShows

-----------------------------------------------------------------------------
(* The timers: the refinement *)

LEMMA TickIsClock ==
    ASSUME NEW t \in 1 .. MaxWall, Tick(t), UNCHANGED <<sugar, samples>>
    PROVE  Next
BY DEF Next, ClockNext

\* Every step of the timers is a step of Pps or leaves its variables alone.
LEMMA TimersStepIsPps ==
    ASSUME ClockTypeOK, [TimersNext]_timerVars
    PROVE  [Next]_vars
<1>1. CASE Pass
  BY <1>1, TickIsClock, ClockAssumption DEF Pass, ClockTypeOK
<1>2. CASE \E w \in 1 .. MaxWall : SetClock(w)
  BY <1>2, TickIsClock DEF SetClock
<1>3. CASE MonitorReads
  <2>1. Refresh /\ UNCHANGED <<sugar, samples>>
    BY <1>3 DEF MonitorReads, Refresh
  <2> QED
    BY <2>1 DEF Next, ClockNext
<1>4. CASE MonitorCounts
  BY <1>4, TimersAssumption DEF MonitorCounts, Next
<1>5. CASE Reports
  BY <1>5 DEF Reports, Next
<1>6. CASE Check \/ (\E t \in Timer : Idles(t) \/ Sleeps(t)) \/ UNCHANGED timerVars
  BY <1>6 DEF Check, Idles, Sleeps, timerVars
<1> QED
  BY <1>1, <1>2, <1>3, <1>4, <1>5, <1>6 DEF TimersNext

LEMMA TimersClockType == TimersSpec => []ClockTypeOK
<1>1. TimersInit => ClockTypeOK
  BY ClockInitType DEF TimersInit, Init
<1>2. ClockTypeOK /\ [TimersNext]_timerVars => ClockTypeOK'
  <2> SUFFICES ASSUME ClockTypeOK, [TimersNext]_timerVars PROVE ClockTypeOK'
    OBVIOUS
  <2>1. [Next]_vars
    BY TimersStepIsPps
  <2>2. [ClockNext]_clockVars
    BY <2>1 DEF Next, vars, Count, Update, ClockNext
  <2> QED
    BY <2>2, ClockTypeStep
<1> QED
  BY <1>1, <1>2, PTL DEF TimersSpec

\* The timers refresh the clock and update the statistics only as Pps allows it,
\* so that what is proved of Pps holds under the timers (SrsFastTimer::cycle).
THEOREM TimersImplementPps == TimersSpec => Spec
<1>1. TimersInit => Init
  BY DEF TimersInit
<1>2. ClockTypeOK /\ [TimersNext]_timerVars => [Next]_vars
  BY TimersStepIsPps
<1> QED
  BY <1>1, <1>2, TimersClockType, PTL DEF TimersSpec, Spec

-----------------------------------------------------------------------------
(* The timers: the inductive invariant *)

\* When the monitor's coroutine is resumed next: for the rest of a round, the
\* scheduler's reading decides.
Planned ==
    IF state[Monitor] \in {"counting", "handled"} THEN checked + Interval[Monitor]
    ELSE due[Monitor]

\* After a time base the monitor sleeps at most an interval, and time has not gone
\* further than its coroutine allows.
Follows(base) ==
    /\ Planned <= base + Interval[Monitor]
    /\ wall <= base \/ wall <= due[Monitor] + Latency

\* The next reading cannot be a stall.
Quiet == previous = 0 \/ (previous > 0 /\ Follows(previous))

\* The next reading comes before the time the scheduler took, so that the one
\* after it can be a stall.
Behind == state[Monitor] = "ready" /\ checked > wall

One(b) == IF b THEN 1 ELSE 0

Kinds ==
    /\ state \in [Timer -> States]
    /\ due \in [Timer -> Nat]
    /\ checked \in Nat
    /\ previous \in -1 .. MaxWall
    /\ jumps \in 0 .. MaxJumps
    /\ failures \in 0 .. MaxFailures
    /\ settled \in 0 .. 2

\* Who was woken was due.
Woken == state[Monitor] # "sleeping" => due[Monitor] <= checked

\* What an undisturbed clock has to do with the cache.
Undisturbed ==
    /\ settled >= 1 => cache <= wall /\ ~Behind
    /\ settled = 2 => Follows(cache)

\* Every cause pays for one stall, counted or still to come.
Paid ==
    sugar + One(state[Monitor] = "counting") + One(~Quiet) + One(Behind)
        <= jumps + failures + setBacks

TimersInv == ClockTypeOK /\ sugar \in Nat /\ Kinds /\ Woken /\ Undisturbed /\ Paid

LEMMA TimersInvInit == TimersInit => TimersInv
<1> SUFFICES ASSUME TimersInit PROVE TimersInv
  OBVIOUS
<1>1. ClockTypeOK /\ sugar = 0 /\ setBacks = 0 /\ wall \in 1 .. MaxWall
  BY ClockInitType DEF TimersInit, Init, ClockInit
<1>2. state[Monitor] = "ready" /\ checked = wall /\ due[Monitor] = wall
  BY TimersAssumption DEF TimersInit
<1>3. Kinds
  BY <1>1, TimersAssumption, ClockAssumption DEF TimersInit, Kinds, States
<1>4. Quiet /\ ~Behind
  BY <1>1, <1>2 DEF TimersInit, Quiet, Behind
<1> QED
  BY <1>1, <1>2, <1>3, <1>4 DEF TimersInit, TimersInv, Woken, Undisturbed, Paid, One

LEMMA KindsStep ==
    ASSUME TimersInv, ClockTypeOK', TimersNext
    PROVE  Kinds' /\ sugar' \in Nat
<1> USE TimersAssumption, BurstAssumption, ClockAssumption
    DEF TimersInv, Kinds, States, ClockTypeOK
<1>1. CASE Pass
  BY <1>1 DEF Pass, Tick, sched, history
<1>2. CASE \E w \in 1 .. MaxWall : SetClock(w)
  BY <1>2 DEF SetClock, Tick, sched, history
<1>3. CASE Check
  BY <1>3 DEF Check, vars, clockVars, history
<1>4. CASE MonitorReads
  BY <1>4 DEF MonitorReads, Remember
<1>5. CASE MonitorCounts
  BY <1>5 DEF MonitorCounts, Count, history
<1>6. CASE Reports
  BY <1>6 DEF Reports, Update, history
<1>7. CASE \E t \in Timer : Idles(t)
  BY <1>7 DEF Idles, vars, history
<1>8. CASE \E t \in Timer : Sleeps(t)
  BY <1>8 DEF Sleeps, vars, history
<1> QED
  BY <1>1, <1>2, <1>3, <1>4, <1>5, <1>6, <1>7, <1>8 DEF TimersNext

\* What a step does to the monitor, when another timer or the reporter takes it.
LEMMA OthersStep ==
    ASSUME TimersInv, ClockTypeOK',
           state'[Monitor] = state[Monitor], due'[Monitor] = due[Monitor],
           UNCHANGED <<wall, setBacks, sugar, checked, previous, history>>,
           cache' = cache \/ cache' = wall
    PROVE  Woken' /\ Undisturbed' /\ Paid'
<1> USE TimersAssumption
    DEF TimersInv, Kinds, ClockTypeOK, Woken, Undisturbed, Paid, Quiet, Behind, Follows,
        Planned, One, history
<1>1. Woken' /\ Paid'
  OBVIOUS
<1>2. Undisturbed'
  OBVIOUS
<1> QED
  BY <1>1, <1>2

LEMMA PassStep ==
    ASSUME TimersInv, Pass
    PROVE  Woken' /\ Undisturbed' /\ Paid'
<1> USE TimersAssumption
    DEF TimersInv, Kinds, ClockTypeOK, Woken, Undisturbed, Paid, Quiet, Behind, Follows,
        Planned, One
<1>1. /\ wall' = wall + 1 /\ wall < due[Monitor] + Latency
      /\ setBacks' = setBacks
      /\ UNCHANGED <<state, due, checked, sugar, previous, cache, jumps, failures, settled>>
  BY DEF Pass, Tick, clock, sched, history
<1> QED
  BY <1>1

LEMMA SetClockStep ==
    ASSUME TimersInv, NEW w \in 1 .. MaxWall, SetClock(w)
    PROVE  Woken' /\ Undisturbed' /\ Paid'
<1> USE TimersAssumption
    DEF TimersInv, Kinds, ClockTypeOK, Woken, Undisturbed, Paid, Quiet, Behind, Follows,
        Planned, One
<1>1. /\ wall' = w /\ w # wall /\ settled' = 0
      /\ setBacks' = IF w < wall THEN setBacks + 1 ELSE setBacks
      /\ jumps' = IF w > wall THEN jumps + 1 ELSE jumps
      /\ UNCHANGED <<state, due, checked, sugar, previous, failures>>
  BY DEF SetClock, Tick, sched
<1>2. CASE w > wall
  BY <1>1, <1>2
<1>3. CASE w < wall
  BY <1>1, <1>3
<1> QED
  BY <1>1, <1>2, <1>3

LEMMA CheckStep ==
    ASSUME TimersInv, Check
    PROVE  Woken' /\ Undisturbed' /\ Paid'
<1> USE TimersAssumption
    DEF TimersInv, Kinds, ClockTypeOK, Woken, Undisturbed, Paid, Quiet, Behind, Follows,
        Planned, One
<1>1. /\ state[Monitor] = "sleeping" /\ checked' = wall
      /\ state'[Monitor] = IF due[Monitor] <= wall THEN "ready" ELSE "sleeping"
      /\ UNCHANGED <<wall, setBacks, cache, sugar, due, previous, jumps, failures, settled>>
  BY DEF Check, vars, clockVars, clock, history
<1> QED
  BY <1>1

LEMMA SleepStep ==
    ASSUME TimersInv, Sleeps(Monitor)
    PROVE  Woken' /\ Undisturbed' /\ Paid'
<1> USE TimersAssumption
    DEF TimersInv, Kinds, ClockTypeOK, Woken, Undisturbed, Paid, Quiet, Behind, Follows,
        Planned, One
<1>1. /\ state[Monitor] = "handled" /\ state'[Monitor] = "sleeping"
      /\ due'[Monitor] = checked + Interval[Monitor]
      /\ UNCHANGED <<wall, setBacks, cache, sugar, checked, previous, jumps, failures, settled>>
  BY DEF Sleeps, vars, clockVars, clock, history
<1> QED
  BY <1>1

LEMMA CountStep ==
    ASSUME TimersInv, MonitorCounts
    PROVE  Woken' /\ Undisturbed' /\ Paid'
<1> USE TimersAssumption
    DEF TimersInv, Kinds, ClockTypeOK, Woken, Undisturbed, Paid, Quiet, Behind, Follows,
        Planned, One
<1>1. /\ state[Monitor] = "counting" /\ state'[Monitor] = "handled"
      /\ sugar' = sugar + 1
      /\ UNCHANGED <<wall, setBacks, cache, due, checked, previous, jumps, failures, settled>>
  BY DEF MonitorCounts, Count, clockVars, clock, history
<1> QED
  BY <1>1

LEMMA ReadStep ==
    ASSUME TimersInv, ClockTypeOK', MonitorReads
    PROVE  Woken' /\ Undisturbed' /\ Paid'
<1> USE TimersAssumption, LatencyAssumption
    DEF TimersInv, Kinds, ClockTypeOK, Woken, Undisturbed, Paid, Quiet, Behind, Follows,
        Planned, One
<1>1. /\ state[Monitor] = "ready"
      /\ UNCHANGED <<wall, setBacks, sugar, due, checked, jumps>>
  BY DEF MonitorReads, Begins
<1>2. PICK now \in {wall, -1} :
        /\ now = wall => Refreshed
        /\ now = -1 => UNCHANGED clock
        /\ failures' = IF now = -1 THEN failures + 1 ELSE failures
        /\ settled' = IF now = -1 THEN 0 ELSE IF settled = 2 THEN 2 ELSE settled + 1
        /\ state'[Monitor] = IF previous # 0 /\ now - previous > Stall THEN "counting"
                             ELSE "handled"
        /\ previous' = now
  BY DEF MonitorReads, Remember
\* A failed reading is its own cause; it is earlier than any other.
<1>3. CASE now = -1
  <2>1. state'[Monitor] = "handled" /\ failures' = failures + 1 /\ settled' = 0
    BY <1>2, <1>3
  <2> QED
    BY <1>1, <1>2, <1>3, <2>1
\* A reading that is a stall was not quiet; what follows it is quiet unless it is
\* behind the scheduler's reading.
<1>4. CASE now = wall
  <2>1. cache' = wall /\ previous' = wall /\ failures' = failures
    BY <1>2, <1>4 DEF Refreshed
  <2>2. Quiet => ~(previous # 0 /\ now - previous > Stall)
    BY <1>1, <1>4
  <2>3. Quiet' \/ checked > wall
    BY <1>1, <1>2, <1>4, <2>1
  <2>4. Woken' /\ Paid'
    BY <1>1, <1>2, <1>4, <2>1, <2>2, <2>3
  <2>5. Undisturbed'
    BY <1>1, <1>2, <1>4, <2>1
  <2> QED
    BY <2>4, <2>5
<1> QED
  BY <1>2, <1>3, <1>4

LEMMA TimersInvStep ==
    ASSUME TimersInv, ClockTypeOK', [TimersNext]_timerVars
    PROVE  TimersInv'
<1>1. CASE UNCHANGED timerVars
  BY <1>1 DEF timerVars, vars, clockVars, clock, sched, history, TimersInv, Kinds, Woken,
     Undisturbed, Paid, Quiet, Behind, Follows, Planned, ClockTypeOK
<1>2. CASE TimersNext
  <2>1. Kinds' /\ sugar' \in Nat
    BY <1>2, KindsStep
  <2>2. Woken' /\ Undisturbed' /\ Paid'
    <3>1. CASE Reports
      <4>1. /\ state'[Monitor] = state[Monitor]
            /\ UNCHANGED <<wall, setBacks, sugar, due, checked, previous, history>>
            /\ cache' = cache \/ cache' = wall
        BY <3>1, TimersAssumption
           DEF Reports, Update, Get, Refresh, Refreshed, clockVars, clock, TimersInv, Kinds
      <4> QED
        BY <4>1, OthersStep
    <3>2. CASE \E t \in Timer : Idles(t) \/ (t # Monitor /\ Sleeps(t))
      <4>1. /\ state'[Monitor] = state[Monitor] /\ due'[Monitor] = due[Monitor]
            /\ UNCHANGED <<wall, setBacks, sugar, cache, checked, previous, history>>
        BY <3>2, TimersAssumption
           DEF Idles, Sleeps, vars, clockVars, clock, TimersInv, Kinds
      <4> QED
        BY <4>1, OthersStep
    <3> QED
      BY <1>2, <3>1, <3>2, PassStep, SetClockStep, CheckStep, SleepStep, CountStep, ReadStep
         DEF TimersNext
  <2> QED
    BY <2>1, <2>2 DEF TimersInv
<1> QED
  BY <1>1, <1>2

LEMMA TimersInductive == TimersSpec => []TimersInv
<1>1. TimersInv /\ ClockTypeOK' /\ [TimersNext]_timerVars => TimersInv'
  BY TimersInvStep
<1> QED
  BY TimersInvInit, <1>1, TimersClockType, PTL DEF TimersSpec

-----------------------------------------------------------------------------
(* The theorems *)

\* Every variable of the timers and of what they drive has its type
\* (SrsFastTimer::cycle, SrsClockWallMonitor::on_timer).
THEOREM TimersTypeCorrect == TimersSpec => []TimersTypeOK
<1>1. TimersInv /\ TypeOK => TimersTypeOK
  BY DEF TimersInv, Kinds, TimersTypeOK
<1> QED
  BY <1>1, TimersInductive, TimersImplementPps, PpsTypeCorrect, PTL

\* Once the monitor has read an undisturbed clock twice, the cached time is at most
\* an interval and the latency old, and never ahead (SrsClockWallMonitor::on_timer).
THEOREM FreshTheorem == TimersSpec => []CacheFresh
<1>1. TimersInv => CacheFresh
  BY TimersAssumption
     DEF TimersInv, Kinds, ClockTypeOK, Undisturbed, Follows, Planned, Woken, CacheFresh
<1> QED
  BY <1>1, TimersInductive, PTL

\* Every stall that is counted has a cause of its own: a jump or hold-up, a failed
\* reading or a step back (SrsClockWallMonitor::on_timer).
THEOREM StallsTheorem == TimersSpec => []StallsExplained
<1>1. TimersInv => StallsExplained
  BY DEF TimersInv, Kinds, ClockTypeOK, Paid, One, StallsExplained
<1> QED
  BY <1>1, TimersInductive, PTL
=============================================================================
