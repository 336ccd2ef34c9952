------------------------- MODULE VersionQueryProofs -------------------------
(***************************************************************************)
(* The safety of SrsLatestVersion, for any number of releases and of other *)
(* coroutines.                                                             *)
(***************************************************************************)
EXTENDS VersionQuery, TLAPS

\* Who was interrupted is alerted, and an alert ends the loop at its next round.
Alerted ==
    /\ pending => alert[Trd]
    /\ late \in 0 .. 1
    /\ late = 1 => alert[Trd] /\ pc \in {"resting", "loop", "ended"}

\* Only an alerted coroutine can come to pull() without its whole sleep.
Rested ==
    /\ pc = "loop" => rested \/ alert[Trd]
    /\ pc = "asking" => rested

Releases ==
    /\ released \in Nat /\ match \in Nat /\ stable \in Nat
    /\ match <= released /\ stable <= match

VersionInv ==
    /\ pc \in Points /\ pending \in BOOLEAN /\ alert \in [Co -> BOOLEAN]
    /\ Alerted /\ Rested /\ Releases

LEMMA VersionInit == Init => VersionInv
<1> SUFFICES ASSUME Init PROVE VersionInv
  OBVIOUS
<1>1. alert \in [Co -> BOOLEAN]
  BY DEF Init, LInit
<1>2. Alerted /\ Rested /\ Releases
  BY DEF Init, Alerted, Rested, Releases
<1> QED
  BY <1>1, <1>2 DEF Init, VersionInv, Points

\* The alert stays, whatever happens to the object of the coroutine.
LEMMA AlertStays ==
    ASSUME VersionInv, [Next]_vars
    PROVE  alert' \in [Co -> BOOLEAN] /\ (alert[Trd] => alert'[Trd])
BY VersionAssumption
   DEF VersionInv, Next, vars, lvars, Start, StartFails, Stop, StopEnds, Wake, Pull, Ask, Rest,
       Publish, Launch, Raise, Finish, Close, Join, Free

LEMMA VersionStep ==
    ASSUME VersionInv, [Next]_vars
    PROVE  VersionInv'
<1> USE VersionAssumption, AlertStays DEF VersionInv, Points, Alerted, Rested, Releases, versions
<1>1. CASE Start
  BY <1>1 DEF Start, Launch
<1>2. CASE StartFails
  BY <1>2 DEF StartFails, Raise
<1>3. CASE Stop
  <2>1. phase[Trd] = "live" => alert'[Trd]
    BY <1>3 DEF Stop, Close
  <2>2. pending' => alert'[Trd]
    BY <1>3, <2>1 DEF Stop, Signal
  <2> QED
    BY <1>3, <2>2 DEF Stop, Signal
<1>4. CASE StopEnds
  BY <1>4 DEF StopEnds
<1>5. CASE Wake
  BY <1>5 DEF Wake, lvars
<1>6. CASE Pull
  BY <1>6 DEF Pull, lvars
<1>7. CASE Ask
  <2>1. /\ pc = "asking" /\ pc' = "finish" /\ late' = late /\ released' = released
        /\ UNCHANGED alert
    BY <1>7 DEF Ask, lvars
  <2>2. PICK a \in Answers : Take(a)
    BY <1>7 DEF Ask
  <2>3. match' \in {match, released} /\ stable' \in {stable, released}
        /\ (stable' = released => stable' = stable \/ match' = released)
    BY <2>2 DEF Take, Answers, Failures
  <2>4. Releases'
    BY <2>1, <2>3
  <2>5. pending' = pending \/ pending' = FALSE
    BY <1>7 DEF Ask
  <2>6. pending' \in BOOLEAN /\ (pending' => alert'[Trd])
    <3>1. CASE pending' = pending
      BY <2>1, <3>1
    <3>2. CASE pending' = FALSE
      BY <3>2
    <3> QED
      BY <2>5, <3>1, <3>2
  <2> QED
    BY <2>1, <2>4, <2>6
<1>8. CASE Rest
  BY <1>8 DEF Rest, lvars
<1>9. CASE Publish
  BY <1>9 DEF Publish, lvars
<1>10. CASE UNCHANGED vars
  BY <1>10 DEF vars, lvars
<1> QED
  BY <1>1, <1>2, <1>3, <1>4, <1>5, <1>6, <1>7, <1>8, <1>9, <1>10 DEF Next

LEMMA VersionInductive == Spec => []VersionInv
<1>1. VersionInv /\ [Next]_vars => VersionInv'
  BY VersionStep
<1> QED
  BY VersionInit, <1>1, PTL DEF Spec

\* A whole sleep lies before every request (SrsLatestVersion::cycle).
THEOREM RestedTheorem == Spec => []AsksRested
<1>1. VersionInv => AsksRested
  BY DEF VersionInv, Rested, AsksRested
<1> QED
  BY <1>1, VersionInductive, PTL

\* A swallowed interrupt costs at most one sleep (SrsLatestVersion::cycle).
THEOREM LateTheorem == Spec => []OneLateSleep
<1>1. VersionInv => OneLateSleep
  BY DEF VersionInv, Alerted, OneLateSleep
<1> QED
  BY <1>1, VersionInductive, PTL

\* The stable version is never later than the matching one
\* (SrsLatestVersion::query_latest_version).
THEOREM OrderTheorem == Spec => []VersionsInOrder
<1>1. VersionInv => VersionsInOrder
  BY DEF VersionInv, Releases, VersionsInOrder
<1> QED
  BY <1>1, VersionInductive, PTL

\* The object drives its coroutine as Lifecycle allows it (SrsLatestVersion::start,
\* SrsLatestVersion::cycle, SrsLatestVersion::~SrsLatestVersion).
THEOREM VersionUsesLifecycle == Spec => LSpec
<1>1. Init => LInit
  BY DEF Init
<1>2. [Next]_vars => [LNext]_lvars
  BY VersionAssumption
     DEF Next, vars, lvars, LNext, Start, StartFails, Stop, StopEnds, Wake, Pull, Ask, Rest, Publish
<1> QED
  BY <1>1, <1>2, PTL DEF Spec, LSpec
=============================================================================
