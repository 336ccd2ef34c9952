---------------------------- MODULE VersionQuery ----------------------------
(***************************************************************************)
(* SrsLatestVersion (trunk/src/app/srs_app_latest_version.cpp): a          *)
(* coroutine that asks a service once an hour which release fits and which *)
(* is stable.  Its coroutine object is the one Lifecycle specifies; what   *)
(* happens between two calls of pull() is its own.                         *)
(*                                                                         *)
(* An interrupt is two things: the alert, which stays and which pull()     *)
(* reports, and the flag of state-threads, which the first blocking call   *)
(* consumes when it fails.  A handler has to look at the alert after every *)
(* blocking call that fails.  This one ignores the errors of its request,  *)
(* and sleeps for an hour before it looks.                                 *)
(***************************************************************************)
EXTENDS Naturals, Lifecycle

CONSTANTS
    Trd,        \* the coroutine of the object
    MaxRelease  \* bound: the latest release

ASSUME VersionAssumption == Trd \in Co /\ MaxRelease \in Nat

VARIABLES
    pc,          \* where cycle() is
    pending,     \* the flag _ST_FL_INTERRUPT of its thread
    rested,      \* since its last request it has slept for the whole time it wanted to
    late,        \* sleeps it began although it was alerted, the flag being consumed
    released,    \* the latest release the service knows
    match, stable  \* match_version_ and stable_version_, as releases; 0 is ""

vars == <<lvars, pc, pending, rested, late, released, match, stable>>
versions == <<match, stable>>

Points == {"none", "first", "loop", "asking", "finish", "resting", "ended"}

Init ==
    /\ LInit
    /\ pc = "none" /\ pending = FALSE
    /\ rested = FALSE /\ late = 0
    /\ released = 1
    /\ match = 0 /\ stable = 0

\* start(), when the configuration asks for it; the thread will begin with its sleep.
Start ==
    /\ pc = "none"
    /\ Launch(Trd)
    /\ pc' = "first"
    /\ UNCHANGED <<pending, rested, late, released, versions>>

\* start() of the coroutine fails.
StartFails ==
    /\ pc = "none" /\ ~closed[Trd]
    /\ Raise(Trd)
    /\ pc' = "ended"
    /\ UNCHANGED <<pending, rested, late, released, versions>>

\* A thread that runs is interrupted once.
Signal == phase[Trd] = "live" /\ ~alert[Trd]

\* The destructor: the coroutine is stopped, a thread that runs is interrupted.
Stop ==
    /\ Close(Trd)
    /\ pending' = (pending \/ Signal)
    /\ UNCHANGED <<pc, rested, late, released, versions>>

\* It waits for the thread, and frees coroutine and versions.
StopEnds ==
    /\ Join(Trd) \/ (Free(Trd) /\ ~gone[Trd])
    /\ gone'[Trd]
    /\ UNCHANGED <<pc, pending, rested, late, released, versions>>

\* srs_usleep: the time is over, or the interrupt ends the sleep, or does not let it
\* begin.  The flag is consumed in any case.
Wake ==
    /\ pc \in {"first", "resting"}
    /\ rested' \in {TRUE, ~pending}
    /\ pending' = FALSE
    /\ pc' = "loop"
    /\ UNCHANGED <<lvars, late, released, versions>>

\* Faulty variant: the error of pull() is ignored as the request's error is.
PullIgnored ==
    /\ pc = "loop"
    /\ pc' = "asking"
    /\ UNCHANGED <<lvars, pending, rested, late, released, versions>>

\* Faulty variant: the loop goes on.
PullContinues ==
    /\ pc = "loop"
    /\ pc' = IF alert[Trd] THEN "loop" ELSE "asking"
    /\ UNCHANGED <<lvars, pending, rested, late, released, versions>>

\* pull(): the loop ends, or the service is asked.
Pull ==
    /\ pc = "loop"
    /\ IF alert[Trd]
       THEN pc' = "ended" /\ Finish(Trd) /\ UNCHANGED alert
       ELSE pc' = "asking" /\ UNCHANGED lvars
    /\ UNCHANGED <<pending, rested, late, released, versions>>

\* What the request and the checks of its answer end with.
Failures == {"no answer", "bad status", "empty", "no object", "no match_version"}
Answers == Failures \cup {"no stable_version", "complete"}

\* Faulty variant: the stable version is taken first.
TakeStableFirst(a) ==
    /\ stable' = IF a \in {"no match_version", "complete"} THEN released ELSE stable
    /\ match' = IF a = "complete" THEN released ELSE match

\* The first version is taken before the second is looked for.
Take(a) ==
    /\ match' = IF a \in Failures THEN match ELSE released
    /\ stable' = IF a = "complete" THEN released ELSE stable

\* Faulty variant: a request that fails is sent again at once.
AskAgain ==
    /\ pc = "asking"
    /\ \E a \in Answers :
          /\ Take(a)
          /\ pending' \in {pending, IF a = "no answer" THEN FALSE ELSE pending}
          /\ pc' = IF a \in Failures THEN "loop" ELSE "finish"
    /\ rested' = FALSE
    /\ UNCHANGED <<lvars, late, released>>

\* query_latest_version.  An interrupt makes the call fail in which the coroutine
\* is blocked, if there is one left; the error is freed.
Ask ==
    /\ pc = "asking"
    /\ \E a \in Answers :
          /\ Take(a)
          /\ pending' \in {pending, IF a = "no answer" THEN FALSE ELSE pending}
    /\ pc' = "finish"
    /\ rested' = FALSE
    /\ UNCHANGED <<lvars, late, released>>

\* The result is logged, and the coroutine goes to sleep without a look at pull().
Rest ==
    /\ pc = "finish"
    /\ late' = IF alert[Trd] /\ ~pending THEN late + 1 ELSE late
    /\ pc' = "resting"
    /\ UNCHANGED <<lvars, pending, rested, released, versions>>

\* The project publishes a release.
Publish ==
    /\ released < MaxRelease
    /\ released' = released + 1
    /\ UNCHANGED <<lvars, pc, pending, rested, late, versions>>

Next ==
    \/ Start \/ StartFails \/ Stop \/ StopEnds
    \/ Wake \/ Pull \/ Ask \/ Rest
    \/ Publish

Spec == Init /\ [][Next]_vars

\* Sleeps end, the HTTP client has timeouts, and the destructor resumes when the
\* thread has ended.
FairSpec == Spec /\ WF_vars(Wake \/ Pull \/ Ask \/ Rest) /\ WF_vars(StopEnds)

-----------------------------------------------------------------------------
\* "Every an hour", "Only report after 5+ minutes": between two requests, and before
\* the first one, lies a sleep that nobody has cut short, however requests fail
\* and whenever the object is destroyed.
AsksRested == pc = "asking" => rested

\* An interrupt that its request has swallowed costs one sleep, never a second one.
OneLateSleep == late <= 1

\* What is shown as the stable version is no later release than what is shown as the
\* matching one, whichever requests have failed half way.
VersionsInOrder == stable <= match

\* The destructor returns, although it may have to wait until the sleep is over.
StopReturns == closed[Trd] ~> gone[Trd]

\* srs_app_st.hpp on interrupt(): a coroutine that is blocked "will be wakeup ...
\* then it will found should quit"; so none sleeps on after it.
InterruptWakes == alert[Trd] /\ pc \in {"first", "resting"} => pending
=============================================================================
