------------------------- MODULE FastCoroutineProofs -------------------------
(***************************************************************************)
(* Theorems about FastCoroutine, for every set of objects and every        *)
(* pattern of calls.                                                       *)
(***************************************************************************)
EXTENDS FastCoroutineAbs, TLAPS

Ended == {"zombie", "dying", "freed"}

\* The thread exists from start() on, cycle_done and a worker's error only after
\* its end, and then they tell how it ended.
ThreadInv ==
    \A c \in Co :
        /\ started[c] <=> thr[c] # "none"
        /\ cycle_done[c] => thr[c] \in Ended
        /\ thr[c] \in Ended =>
              \/ ret[c] = Ok /\ cycle_done[c]
              \/ ret[c] # Ok /\ ret[c].from = "worker" /\ trd_err[c] = ret[c]
        /\ trd_err[c].from = "worker" => thr[c] \in Ended /\ ret[c] # Ok
        /\ pc[c] = "quit" => ret[c] # Ok /\ ret[c].from = "worker" /\ trd_err[c] # Ok
        /\ interrupted[c] => started[c] /\ trd_err[c] # Ok

\* stop() and the destructor: the thread is freed only behind a stop(), and no
\* interrupt() gets past its early return after that.
StopInv ==
    \A c \in Co :
        /\ stopping[c] => disposed[c]
        /\ deleted[c] => disposed[c] /\ ~stopping[c]
        /\ disposed[c] /\ ~stopping[c] => thr[c] \in {"none", "dying", "freed"}
        /\ thr[c] \in {"dying", "freed"} => disposed[c] /\ ~stopping[c]
        /\ disposed[c] /\ started[c] => interrupted[c] \/ cycle_done[c]
        /\ disposed[c] /\ ~stopping[c] /\ ~started[c] => trd_err[c] # Ok

\* An actor inside of stop() is the only one, and waits for a thread that runs.
JoinInv ==
    /\ \A a \in Actors, c \in Co : join[a] = c => stopping[c] /\ thr[a] \in Live
    /\ \A a, b \in Actors : join[a] # NoCo /\ join[a] = join[b] => a = b
    /\ \A a \in Actors, c \in Co : join[a] = c /\ thr[a] = "blocked" => thr[c] \in Live

\* Where an interrupted worker can be.
SleepInv ==
    \A c \in Co :
        /\ pc[c] = "sleeping" => thr[c] \in {"blocked", "runnable"} /\ join[c] = NoCo
        /\ interrupted[c] /\ thr[c] \in Live /\ pc[c] = "work" => flag[c]
        /\ interrupted[c] /\ pc[c] = "sleeping" => thr[c] # "blocked"

IInv == TypeOK /\ ThreadInv /\ StopInv /\ JoinInv /\ SleepInv /\ ThreadUseSafe

\* With disciplined callers.
DInv ==
    /\ \A a \in Actors, c \in Co : join[a] = c => <<a, c>> \in Stops
    /\ \A c \in Co : stopping[c] => \E a \in Actors : join[a] = c
    /\ \A a \in Actors : flag[a] => \E b \in Actors : <<b, a>> \in Stops \cup Interrupts
    /\ fault = "none"

-----------------------------------------------------------------------------
(* Lemmas *)

\* What the errors of the model are: success is none of them, and "from" keeps
\* apart an error a caller allocated and one the worker returned.
LEMMA ErrorFacts ==
    /\ Ok \notin Errors /\ Ok.from # "worker"
    /\ \A x \in Codes : /\ CallerError(x) \in Errors /\ CallerError(x).from # "worker"
                        /\ WorkerError(x) \in Errors /\ WorkerError(x).from = "worker"
    /\ \A e \in Errors : e.code \in Codes
BY DEF Ok, Errors, CallerError, WorkerError

\* The initial state satisfies the invariant.
LEMMA InitInv == Init => IInv
BY ErrorFacts, CoAssumption
   DEF Init, IInv, TypeOK, ThreadInv, StopInv, JoinInv, SleepInv, ThreadUseSafe,
       Actors, ThreadStates, Live, Ended, Faults

\* What interrupt() does in a state that satisfies the invariant, seen from one
\* object: it never reaches a freed thread.
LEMMA InterruptEffect ==
    ASSUME IInv, NEW c \in Co, DoInterrupt(c)
    PROVE  /\ fault' = fault
           /\ interrupted' \in [Co -> BOOLEAN] /\ trd_err' \in [Co -> Errors \cup {Ok}]
           /\ thr' \in [Actors -> ThreadStates] /\ flag' \in [Actors -> BOOLEAN]
           /\ \A b \in Actors : b # c => thr'[b] = thr[b] /\ flag'[b] = flag[b]
           /\ \A b \in Co : b # c => interrupted'[b] = interrupted[b] /\ trd_err'[b] = trd_err[b]
           /\ thr'[c] # thr[c] => thr[c] = "blocked" /\ thr'[c] = "runnable"
           /\ interrupted[c] => interrupted'[c]
           /\ started[c] => interrupted'[c] \/ cycle_done[c]
           /\ interrupted'[c] => \/ interrupted[c] /\ thr'[c] = thr[c]
                                \/ /\ started[c] /\ thr'[c] # "blocked"
                                   /\ thr[c] # "zombie" => flag'[c]
           /\ interrupted'[c] => trd_err'[c] # Ok
           /\ trd_err[c] # Ok => trd_err'[c] = trd_err[c]
           /\ trd_err[c] = Ok => trd_err'[c].from # "worker"
           /\ flag[c] => flag'[c]
<1>1. thr[c] = "freed" => interrupted[c] \/ cycle_done[c]
  BY DEF IInv, StopInv, ThreadInv
<1>2. CASE ~started[c] \/ interrupted[c] \/ cycle_done[c]
  <2>1. UNCHANGED <<interrupted, trd_err, flag, thr, fault>>
    BY <1>2 DEF DoInterrupt
  <2>2. interrupted[c] => trd_err[c] # Ok
    BY DEF IInv, ThreadInv
  <2> QED  BY <1>2, <2>1, <2>2, ErrorFacts DEF IInv, TypeOK
<1>3. CASE ~(~started[c] \/ interrupted[c] \/ cycle_done[c])
  <2>1. /\ fault' = fault
        /\ interrupted' = [interrupted EXCEPT ![c] = TRUE]
        /\ thr' = IF thr[c] = "blocked" THEN [thr EXCEPT ![c] = "runnable"] ELSE thr
        /\ flag' = IF thr[c] = "zombie" THEN flag ELSE [flag EXCEPT ![c] = TRUE]
        /\ trd_err' = IF trd_err[c] = Ok
                      THEN [trd_err EXCEPT ![c] = CallerError("interrupted")]
                      ELSE trd_err
    BY <1>1, <1>3 DEF DoInterrupt
  <2>2. CallerError("interrupted") \in Errors /\ CallerError("interrupted").from # "worker"
    BY ErrorFacts DEF Codes
  <2>3. c \in Actors
    BY DEF Actors
  <2> QED  BY <1>3, <2>1, <2>2, <2>3, ErrorFacts DEF IInv, TypeOK, ThreadStates, Live
<1> QED  BY <1>2, <1>3


LEMMA StartRefusedStep == ASSUME IInv, NEW a \in Actors, NEW c \in Co, StartRefused(a, c) PROVE IInv'
<1>1. TypeOK'
  BY ErrorFacts DEF IInv, TypeOK, StartRefused, Codes
<1>2. ThreadInv'
  BY ErrorFacts DEF IInv, StartRefused, ThreadInv, Codes
<1>3. StopInv'
  BY DEF IInv, StartRefused, StopInv
<1>4. JoinInv'
  BY DEF IInv, StartRefused, JoinInv
<1>5. SleepInv'
  BY DEF IInv, StartRefused, SleepInv
<1>6. ThreadUseSafe'
  BY DEF StartRefused, CanCall, Running, ThreadUseSafe
<1> QED  BY <1>1, <1>2, <1>3, <1>4, <1>5, <1>6 DEF IInv

LEMMA StartFailsStep == ASSUME IInv, NEW a \in Actors, NEW c \in Co, StartFails(a, c) PROVE IInv'
<1>1. TypeOK'
  BY ErrorFacts DEF IInv, TypeOK, StartFails, Codes
<1>2. ThreadInv'
  BY ErrorFacts DEF IInv, StartFails, ThreadInv, Ended, Codes
<1>3. StopInv'
  BY DEF IInv, StartFails, StopInv
<1>4. JoinInv'
  BY DEF IInv, StartFails, JoinInv
<1>5. SleepInv'
  BY DEF IInv, StartFails, SleepInv
<1>6. ThreadUseSafe'
  BY DEF StartFails, CanCall, Running, ThreadUseSafe
<1> QED  BY <1>1, <1>2, <1>3, <1>4, <1>5, <1>6 DEF IInv

LEMMA StartStep == ASSUME IInv, NEW a \in Actors, NEW c \in Co, Start(a, c) PROVE IInv'
<1>1. TypeOK'
  BY DEF IInv, TypeOK, ThreadStates, Live, Start
<1>2. ThreadInv'
  BY DEF IInv, TypeOK, Actors, Start, ThreadInv, Ended
<1>3. StopInv'
  BY DEF IInv, Start, StopInv
<1>4. JoinInv'
  BY DEF IInv, Live, Start, JoinInv
<1>5. SleepInv'
  BY DEF IInv, Start, SleepInv, ThreadInv
<1>6. ThreadUseSafe'
  BY DEF Start, CanCall, Running, ThreadUseSafe
<1> QED  BY <1>1, <1>2, <1>3, <1>4, <1>5, <1>6 DEF IInv

LEMMA InterruptStep == ASSUME IInv, NEW a \in Actors, NEW c \in Co, Interrupt(a, c) PROVE IInv'
<1>1. TypeOK'
  BY InterruptEffect DEF IInv, TypeOK, Interrupt
<1>2. ThreadInv'
  BY InterruptEffect DEF IInv, Actors, Interrupt, ThreadInv, Ended
<1>3. StopInv'
  BY InterruptEffect DEF IInv, Actors, Interrupt, StopInv
<1>4. JoinInv'
  <2>1. \A b \in Actors : thr[b] \in Live => thr'[b] \in Live
    BY InterruptEffect DEF Interrupt, Live
  <2>2. \A b \in Actors : thr'[b] = "blocked" => thr[b] = "blocked"
    BY InterruptEffect DEF Interrupt
  <2>3. UNCHANGED <<join, stopping>>
    BY DEF Interrupt
  <2> QED  BY <2>1, <2>2, <2>3 DEF IInv, JoinInv, Actors
<1>5. SleepInv'
  BY InterruptEffect, CoAssumption DEF IInv, Actors, Live, Interrupt, SleepInv
<1>6. ThreadUseSafe'
  BY InterruptEffect DEF Interrupt, CanCall, Running, ThreadUseSafe
<1> QED  BY <1>1, <1>2, <1>3, <1>4, <1>5, <1>6 DEF IInv

LEMMA StopAgainStep == ASSUME IInv, NEW a \in Actors, NEW c \in Co, NEW d \in BOOLEAN, StopAgain(a, c, d) PROVE IInv'
<1>1. TypeOK'
  BY DEF IInv, TypeOK, Faults, StopAgain
<1>2. ThreadInv'
  BY DEF IInv, StopAgain, ThreadInv
<1>3. StopInv'
  BY DEF IInv, StopAgain, StopInv
<1>4. JoinInv'
  BY DEF IInv, StopAgain, JoinInv
<1>5. SleepInv'
  BY DEF IInv, StopAgain, SleepInv
<1>6. ThreadUseSafe'
  BY DEF StopAgain, CanCall, Running, ThreadUseSafe
<1> QED  BY <1>1, <1>2, <1>3, <1>4, <1>5, <1>6 DEF IInv

LEMMA StopBeginStep == ASSUME IInv, NEW a \in Actors, NEW c \in Co, NEW d \in BOOLEAN, StopBegin(a, c, d) PROVE IInv'
<1>1. TypeOK'
  BY InterruptEffect DEF IInv, TypeOK, StopBegin
<1>2. ThreadInv'
  BY InterruptEffect DEF IInv, Actors, StopBegin, ThreadInv, Ended
<1>3. StopInv'
  BY InterruptEffect DEF IInv, TypeOK, Actors, Live, StopBegin, StopInv
<1>4. JoinInv'
  <2>1. ~stopping[c] /\ join[a] = NoCo /\ thr[a] = "running"
    BY DEF IInv, StopInv, StopBegin, CanCall, Running
  <2>2. /\ join' = [join EXCEPT ![a] = c] /\ stopping' = [stopping EXCEPT ![c] = TRUE]
        /\ DoInterrupt(c)
    BY DEF StopBegin
  <2>3. \A b \in Actors : join[b] # c
    BY <2>1 DEF IInv, JoinInv
  <2>4. \A b \in Actors : thr[b] \in Live => thr'[b] \in Live
    BY <2>2, InterruptEffect DEF Live
  <2>5. \A b \in Actors : thr'[b] = "blocked" => thr[b] = "blocked"
    BY <2>2, InterruptEffect
  <2>6. \A b \in Actors, f \in Co : join'[b] = f => stopping'[f] /\ thr'[b] \in Live
    BY <2>1, <2>2, <2>4 DEF IInv, TypeOK, JoinInv, Live
  <2>7. \A b, e \in Actors : join'[b] # NoCo /\ join'[b] = join'[e] => b = e
    BY <2>2, <2>3 DEF IInv, JoinInv
  <2>8. \A b \in Actors, f \in Co :
           join'[b] = f /\ thr'[b] = "blocked" => thr'[f] \in Live
    BY <2>1, <2>2, <2>4, <2>5 DEF IInv, JoinInv, Actors
  <2> QED  BY <2>6, <2>7, <2>8 DEF JoinInv
<1>5. SleepInv'
  BY InterruptEffect, ErrorFacts DEF IInv, Actors, Live, StopBegin, CanCall, Running,
     SleepInv
<1>6. ThreadUseSafe'
  BY InterruptEffect DEF StopBegin, CanCall, Running, ThreadUseSafe
<1> QED  BY <1>1, <1>2, <1>3, <1>4, <1>5, <1>6 DEF IInv

LEMMA StopWithoutThreadStep == ASSUME IInv, NEW a \in Actors, NEW c \in Co, StopWithoutThread(a, c) PROVE IInv'
<1>1. TypeOK'
  BY ErrorFacts DEF IInv, TypeOK, StopWithoutThread, StopEnd, Codes
<1>2. ThreadInv'
  BY ErrorFacts DEF IInv, StopWithoutThread, StopEnd, ThreadInv, Codes
<1>3. StopInv'
  <2>1. /\ disposed[c] /\ thr[c] = "none" /\ ~started[c] /\ ~cycle_done[c]
        /\ UNCHANGED <<disposed, thr, started, interrupted, cycle_done>>
    BY DEF StopWithoutThread, Joining, StopEnd, IInv, StopInv, JoinInv, ThreadInv, Ended
  <2>2. /\ stopping' = [stopping EXCEPT ![c] = FALSE]
        /\ deleted' = deleted \/ deleted' = [deleted EXCEPT ![c] = TRUE]
    BY DEF StopWithoutThread, StopEnd
  <2>3. trd_err'[c] # Ok /\ \A b \in Co : b # c => trd_err'[b] = trd_err[b]
    BY <2>1, ErrorFacts DEF StopWithoutThread, StopEnd, IInv, TypeOK, Codes
  <2> QED  BY <2>1, <2>2, <2>3 DEF IInv, TypeOK, StopInv
<1>4. JoinInv'
  BY DEF IInv, TypeOK, Actors, ThreadStates, Live, StopWithoutThread, Joining, StopEnd,
     JoinInv
<1>5. SleepInv'
  BY DEF IInv, StopWithoutThread, StopEnd, SleepInv
<1>6. ThreadUseSafe'
  BY DEF StopWithoutThread, Joining, ThreadUseSafe
<1> QED  BY <1>1, <1>2, <1>3, <1>4, <1>5, <1>6 DEF IInv

LEMMA JoinZombieStep == ASSUME IInv, NEW a \in Actors, NEW c \in Co, JoinZombie(a, c) PROVE IInv'
<1>1. TypeOK'
  BY ErrorFacts DEF IInv, TypeOK, ThreadStates, Faults, JoinZombie, StopEnd, Codes
<1>2. ThreadInv'
  BY DEF IInv, JoinZombie, StopEnd, ThreadInv, Ended
<1>3. StopInv'
  BY DEF IInv, TypeOK, Actors, JoinZombie, Joining, StopEnd, StopInv, ThreadInv, JoinInv
<1>4. JoinInv'
  BY CoAssumption DEF IInv, TypeOK, Actors, Live, Faults, JoinZombie, Joining, StopEnd,
     JoinInv
<1>5. SleepInv'
  BY DEF IInv, Live, JoinZombie, StopEnd, SleepInv
<1>6. ThreadUseSafe'
  BY DEF IInv, JoinZombie, ThreadUseSafe, ThreadInv, Ended
<1> QED  BY <1>1, <1>2, <1>3, <1>4, <1>5, <1>6 DEF IInv

LEMMA JoinFailsStep == ASSUME IInv, NEW a \in Actors, NEW c \in Co, JoinFails(a, c) PROVE IInv'
<1>1. TypeOK'
  BY DEF IInv, TypeOK, Faults, JoinFails, JoinErrno, object
<1>2. ThreadInv'
  BY DEF IInv, JoinFails, object, ThreadInv
<1>3. StopInv'
  BY DEF IInv, JoinFails, object, StopInv
<1>4. JoinInv'
  BY DEF IInv, JoinFails, object, JoinInv
<1>5. SleepInv'
  BY DEF IInv, JoinFails, object, SleepInv
<1>6. ThreadUseSafe'
  BY CoAssumption DEF IInv, Actors, JoinFails, Joining, JoinErrno, ThreadUseSafe,
     StopInv, JoinInv
<1> QED  BY <1>1, <1>2, <1>3, <1>4, <1>5, <1>6 DEF IInv

LEMMA JoinWaitStep == ASSUME IInv, NEW a \in Actors, NEW c \in Co, JoinWait(a, c) PROVE IInv'
<1>1. TypeOK'
  BY DEF IInv, TypeOK, ThreadStates, Live, JoinWait, object
<1>2. ThreadInv'
  BY DEF IInv, JoinWait, Joining, object, ThreadInv, Ended
<1>3. StopInv'
  BY DEF IInv, JoinWait, Joining, object, StopInv
<1>4. JoinInv'
  BY DEF IInv, TypeOK, Actors, ThreadStates, Live, JoinWait, Joining, object, JoinInv,
     StopInv
<1>5. SleepInv'
  BY DEF IInv, Live, JoinWait, Joining, object, SleepInv
<1>6. ThreadUseSafe'
  BY DEF JoinWait, Joining, ThreadUseSafe
<1> QED  BY <1>1, <1>2, <1>3, <1>4, <1>5, <1>6 DEF IInv

LEMMA CycleStep == ASSUME IInv, NEW c \in Co, Cycle(c) PROVE IInv'
<1>1. TypeOK'
  BY DEF IInv, TypeOK, Cycle, object
<1>2. ThreadInv'
  BY DEF IInv, Cycle, object, ThreadInv
<1>3. StopInv'
  BY DEF IInv, Cycle, object, StopInv
<1>4. JoinInv'
  BY DEF IInv, Cycle, object, JoinInv
<1>5. SleepInv'
  BY DEF IInv, Cycle, object, SleepInv
<1>6. ThreadUseSafe'
  BY DEF Cycle, Running, ThreadUseSafe
<1> QED  BY <1>1, <1>2, <1>3, <1>4, <1>5, <1>6 DEF IInv

LEMMA PullStep == ASSUME IInv, NEW c \in Co, Pull(c) PROVE IInv'
<1>1. TypeOK'
  BY ErrorFacts DEF IInv, TypeOK, Pull, object
<1>2. ThreadInv'
  BY ErrorFacts DEF IInv, TypeOK, Actors, Pull, Running, object, ThreadInv, Ended
<1>3. StopInv'
  BY DEF IInv, Pull, object, StopInv
<1>4. JoinInv'
  BY DEF IInv, Pull, object, JoinInv
<1>5. SleepInv'
  BY DEF IInv, TypeOK, Actors, Pull, object, SleepInv, ThreadInv
<1>6. ThreadUseSafe'
  BY DEF Pull, Running, ThreadUseSafe
<1> QED  BY <1>1, <1>2, <1>3, <1>4, <1>5, <1>6 DEF IInv

LEMMA ReturnStep == ASSUME IInv, NEW c \in Co, NEW e \in {Ok, WorkerError("handler")}, Return(c, e) PROVE IInv'
<1>1. TypeOK'
  BY ErrorFacts DEF IInv, TypeOK, ThreadStates, Live, Return, Exit, Codes
<1>2. ThreadInv'
  BY ErrorFacts DEF IInv, TypeOK, Actors, Return, Running, Exit, ThreadInv, Ended, Codes
<1>3. StopInv'
  BY DEF IInv, Actors, Return, Running, Exit, StopInv
<1>4. JoinInv'
  BY CoAssumption DEF IInv, Actors, Live, Return, Running, Exit, JoinInv
<1>5. SleepInv'
  BY DEF IInv, TypeOK, Actors, ThreadStates, Return, Running, Exit, SleepInv
<1>6. ThreadUseSafe'
  BY DEF Return, Running, Exit, ThreadUseSafe
<1> QED  BY <1>1, <1>2, <1>3, <1>4, <1>5, <1>6 DEF IInv

LEMMA QuitStep == ASSUME IInv, NEW c \in Co, Quit(c) PROVE IInv'
<1>1. TypeOK'
  BY DEF IInv, TypeOK, ThreadStates, Live, Quit, Exit
<1>2. ThreadInv'
  BY DEF IInv, TypeOK, Actors, Quit, Running, Exit, ThreadInv, Ended
<1>3. StopInv'
  BY DEF IInv, Actors, Quit, Running, Exit, StopInv
<1>4. JoinInv'
  BY CoAssumption DEF IInv, Actors, Live, Quit, Running, Exit, JoinInv
<1>5. SleepInv'
  BY DEF IInv, TypeOK, Actors, ThreadStates, Quit, Exit, SleepInv
<1>6. ThreadUseSafe'
  BY DEF Quit, Running, Exit, ThreadUseSafe
<1> QED  BY <1>1, <1>2, <1>3, <1>4, <1>5, <1>6 DEF IInv

LEMMA CleanupStep == ASSUME IInv, NEW c \in Co, Cleanup(c) PROVE IInv'
<1>1. TypeOK'
  BY DEF IInv, TypeOK, ThreadStates, Cleanup, object
<1>2. ThreadInv'
  BY DEF IInv, Cleanup, object, ThreadInv, Ended
<1>3. StopInv'
  BY DEF IInv, Cleanup, object, StopInv
<1>4. JoinInv'
  BY DEF IInv, Live, Cleanup, object, JoinInv
<1>5. SleepInv'
  BY DEF IInv, Live, Cleanup, object, SleepInv
<1>6. ThreadUseSafe'
  BY DEF Cleanup, Idle, ThreadUseSafe
<1> QED  BY <1>1, <1>2, <1>3, <1>4, <1>5, <1>6 DEF IInv

LEMMA SleepStep == ASSUME IInv, NEW a \in Actors, Sleep(a) PROVE IInv'
<1>0. /\ thr[a] = "running" /\ join[a] = NoCo
      /\ thr' = thr \/ thr' = [thr EXCEPT ![a] = "blocked"]
      /\ flag' = flag \/ flag' = [flag EXCEPT ![a] = FALSE]
      /\ pc' = [pc EXCEPT ![a] = "loop"] \/ pc' = [pc EXCEPT ![a] = "sleeping"]
      /\ UNCHANGED <<object, ret, join, del, fault>>
  BY DEF Sleep, Running
<1>1. TypeOK'
  <2>1. thr' \in [Actors -> ThreadStates]
    <3>1. thr \in [Actors -> ThreadStates]
      BY DEF IInv, TypeOK
    <3>2. "blocked" \in ThreadStates
      BY DEF ThreadStates, Live
    <3> QED  BY <1>0, <3>1, <3>2
  <2>2. flag' \in [Actors -> BOOLEAN]
    BY <1>0 DEF IInv, TypeOK
  <2>3. UNCHANGED <<object, ret, join, del, fault>>
    BY <1>0
  <2> QED
    BY <1>0, <2>1, <2>2, <2>3 DEF IInv, TypeOK, object
<1>2. ThreadInv'
  BY DEF IInv, TypeOK, Actors, Sleep, Running, object, ThreadInv, Ended
<1>3. StopInv'
  BY DEF IInv, TypeOK, Actors, Sleep, Running, object, StopInv
<1>4. JoinInv'
  <2>1. \A b \in Actors : thr'[b] = thr[b] \/ (b = a /\ thr'[b] = "blocked")
    BY <1>0 DEF IInv, TypeOK
  <2>2. \A b \in Actors : thr[b] \in Live => thr'[b] \in Live
    BY <2>1 DEF Live
  <2>3. join' = join /\ stopping' = stopping
    BY <1>0 DEF object
  <2> QED
    BY <1>0, <2>1, <2>2, <2>3, CoAssumption DEF IInv, JoinInv, Actors
<1>5. SleepInv'
  BY DEF IInv, TypeOK, Actors, ThreadStates, Sleep, Running, object, SleepInv
<1>6. ThreadUseSafe'
  BY DEF Sleep, Running, ThreadUseSafe
<1> QED  BY <1>1, <1>2, <1>3, <1>4, <1>5, <1>6 DEF IInv

LEMMA WakeStep == ASSUME IInv, NEW a \in Actors, Wake(a) PROVE IInv'
<1>1. TypeOK'
  BY DEF IInv, TypeOK, ThreadStates, Live, Wake, object
<1>2. ThreadInv'
  BY DEF IInv, Wake, object, ThreadInv, Ended
<1>3. StopInv'
  BY DEF IInv, Wake, object, StopInv
<1>4. JoinInv'
  BY DEF IInv, Live, Wake, object, JoinInv
<1>5. SleepInv'
  BY DEF IInv, Wake, object, SleepInv
<1>6. ThreadUseSafe'
  BY DEF Wake, Idle, ThreadUseSafe
<1> QED  BY <1>1, <1>2, <1>3, <1>4, <1>5, <1>6 DEF IInv

LEMMA DispatchStep == ASSUME IInv, NEW a \in Actors, Dispatch(a) PROVE IInv'
<1>1. TypeOK'
  BY DEF IInv, TypeOK, ThreadStates, Live, Faults, Dispatch, object
<1>2. ThreadInv'
  BY DEF IInv, TypeOK, Actors, Dispatch, object, ThreadInv, Ended
<1>3. StopInv'
  BY DEF IInv, Dispatch, object, StopInv
<1>4. JoinInv'
  BY DEF IInv, Live, Dispatch, object, JoinInv
<1>5. SleepInv'
  BY CoAssumption DEF IInv, TypeOK, Actors, ThreadStates, Dispatch, object, SleepInv
<1>6. ThreadUseSafe'
  BY DEF Dispatch, Idle, ThreadUseSafe
<1> QED  BY <1>1, <1>2, <1>3, <1>4, <1>5, <1>6 DEF IInv

-----------------------------------------------------------------------------
(* The theorems *)

\* Every step preserves the invariant.
LEMMA NextInv == IInv /\ [Next]_vars => IInv'
<1> SUFFICES ASSUME IInv, [Next]_vars PROVE IInv'
  OBVIOUS
<1>1. CASE UNCHANGED vars
  BY <1>1 DEF vars, object, IInv, TypeOK, ThreadInv, StopInv, JoinInv, SleepInv, ThreadUseSafe
<1>2. ASSUME NEW a \in Actors, NEW c \in Co, Call(a, c) PROVE IInv'
  BY <1>2, StartRefusedStep, StartFailsStep, StartStep, InterruptStep, StopAgainStep,
     StopBeginStep DEF Call
<1>3. ASSUME NEW a \in Actors, NEW c \in Co, Join(a, c) PROVE IInv'
  BY <1>3, StopWithoutThreadStep, JoinZombieStep, JoinFailsStep, JoinWaitStep DEF Join
<1>4. ASSUME NEW c \in Co, Worker(c) PROVE IInv'
  BY <1>4, CycleStep, PullStep, ReturnStep, QuitStep DEF Worker
<1>5. ASSUME NEW c \in Co, Cleanup(c) PROVE IInv'
  BY <1>5, CleanupStep
<1>6. ASSUME NEW a \in Actors, Sleep(a) \/ Wake(a) \/ Dispatch(a) PROVE IInv'
  BY <1>6, SleepStep, WakeStep, DispatchStep
<1> QED  BY <1>1, <1>2, <1>3, <1>4, <1>5, <1>6 DEF Next

\* The invariant holds in every reachable state.
THEOREM Inductive == Spec => []IInv
<1> QED  BY InitInv, NextInv, PTL DEF Spec

\* Type correctness.
THEOREM TypeCorrect == Spec => []TypeOK
<1>1. IInv => TypeOK  BY DEF IInv
<1> QED  BY <1>1, Inductive, PTL

\* interrupt() and stop() never use a freed thread, never join a thread twice and
\* always find the worker's own error in trd_err, for all callers.
THEOREM ThreadUse == Spec => []ThreadUseSafe
<1>1. IInv => ThreadUseSafe  BY DEF IInv
<1> QED  BY <1>1, Inductive, PTL

\* A stop() that has returned, and a destructor, leave no worker behind.
THEOREM StopWaitsTheorem == Spec => []StopWaits
<1>1. IInv => StopWaits  BY DEF IInv, StopInv, StopWaits
<1> QED  BY <1>1, Inductive, PTL

\* No interrupt is lost: see InterruptNotLost.
THEOREM InterruptTheorem == Spec => []InterruptNotLost
<1>1. IInv => InterruptNotLost  BY DEF IInv, ThreadInv, SleepInv, InterruptNotLost
<1> QED  BY <1>1, Inductive, PTL

\* No actor waits in st_thread_join for a thread that has exited.
THEOREM ExitTheorem == Spec => []ExitNotMissed
<1>1. IInv => ExitNotMissed  BY DEF IInv, TypeOK, JoinInv, ExitNotMissed
<1> QED  BY <1>1, Inductive, PTL

-----------------------------------------------------------------------------
(* Disciplined callers never make an assertion of stop() fail *)

LEMMA DisciplineInit == Init => DInv
BY CoAssumption DEF Init, DInv, Actors

\* Nobody stops or interrupts an actor that stops others.
LEMMA StopperUntouched ==
    ASSUME Disciplined, NEW a \in Actors, NEW c \in Co, <<a, c>> \in Stops
    PROVE  \A b \in Actors : <<b, a>> \notin Stops \cup Interrupts
<1>1. CASE a \in Co
  BY <1>1 DEF Disciplined
<1>2. CASE a \notin Co
  BY <1>2, CallsAssumption
<1> QED  BY <1>1, <1>2

LEMMA DisciplineNext == ASSUME Disciplined PROVE IInv /\ DInv /\ [Next]_vars => DInv'
<1> SUFFICES ASSUME IInv, DInv, [Next]_vars PROVE DInv'
  OBVIOUS
<1> USE DEF DInv
<1>1. CASE UNCHANGED vars
  BY <1>1 DEF vars, object
<1>2. ASSUME NEW a \in Actors, NEW c \in Co, Call(a, c) PROVE DInv'
  <2>1. CASE StartRefused(a, c) \/ StartFails(a, c) \/ Start(a, c)
    BY <2>1 DEF StartRefused, StartFails, Start
  <2>2. CASE Interrupt(a, c)
    <3>1. flag' = flag \/ flag' = [flag EXCEPT ![c] = TRUE]
      BY <2>2 DEF Interrupt, DoInterrupt
    <3>2. UNCHANGED <<stopping, join, fault>> /\ <<a, c>> \in Interrupts
      BY <2>2, InterruptEffect DEF Interrupt
    <3>3. \A b \in Actors : flag'[b] => flag[b] \/ b = c
      BY <3>1 DEF IInv, TypeOK
    <3> QED  BY <3>2, <3>3
  <2>3. ASSUME NEW d \in BOOLEAN, StopAgain(a, c, d) PROVE DInv'
    <3>1. ~stopping[c]
      <4>1. <<a, c>> \in Stops /\ join[a] # c
        BY <2>3, CoAssumption DEF StopAgain, CanCall, Running, Actors
      <4>2. \A b \in Actors : join[b] # c
        BY <4>1 DEF Disciplined
      <4> QED  BY <4>2
    <3> QED  BY <2>3, <3>1 DEF StopAgain
  <2>4. ASSUME NEW d \in BOOLEAN, StopBegin(a, c, d) PROVE DInv'
    <3>1. flag' = flag \/ flag' = [flag EXCEPT ![c] = TRUE]
      BY <2>4 DEF StopBegin, DoInterrupt
    <3>2. /\ fault' = fault
          /\ stopping' = [stopping EXCEPT ![c] = TRUE] /\ join' = [join EXCEPT ![a] = c]
          /\ join[a] = NoCo /\ <<a, c>> \in Stops
      BY <2>4, InterruptEffect DEF StopBegin, CanCall, Running
    <3>3. \A b \in Actors, e \in Co : join'[b] = e => <<b, e>> \in Stops
      BY <3>2
    <3>4. \A e \in Co : stopping'[e] => \E b \in Actors : join'[b] = e
      <4>1. c \in Co /\ join'[a] = c
        BY <3>2 DEF IInv, TypeOK
      <4>2. \A e \in Co \ {c} : \A b \in Actors : join[b] = e => join'[b] = e
        BY <3>2, CoAssumption DEF Actors
      <4> QED  BY <3>2, <4>2 DEF IInv, TypeOK
    <3>5. \A b \in Actors : flag'[b] => \E e \in Actors : <<e, b>> \in Stops \cup Interrupts
      <4>1. \A b \in Actors : flag'[b] => flag[b] \/ b = c
        BY <3>1 DEF IInv, TypeOK
      <4> QED  BY <3>2, <4>1
    <3> QED  BY <3>2, <3>4, <3>5
  <2> QED  BY <1>2, <2>1, <2>2, <2>3, <2>4 DEF Call
<1>3. ASSUME NEW a \in Actors, NEW c \in Co, Join(a, c) PROVE DInv'
  <2>1. CASE StopWithoutThread(a, c) \/ JoinZombie(a, c)
    <3>1. /\ stopping' = [stopping EXCEPT ![c] = FALSE]
          /\ join' = [join EXCEPT ![a] = NoCo] /\ join[a] = c /\ flag' = flag
      BY <2>1 DEF StopWithoutThread, JoinZombie, StopEnd, Joining
    <3>2. fault' = fault
      BY <2>1 DEF StopWithoutThread, JoinZombie, IInv, ThreadInv, Ended
    <3>3. \A b \in Actors : join'[b] = IF b = a THEN NoCo ELSE join[b]
      BY <3>1 DEF IInv, TypeOK
    <3>4. \A e \in Co : stopping'[e] => stopping[e] /\ e # c
      BY <3>1 DEF IInv, TypeOK
    <3>5. \A b \in Actors, e \in Co : join'[b] = e => join[b] = e
      BY <3>3, CoAssumption DEF Actors
    <3>6. \A e \in Co : stopping'[e] => \E b \in Actors : join'[b] = e
      BY <3>1, <3>3, <3>4
    <3> QED  BY <3>1, <3>2, <3>5, <3>6
  <2>2. JoinErrno(a, c) = "none" \/ ~JoinFails(a, c)
    <3> SUFFICES ASSUME Joining(a, c), thr[c] # "none" PROVE JoinErrno(a, c) = "none"
      BY DEF JoinFails
    <3>1. <<a, c>> \in Stops /\ stopping[c]
      BY DEF Joining, IInv, JoinInv
    <3>2. thr[c] \notin {"dying", "freed"}
      BY <3>1 DEF IInv, StopInv
    <3>3. a # c
      BY <3>1 DEF Disciplined
    <3>4. \A b \in Actors \ {a} : join[b] # c
      BY CoAssumption DEF Joining, IInv, JoinInv, Actors
    <3>5. ~flag[a]
      BY <3>1, StopperUntouched
    <3> QED  BY <3>2, <3>3, <3>4, <3>5 DEF JoinErrno
  <2>3. CASE JoinWait(a, c)
    BY <2>3 DEF JoinWait, object
  <2> QED  BY <1>3, <2>1, <2>2, <2>3 DEF Join, JoinFails
<1>4. ASSUME NEW c \in Co, Worker(c) \/ Cleanup(c) PROVE DInv'
  BY <1>4 DEF Worker, Cleanup, Cycle, Pull, Return, Quit, Exit, object
<1>5. ASSUME NEW a \in Actors, Sleep(a) \/ Wake(a) \/ Dispatch(a) PROVE DInv'
  <2>1. CASE Sleep(a) \/ Wake(a)
    <3>1. flag' = flag \/ flag' = [flag EXCEPT ![a] = FALSE]
      BY <2>1 DEF Sleep, Wake
    <3>2. UNCHANGED <<stopping, join, fault>>
      BY <2>1 DEF Sleep, Wake, object
    <3>3. \A b \in Actors : flag'[b] => flag[b]
      BY <3>1 DEF IInv, TypeOK
    <3> QED  BY <3>2, <3>3
  <2>2. CASE Dispatch(a)
    <3>1. join[a] # NoCo => ~flag[a]
      <4> SUFFICES ASSUME join[a] # NoCo PROVE ~flag[a]
        OBVIOUS
      <4>1. join[a] \in Co
        BY DEF IInv, TypeOK
      <4>2. <<a, join[a]>> \in Stops
        BY <4>1
      <4> QED  BY <4>1, StopperUntouched
    <3>2. flag' = flag \/ flag' = [flag EXCEPT ![a] = FALSE]
      BY <2>2 DEF Dispatch
    <3>3. \A b \in Actors : flag'[b] => flag[b]
      BY <3>2 DEF IInv, TypeOK
    <3>4. UNCHANGED <<stopping, join, fault>>
      BY <2>2, <3>1 DEF Dispatch, object
    <3> QED  BY <3>3, <3>4
  <2> QED  BY <1>5, <2>1, <2>2
<1> QED  BY <1>1, <1>2, <1>3, <1>4, <1>5 DEF Next

\* If every object has one stopper, which is not its own worker and is itself
\* never stopped or interrupted, no assertion of stop() ever fails.
THEOREM DisciplineSuffices == ASSUME Disciplined PROVE Spec => []NoAssertFails
<1>1. DInv => NoAssertFails  BY DEF DInv, NoAssertFails
<1>2. IInv /\ DInv /\ [Next]_vars => DInv'  BY DisciplineNext
<1> QED  BY <1>1, <1>2, DisciplineInit, Inductive, PTL DEF Spec

-----------------------------------------------------------------------------
(* pull() never goes back from an error to success *)

StickyStep ==
    \A c \in Co :
        /\ trd_err[c] # Ok => trd_err'[c] # Ok
        /\ trd_err[c].from = "worker" => trd_err'[c] = trd_err[c]

LEMMA StickyNext == IInv /\ [Next]_vars => StickyStep
<1> SUFFICES ASSUME IInv, [Next]_vars PROVE StickyStep
  OBVIOUS
<1> USE DEF StickyStep
<1>1. CASE UNCHANGED trd_err
  BY <1>1
<1>2. ASSUME NEW c \in Co, NEW e \in Errors, trd_err' = [trd_err EXCEPT ![c] = e],
             trd_err[c].from # "worker"
      PROVE  StickyStep
  BY <1>2, ErrorFacts
<1>3. \A x \in Codes : CallerError(x) \in Errors /\ WorkerError(x) \in Errors
  BY ErrorFacts
<1>4. ASSUME NEW a \in Actors, NEW c \in Co, Call(a, c) PROVE StickyStep
  <2>1. CASE StartRefused(a, c)
    BY <2>1, ErrorFacts DEF StartRefused
  <2>2. CASE StartFails(a, c)
    <3>1. trd_err[c].from # "worker"
      BY <2>2 DEF StartFails, IInv, ThreadInv, Ended
    <3> QED  BY <2>2, <3>1, <1>2, <1>3 DEF StartFails, Codes
  <2>3. CASE Start(a, c)
    BY <2>3 DEF Start
  <2>4. ASSUME DoInterrupt(c) PROVE StickyStep
    BY <2>4, <1>2, ErrorFacts DEF DoInterrupt, Codes
  <2>5. ASSUME NEW d \in BOOLEAN, StopAgain(a, c, d) PROVE StickyStep
    BY <2>5 DEF StopAgain
  <2> QED  BY <1>4, <2>1, <2>2, <2>3, <2>4, <2>5 DEF Call, Interrupt, StopBegin
<1>5. ASSUME NEW a \in Actors, NEW c \in Co, Join(a, c) PROVE StickyStep
  <2>1. CASE StopEnd(a, c)
    BY <2>1, ErrorFacts DEF StopEnd
  <2>2. CASE JoinFails(a, c) \/ JoinWait(a, c)
    BY <2>2 DEF JoinFails, JoinWait, object
  <2> QED  BY <1>5, <2>1, <2>2 DEF Join, StopWithoutThread, JoinZombie
<1>6. ASSUME NEW c \in Co, Worker(c) PROVE StickyStep
  <2>1. CASE Cycle(c) \/ Pull(c)
    BY <2>1 DEF Cycle, Pull, object
  <2>2. ASSUME NEW e \in Errors \cup {Ok}, Exit(c, e), thr[c] = "running" PROVE StickyStep
    <3>1. trd_err[c].from # "worker"
      BY <2>2 DEF IInv, ThreadInv, Ended
    <3> QED  BY <2>2, <3>1 DEF Exit
  <2>3. ASSUME NEW e \in {Ok, WorkerError("handler")}, Return(c, e) PROVE StickyStep
    BY <2>2, <2>3, <1>3 DEF Return, Running, Codes
  <2>4. CASE Quit(c)
    BY <2>2, <2>4 DEF Quit, Running, IInv, TypeOK
  <2> QED  BY <1>6, <2>1, <2>3, <2>4 DEF Worker
<1>7. ASSUME NEW c \in Co, Cleanup(c) PROVE StickyStep
  BY <1>7 DEF Cleanup, object
<1>8. ASSUME NEW a \in Actors, Sleep(a) \/ Wake(a) \/ Dispatch(a) PROVE StickyStep
  BY <1>8 DEF Sleep, Wake, Dispatch, object
<1> QED  BY <1>4, <1>5, <1>6, <1>7, <1>8 DEF Next, vars, object

\* Once pull() has reported an error it does so for ever, and nobody replaces the
\* error the worker ended with.
THEOREM StickyTheorem == Spec => ErrorSticky
<1>1. ASSUME IInv, [Next]_vars
      PROVE  [\A c \in Co :
                /\ trd_err[c] # Ok => trd_err'[c] # Ok
                /\ trd_err[c].from = "worker" => trd_err'[c] = trd_err[c]]_vars
  <2>1. StickyStep
    BY <1>1, StickyNext
  <2> QED  BY <2>1 DEF StickyStep
<1> QED  BY <1>1, Inductive, PTL DEF Spec, ErrorSticky

-----------------------------------------------------------------------------
(* FastCoroutine implements Lifecycle *)

LEMMA PhaseFacts ==
    /\ PhaseOf("none") = "new" /\ PhaseOf("zombie") = "ended"
    /\ PhaseOf("dying") = "joined" /\ PhaseOf("freed") = "joined"
    /\ \A t \in Live : PhaseOf(t) = "live"
BY DEF PhaseOf, Live

Stutter == UNCHANGED <<phaseBar, alertBar, disposed, deleted>>

\* A step that changes none of the variables the mapping reads.
LEMMA StutterStep ==
    ASSUME IInv, UNCHANGED <<trd_err, disposed, deleted>>,
           \A c \in Co : thr'[c] = thr[c] \/ (thr[c] \in Live /\ thr'[c] \in Live)
    PROVE  Stutter
<1>1. phaseBar' = phaseBar
  BY PhaseFacts DEF phaseBar
<1> QED  BY <1>1 DEF Stutter, alertBar

LEMMA ImplementationInit == Init => L!LInit
<1> SUFFICES ASSUME Init PROVE L!LInit
  OBVIOUS
<1>1. \A c \in Co : thr[c] = "none"
  BY CoAssumption DEF Init, Actors
<1>2. phaseBar = [c \in Co |-> "new"]
  BY <1>1, PhaseFacts DEF phaseBar
<1>3. alertBar = [c \in Co |-> FALSE]
  BY DEF Init, alertBar
<1> QED  BY <1>2, <1>3 DEF Init, L!LInit

\* The step that keeps thr (up to the states of a live thread), and sets one
\* object's trd_err to an error or leaves it.
LEMMA AlertStep ==
    ASSUME NEW c \in Co, NEW e, e # Ok,
           trd_err' = [trd_err EXCEPT ![c] = e], trd_err \in [Co -> Errors \cup {Ok}]
    PROVE  alertBar' = [alertBar EXCEPT ![c] = TRUE]
BY DEF alertBar

LEMMA ImplementationNext == IInv /\ [Next]_vars => [L!LNext]_(L!lvars)
<1> SUFFICES ASSUME IInv, [Next]_vars PROVE L!LNext \/ Stutter
  BY DEF Stutter, L!lvars
<1> USE DEF L!LNext
<1>1. CASE UNCHANGED vars
  BY <1>1, StutterStep DEF vars, object
<1>2. \A x \in Codes : CallerError(x) # Ok /\ WorkerError(x) # Ok
  BY ErrorFacts
<1>3. ASSUME NEW a \in Actors, NEW c \in Co, Call(a, c) PROVE L!LNext \/ Stutter
  <2>1. CASE StartRefused(a, c) \/ StartFails(a, c)
    <3>1. CASE UNCHANGED trd_err
      BY <2>1, <3>1, StutterStep DEF StartRefused, StartFails
    <3>2. ASSUME NEW x \in Codes, trd_err' = [trd_err EXCEPT ![c] = CallerError(x)]
          PROVE  L!LNext
      <4>1. alertBar' = [alertBar EXCEPT ![c] = TRUE]
        BY <3>2, <1>2, AlertStep DEF IInv, TypeOK
      <4>2. phaseBar' = phaseBar
        BY <2>1 DEF StartRefused, StartFails, phaseBar
      <4>3. L!Raise(c)
        BY <2>1, <4>1, <4>2 DEF StartRefused, StartFails, CanCall, L!Raise
      <4> QED  BY <4>3
    <3> QED  BY <2>1, <3>1, <3>2 DEF StartRefused, StartFails, Codes
  <2>2. CASE Start(a, c)
    <3>1. thr[c] = "none" /\ c \in Actors
      BY <2>2 DEF Start, IInv, ThreadInv, Actors
    <3>2. phaseBar' = [phaseBar EXCEPT ![c] = "live"] /\ phaseBar[c] = "new"
      BY <2>2, <3>1, PhaseFacts DEF Start, phaseBar, Live, IInv, TypeOK, Actors
    <3>3. alertBar' = alertBar
      BY <2>2 DEF Start, alertBar
    <3>4. L!Launch(c)
      BY <2>2, <3>2, <3>3 DEF Start, L!Launch
    <3> QED  BY <3>4
  <2>3. ASSUME DoInterrupt(c)
        PROVE  /\ phaseBar' = phaseBar
               /\ alertBar' = alertBar \/ alertBar' = [alertBar EXCEPT ![c] = TRUE]
               /\ thr[c] \in Live => alertBar' = [alertBar EXCEPT ![c] = TRUE]
    <3>1. \A b \in Co : thr'[b] = thr[b] \/ (thr[b] \in Live /\ thr'[b] \in Live)
      BY <2>3, InterruptEffect DEF Actors, Live
    <3>2. phaseBar' = phaseBar
      BY <3>1, PhaseFacts DEF phaseBar
    <3>3. alertBar' = alertBar \/ alertBar' = [alertBar EXCEPT ![c] = TRUE]
      BY <2>3, AlertStep DEF DoInterrupt, alertBar, IInv, TypeOK
    <3>4. thr[c] \in Live => trd_err'[c] # Ok
      BY <2>3, InterruptEffect DEF IInv, ThreadInv, Live, Ended
    <3>5. thr[c] \in Live => alertBar' = [alertBar EXCEPT ![c] = TRUE]
      BY <3>3, <3>4 DEF alertBar
    <3> QED  BY <3>2, <3>3, <3>5
  <2>4. CASE Interrupt(a, c)
    <3>1. CASE alertBar' = alertBar
      BY <2>3, <2>4, <3>1 DEF Interrupt, Stutter
    <3>2. CASE alertBar' = [alertBar EXCEPT ![c] = TRUE]
      <4>1. L!Raise(c)
        BY <2>3, <2>4, <3>2 DEF Interrupt, CanCall, L!Raise
      <4> QED  BY <4>1
    <3> QED  BY <2>3, <2>4, <3>1, <3>2 DEF Interrupt
  <2>5. ASSUME NEW d \in BOOLEAN, StopAgain(a, c, d) PROVE L!LNext \/ Stutter
    <3>1. CASE deleted' = deleted
      BY <2>5, <3>1, StutterStep DEF StopAgain
    <3>2. CASE ~stopping[c] /\ deleted' = [deleted EXCEPT ![c] = TRUE]
      <4>1. disposed[c] /\ thr[c] \in {"none", "dying", "freed"}
        BY <2>5, <3>2 DEF StopAgain, IInv, StopInv
      <4>2. phaseBar' = phaseBar /\ alertBar' = alertBar
        BY <2>5 DEF StopAgain, phaseBar, alertBar
      <4>3. phaseBar[c] \in {"new", "joined"}
        BY <4>1, PhaseFacts DEF phaseBar
      <4>4. thr[c] # "none" => phaseBar[c] = "joined"
        BY <4>1, PhaseFacts DEF phaseBar
      <4>5. thr[c] = "none" => alertBar[c]
        BY <4>1, <3>2 DEF IInv, StopInv, ThreadInv, alertBar
      <4>6. L!Free(c)
        BY <2>5, <4>2, <4>3, <4>4, <4>5 DEF StopAgain, L!Free
      <4> QED  BY <4>6
    <3> QED  BY <2>5, <3>1, <3>2 DEF StopAgain
  <2>6. ASSUME NEW d \in BOOLEAN, StopBegin(a, c, d) PROVE L!LNext \/ Stutter
    <3>1. L!Close(c)
      <4>1. phaseBar[c] = "live" => thr[c] \in Live
        BY DEF phaseBar, PhaseOf
      <4>2. alertBar \in [Co -> BOOLEAN]
        BY DEF alertBar
      <4> QED  BY <2>3, <2>6, <4>1, <4>2 DEF StopBegin, L!Close
    <3> QED  BY <3>1
  <2> QED  BY <1>3, <2>1, <2>2, <2>4, <2>5, <2>6 DEF Call
<1>4. ASSUME NEW a \in Actors, NEW c \in Co, Join(a, c) PROVE L!LNext \/ Stutter
  <2>1. CASE JoinFails(a, c)
    BY <2>1, StutterStep DEF JoinFails, object
  <2>2. CASE JoinWait(a, c)
    <3>1. \A b \in Co : thr'[b] = thr[b] \/ (thr[b] \in Live /\ thr'[b] \in Live)
      BY <2>2 DEF JoinWait, Joining, Live
    <3> QED  BY <2>2, <3>1, StutterStep DEF JoinWait, object
  <2>3. ASSUME StopEnd(a, c), Joining(a, c)
        PROVE  /\ disposed[c] /\ disposed' = disposed
               /\ deleted' \in {deleted, [deleted EXCEPT ![c] = TRUE]}
               /\ alertBar' \in {alertBar, [alertBar EXCEPT ![c] = TRUE]}
               /\ cycle_done[c] => alertBar' = alertBar
               /\ ~cycle_done[c] => alertBar'[c]
    <3>1. disposed[c] /\ disposed' = disposed
      BY <2>3 DEF Joining, StopEnd, IInv, JoinInv, StopInv
    <3>2. deleted' \in {deleted, [deleted EXCEPT ![c] = TRUE]}
      BY <2>3 DEF StopEnd
    <3>3. CASE trd_err[c] = Ok /\ ~cycle_done[c]
      <4>1. alertBar' = [alertBar EXCEPT ![c] = TRUE]
        BY <2>3, <3>3, <1>2, AlertStep DEF StopEnd, Codes, IInv, TypeOK
      <4>2. alertBar'[c]
        BY <4>1 DEF alertBar
      <4> QED  BY <3>1, <3>2, <3>3, <4>1, <4>2
    <3>4. CASE ~(trd_err[c] = Ok /\ ~cycle_done[c])
      <4>1. trd_err' = trd_err
        BY <2>3, <3>4 DEF StopEnd
      <4>2. alertBar' = alertBar
        BY <4>1 DEF alertBar
      <4>3. ~cycle_done[c] => alertBar'[c]
        BY <3>4, <4>1 DEF alertBar
      <4> QED  BY <3>1, <3>2, <4>2, <4>3
    <3> QED  BY <3>3, <3>4
  <2>4. CASE StopWithoutThread(a, c)
    <3>1. phaseBar[c] = "new" /\ phaseBar' = phaseBar
      BY <2>4, PhaseFacts DEF StopWithoutThread, phaseBar
    <3>2. ~cycle_done[c]
      BY <2>4 DEF StopWithoutThread, IInv, ThreadInv, Ended
    <3>3. L!Free(c)
      BY <2>3, <2>4, <3>1, <3>2 DEF StopWithoutThread, L!Free
    <3> QED  BY <3>3
  <2>5. CASE JoinZombie(a, c)
    <3>1. phaseBar[c] = "ended"
      BY <2>5, PhaseFacts DEF JoinZombie, phaseBar
    <3>2. phaseBar' = [phaseBar EXCEPT ![c] = "joined"]
      BY <2>5, PhaseFacts DEF JoinZombie, phaseBar, IInv, TypeOK, Actors
    <3>3. alertBar' = alertBar
      <4>1. cycle_done[c] \/ trd_err[c] # Ok
        BY <2>5 DEF JoinZombie, IInv, ThreadInv, Ended
      <4>2. trd_err' = trd_err
        BY <2>5, <4>1 DEF JoinZombie, StopEnd
      <4> QED  BY <4>2 DEF alertBar
    <3>4. L!Join(c)
      BY <2>3, <2>5, <3>1, <3>2, <3>3 DEF JoinZombie, L!Join
    <3> QED  BY <3>4
  <2> QED  BY <1>4, <2>1, <2>2, <2>4, <2>5 DEF Join
<1>5. ASSUME NEW c \in Co, Worker(c) PROVE L!LNext \/ Stutter
  <2>1. CASE Cycle(c) \/ Pull(c)
    BY <2>1, StutterStep DEF Cycle, Pull, object
  <2>2. ASSUME NEW e \in Errors \cup {Ok}, Exit(c, e), Running(c) PROVE L!LNext
    <3>1. c \in Actors /\ join[c] = NoCo /\ thr[c] = "running"
      BY <2>2 DEF Running, Actors
    <3>2. phaseBar[c] = "live"
      BY <3>1, PhaseFacts DEF phaseBar, Live
    <3>3. /\ thr'[c] = "zombie"
          /\ \A b \in Co : b # c => thr'[b] = thr[b] \/ (thr[b] \in Live /\ thr'[b] \in Live)
      BY <2>2 DEF Exit, Live, Actors
    <3>4. phaseBar' = [phaseBar EXCEPT ![c] = "ended"]
      BY <3>3, PhaseFacts DEF phaseBar
    <3>5. alertBar' \in {alertBar, [alertBar EXCEPT ![c] = TRUE]}
      <4>1. CASE e = Ok
        BY <2>2, <4>1 DEF Exit, alertBar
      <4>2. CASE e # Ok
        BY <2>2, <4>2, AlertStep DEF Exit, IInv, TypeOK
      <4> QED  BY <4>1, <4>2
    <3>6. ~deleted[c]
      BY <3>1 DEF IInv, StopInv
    <3>7. L!Finish(c)
      BY <2>2, <3>2, <3>4, <3>5, <3>6 DEF Exit, L!Finish
    <3> QED  BY <3>7
  <2>3. ASSUME NEW e \in {Ok, WorkerError("handler")}, Return(c, e) PROVE L!LNext
    BY <2>2, <2>3, ErrorFacts DEF Return, Codes
  <2>4. CASE Quit(c)
    BY <2>2, <2>4 DEF Quit, IInv, TypeOK
  <2> QED  BY <1>5, <2>1, <2>3, <2>4 DEF Worker
<1>6. ASSUME NEW c \in Co, Cleanup(c) PROVE Stutter
  <2>1. phaseBar' = phaseBar
    BY <1>6, PhaseFacts DEF Cleanup, phaseBar
  <2> QED  BY <1>6, <2>1 DEF Cleanup, object, alertBar, Stutter
<1>7. ASSUME NEW a \in Actors, Sleep(a) \/ Wake(a) \/ Dispatch(a) PROVE Stutter
  <2>1. /\ UNCHANGED <<trd_err, disposed, deleted>>
        /\ \A b \in Co : thr'[b] = thr[b] \/ (thr[b] \in Live /\ thr'[b] \in Live)
    BY <1>7 DEF Sleep, Wake, Dispatch, Running, Live, object, IInv, TypeOK, Actors
  <2> QED  BY <2>1, StutterStep
<1> QED  BY <1>1, <1>3, <1>4, <1>5, <1>6, <1>7 DEF Next

\* An SrsFastCoroutine keeps the promises of Lifecycle, whatever its callers do.
THEOREM Implementation == Spec => ImplementsLifecycle
<1> QED  BY ImplementationInit, ImplementationNext, Inductive, PTL
         DEF Spec, ImplementsLifecycle, L!LSpec
=============================================================================
