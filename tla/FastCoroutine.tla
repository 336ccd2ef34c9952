---------------------------- MODULE FastCoroutine ----------------------------
(***************************************************************************)
(* SrsFastCoroutine (trunk/src/app/srs_app_st.cpp) on top of the           *)
(* state-threads scheduler (trunk/3rdparty/st-srs/sched.c, sync.c).        *)
(*                                                                         *)
(* Co is a set of coroutine objects.  Each one runs at most one            *)
(* state-thread, whose handler loops "pull; work; sleep" and may itself    *)
(* call start(), stop(), interrupt() and the destructor of other objects.  *)
(* Main is the primordial thread of the process.  Scheduling is            *)
(* cooperative: the only running actor keeps the processor until it blocks *)
(* or exits, so between two blocking calls of an actor no other actor      *)
(* takes a step.  The relations Starts, Stops and Interrupts say which     *)
(* actor calls what; they are the discipline of the callers.               *)
(***************************************************************************)
EXTENDS Naturals, FiniteSets

CONSTANTS
    Co,          \* the SrsFastCoroutine objects
    Main,        \* the primordial state-thread
    NoCo,        \* "no object"
    Starts,      \* <<a, c>>: actor a may call c->start()
    Stops,       \* <<a, c>>: actor a may call c->stop() or delete c
    Interrupts   \* <<a, c>>: actor a may call c->interrupt()

Actors == Co \cup {Main}

ASSUME CoAssumption == Main \notin Co /\ NoCo \notin Actors
ASSUME CallsAssumption ==
    /\ Starts \subseteq Actors \X Co
    /\ Stops \subseteq Actors \X Co
    /\ Interrupts \subseteq Actors \X Co

VARIABLES
    \* fields of the object
    started, interrupted, disposed, cycle_done, stopping, trd_err,
    deleted,     \* the destructor has finished: the object's memory is gone
    \* state of the actor's state-thread
    thr,         \* _st_thread_t.state; "dying" is joined and waiting to free its stack
    flag,        \* _ST_FL_INTERRUPT
    pc,          \* where the handler is
    ret,         \* the error the handler is about to return, then _st_thread_t.retval
    join,        \* the object whose stop() the actor is inside of
    del,         \* that stop() was called by the destructor
    fault        \* the assertion that ended the process

object == <<started, interrupted, disposed, cycle_done, stopping, trd_err, deleted>>
vars == <<object, thr, flag, pc, ret, join, del, fault>>

Ok == [code |-> "success", from |-> "nobody"]
\* An error is a heap object: "from" tells one that a caller of the object
\* allocated from the one that the worker itself returned, so that comparing
\* two errors compares the pointers, as srs_assert(trd_err == err_res) does.
Codes == {"interrupted", "terminated", "started", "disposed", "create", "handler"}
Errors == [code : Codes, from : {"caller", "worker"}]
CallerError(code) == [code |-> code, from |-> "caller"]
WorkerError(code) == [code |-> code, from |-> "worker"]

Live == {"runnable", "running", "blocked"}
ThreadStates == Live \cup {"none", "zombie", "dying", "freed"}
Faults == {"none", "stopping", "EDEADLK", "EINVAL", "EINTR", "mismatch", "use_after_free"}

-----------------------------------------------------------------------------
Init ==
    /\ started = [c \in Co |-> FALSE]
    /\ interrupted = [c \in Co |-> FALSE]
    /\ disposed = [c \in Co |-> FALSE]
    /\ cycle_done = [c \in Co |-> FALSE]
    /\ stopping = [c \in Co |-> FALSE]
    /\ trd_err = [c \in Co |-> Ok]
    /\ deleted = [c \in Co |-> FALSE]
    /\ thr = [a \in Actors |-> IF a = Main THEN "running" ELSE "none"]
    /\ flag = [a \in Actors |-> FALSE]
    /\ pc = [a \in Actors |-> IF a = Main THEN "work" ELSE "entry"]
    /\ ret = [c \in Co |-> Ok]
    /\ join = [a \in Actors |-> NoCo]
    /\ del = [a \in Actors |-> FALSE]
    /\ fault = "none"

\* The actor runs and is not inside of a stop().
Running(a) == fault = "none" /\ thr[a] = "running" /\ join[a] = NoCo

\* It can use the object c: it is past its entry point and c still exists.
CanCall(a, c) == Running(a) /\ pc[a] # "entry" /\ ~deleted[c]

-----------------------------------------------------------------------------
(* start() *)

\* Faulty variant: the refusal replaces the error that is already there.
StartRefusedOverwrites(a, c) ==
    /\ CanCall(a, c) /\ <<a, c>> \in Starts
    /\ started[c] \/ disposed[c]
    /\ trd_err' = [trd_err EXCEPT ![c] = CallerError("started")]
    /\ UNCHANGED <<started, interrupted, disposed, cycle_done, stopping, deleted,
                   thr, flag, pc, ret, join, del, fault>>

\* The early return: the error is also left in trd_err when that is free.
StartRefused(a, c) ==
    /\ CanCall(a, c) /\ <<a, c>> \in Starts
    /\ started[c] \/ disposed[c]
    /\ trd_err' = IF trd_err[c] = Ok
                  THEN [trd_err EXCEPT ![c] =
                          CallerError(IF disposed[c] THEN "disposed" ELSE "started")]
                  ELSE trd_err
    /\ UNCHANGED <<started, interrupted, disposed, cycle_done, stopping, deleted,
                   thr, flag, pc, ret, join, del, fault>>

\* st_thread_create returns NULL.
StartFails(a, c) ==
    /\ CanCall(a, c) /\ <<a, c>> \in Starts
    /\ ~started[c] /\ ~disposed[c]
    /\ trd_err' = [trd_err EXCEPT ![c] = CallerError("create")]
    /\ UNCHANGED <<started, interrupted, disposed, cycle_done, stopping, deleted,
                   thr, flag, pc, ret, join, del, fault>>

\* Faulty variant: a disposed object is started again.
StartDisposed(a, c) ==
    /\ CanCall(a, c) /\ <<a, c>> \in Starts
    /\ ~started[c]
    /\ started' = [started EXCEPT ![c] = TRUE]
    /\ thr' = [thr EXCEPT ![c] = "runnable"]
    /\ UNCHANGED <<interrupted, disposed, cycle_done, stopping, trd_err, deleted,
                   flag, pc, ret, join, del, fault>>

\* st_thread_create puts a new thread on the run queue.
Start(a, c) ==
    /\ CanCall(a, c) /\ <<a, c>> \in Starts
    /\ ~started[c] /\ ~disposed[c]
    /\ started' = [started EXCEPT ![c] = TRUE]
    /\ thr' = [thr EXCEPT ![c] = "runnable"]
    /\ UNCHANGED <<interrupted, disposed, cycle_done, stopping, trd_err, deleted,
                   flag, pc, ret, join, del, fault>>

-----------------------------------------------------------------------------
(* interrupt() *)

\* Faulty variant: the early return does not look at interrupted.
DoInterruptTwice(c) ==
    IF ~started[c] \/ cycle_done[c]
    THEN UNCHANGED <<interrupted, trd_err, flag, thr, fault>>
    ELSE /\ interrupted' = [interrupted EXCEPT ![c] = TRUE]
         /\ trd_err' = IF trd_err[c] = Ok
                       THEN [trd_err EXCEPT ![c] = CallerError("interrupted")]
                       ELSE trd_err
         /\ flag' = IF thr[c] = "zombie" THEN flag ELSE [flag EXCEPT ![c] = TRUE]
         /\ thr' = IF thr[c] = "blocked" THEN [thr EXCEPT ![c] = "runnable"] ELSE thr
         /\ fault' = IF thr[c] = "freed" THEN "use_after_free" ELSE fault

\* The body of interrupt() behind its early return, st_thread_interrupt included:
\* a zombie is left alone, a blocked thread becomes runnable.
DoInterrupt(c) ==
    IF ~started[c] \/ interrupted[c] \/ cycle_done[c]
    THEN UNCHANGED <<interrupted, trd_err, flag, thr, fault>>
    ELSE /\ interrupted' = [interrupted EXCEPT ![c] = TRUE]
         /\ trd_err' = IF trd_err[c] = Ok
                       THEN [trd_err EXCEPT ![c] = CallerError("interrupted")]
                       ELSE trd_err
         /\ flag' = IF thr[c] = "zombie" THEN flag ELSE [flag EXCEPT ![c] = TRUE]
         /\ thr' = IF thr[c] = "blocked" THEN [thr EXCEPT ![c] = "runnable"] ELSE thr
         /\ fault' = IF thr[c] = "freed" THEN "use_after_free" ELSE fault

Interrupt(a, c) ==
    /\ CanCall(a, c) /\ <<a, c>> \in Interrupts
    /\ DoInterrupt(c)
    /\ UNCHANGED <<started, disposed, cycle_done, stopping, deleted, pc, ret, join, del>>

-----------------------------------------------------------------------------
(* stop() and the destructor, which is stop() and then frees the object *)

\* disposed is already set: the assertion fails while somebody else still waits.
StopAgain(a, c, d) ==
    /\ CanCall(a, c) /\ <<a, c>> \in Stops
    /\ disposed[c]
    /\ fault' = IF stopping[c] THEN "stopping" ELSE fault
    /\ deleted' = IF d /\ ~stopping[c] THEN [deleted EXCEPT ![c] = TRUE] ELSE deleted
    /\ UNCHANGED <<started, interrupted, disposed, cycle_done, stopping, trd_err,
                   thr, flag, pc, ret, join, del>>

\* Faulty variant: stop() does not interrupt the worker.
StopBeginSilent(a, c, d) ==
    /\ CanCall(a, c) /\ <<a, c>> \in Stops
    /\ ~disposed[c]
    /\ disposed' = [disposed EXCEPT ![c] = TRUE]
    /\ stopping' = [stopping EXCEPT ![c] = TRUE]
    /\ join' = [join EXCEPT ![a] = c]
    /\ del' = [del EXCEPT ![a] = d]
    /\ UNCHANGED <<started, interrupted, cycle_done, trd_err, deleted, thr, flag,
                   pc, ret, fault>>

\* Up to the call of st_thread_join.
StopBegin(a, c, d) ==
    /\ CanCall(a, c) /\ <<a, c>> \in Stops
    /\ ~disposed[c]
    /\ disposed' = [disposed EXCEPT ![c] = TRUE]
    /\ stopping' = [stopping EXCEPT ![c] = TRUE]
    /\ DoInterrupt(c)
    /\ join' = [join EXCEPT ![a] = c]
    /\ del' = [del EXCEPT ![a] = d]
    /\ UNCHANGED <<started, cycle_done, deleted, pc, ret>>

Joining(a, c) == fault = "none" /\ thr[a] = "running" /\ join[a] = c

\* Faulty variant: stopping_ stays set.
StopEndNoReset(a, c) ==
    /\ trd_err' = IF trd_err[c] = Ok /\ ~cycle_done[c]
                  THEN [trd_err EXCEPT ![c] = CallerError("terminated")]
                  ELSE trd_err
    /\ deleted' = IF del[a] THEN [deleted EXCEPT ![c] = TRUE] ELSE deleted
    /\ join' = [join EXCEPT ![a] = NoCo]
    /\ del' = [del EXCEPT ![a] = FALSE]
    /\ UNCHANGED <<started, interrupted, disposed, cycle_done, stopping, flag, pc, ret>>

\* The part of stop() behind st_thread_join.
StopEnd(a, c) ==
    /\ trd_err' = IF trd_err[c] = Ok /\ ~cycle_done[c]
                  THEN [trd_err EXCEPT ![c] = CallerError("terminated")]
                  ELSE trd_err
    /\ stopping' = [stopping EXCEPT ![c] = FALSE]
    /\ deleted' = IF del[a] THEN [deleted EXCEPT ![c] = TRUE] ELSE deleted
    /\ join' = [join EXCEPT ![a] = NoCo]
    /\ del' = [del EXCEPT ![a] = FALSE]
    /\ UNCHANGED <<started, interrupted, disposed, cycle_done, flag, pc, ret>>

\* trd is NULL: nothing to join.
StopWithoutThread(a, c) ==
    /\ Joining(a, c) /\ thr[c] = "none"
    /\ StopEnd(a, c)
    /\ UNCHANGED <<thr, fault>>

\* The worker has exited: st_thread_join takes its return value and makes it
\* runnable once more, to free its own stack.
JoinZombie(a, c) ==
    /\ Joining(a, c) /\ thr[c] = "zombie"
    /\ thr' = [thr EXCEPT ![c] = "dying"]
    /\ fault' = IF ret[c] # Ok /\ trd_err[c] # ret[c] THEN "mismatch" ELSE fault
    /\ StopEnd(a, c)

\* Why st_thread_join returns -1 before it has waited, "none" if it does not.
JoinErrno(a, c) ==
    CASE thr[c] \in {"dying", "freed"} -> "use_after_free"
      [] a = c -> "EDEADLK"
      [] \E b \in Actors \ {a} : join[b] = c /\ thr[b] = "blocked" -> "EINVAL"
      [] flag[a] -> "EINTR"
      [] OTHER -> "none"

JoinFails(a, c) ==
    /\ Joining(a, c) /\ thr[c] \notin {"none", "zombie"}
    /\ JoinErrno(a, c) # "none"
    /\ fault' = JoinErrno(a, c)
    /\ UNCHANGED <<object, thr, flag, pc, ret, join, del>>

\* Faulty variant: stop() goes on without waiting.
JoinNoWait(a, c) ==
    /\ Joining(a, c) /\ thr[c] \notin {"none", "zombie"}
    /\ JoinErrno(a, c) = "none"
    /\ StopEnd(a, c)
    /\ UNCHANGED <<thr, fault>>

\* st_cond_timedwait on the worker's termination condition.
JoinWait(a, c) ==
    /\ Joining(a, c) /\ thr[c] \notin {"none", "zombie"}
    /\ JoinErrno(a, c) = "none"
    /\ thr' = [thr EXCEPT ![a] = "blocked"]
    /\ UNCHANGED <<object, flag, pc, ret, join, del, fault>>

-----------------------------------------------------------------------------
(* The worker *)

\* pfn and cycle() up to the call of the handler.
Cycle(c) ==
    /\ Running(c) /\ pc[c] = "entry"
    /\ pc' = [pc EXCEPT ![c] = "loop"]
    /\ UNCHANGED <<object, thr, flag, ret, join, del, fault>>

\* The handler's loop asks its own pull(): go on, or return the error's copy.
Pull(c) ==
    /\ Running(c) /\ pc[c] = "loop"
    /\ IF trd_err[c] = Ok
       THEN pc' = [pc EXCEPT ![c] = "work"] /\ UNCHANGED ret
       ELSE /\ pc' = [pc EXCEPT ![c] = "quit"]
            /\ ret' = [ret EXCEPT ![c] = WorkerError(trd_err[c].code)]
    /\ UNCHANGED <<object, thr, flag, join, del, fault>>

\* Faulty variant: a pending interrupt does not keep the actor from blocking.
SleepDeaf(a) ==
    /\ Running(a) /\ pc[a] = "work"
    /\ thr' = [thr EXCEPT ![a] = "blocked"]
    /\ pc' = [pc EXCEPT ![a] = "sleeping"]
    /\ UNCHANGED <<object, flag, ret, join, del, fault>>

\* st_usleep, or st_poll under an I/O call: a pending interrupt makes it return
\* at once, otherwise the actor blocks.
Sleep(a) ==
    /\ Running(a) /\ pc[a] = "work"
    /\ IF flag[a]
       THEN /\ flag' = [flag EXCEPT ![a] = FALSE]
            /\ pc' = [pc EXCEPT ![a] = "loop"]
            /\ UNCHANGED thr
       ELSE /\ thr' = [thr EXCEPT ![a] = "blocked"]
            /\ pc' = [pc EXCEPT ![a] = "sleeping"]
            /\ UNCHANGED flag
    /\ UNCHANGED <<object, ret, join, del, fault>>

\* Faulty variant: the actor that joins the thread is not woken.
ExitUnsignalled(c, e) ==
    /\ ret' = [ret EXCEPT ![c] = e]
    /\ cycle_done' = IF e = Ok THEN [cycle_done EXCEPT ![c] = TRUE] ELSE cycle_done
    /\ trd_err' = IF e # Ok THEN [trd_err EXCEPT ![c] = e] ELSE trd_err
    /\ thr' = [thr EXCEPT ![c] = "zombie"]
    /\ UNCHANGED <<started, interrupted, disposed, stopping, deleted, flag, pc,
                   join, del, fault>>

\* handler->cycle() returns e; cycle() and pfn record it; st_thread_exit makes
\* the thread a zombie and wakes the actor that joins it.
Exit(c, e) ==
    /\ ret' = [ret EXCEPT ![c] = e]
    /\ cycle_done' = IF e = Ok THEN [cycle_done EXCEPT ![c] = TRUE] ELSE cycle_done
    /\ trd_err' = IF e # Ok THEN [trd_err EXCEPT ![c] = e] ELSE trd_err
    /\ thr' = [a \in Actors |->
                 CASE a = c -> "zombie"
                   [] a # c /\ join[a] = c /\ thr[a] = "blocked" -> "runnable"
                   [] OTHER -> thr[a]]
    /\ UNCHANGED <<started, interrupted, disposed, stopping, deleted, flag, pc,
                   join, del, fault>>

\* The handler ends by itself, with success or with an error of its own.
Return(c, e) ==
    /\ Running(c) /\ pc[c] \in {"loop", "work"}
    /\ Exit(c, e)

\* It ends because pull() told it to.
Quit(c) ==
    /\ Running(c) /\ pc[c] = "quit"
    /\ Exit(c, ret[c])

-----------------------------------------------------------------------------
(* The scheduler *)

Idle == fault = "none" /\ \A a \in Actors : thr[a] # "running"

\* The timeout of a sleeper, or the event its I/O waits for.
Wake(a) ==
    /\ Idle /\ thr[a] = "blocked" /\ pc[a] = "sleeping" /\ join[a] = NoCo
    /\ thr' = [thr EXCEPT ![a] = "runnable"]
    /\ UNCHANGED <<object, flag, pc, ret, join, del, fault>>

\* Switch to a runnable thread.  One that resumes from a sleep consumes the
\* interrupt; one that resumes in st_thread_join with an interrupt fails there.
Dispatch(a) ==
    /\ Idle /\ thr[a] = "runnable"
    /\ thr' = [thr EXCEPT ![a] = "running"]
    /\ IF pc[a] = "sleeping"
       THEN /\ pc' = [pc EXCEPT ![a] = IF a = Main THEN "work" ELSE "loop"]
            /\ flag' = [flag EXCEPT ![a] = FALSE]
       ELSE UNCHANGED <<pc, flag>>
    /\ fault' = IF join[a] # NoCo /\ flag[a] THEN "EINTR" ELSE fault
    /\ UNCHANGED <<object, ret, join, del>>

\* A joined thread runs for the last time and frees its stack, where its
\* _st_thread_t lives.
Cleanup(c) ==
    /\ Idle /\ thr[c] = "dying"
    /\ thr' = [thr EXCEPT ![c] = "freed"]
    /\ UNCHANGED <<object, flag, pc, ret, join, del, fault>>

-----------------------------------------------------------------------------
Call(a, c) ==
    \/ StartRefused(a, c)
    \/ StartFails(a, c)
    \/ Start(a, c)
    \/ Interrupt(a, c)
    \/ \E d \in BOOLEAN : StopAgain(a, c, d) \/ StopBegin(a, c, d)

Join(a, c) ==
    \/ StopWithoutThread(a, c)
    \/ JoinZombie(a, c)
    \/ JoinFails(a, c)
    \/ JoinWait(a, c)

Worker(c) ==
    \/ Cycle(c)
    \/ Pull(c)
    \/ \E e \in {Ok, WorkerError("handler")} : Return(c, e)
    \/ Quit(c)

Next ==
    \/ \E a \in Actors, c \in Co : Call(a, c) \/ Join(a, c)
    \/ \E c \in Co : Worker(c) \/ Cleanup(c)
    \/ \E a \in Actors : Sleep(a) \/ Wake(a) \/ Dispatch(a)

Spec == Init /\ [][Next]_vars

\* What the running actor must eventually do: its handler checks pull(), comes
\* back to a blocking call, and returns once pull() has failed.
Progress(a) ==
    \/ a \in Co /\ (Cycle(a) \/ Pull(a) \/ Quit(a))
    \/ Sleep(a)
    \/ \E c \in Co : Join(a, c)

\* A running actor makes progress, and the run queue is first in, first out, so
\* a runnable thread is run.  Nothing is assumed of the callers, nor that a
\* sleeping worker wakes up by itself.
Fairness == \A a \in Actors : WF_vars(Progress(a)) /\ SF_vars(Dispatch(a))

FairSpec == Spec /\ Fairness

-----------------------------------------------------------------------------
(* Correctness *)

\* Every variable has its type.
TypeOK ==
    /\ started \in [Co -> BOOLEAN] /\ interrupted \in [Co -> BOOLEAN]
    /\ disposed \in [Co -> BOOLEAN] /\ cycle_done \in [Co -> BOOLEAN]
    /\ stopping \in [Co -> BOOLEAN] /\ deleted \in [Co -> BOOLEAN]
    /\ trd_err \in [Co -> Errors \cup {Ok}] /\ ret \in [Co -> Errors \cup {Ok}]
    /\ thr \in [Actors -> ThreadStates]
    /\ flag \in [Actors -> BOOLEAN]
    /\ pc \in [Actors -> {"entry", "loop", "work", "sleeping", "quit"}]
    /\ join \in [Actors -> Co \cup {NoCo}]
    /\ del \in [Actors -> BOOLEAN]
    /\ fault \in Faults

\* Whatever the callers do, interrupt() and stop() never touch a thread whose
\* stack is freed, never join one that somebody else joins, and the error a
\* joined worker returned is the very object pull() reports: of the assertions
\* of stop(), these three cannot fail.
ThreadUseSafe == fault \notin {"use_after_free", "EINVAL", "mismatch"}

\* When stop() has returned, and above all when the destructor has freed the
\* object, the worker does not run any more: pfn and cycle() write to the
\* object's fields at the end of the thread.
StopWaits ==
    \A c \in Co :
        /\ disposed[c] /\ ~stopping[c] => thr[c] \in {"none", "dying", "freed"}
        /\ deleted[c] => disposed[c] /\ ~stopping[c]

\* An interrupt() reaches a worker that still runs, wherever it was when the
\* call came (not yet run, asleep, due but not yet resumed, between its pull()
\* and its sleep): pull() fails from then on and the worker does not go back
\* to sleep.
InterruptNotLost ==
    \A c \in Co : interrupted[c] /\ thr[c] \in Live =>
        /\ trd_err[c] # Ok
        /\ ~(thr[c] = "blocked" /\ pc[c] = "sleeping")

\* Nobody waits in st_thread_join for a thread that has already exited: the
\* signal of st_thread_exit is not missed.
ExitNotMissed ==
    \A a \in Actors : thr[a] = "blocked" /\ join[a] # NoCo => thr[join[a]] \in Live

\* No assertion of stop() fails.  It takes a discipline of the callers:
\* see Disciplined.
NoAssertFails == fault = "none"

\* One stopper for every object, never the object's own worker; and a worker
\* that stops others is itself neither stopped nor interrupted.
Disciplined ==
    /\ \A a, b \in Actors, c \in Co : <<a, c>> \in Stops /\ <<b, c>> \in Stops => a = b
    /\ \A c \in Co : <<c, c>> \notin Stops
    /\ \A a \in Actors, c, e \in Co :
            <<c, e>> \in Stops => <<a, c>> \notin Stops /\ <<a, c>> \notin Interrupts

\* Once pull() has reported an error it never reports success again, and the
\* error the worker ended with is never replaced by a caller's.
ErrorSticky ==
    [][\A c \in Co :
          /\ trd_err[c] # Ok => trd_err'[c] # Ok
          /\ trd_err[c].from = "worker" => trd_err'[c] = trd_err[c]]_vars

\* stop() returns: the worker, asleep or not, started or not, comes to its end.
StopReturns == \A a \in Actors, c \in Co : join[a] = c ~> join[a] # c
=============================================================================
