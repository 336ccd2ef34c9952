------------------------------ MODULE WaitGroup ------------------------------
(***************************************************************************)
(* SrsWaitGroup (trunk/src/app/srs_app_st.cpp) on the condition variables  *)
(* of state-threads (trunk/3rdparty/st-srs/sync.c).                        *)
(*                                                                         *)
(* The owner adds coroutines to the group, waits, and destroys the group,  *)
(* or destroys it without waiting first when something fails.              *)
(* A coroutine of the group may add another one before it is done.  Other  *)
(* waiters only wait.  Scheduling is cooperative: add(), done() and wait() *)
(* up to its blocking call are each one step.                              *)
(***************************************************************************)
EXTENDS Integers, FiniteSets, Sequences, SequencesExt

CONSTANTS
    Workers,          \* the coroutines that are counted
    Waiters,          \* the coroutines that call wait()
    Owner,            \* the waiter that adds, and runs the destructor
    MaxInterrupts     \* bound: how often somebody interrupts a waiter

ASSUME WaitGroupAssumption ==
    /\ Owner \in Waiters
    /\ MaxInterrupts \in Nat
    /\ Workers \cap Waiters = {}

VARIABLES
    nn,          \* SrsWaitGroup::nn_
    worker,      \* "new", "added" (its done() is still to come) or "done"
    pc,          \* the waiter's program counter
    blocked,     \* the waiters in state COND_WAIT
    wait_q,      \* the wait queue of done_: a waiter leaves it when it resumes
    flag,        \* _ST_FL_INTERRUPT of the waiters
    interrupts   \* how many interrupts there were

vars == <<nn, worker, pc, blocked, wait_q, flag, interrupts>>

Init ==
    /\ nn = 0
    /\ worker = [w \in Workers |-> "new"]
    /\ pc = [o \in Waiters |-> "start"]
    /\ blocked = {}
    /\ wait_q = <<>>
    /\ flag = [o \in Waiters |-> FALSE]
    /\ interrupts = 0

-----------------------------------------------------------------------------
\* add(1) for a new coroutine: by the owner before it waits, or by a coroutine
\* of the group, so never while the counter is zero and somebody waits.
Add(w) ==
    /\ worker[w] = "new"
    /\ pc[Owner] = "start" \/ \E v \in Workers : worker[v] = "added"
    /\ nn' = nn + 1
    /\ worker' = [worker EXCEPT ![w] = "added"]
    /\ UNCHANGED <<pc, blocked, wait_q, flag, interrupts>>

\* Faulty variant: a signal that comes one done() too late.
DoneUnsignalled(w) ==
    /\ worker[w] = "added"
    /\ worker' = [worker EXCEPT ![w] = "done"]
    /\ nn' = nn - 1
    /\ blocked' = IF nn' < 0 THEN {} ELSE blocked
    /\ UNCHANGED <<pc, wait_q, flag, interrupts>>

\* st_cond_signal wakes the first blocked waiter of the queue, if there is one.
Signalled ==
    {wait_q[i] : i \in {j \in DOMAIN wait_q :
        wait_q[j] \in blocked /\ \A k \in 1 .. j - 1 : wait_q[k] \notin blocked}}

\* done()
Done(w) ==
    /\ worker[w] = "added"
    /\ worker' = [worker EXCEPT ![w] = "done"]
    /\ nn' = nn - 1
    /\ blocked' = IF nn' <= 0 THEN blocked \ Signalled ELSE blocked
    /\ UNCHANGED <<pc, wait_q, flag, interrupts>>

\* Faulty variant: the destructor does not wait again.
AfterWaitDestroyed(o) == IF o = Owner THEN "destroyed" ELSE "returned"

\* Where a waiter blocks in wait(), and where it is when wait() returns: the
\* destructor calls wait() again, or for the first time.
Asleep == [start |-> "waiting", returned |-> "destroying", leaving |-> "unwinding"]
AfterWait(o) ==
    [start |-> "returned", waiting |-> "returned", returned |-> "destroyed",
     destroying |-> "destroyed", leaving |-> "unwound", unwinding |-> "unwound"][pc[o]]

\* An error makes the owner leave the scope of the group.
Leave ==
    /\ pc[Owner] = "start"
    /\ pc' = [pc EXCEPT ![Owner] = "leaving"]
    /\ UNCHANGED <<nn, worker, blocked, wait_q, flag, interrupts>>

\* Faulty variant: the last coroutine of the group is not waited for.
WaitOffByOne(o) ==
    /\ pc[o] = "start" \/ (pc[o] \in {"returned", "leaving"} /\ o = Owner)
    /\ IF nn > 1 /\ ~flag[o]
       THEN /\ wait_q' = Append(wait_q, o)
            /\ blocked' = blocked \cup {o}
            /\ pc' = [pc EXCEPT ![o] = Asleep[pc[o]]]
            /\ UNCHANGED flag
       ELSE /\ pc' = [pc EXCEPT ![o] = AfterWait(o)]
            /\ flag' = IF nn > 1 THEN [flag EXCEPT ![o] = FALSE] ELSE flag
            /\ UNCHANGED <<wait_q, blocked>>
    /\ UNCHANGED <<nn, worker, interrupts>>

\* wait(): one test of the counter, and one st_cond_wait whose result is
\* ignored; with an interrupt pending it returns at once.
Wait(o) ==
    /\ pc[o] = "start" \/ (pc[o] \in {"returned", "leaving"} /\ o = Owner)
    /\ IF nn > 0 /\ ~flag[o]
       THEN /\ wait_q' = Append(wait_q, o)
            /\ blocked' = blocked \cup {o}
            /\ pc' = [pc EXCEPT ![o] = Asleep[pc[o]]]
            /\ UNCHANGED flag
       ELSE /\ pc' = [pc EXCEPT ![o] = AfterWait(o)]
            /\ flag' = IF nn > 0 THEN [flag EXCEPT ![o] = FALSE] ELSE flag
            /\ UNCHANGED <<wait_q, blocked>>
    /\ UNCHANGED <<nn, worker, interrupts>>

\* The waiter runs again: st_cond_timedwait takes it off the queue, wait()
\* returns without looking at the counter.
Resume(o) ==
    /\ pc[o] \in Range(Asleep) /\ o \notin blocked
    /\ wait_q' = RemoveFirst(wait_q, o)
    /\ flag' = [flag EXCEPT ![o] = FALSE]
    /\ pc' = [pc EXCEPT ![o] = AfterWait(o)]
    /\ UNCHANGED <<nn, worker, blocked, interrupts>>

\* st_thread_interrupt on a waiter.
Interrupt(o) ==
    /\ pc[o] \notin {"destroyed", "unwound"} /\ interrupts < MaxInterrupts
    /\ interrupts' = interrupts + 1
    /\ flag' = [flag EXCEPT ![o] = TRUE]
    /\ blocked' = blocked \ {o}
    /\ UNCHANGED <<nn, worker, pc, wait_q>>

Next ==
    \/ \E w \in Workers : Add(w) \/ Done(w)
    \/ \E o \in Waiters : Wait(o) \/ Resume(o) \/ Interrupt(o)
    \/ Leave

Spec == Init /\ [][Next]_vars

-----------------------------------------------------------------------------
AllDone == \A w \in Workers : worker[w] # "added"

\* Every variable has its type; the counter never goes below zero.
TypeOK ==
    /\ nn \in Nat
    /\ worker \in [Workers -> {"new", "added", "done"}]
    /\ pc \in [Waiters -> {"start", "waiting", "returned", "destroying", "destroyed",
                           "leaving", "unwinding", "unwound"}]
    /\ blocked \subseteq Waiters
    /\ wait_q \in Seq(Waiters)
    /\ flag \in [Waiters -> BOOLEAN]
    /\ interrupts \in 0 .. MaxInterrupts

\* The comment on SrsWaitGroup::wait: "Wait for all corotine to be done."
WaitMeansDone == \A o \in Waiters : pc[o] \in {"returned", "destroyed", "unwound"} => AllDone

\* That holds as long as nobody interrupts a waiter, although wait() does not look
\* at the counter when it resumes: nothing is added between the signal of the last
\* done() and the moment the waiter runs.  It holds for the destructor alone, too,
\* when an error has made the owner leave.
UndisturbedWait == interrupts = 0 => WaitMeansDone

\* srs_cond_destroy in the destructor: nobody is left who will call done() on the
\* destroyed group.  Of two waits, wait() and the destructor's own, the second
\* makes up for the first one being interrupted once.
NoDoneAfterDestroy == pc[Owner] = "destroyed" => AllDone

\* The signal of the last done() is consumed by a waiter that is in the queue:
\* somebody blocked means that the counter is still positive.
NobodyBlockedAtZero == nn <= 0 => blocked = {}
=============================================================================
