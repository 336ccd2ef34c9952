------------------------------ MODULE Lifecycle ------------------------------
(***************************************************************************)
(* What a coroutine object promises to the code that owns it: its thread   *)
(* is launched at most once, never after the object was closed; it is      *)
(* joined once, after it has ended and only by a close; an alert, the      *)
(* error pull() reports, never goes away; and the object's memory is given *)
(* back only when no thread can use it any more.                           *)
(***************************************************************************)
CONSTANT Co

VARIABLES
    phase,    \* of the object's thread
    alert,    \* pull() reports an error
    closed,   \* stop() was called
    gone      \* the object's memory is freed

lvars == <<phase, alert, closed, gone>>

Phases == {"new", "live", "ended", "joined"}

LInit ==
    /\ phase = [c \in Co |-> "new"]
    /\ alert = [c \in Co |-> FALSE]
    /\ closed = [c \in Co |-> FALSE]
    /\ gone = [c \in Co |-> FALSE]

Launch(c) ==
    /\ phase[c] = "new" /\ ~closed[c]
    /\ phase' = [phase EXCEPT ![c] = "live"]
    /\ UNCHANGED <<alert, closed, gone>>

\* A failed start, or an interrupt.
Raise(c) ==
    /\ ~gone[c]
    /\ alert' = [alert EXCEPT ![c] = TRUE]
    /\ UNCHANGED <<phase, closed, gone>>

\* The thread ends; an error it ends with is an alert, and after an alert it
\* may still end with success.
Finish(c) ==
    /\ phase[c] = "live" /\ ~gone[c]
    /\ phase' = [phase EXCEPT ![c] = "ended"]
    /\ alert' \in {alert, [alert EXCEPT ![c] = TRUE]}
    /\ UNCHANGED <<closed, gone>>

\* stop() is called: a thread that has not ended is alerted.
Close(c) ==
    /\ ~closed[c]
    /\ closed' = [closed EXCEPT ![c] = TRUE]
    /\ alert' \in {alert, [alert EXCEPT ![c] = TRUE]}
    /\ phase[c] = "live" => alert'[c]
    /\ UNCHANGED <<phase, gone>>

\* stop() is over; the destructor also frees the object.
Join(c) ==
    /\ closed[c] /\ phase[c] = "ended"
    /\ phase' = [phase EXCEPT ![c] = "joined"]
    /\ gone' \in {gone, [gone EXCEPT ![c] = TRUE]}
    /\ UNCHANGED <<alert, closed>>

\* stop() or the destructor of an object without a thread to wait for.
Free(c) ==
    /\ closed[c] /\ phase[c] \in {"new", "joined"}
    /\ alert' \in {alert, [alert EXCEPT ![c] = TRUE]}
    /\ phase[c] = "new" => alert'[c]
    /\ gone' \in {gone, [gone EXCEPT ![c] = TRUE]}
    /\ UNCHANGED <<phase, closed>>

LNext ==
    \E c \in Co : Launch(c) \/ Raise(c) \/ Finish(c) \/ Close(c) \/ Join(c) \/ Free(c)

LSpec == LInit /\ [][LNext]_lvars
=============================================================================
