--------------------------- MODULE FastCoroutineAbs ---------------------------
(* FastCoroutine implements Lifecycle: the refinement mapping.               *)
EXTENDS FastCoroutine

\* The life of a state-thread as the owner of its object sees it.
PhaseOf(t) ==
    CASE t = "none" -> "new"
      [] t \in Live -> "live"
      [] t = "zombie" -> "ended"
      [] OTHER -> "joined"

phaseBar == [c \in Co |-> PhaseOf(thr[c])]
alertBar == [c \in Co |-> trd_err[c] # Ok]

L == INSTANCE Lifecycle WITH
        phase <- phaseBar, alert <- alertBar, closed <- disposed, gone <- deleted

\* Whatever its callers do, an SrsFastCoroutine keeps the promises of
\* Lifecycle: start() launches at most one thread and none after stop(), stop()
\* waits for the thread, the destructor never frees an object in use.
ImplementsLifecycle == L!LSpec
=============================================================================
