--------------------------- MODULE MCFastCoroutine ---------------------------
(* Two objects whose callers keep the discipline: Main starts and stops both, *)
(* each worker may start the other once more and interrupt it.               *)
EXTENDS FastCoroutine

CONSTANTS c1, c2

MCStarts == Actors \X Co
MCStops == {Main} \X Co
MCInterrupts == Actors \X Co

ASSUME Disciplined
=============================================================================
