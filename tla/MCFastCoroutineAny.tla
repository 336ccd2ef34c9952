------------------------- MODULE MCFastCoroutineAny -------------------------
(* Two objects and callers without any discipline: every actor, the worker  *)
(* itself included, may start, stop, delete and interrupt every object.     *)
EXTENDS FastCoroutineAbs

CONSTANTS c1, c2

AnyCall == Actors \X Co
=============================================================================
