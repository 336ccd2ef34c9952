---------------------------- MODULE MCNestedStop ----------------------------
(* A parent whose handler starts and stops a child, and whose own owner is  *)
(* Main: one stopper per object, but the stopper can be stopped itself.     *)
EXTENDS FastCoroutine

CONSTANTS parent, child

NestedStarts == {<<Main, parent>>, <<parent, child>>}
NestedStops == {<<Main, parent>>, <<parent, child>>}
NestedInterrupts == {}
=============================================================================
