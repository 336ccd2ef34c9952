----------------------------- MODULE MCWaitGroup -----------------------------
(* Instances of WaitGroup.                                                   *)
EXTENDS WaitGroup

CONSTANTS o1, w1, w2, w3, w4

=============================================================================
