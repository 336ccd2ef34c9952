------------------------------ MODULE MCHybrid ------------------------------
(* The hybrid server with two servers, whose coroutines form one group.      *)
EXTENDS Hybrid

CONSTANTS main1, w1, w2, w3, w4

=============================================================================
