------------------------------ MODULE MCHttpConn ------------------------------
(* Two connections, one of them with SSL, and one manager. *)
EXTENDS HttpConn

CONSTANTS c1, c2
=============================================================================
