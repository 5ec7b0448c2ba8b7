-------------------------- MODULE MCServerShutdown --------------------------
(* Three requests, one more than the limiter lets in.                      *)
EXTENDS ServerShutdown

CONSTANTS r1, r2, r3
=============================================================================
