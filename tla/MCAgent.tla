------------------------------ MODULE MCAgent ------------------------------
(* One worker, a queue of two (Initialize makes it twice as long as there  *)
(* are workers), and enough reports to fill it.                            *)
EXTENDS Agent

CONSTANTS w1
=============================================================================
