---------------------------- MODULE MCGzipPools ----------------------------
(* Three requests: they meet readers and writers that others have given    *)
(* back, and work beside each other.  The kinds reach every branch of the  *)
(* middlewares.                                                            *)
EXTENDS GzipPools, TLC

CONSTANTS r1, r2, r3

K(c, a, s) == [coding |-> c, accept |-> a, signed |-> s]
MCInputs ==
  {K("gzip", TRUE, TRUE), K("gzip", TRUE, FALSE), K("nohead", TRUE, FALSE),
   K("broken", TRUE, TRUE), K("plain", FALSE, FALSE)}
Symmetry == Permutations(Requests)
=============================================================================
