-------------------------------- MODULE Sums --------------------------------
(***************************************************************************)
(* Sums over finite sets of calls, updates or positions of a batch.        *)
(***************************************************************************)
EXTENDS Integers, FiniteSets, FiniteSetsExt

\* The sum of the values of f at the elements of S.
Total(f, S) == MapThenSumSet(LAMBDA x : f[x], S)
=============================================================================
