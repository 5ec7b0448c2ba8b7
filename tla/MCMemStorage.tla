---------------------------- MODULE MCMemStorage ----------------------------
(* Small instances of MemStorage: batches that touch both maps, repeat an  *)
(* id, carry nil fields or an unknown type, and share the id "a" between a *)
(* counter and a gauge.                                                    *)
EXTENDS MemStorage

CONSTANTS a, b, v, nan

\* The increment: 1, or -1 in the narrowest width.
One == IF Half > 1 THEN 1 ELSE -1
MCDeltas == {One}

C(n, d) == [id |-> n, mtype |-> "counter", delta |-> d, value |-> Nil]
G(n, x) == [id |-> n, mtype |-> "gauge", delta |-> Nil, value |-> x]
Other(n) == [id |-> n, mtype |-> "other", delta |-> One, value |-> Nil]

MCBatches == {<<C(a, One), G(a, v)>>, <<C(b, One), C(b, One), C(a, Nil)>>, <<G(a, Nil), Other(a)>>}
MCOneBatch == {<<C(a, One), G(a, v), C(a, One)>>}
=============================================================================
