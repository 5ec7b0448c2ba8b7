---------------------------- MODULE MCDbStorage ----------------------------
(* Operations on two ids: single updates, batches that lock the rows in    *)
(* both orders, a batch with metrics to skip, an id used for both types.   *)
EXTENDS DbStorage

CONSTANTS a, b, v, c1, c2

C(id, d) == [id |-> id, mtype |-> "counter", delta |-> d, value |-> Null]
G(id, x) == [id |-> id, mtype |-> "gauge", delta |-> Null, value |-> x]
O(id) == [id |-> id, mtype |-> "other", delta |-> Null, value |-> Null]
Do(kind, ms) == [kind |-> kind, metrics |-> ms]

MCOps ==
  {Do("counter", <<C(a, 1)>>), Do("gauge", <<G(b, v)>>),
   Do("batch", <<C(a, 1), C(b, 1)>>), Do("batch", <<C(b, 1), O(b), C(a, 2)>>),
   Do("batch", <<G(b, v), C(a, Null), C(a, 1)>>)}

MCReads == MCOps \cup
  {Do("getCounter", <<C(a, Null)>>), Do("getGauge", <<G(b, Null)>>), Do("getAll", <<O(a)>>)}
=============================================================================
