----------------------------- MODULE MCHttpApi -----------------------------
(* Updates of a counter and a gauge of one id in every form, with the ways *)
(* they are refused, reads, and the requests of two agents, one of them    *)
(* with a key the server does not know, on the memory and on the database. *)
EXTENDS HttpApi, TLC

CONSTANTS a, v, nan, k, k2, r1, r2, r3

M(n, t, d, x) == [id |-> n, mtype |-> t, exact |-> TRUE, delta |-> d, value |-> x]
C(d) == M(a, "counter", d, Nil)
G(x) == M(a, "gauge", Nil, x)
Upper(m) == [m EXCEPT !.exact = FALSE]
Other == M(a, "other", 1, Nil)

Q(to, ms) ==
  [to |-> to, json |-> TRUE, coding |-> FALSE, accept |-> TRUE, hash |-> NoHash,
   wire |-> [gzip |-> FALSE, form |-> "ok", metrics |-> ms]]
Bad(q) == [q EXCEPT !.wire.form = "bad"]
Text(q) == [q EXCEPT !.json = FALSE, !.accept = FALSE]

MCUpdates ==
  {Q("update_url", <<C(1)>>), Q("update_url", <<G(nan)>>), Bad(Q("update_url", <<C(1)>>)),
   Q("update", <<Upper(C(2))>>), Q("update", <<C(Nil)>>), Text(Q("update", <<G(v)>>)),
   Q("updates", <<C(1), Upper(C(3)), Other, C(1)>>), Bad(Q("updates", <<>>)),
   [Q("updates", <<C(1)>>) EXCEPT !.coding = TRUE],
   AgentRequest(<<G(v), C(1)>>, TRUE, k), AgentRequest(<<C(1)>>, TRUE, k2)}

MCReads ==
  {Q("value_url", <<C(Nil)>>), Q("value_url", <<Upper(C(Nil))>>), Q("value", <<Upper(C(Nil))>>),
   Q("value", <<G(Nil)>>), Text(Q("value", <<G(Nil)>>)), Q("page", <<>>), Q("ping", <<>>)}

MCInputs == MCUpdates \cup MCReads

Symmetry == Permutations(Requests)
=============================================================================
