---------------------------- MODULE MetricStore ----------------------------
(***************************************************************************)
(* What the storage promises to its clients (service.Storage): every       *)
(* request, a whole batch included, is one atomic step; what a save leaves *)
(* in the file is a snapshot of such a moment, or nothing usable if the    *)
(* process died or the write failed; a start takes the file's snapshot or  *)
(* begins empty.                                                           *)
(***************************************************************************)
EXTENDS Integers, Sequences, Sums

CONSTANTS CNames, GNames, Finite, NonFinite, Half, Deltas, Batches, Nil, Restore

VARIABLES state,     \* "down", "up", "failed"
          counters, gauges,
          saved,     \* [state, counters, gauges]: what a start would find
          resp       \* the reply of the read that has just returned

vars == <<state, counters, gauges, saved, resp>>

NoCounters == [n \in CNames |-> Nil]
NoGauges == [n \in GNames |-> Nil]
NoReply == [op |-> "none"]
Damaged == [state |-> "damaged", counters |-> NoCounters, gauges |-> NoGauges]

Init ==
  /\ state = "down"
  /\ counters = NoCounters /\ gauges = NoGauges
  /\ saved = [state |-> "absent", counters |-> NoCounters, gauges |-> NoGauges]
  /\ resp = NoReply

\* The increments of counter n, and the values of gauge n, in a batch.
DeltasOf(b, n) ==
  {i \in DOMAIN b : b[i].mtype = "counter" /\ b[i].id = n /\ b[i].delta # Nil}
ValuesOf(b, n) ==
  {i \in DOMAIN b : b[i].mtype = "gauge" /\ b[i].id = n /\ b[i].value # Nil}

\* A counter grows by the sum of its increments, modulo the width ...
CountersAfter(c, b) ==
  [n \in CNames |->
     LET I == DeltasOf(b, n)
         old == IF c[n] = Nil THEN 0 ELSE c[n]
         sum == Total([i \in I |-> b[i].delta], I) IN
     IF I = {} THEN c[n] ELSE ((old + sum + Half) % (2 * Half)) - Half]

\* ... and a gauge takes its last value.
GaugesAfter(g, b) ==
  [n \in GNames |->
     IF ValuesOf(b, n) = {} THEN g[n] ELSE b[Max(ValuesOf(b, n))].value]

One(n, t, d, v) == <<[id |-> n, mtype |-> t, delta |-> d, value |-> v]>>

Writes ==
  Batches \cup {One(n, "counter", d, Nil) : n \in CNames, d \in Deltas}
    \cup {One(n, "gauge", Nil, v) : n \in GNames, v \in Finite \cup NonFinite}

Update ==
  /\ state = "up"
  /\ \E b \in Writes :
       /\ counters' = CountersAfter(counters, b)
       /\ gauges' = GaugesAfter(gauges, b)
  /\ resp' = NoReply
  /\ UNCHANGED <<state, saved>>

Reply(op, n, f, x) == [op |-> op, id |-> n, found |-> f[n] # Nil, value |-> x]

Read ==
  /\ state = "up"
  /\ \/ \E n \in CNames :
          resp' = Reply("counter", n, counters, IF counters[n] = Nil THEN 0 ELSE counters[n])
     \/ \E n \in GNames : resp' = Reply("gauge", n, gauges, gauges[n])
     \/ resp' = [op |-> "all", found |-> <<counters, gauges>> # <<NoCounters, NoGauges>>,
                 counters |-> counters, gauges |-> gauges]
  /\ UNCHANGED <<state, counters, gauges, saved>>

\* Only finite gauges can be saved.
Save ==
  /\ state = "up"
  /\ \A n \in GNames : gauges[n] \notin NonFinite
  /\ saved' = [state |-> "ok", counters |-> counters, gauges |-> gauges]
  /\ resp' = NoReply
  /\ UNCHANGED <<state, counters, gauges>>

SaveBreaks ==
  /\ state = "up" /\ saved' = Damaged
  /\ resp' = NoReply
  /\ UNCHANGED <<state, counters, gauges>>

Stop ==
  /\ state # "down" /\ state' = "down"
  /\ counters' = NoCounters /\ gauges' = NoGauges
  /\ saved' \in {saved, Damaged}
  /\ resp' = NoReply

Start ==
  /\ state = "down"
  /\ \/ /\ state' = "up" /\ Restore => saved.state # "damaged"
        /\ counters' = IF Restore THEN saved.counters ELSE NoCounters
        /\ gauges' = IF Restore THEN saved.gauges ELSE NoGauges
     \/ /\ state' = "failed" /\ saved.state # "absent"
        /\ UNCHANGED <<counters, gauges>>
  /\ resp' = NoReply
  /\ UNCHANGED saved

\* A reply is there only until something else happens.
Forget ==
  /\ resp' = NoReply
  /\ UNCHANGED <<state, counters, gauges, saved>>

Next == Update \/ Read \/ Save \/ SaveBreaks \/ Stop \/ Start \/ Forget

Spec == Init /\ [][Next]_vars
=============================================================================
