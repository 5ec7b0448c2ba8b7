---------------------------- MODULE MCAgentParts ----------------------------
(* The agent's parts that share no state, each on its own: the run chooses *)
(* one of them, and the others stay as they are at the start, where nothing *)
(* that fairness asks for is possible.                                     *)
(*                                                                         *)
(* The collector with two key fields and one more field per provider; the  *)
(* pool with two workers, a channel of one and more tasks than they can    *)
(* hold, so that Submit meets a full channel while both workers are busy;  *)
(* the unlimited sender with three reports, one retry each and the sizes   *)
(* of the code, where a report never fits into a pooled slice.             *)
EXTENDS Collector, WorkerPool, UnlimitedSender

CONSTANTS w1, w2, Alloc, Sys, NumGC, FreeMemory

VARIABLE part  \* the part that runs

PartsInit ==
  /\ part \in {"collector", "pool", "sender"}
  /\ CollectorInit /\ PoolInit /\ Init

PartsNext ==
  \/ part = "collector" /\ CollectorNext /\ UNCHANGED <<part, poolVars, vars>>
  \/ part = "pool" /\ PoolNext /\ UNCHANGED <<part, collectorVars, vars>>
  \/ part = "sender" /\ Next /\ UNCHANGED <<part, collectorVars, poolVars>>

PartsSpec ==
  /\ PartsInit /\ [][PartsNext]_<<part, collectorVars, poolVars, vars>>
  /\ PoolFairness /\ Fairness
=============================================================================
