------------------------------ MODULE HttpApi ------------------------------
(***************************************************************************)
(* The HTTP interface of the server as its clients see it: decompression   *)
(* and compression, the check of signatures, the handlers of metrics, the  *)
(* main page and the ping (internal/handler, internal/service), and how    *)
(* the agent builds a request and reads an answer (internal/agent/client). *)
(* Counting, limiting and shutdown are in ServerShutdown.                  *)
(*                                                                         *)
(* The requests run concurrently on one of the two storages.  The memory   *)
(* is the atomic MetricStore that MemStorage implements; it never fails.   *)
(* The database has one row per id and applies a batch atomically (see     *)
(* DbStorage); its calls may fail, before an update was committed or after *)
(* it, and are retried.                                                    *)
(***************************************************************************)
EXTENDS Integers, Sequences, FiniteSets, Sums

CONSTANTS Requests,           \* the requests of a run
          Inputs,             \* what they may ask
          CNames, GNames,     \* metric ids
          Finite, NonFinite,  \* gauge values
          Half,               \* counters are in -Half .. Half-1
          Nil,                \* an absent entry, a nil pointer
          ServerKey,          \* flag -k of the server, NoKey if not set
          NoKey,
          Attempts            \* MaxRetries + 1 of the database

Ids == CNames \cup GNames
Values == Finite \cup NonFinite
Deltas == (-Half) .. (Half - 1)

\* A metric in a request; exact if its type is written in lower case.
Metrics == [id : Ids, mtype : {"counter", "gauge", "other"}, exact : BOOLEAN,
            delta : Deltas \cup {Nil}, value : Values \cup {Nil}]

\* The bytes of a body: gzip says whether they are a gzip stream, form whether
\* what they encode is empty, broken or a list of metrics.  The parameters of
\* a URL are written the same way.
Bodies == [gzip : BOOLEAN, form : {"empty", "bad", "ok"}, metrics : Seq(Metrics)]

NoHash == <<>>

\* A request [to, json, coding, accept, wire, hash]: json, coding and accept tell
\* whether Content-Type is JSON, Content-Encoding is gzip and Accept-Encoding
\* has gzip; hash is the signature, or NoHash.
Paths == {"update_url", "update", "updates", "value_url", "value", "page", "ping"}

ASSUME RequestsAssumption == IsFiniteSet(Requests)
ASSUME HalfAssumption == Half \in Nat \ {0}
ASSUME NilAssumption == Nil \notin Deltas \cup Values /\ Nil \notin Inputs
ASSUME AttemptsAssumption == Attempts \in Nat \ {0}
ASSUME InputsAssumption ==
  \A q \in Inputs :
    /\ q.to \in Paths /\ q.wire \in Bodies /\ {q.json, q.coding, q.accept} \subseteq BOOLEAN
    /\ q.to \notin {"updates", "page", "ping"} => Len(q.wire.metrics) = 1
    /\ \A i \in DOMAIN q.wire.metrics :
         LET m == q.wire.metrics[i] IN
         /\ m.mtype = "counter" => m.id \in CNames
         /\ m.mtype = "gauge" => m.id \in GNames

VARIABLES
  backend,   \* what initStorage chose: "memory", "database"
  counters, gauges,  \* the storage; in the database the rows of either type
  att,       \* per request: failed attempts of its update, the i of retry.Do
  times,     \* history, per request: how often the storage applied its update
  input,     \* per request: what it asks, Nil before it arrives
  pc,        \* per request: "new", "filter", "handle", "retry", "write", "done"
  response,  \* per request: what the server wrote
  before     \* history, per request: the requests answered when it arrived

storage == <<counters, gauges, att, times>>
vars == <<backend, storage, input, pc, response, before>>

Store == INSTANCE MetricStore
  WITH Deltas <- {}, Batches <- {}, Restore <- FALSE,
       state <- "up", saved <- Nil, resp <- Nil

NoBody == [kind |-> "none", value |-> Nil]
ErrorText == [kind |-> "error", value |-> Nil]
ValueOf(x) == [kind |-> "value", value |-> x]
Page == [kind |-> "page", value |-> Nil]
NoResponse == [status |-> 0, body |-> NoBody, zipped |-> FALSE, encoding |-> FALSE]

Init ==
  /\ backend \in {"memory", "database"}
  /\ counters = [n \in CNames |-> Nil] /\ gauges = [n \in GNames |-> Nil]
  /\ input = [r \in Requests |-> Nil]
  /\ pc = [r \in Requests |-> "new"]
  /\ response = [r \in Requests |-> NoResponse]
  /\ att = [r \in Requests |-> 0] /\ times = [r \in Requests |-> 0]
  /\ before = [r \in Requests |-> {}]

-----------------------------------------------------------------------------
(* The agent's client.                                                     *)

\* The signature stands for the key and the bytes it was computed from.
Sign(key, body) == <<key, body>>

\* ProcessRequest and setRequestHeaders: the JSON is signed, then compressed
\* if it is long.
AgentRequest(ms, long, key) ==
  LET json == [gzip |-> FALSE, form |-> "ok", metrics |-> ms] IN
  [to |-> "updates", json |-> TRUE, accept |-> TRUE,
   coding |-> long, wire |-> [json EXCEPT !.gzip = long],
   hash |-> IF key = NoKey THEN NoHash ELSE Sign(key, json)]

\* ProcessResponse: what the client takes for the body of the answer.
ProcessResponse(p) == IF p.encoding = p.zipped THEN p.body ELSE ErrorText

-----------------------------------------------------------------------------
(* A request arrives; the middlewares Compress and HashValidation.         *)

Done == {r \in Requests : pc[r] = "done"}

Arrive(r) ==
  /\ pc[r] = "new"
  /\ pc' = [pc EXCEPT ![r] = "filter"]
  /\ \E q \in Inputs : input' = [input EXCEPT ![r] = q]
  /\ before' = [before EXCEPT ![r] = Done]
  /\ UNCHANGED <<backend, storage, response>>

\* WriteHeader of the compressing writer: only a success is declared as gzip.
Encodes(status) == status >= 200 /\ status < 300

\* The response goes through the compressing writer if the client accepts
\* gzip; every body, and the end of an empty one, is then compressed.
Answers(r, status, body) ==
  /\ response' = [response EXCEPT ![r] =
       [status |-> status, body |-> body, zipped |-> input[r].accept,
        encoding |-> input[r].accept /\ Encodes(status)]]
  /\ pc' = [pc EXCEPT ![r] = "write"]
  /\ UNCHANGED <<backend, input, before>>

\* The body is no gzip stream although its header says so.
DecompressFails(r) ==
  /\ pc[r] = "filter"
  /\ input[r].coding /\ ~input[r].wire.gzip
  /\ response' = [response EXCEPT ![r] = [NoResponse EXCEPT !.status = 500, !.body = ErrorText]]
  /\ pc' = [pc EXCEPT ![r] = "write"]
  /\ UNCHANGED <<backend, storage, input, before>>

\* Mutant: the signature is checked on the compressed body.
BodyCompressed(q) == q.wire

\* The body the signature middleware and the handlers read.
Body(q) == IF q.coding THEN [q.wire EXCEPT !.gzip = FALSE] ELSE q.wire

\* A request without a signature (no header, or "none") is let through.
Verifies(q) == ServerKey = NoKey \/ q.hash = NoHash \/ q.hash = Sign(ServerKey, Body(q))

Filter(r) ==
  /\ pc[r] = "filter"
  /\ ~(input[r].coding /\ ~input[r].wire.gzip)
  /\ \/ /\ Verifies(input[r]) /\ pc' = [pc EXCEPT ![r] = "handle"]
        /\ UNCHANGED <<backend, response, input, before>>
     \/ ~Verifies(input[r]) /\ Answers(r, 400, NoBody)
  /\ UNCHANGED storage

\* net/http sends the response.
Write(r) ==
  /\ pc[r] = "write" /\ pc' = [pc EXCEPT ![r] = "done"]
  /\ UNCHANGED <<backend, storage, input, response, before>>

-----------------------------------------------------------------------------
(* What the handlers find in the request.                                  *)

Handles(r, to) == pc[r] = "handle" /\ input[r].to = to

Decodes(q) == Body(q).form = "ok" /\ ~Body(q).gzip
Metric(q) == q.wire.metrics[1]

\* The handlers of a URL and the storage compare the type as it is written,
\* those of a single JSON metric in lower case.
TypeOf(m) == IF m.exact THEN m.mtype ELSE "other"

Refuses(r, status) == Answers(r, status, ErrorText) /\ UNCHANGED storage

\* The checks of Content-Type and of the JSON.
RefusesContent(r) ==
  \/ ~input[r].json /\ Refuses(r, 415)
  \/ input[r].json /\ ~Decodes(input[r]) /\ Refuses(r, 400)
Content(q) == q.json /\ Decodes(q)

-----------------------------------------------------------------------------
(* The updates of the storages.                                            *)

\* The metrics of a batch with their types as the storage compares them.
Typed(ms) == [i \in DOMAIN ms |-> [ms[i] EXCEPT !.mtype = TypeOf(ms[i])]]

\* What the handlers of the updates hand to the storage.
Batch(q) == IF q.to = "updates" THEN Typed(q.wire.metrics) ELSE q.wire.metrics

\* What a batch adds to the counter n: its increments at their places, and
\* their sum.
PlacesOf(ms, n) == Store!DeltasOf(ms, n)
Increments(ms, n) == [i \in PlacesOf(ms, n) |-> ms[i].delta]
Rise(ms, n) == Total(Increments(ms, n), PlacesOf(ms, n))

Old(n) == IF counters[n] = Nil THEN 0 ELSE counters[n]

\* Mutant: a batch replaces the counter.
UpdatesReplacing(ms) ==
  LET kept == [n \in CNames |-> IF PlacesOf(ms, n) = {} THEN counters[n] ELSE Nil] IN
  /\ counters' = Store!CountersAfter(kept, ms)
  /\ gauges' = Store!GaugesAfter(gauges, ms)

\* The memory.
Updates(ms) ==
  /\ counters' = Store!CountersAfter(counters, ms)
  /\ gauges' = Store!GaugesAfter(gauges, ms)

\* The database: the row of n is, or becomes with the first metric, a counter's.
GaugeRow(n) == n \in GNames /\ gauges[n] # Nil
CounterRow(ms, n) ==
  \/ counters[n] # Nil
  \/ ~GaugeRow(n) /\ \E i \in PlacesOf(ms, n) : \A j \in Store!ValuesOf(ms, n) : i < j

\* chk_metric refuses the value of a gauge in the row of a counter, and BIGINT
\* a sum out of its range, after any metric of the batch.
Accepts(ms) ==
  \A n \in CNames : CounterRow(ms, n) =>
    /\ Store!ValuesOf(ms, n) = {}
    /\ \A i \in PlacesOf(ms, n) :
         Old(n) + Total(Increments(ms, n), {j \in PlacesOf(ms, n) : j <= i}) \in Deltas

\* Mutant: the upsert of a gauge does nothing if there is a row.
UpsertsKeep(ms) ==
  /\ counters' = [n \in CNames |-> IF CounterRow(ms, n) /\ PlacesOf(ms, n) # {}
                                   THEN Old(n) + Rise(ms, n) ELSE counters[n]]
  /\ gauges' = [n \in GNames |-> IF gauges[n] # Nil THEN gauges[n]
                                  ELSE Store!GaugesAfter(gauges, ms)[n]]

\* NULL + x is NULL: an increment leaves the row of a gauge as it is.
Upserts(ms) ==
  /\ counters' = [n \in CNames |-> IF CounterRow(ms, n) /\ PlacesOf(ms, n) # {}
                                   THEN Old(n) + Rise(ms, n) ELSE counters[n]]
  /\ gauges' = Store!GaugesAfter(gauges, ms)

\* The attempt failed with an error that is retried, if there is an attempt
\* left, or with another one.
Errs(r) ==
  \/ Answers(r, 500, ErrorText) /\ UNCHANGED att
  \/ /\ att[r] + 1 < Attempts
     /\ att' = [att EXCEPT ![r] = @ + 1]
     /\ pc' = [pc EXCEPT ![r] = "retry"]
     /\ UNCHANGED <<backend, input, before, response>>

Applied(r) == times' = [times EXCEPT ![r] = @ + 1]

\* The service's update, and its next attempt: it is stored and answered, it is
\* stored and the answer of the database is lost, or it is not stored.
Stores(r) ==
  LET ms == Batch(input[r]) IN
  \/ /\ backend = "memory" /\ Updates(ms) /\ Applied(r)
     /\ Answers(r, 200, NoBody) /\ UNCHANGED att
  \/ /\ backend = "database" /\ Accepts(ms) /\ Upserts(ms) /\ Applied(r)
     /\ (Answers(r, 200, NoBody) /\ UNCHANGED att) \/ Errs(r)
  \/ backend = "database" /\ Errs(r) /\ UNCHANGED <<counters, gauges, times>>

Retry(r) == pc[r] = "retry" /\ Stores(r)

-----------------------------------------------------------------------------
(* The handlers of the updates.                                            *)

\* POST /update/{metricType}/{metricName}/{value}
UpdateMetric(r) ==
  LET q == input[r]  ok == TypeOf(Metric(q)) # "other" /\ q.wire.form = "ok" IN
  /\ Handles(r, "update_url")
  /\ \/ ok /\ Stores(r)
     \/ ~ok /\ Refuses(r, 400)

\* POST /update: the type in any case, and its value is required.
Complete(m) ==
  \/ m.mtype = "gauge" /\ m.value # Nil
  \/ m.mtype = "counter" /\ m.delta # Nil

UpdatePost(r) ==
  /\ Handles(r, "update")
  /\ \/ RefusesContent(r)
     \/ Content(input[r]) /\ ~Complete(Metric(input[r])) /\ Refuses(r, 400)
     \/ Content(input[r]) /\ Complete(Metric(input[r])) /\ Stores(r)

\* POST /updates: the storage skips what it does not know.
UpdateMetrics(r) ==
  /\ Handles(r, "updates")
  /\ \/ RefusesContent(r)
     \/ Content(input[r]) /\ Stores(r)

-----------------------------------------------------------------------------
(* The reads.                                                              *)

\* The storage's answer for a metric, Nil for not found: the database reports a
\* counter without a row as one of 0.
Found(m, mtype) ==
  CASE mtype = "gauge" -> gauges[m.id]
    [] mtype # "gauge" /\ backend = "memory" -> counters[m.id]
    [] mtype # "gauge" /\ backend = "database" -> Old(m.id)

\* The database's answer to a read can get lost, for every attempt.
MayFail == backend = "database"

\* The status of a read of m under the given type.
Reads(r, m, mtype, body) ==
  /\ \/ mtype = "other" /\ Answers(r, 400, ErrorText)
     \/ mtype # "other" /\ Found(m, mtype) # Nil /\ Answers(r, 200, body)
     \/ mtype # "other" /\ (MayFail \/ Found(m, mtype) = Nil) /\ Answers(r, 404, ErrorText)
  /\ UNCHANGED storage

\* GET /value/{metricType}/{metricName}
GetMetric(r) ==
  LET m == Metric(input[r]) IN
  Handles(r, "value_url") /\ Reads(r, m, TypeOf(m), ValueOf(Found(m, TypeOf(m))))

\* POST /value: the status is written before the value is encoded, and JSON
\* has no NaN.
SentMetricPost(r) ==
  LET m == Metric(input[r])  x == Found(m, m.mtype) IN
  /\ Handles(r, "value")
  /\ \/ RefusesContent(r)
     \/ /\ Content(input[r])
        /\ Reads(r, m, m.mtype, IF m.mtype = "gauge" /\ x \in NonFinite THEN ErrorText ELSE ValueOf(x))

GetMainPage(r) ==
  LET any == (\E n \in CNames : counters[n] # Nil) \/ (\E n \in GNames : gauges[n] # Nil) IN
  /\ Handles(r, "page")
  /\ \/ any /\ Answers(r, 200, Page)
     \/ (MayFail \/ ~any) /\ Answers(r, 404, ErrorText)
  /\ UNCHANGED storage

GetPingDB(r) ==
  /\ Handles(r, "ping")
  /\ Answers(r, 200, NoBody) \/ (MayFail /\ Answers(r, 500, NoBody))
  /\ UNCHANGED storage

Handle(r) ==
  \/ UpdateMetric(r) \/ UpdatePost(r) \/ UpdateMetrics(r)
  \/ GetMetric(r) \/ SentMetricPost(r) \/ GetMainPage(r) \/ GetPingDB(r)

Next ==
  \E r \in Requests :
    Arrive(r) \/ DecompressFails(r) \/ Filter(r) \/ Handle(r) \/ Retry(r) \/ Write(r)

Spec == Init /\ [][Next]_vars

-----------------------------------------------------------------------------
(* Properties.                                                             *)

\* Types of the server's state.
TypeOK ==
  /\ backend \in {"memory", "database"}
  /\ counters \in [CNames -> Deltas \cup {Nil}] /\ gauges \in [GNames -> Values \cup {Nil}]
  /\ att \in [Requests -> Nat] /\ times \in [Requests -> Nat]
  /\ input \in [Requests -> Inputs \cup {Nil}]
  /\ pc \in [Requests -> {"new", "filter", "handle", "retry", "write", "done"}]
  /\ \A r \in Requests :
       /\ response[r].status \in {0, 200, 400, 404, 415, 500}
       /\ response[r].zipped \in BOOLEAN /\ response[r].encoding \in BOOLEAN
       /\ response[r].body.kind \in {"none", "error", "value", "page"}
  /\ before \in [Requests -> SUBSET Requests]

Ok(r) == pc[r] = "done" /\ response[r].status = 200
Refused(r) == pc[r] = "done" /\ response[r].status \in 400 .. 499
IsUpdate(r) == input[r] # Nil /\ input[r].to \in {"update_url", "update", "updates"}

\* A read of a metric of the given type, as its handler understands the type,
\* that was answered with a value, and the value its client gets.
ReadsValue(r, mtype) ==
  /\ Ok(r) /\ input[r].to \in {"value_url", "value"} /\ Metric(input[r]).mtype = mtype
  /\ response[r].body.kind = "value"
ValueRead(r) == ProcessResponse(response[r]).value

\* The sum of what the updates add to the counter n if u is applied m[u] times.
Tally(m, n) ==
  Total([u \in Requests |-> IF m[u] = 0 THEN 0 ELSE m[u] * Rise(Batch(input[u]), n)], Requests)

\* A counter that a client reads is a sum of updates: all that were acknowledged
\* before the read was sent count, none that was sent after its answer and none
\* that was refused (4xx) does, the others may.  In the memory each counts
\* once, and the sum wraps; a retry of the database may count one again, up to
\* once per attempt.  Left out are ids the database keeps as gauges, whose
\* increments it accepts and ignores (dbstorage.go:121).
CounterReads ==
  \A r \in Requests : ReadsValue(r, "counter") =>
    LET n == Metric(input[r]).id IN
    \/ backend = "database" /\ GaugeRow(n)
    \/ \E m \in [Requests -> 0 .. Attempts] :
         /\ \A u \in Requests :
              /\ m[u] > 0 => IsUpdate(u) /\ ~Refused(u) /\ r \notin before[u]
              /\ m[u] > 1 => backend = "database"
              /\ u \in before[r] /\ IsUpdate(u) /\ Ok(u) => m[u] > 0
         /\ ValueRead(r) = IF backend = "memory"
                           THEN ((Tally(m, n) + Half) % (2 * Half)) - Half ELSE Tally(m, n)

\* The value update u leaves in the gauge n.
Sets(u, n) == IsUpdate(u) /\ Store!ValuesOf(Batch(input[u]), n) # {}
LastValue(u, n) ==
  LET ms == Batch(input[u]) IN ms[Max(Store!ValuesOf(ms, n))].value

\* A gauge that a client reads is the value of an update u that was not refused
\* and not sent after the answer, and is not stale: no update of the gauge was
\* both sent after u was answered and acknowledged before the read was sent,
\* although the database may apply a retried update late and twice.
GaugeReads ==
  \A r \in Requests : ReadsValue(r, "gauge") =>
    LET n == Metric(input[r]).id IN
    \E u \in Requests :
      /\ Sets(u, n) /\ LastValue(u, n) = ValueRead(r)
      /\ ~Refused(u) /\ r \notin before[u]
      /\ \A w \in before[r] : Sets(w, n) /\ Ok(w) => u \notin before[w]

\* The server accepts what an agent with its key sends, compressed or not: the
\* agent signs before it compresses, the server verifies after decompressing.
SignedAccepted ==
  \A r \in Requests, long \in BOOLEAN :
    pc[r] = "done" /\ input[r] = AgentRequest(input[r].wire.metrics, long, ServerKey)
      => response[r].status \in {200, 500}
=============================================================================
