--------------------------- MODULE HttpApiProofs ---------------------------
(***************************************************************************)
(* What the clients of the HTTP interface read, on either storage, for any *)
(* requests that run concurrently, any batches and any number of retries.  *)
(***************************************************************************)
EXTENDS HttpApi, SumTheorems

USE RequestsAssumption, HalfAssumption, NilAssumption, AttemptsAssumption, InputsAssumption

-----------------------------------------------------------------------------
(* What the agent sends gets through.                                      *)

FromAgent(q) == \E long \in BOOLEAN : q = AgentRequest(q.wire.metrics, long, ServerKey)

LEMMA Unzipped ==
  ASSUME NEW b \in Bodies
  PROVE  /\ [b EXCEPT !.gzip = FALSE] \in Bodies
         /\ [b EXCEPT !.gzip = FALSE].gzip = FALSE
         /\ [b EXCEPT !.gzip = FALSE].form = b.form
         /\ [b EXCEPT !.gzip = FALSE].metrics = b.metrics
  BY DEF Bodies

LEMMA SameBody ==
  ASSUME NEW b \in Bodies, NEW c \in Bodies,
         b.gzip = c.gzip, b.form = c.form, b.metrics = c.metrics
  PROVE  b = c
  BY DEF Bodies

\* The request of an agent with the server's key is decompressed to the bytes
\* it signed, verifies, decodes and goes to UpdateMetrics.
LEMMA AgentPasses ==
  ASSUME NEW q \in Inputs, FromAgent(q)
  PROVE  /\ q.to = "updates" /\ Content(q)
         /\ ~(q.coding /\ ~q.wire.gzip)
         /\ Verifies(q)
  <1>1. PICK long \in BOOLEAN : q = AgentRequest(q.wire.metrics, long, ServerKey)
    BY DEF FromAgent
  <1> DEFINE ms == q.wire.metrics
             json == [gzip |-> FALSE, form |-> "ok", metrics |-> ms]
  <1>2. q = [to |-> "updates", json |-> TRUE, accept |-> TRUE,
             coding |-> long, wire |-> [json EXCEPT !.gzip = long],
             hash |-> IF ServerKey = NoKey THEN NoHash ELSE Sign(ServerKey, json)]
    BY <1>1 DEF AgentRequest
  <1>3. /\ q.to = "updates" /\ q.json = TRUE /\ q.coding = long
        /\ q.wire = [gzip |-> long, form |-> "ok", metrics |-> ms]
        /\ q.hash = IF ServerKey = NoKey THEN NoHash ELSE Sign(ServerKey, json)
    BY <1>2
  <1>4. q.wire.gzip = long
    BY <1>3
  <1>5. Body(q) = json
    <2>1. q.wire \in Bodies /\ q.wire.form = "ok" /\ q.wire.metrics = ms
      BY <1>3
    <2>2. ms \in Seq(Metrics)
      BY <2>1 DEF Bodies
    <2>3. json \in Bodies /\ json.gzip = FALSE /\ json.form = "ok" /\ json.metrics = ms
      BY <2>2 DEF Bodies
    <2>4. Body(q) \in Bodies /\ Body(q).gzip = FALSE /\ Body(q).form = q.wire.form
          /\ Body(q).metrics = q.wire.metrics
      <3>1. CASE long = TRUE
        <4>1. Body(q) = [q.wire EXCEPT !.gzip = FALSE]
          BY <1>3, <3>1, Zenon DEF Body
        <4> QED
          BY <2>1, <4>1, Unzipped
      <3>2. CASE long = FALSE
        <4>1. Body(q) = q.wire
          BY <1>3, <3>2 DEF Body
        <4> QED
          BY <1>4, <2>1, <3>2, <4>1
      <3> QED
        BY <3>1, <3>2
    <2> HIDE DEF json, ms
    <2> QED
      BY <2>1, <2>3, <2>4, SameBody
  <1>6. Verifies(q)
    BY <1>3, <1>5 DEF Verifies
  <1>7. Body(q).form = "ok" /\ Body(q).gzip = FALSE
    BY <1>5
  <1>8. Content(q)
    BY <1>3, <1>7 DEF Content, Decodes
  <1> QED
    BY <1>3, <1>4, <1>6, <1>8

-----------------------------------------------------------------------------
(* The steps of a request: it arrives, passes the middlewares, is answered *)
(* without a change of the storage, has the storage attempt its update, or *)
(* its answer is sent.                                                     *)

Statuses == {0, 200, 400, 404, 415, 500}
Kinds == {"none", "error", "value", "page"}
Places == {"new", "filter", "handle", "retry", "write", "done"}
Answered(r) == pc[r] \in {"write", "done"}

Shaped(p) ==
  /\ p.status \in Statuses /\ p.body.kind \in Kinds
  /\ p.zipped \in BOOLEAN /\ p.encoding \in BOOLEAN

\* A request is in its place; from its arrival on its input is what was sent.
Control ==
  /\ backend \in {"memory", "database"}
  /\ pc \in [Requests -> Places]
  /\ DOMAIN input = Requests /\ DOMAIN response = Requests
  /\ att \in [Requests -> Nat] /\ times \in [Requests -> Nat]
  /\ before \in [Requests -> SUBSET Requests]
  /\ \A r \in Requests : (pc[r] # "new" => input[r] \in Inputs) /\ Shaped(response[r])

Responds(r, p) ==
  /\ response' = [response EXCEPT ![r] = p] /\ pc' = [pc EXCEPT ![r] = "write"]
  /\ UNCHANGED <<backend, input, before>>

\* The headers of a success describe its body, and an agent is not refused.
Proper(r, p) ==
  /\ Shaped(p) /\ (p.status = 200 => p.encoding = p.zipped)
  /\ FromAgent(input[r]) => p.status \in {200, 500}

\* A value that is answered is what the storage has.
Tells(r, p) ==
  LET m == Metric(input[r]) IN
  p.status = 200 /\ p.body.kind = "value" =>
    Found(m, m.mtype) # Nil /\ p.body = ValueOf(Found(m, m.mtype))

Passes(r) ==
  /\ pc[r] = "filter" /\ pc' = [pc EXCEPT ![r] = "handle"]
  /\ UNCHANGED <<backend, storage, response, input, before>>

Replies(r, p) ==
  /\ pc[r] \in {"filter", "handle"} /\ UNCHANGED storage
  /\ Responds(r, p) /\ Proper(r, p) /\ Tells(r, p)
  /\ p.status = 200 => ~IsUpdate(r)

Applies(r) ==
  LET ms == Batch(input[r]) IN
  /\ Applied(r)
  /\ \/ backend = "memory" /\ Updates(ms)
     \/ backend = "database" /\ Accepts(ms) /\ Upserts(ms)

Fails(r) == backend = "database" /\ UNCHANGED <<counters, gauges, times>>

Again(r) ==
  /\ backend = "database" /\ att[r] + 1 < Attempts
  /\ att' = [att EXCEPT ![r] = @ + 1] /\ pc' = [pc EXCEPT ![r] = "retry"]
  /\ UNCHANGED <<backend, input, before, response>>

Ends(r, p) ==
  /\ Responds(r, p) /\ Proper(r, p) /\ p.status \in {200, 500} /\ p.body.kind # "value"
  /\ (p.status = 200 => Applies(r)) /\ UNCHANGED att

Attempt(r) ==
  /\ pc[r] \in {"handle", "retry"} /\ IsUpdate(r)
  /\ Applies(r) \/ Fails(r)
  /\ Again(r) \/ \E p : Ends(r, p)

LEMMA AnswersResponds ==
  ASSUME NEW r, input[r] \in Inputs, NEW status \in Statuses, NEW body, body.kind \in Kinds,
         Answers(r, status, body), FromAgent(input[r]) => status \in {200, 500}
  PROVE  \E p : Responds(r, p) /\ Proper(r, p) /\ p.status = status /\ p.body = body
  <1> DEFINE p == [status |-> status, body |-> body, zipped |-> input[r].accept,
                   encoding |-> input[r].accept /\ Encodes(status)]
  <1>1. Responds(r, p)
    BY DEF Answers, Responds
  <1>2. p.status = status /\ p.body = body /\ p.zipped = input[r].accept
        /\ p.encoding = (input[r].accept /\ Encodes(status))
    OBVIOUS
  <1>3. input[r].accept \in BOOLEAN
    OBVIOUS
  <1>4. (input[r].accept /\ Encodes(status)) \in BOOLEAN
    BY Zenon
  <1>5. status = 200 => Encodes(status)
    BY DEF Encodes
  <1>6. status = 200 => (input[r].accept /\ Encodes(status)) = input[r].accept
    BY <1>3, <1>5, Zenon
  <1> HIDE DEF p
  <1>7. Proper(r, p)
    BY <1>2, <1>3, <1>4, <1>6 DEF Proper, Shaped
  <1> QED
    BY <1>1, <1>2, <1>7

LEMMA BodyKinds ==
  /\ NoBody.kind \in Kinds \ {"value"} /\ ErrorText.kind \in Kinds \ {"value"}
  /\ Page.kind \in Kinds \ {"value"}
  /\ \A x : ValueOf(x).kind = "value" /\ ValueOf(x).kind \in Kinds /\ ValueOf(x).value = x
  BY DEF Kinds, NoBody, ErrorText, Page, ValueOf

\* An answer that changes nothing.
LEMMA AnswersReplies ==
  ASSUME NEW r, pc[r] \in {"filter", "handle"}, input[r] \in Inputs,
         NEW status \in Statuses, NEW body, body.kind \in Kinds,
         Answers(r, status, body), UNCHANGED storage,
         FromAgent(input[r]) => status \in {200, 500},
         status = 200 => ~IsUpdate(r),
         status = 200 /\ body.kind = "value" =>
           /\ Found(Metric(input[r]), Metric(input[r]).mtype) # Nil
           /\ body = ValueOf(Found(Metric(input[r]), Metric(input[r]).mtype))
  PROVE  \E p : Replies(r, p)
  <1>1. PICK p : Responds(r, p) /\ Proper(r, p) /\ p.status = status /\ p.body = body
    BY AnswersResponds
  <1> QED
    BY <1>1 DEF Replies, Tells

LEMMA FilterSteps ==
  ASSUME Control, NEW r \in Requests, DecompressFails(r) \/ Filter(r)
  PROVE  Passes(r) \/ \E p : Replies(r, p)
  <1>0. pc[r] = "filter" /\ input[r] \in Inputs
    BY DEF DecompressFails, Filter, Control
  <1>1. CASE DecompressFails(r)
    <2> DEFINE p == [NoResponse EXCEPT !.status = 500, !.body = ErrorText]
    <2>1. Responds(r, p) /\ UNCHANGED storage
      BY <1>1 DEF DecompressFails, Responds
    <2>2. Shaped(p) /\ p.status = 500
      BY DEF NoResponse, ErrorText, NoBody, Shaped, Statuses, Kinds
    <2> HIDE DEF p
    <2>3. Replies(r, p)
      BY <1>0, <2>1, <2>2 DEF Replies, Proper, Tells
    <2> QED
      BY <2>3
  <1>2. CASE Filter(r) /\ Verifies(input[r])
    BY <1>0, <1>2 DEF Filter, Passes
  <1>3. CASE Filter(r) /\ ~Verifies(input[r])
    <2>1. Answers(r, 400, NoBody) /\ ~FromAgent(input[r]) /\ UNCHANGED storage
      BY <1>0, <1>3, AgentPasses DEF Filter
    <2>2. 400 \in Statuses
      BY DEF Statuses
    <2> QED
      BY <1>0, <2>1, <2>2, BodyKinds, AnswersReplies
  <1> QED
    BY <1>1, <1>2, <1>3

LEMMA StoresAttempts ==
  ASSUME Control, NEW r \in Requests, Stores(r), pc[r] \in {"handle", "retry"}, IsUpdate(r),
         input[r] \in Inputs
  PROVE  Attempt(r)
  <1> DEFINE Ended == \E p : Ends(r, p)
  <1>1. ASSUME Answers(r, 500, ErrorText), UNCHANGED att PROVE Ended
    <2>1. 500 \in Statuses
      BY DEF Statuses
    <2>2. PICK p : Responds(r, p) /\ Proper(r, p) /\ p.status = 500 /\ p.body = ErrorText
      BY <1>1, <2>1, BodyKinds, AnswersResponds
    <2> QED
      BY <1>1, <2>2, BodyKinds DEF Ends
  <1>2. ASSUME Answers(r, 200, NoBody), Applies(r), UNCHANGED att PROVE Ended
    <2>1. 200 \in Statuses
      BY DEF Statuses
    <2>2. PICK p : Responds(r, p) /\ Proper(r, p) /\ p.status = 200 /\ p.body = NoBody
      BY <1>2, <2>1, BodyKinds, AnswersResponds
    <2> QED
      BY <1>2, <2>2, BodyKinds DEF Ends
  <1> HIDE DEF Ended
  <1>3. ASSUME Errs(r), backend = "database" PROVE Again(r) \/ Ended
    BY <1>1, <1>3 DEF Errs, Again
  <1>4. Applies(r) \/ Fails(r)
    BY DEF Stores, Applies, Fails
  <1>5. Again(r) \/ Ended
    <2>1. CASE Fails(r) /\ backend = "database" /\ Errs(r)
      BY <1>3, <2>1
    <2>2. CASE Applies(r) /\ Answers(r, 200, NoBody) /\ UNCHANGED att
      BY <1>2, <2>2
    <2>3. CASE backend = "database" /\ Errs(r)
      BY <1>3, <2>3
    <2> QED
      BY <2>1, <2>2, <2>3 DEF Stores, Applies
  <1> QED
    BY <1>4, <1>5 DEF Attempt, Ended

LEMMA HandleSteps ==
  ASSUME Control, NEW r \in Requests, Handle(r)
  PROVE  Attempt(r) \/ \E p : Replies(r, p)
  <1> DEFINE Replied == \E p : Replies(r, p)
             q == input[r]
             m == Metric(q)
  <1>0. pc[r] = "handle" /\ input[r] \in Inputs /\ input[r] # Nil
    BY DEF Handle, UpdateMetric, UpdatePost, UpdateMetrics, GetMetric, SentMetricPost, GetMainPage,
           GetPingDB, Handles, Control
  <1>1. {200, 400, 404, 415, 500} \subseteq Statuses
    BY DEF Statuses
  <1>2. ASSUME NEW status \in Statuses, Refuses(r, status), status # 200,
               FromAgent(input[r]) => status = 500
        PROVE  Replied
    BY <1>0, <1>2, BodyKinds, AnswersReplies DEF Refuses
  <1>3. ASSUME Stores(r), input[r].to \in {"update_url", "update", "updates"} PROVE Attempt(r)
    BY <1>0, <1>3, StoresAttempts DEF IsUpdate
  <1>4. ASSUME NEW status \in Statuses, NEW body, body.kind \in Kinds, Answers(r, status, body),
               UNCHANGED storage, input[r].to \in {"value_url", "value", "page", "ping"},
               status = 200 /\ body.kind = "value" =>
                 Found(m, m.mtype) # Nil /\ body = ValueOf(Found(m, m.mtype))
        PROVE  Replied
    <2>1. ~FromAgent(input[r]) /\ ~IsUpdate(r)
      BY <1>0, <1>4, AgentPasses DEF IsUpdate
    <2> QED
      BY <1>0, <1>4, <2>1, AnswersReplies
  <1> HIDE DEF Replied
  <1>5. ASSUME RefusesContent(r) PROVE Replied
    <2>1. ~FromAgent(input[r])
      BY <1>0, <1>5, AgentPasses DEF RefusesContent, Content
    <2> QED
      BY <1>1, <1>2, <1>5, <2>1 DEF RefusesContent
  <1>6. CASE UpdateMetric(r)
    <2>1. ~FromAgent(input[r])
      BY <1>0, <1>6, AgentPasses DEF UpdateMetric, Handles
    <2> QED
      BY <1>1, <1>2, <1>3, <1>6, <2>1 DEF UpdateMetric, Handles, Replied
  <1>7. CASE UpdatePost(r)
    <2>1. ~FromAgent(input[r])
      BY <1>0, <1>7, AgentPasses DEF UpdatePost, Handles
    <2> QED
      BY <1>1, <1>2, <1>3, <1>5, <1>7, <2>1 DEF UpdatePost, Handles, Replied
  <1>8. CASE UpdateMetrics(r)
    BY <1>3, <1>5, <1>8 DEF UpdateMetrics, Handles, Replied
  <1>9. ASSUME NEW mtype, NEW body, body.kind \in Kinds, Reads(r, m, mtype, body),
               input[r].to \in {"value_url", "value"},
               mtype # "other" => mtype = m.mtype,
               mtype # "other" /\ body.kind = "value" => body = ValueOf(Found(m, m.mtype))
        PROVE  Replied
    <2> HIDE DEF q, m
    <2>1. CASE Answers(r, 400, ErrorText) \/ Answers(r, 404, ErrorText)
      BY <1>1, <1>4, <1>9, <2>1, BodyKinds DEF Reads
    <2>2. CASE mtype # "other" /\ Found(m, mtype) # Nil /\ Answers(r, 200, body)
      <3>1. mtype = m.mtype /\ UNCHANGED storage
        BY <1>9, <2>2 DEF Reads
      <3> QED
        BY <1>1, <1>4, <1>9, <2>2, <3>1
    <2> QED
      BY <1>9, <2>1, <2>2 DEF Reads
  <1>10. CASE GetMetric(r)
    <2>1. Reads(r, m, TypeOf(m), ValueOf(Found(m, TypeOf(m)))) /\ input[r].to = "value_url"
      BY <1>10 DEF GetMetric, Handles
    <2>2. TypeOf(m) # "other" => TypeOf(m) = m.mtype
      BY DEF TypeOf
    <2> HIDE DEF q, m
    <2> QED
      BY <1>9, <2>1, <2>2, BodyKinds DEF Replied
  <1>11. CASE SentMetricPost(r)
    <2> DEFINE x == Found(m, m.mtype)
               body == IF m.mtype = "gauge" /\ x \in NonFinite THEN ErrorText ELSE ValueOf(x)
    <2>1. input[r].to = "value" /\ (RefusesContent(r) \/ Reads(r, m, m.mtype, body))
      BY <1>11 DEF SentMetricPost, Handles
    <2>2. body.kind \in Kinds /\ (body.kind = "value" => body = ValueOf(x))
      BY BodyKinds
    <2> HIDE DEF body, q, m
    <2> QED
      BY <1>5, <1>9, <2>1, <2>2 DEF Replied
  <1>12. CASE GetMainPage(r)
    BY <1>1, <1>4, <1>12, BodyKinds DEF GetMainPage, Handles, Replied
  <1>13. CASE GetPingDB(r)
    BY <1>1, <1>4, <1>13, BodyKinds DEF GetPingDB, Handles, Replied
  <1> QED
    BY <1>6, <1>7, <1>8, <1>10, <1>11, <1>12, <1>13 DEF Handle, Replied

-----------------------------------------------------------------------------
(* What the answer of a request says of its update.                        *)

Effect(r) ==
  /\ pc[r] \in {"new", "filter", "handle"} => times[r] = 0 /\ att[r] = 0
  /\ pc[r] = "retry" => /\ IsUpdate(r) /\ backend = "database"
                        /\ times[r] <= att[r] /\ att[r] < Attempts
  /\ Answered(r) => /\ times[r] <= Attempts
                    /\ backend = "memory" => times[r] <= 1
                    /\ IsUpdate(r) /\ response[r].status = 200 => times[r] > 0
                    /\ response[r].status \in 400 .. 499 => times[r] = 0
  /\ times[r] > 0 => IsUpdate(r)

Sealed(r) ==
  Answered(r) =>
    /\ response[r].status = 200 => response[r].encoding = response[r].zipped
    /\ FromAgent(input[r]) => response[r].status \in {200, 500}

Truthful == Control /\ \A r \in Requests : Effect(r) /\ Sealed(r)

LEMMA InitTruthful == Init => Truthful
  <1> SUFFICES ASSUME Init PROVE Truthful
    OBVIOUS
  <1>1. Shaped(NoResponse)
    BY DEF NoResponse, NoBody, Shaped, Statuses, Kinds
  <1>2. Control
    BY <1>1 DEF Init, Control, Places
  <1> QED
    BY <1>2 DEF Init, Truthful, Effect, Sealed, Answered

\* What a step of request r leaves alone.
Frame(r) ==
  /\ backend' = backend
  /\ \A s \in Requests \ {r} :
       /\ pc'[s] = pc[s] /\ input'[s] = input[s] /\ response'[s] = response[s]
       /\ before'[s] = before[s] /\ times'[s] = times[s] /\ att'[s] = att[s]

LEMMA FrameTruthful ==
  ASSUME Truthful, NEW r \in Requests, Frame(r), Control', Effect(r)', Sealed(r)'
  PROVE  Truthful'
  <1>1. ASSUME NEW s \in Requests \ {r} PROVE Effect(s)' /\ Sealed(s)'
    BY DEF Frame, Truthful, Effect, Sealed, Answered, IsUpdate
  <1> QED
    BY <1>1 DEF Truthful

\* The steps of r one by one: what they change, and where they leave r.
LEMMA ArriveMoves ==
  ASSUME Control, NEW r \in Requests, Arrive(r)
  PROVE  /\ Frame(r) /\ Control' /\ pc[r] = "new" /\ pc'[r] = "filter" /\ UNCHANGED storage
         /\ before'[r] = Done /\ response'[r] = response[r]
  <1>1. PICK q \in Inputs : input' = [input EXCEPT ![r] = q]
    BY DEF Arrive
  <1>2. /\ pc' = [pc EXCEPT ![r] = "filter"] /\ pc[r] = "new"
        /\ before' = [before EXCEPT ![r] = Done]
        /\ UNCHANGED <<backend, counters, gauges, att, times, response>>
    BY DEF Arrive, storage
  <1>3. Frame(r)
    BY <1>1, <1>2 DEF Control, Frame
  <1>4. Done \in SUBSET Requests
    BY DEF Done
  <1>5. pc' \in [Requests -> Places] /\ before' \in [Requests -> SUBSET Requests]
    BY <1>2, <1>4 DEF Control, Places
  <1>6. \A s \in Requests : Shaped(response[s])'
    BY <1>2 DEF Control, Shaped
  <1>7. \A s \in Requests : pc'[s] # "new" => input'[s] \in Inputs
    BY <1>1, <1>2 DEF Control
  <1>8. DOMAIN input' = Requests
    BY <1>1 DEF Control
  <1>9. Control'
    BY <1>2, <1>5, <1>6, <1>7, <1>8 DEF Control
  <1> QED
    BY <1>2, <1>3, <1>9 DEF Control, storage

LEMMA PassesMoves ==
  ASSUME Control, NEW r \in Requests,
         \/ Passes(r)
         \/ Write(r)
         \/ pc[r] # "new" /\ Again(r) /\ (Applied(r) \/ UNCHANGED times)
  PROVE  /\ Frame(r) /\ Control'
         /\ pc[r] # "new" /\ UNCHANGED <<input, response, before>>
         /\ pc' = [pc EXCEPT ![r] = pc'[r]] /\ pc'[r] \in {"handle", "done", "retry"}
  <1> USE DEF storage
  <1>1. /\ pc[r] # "new" /\ UNCHANGED <<backend, input, response, before>>
        /\ \E p \in {"handle", "done", "retry"} : pc' = [pc EXCEPT ![r] = p]
        /\ att' \in [Requests -> Nat] /\ times' \in [Requests -> Nat]
        /\ \A s \in Requests \ {r} : times'[s] = times[s] /\ att'[s] = att[s]
    BY DEF Passes, Write, Again, Applied, Control
  <1>2. \A s \in Requests : Shaped(response[s])'
    BY <1>1 DEF Control, Shaped
  <1>3. pc' \in [Requests -> Places] /\ pc' = [pc EXCEPT ![r] = pc'[r]]
        /\ pc'[r] \in {"handle", "done", "retry"}
        /\ \A s \in Requests \ {r} : pc'[s] = pc[s]
    BY <1>1 DEF Control, Places
  <1> QED
    BY <1>1, <1>2, <1>3 DEF Control, Frame

LEMMA RespondsMoves ==
  ASSUME Control, NEW r \in Requests, pc[r] # "new", NEW p, Responds(r, p), Shaped(p),
         att' = att, Applied(r) \/ UNCHANGED times
  PROVE  /\ Frame(r) /\ Control' /\ pc'[r] = "write" /\ response'[r] = p
         /\ UNCHANGED <<input, before>>
  <1>1. /\ UNCHANGED <<backend, input, before>> /\ times' \in [Requests -> Nat]
        /\ \A s \in Requests \ {r} : times'[s] = times[s] /\ att'[s] = att[s]
        /\ response' = [response EXCEPT ![r] = p] /\ pc' = [pc EXCEPT ![r] = "write"]
    BY DEF Responds, Applied, Control
  <1>2. DOMAIN response' = Requests /\ \A s \in Requests : Shaped(response'[s])
    BY <1>1 DEF Control
  <1>3. \A s \in Requests : Shaped(response[s])'
    BY <1>2 DEF Shaped
  <1>4. pc' \in [Requests -> Places] /\ pc'[r] = "write" /\ \A s \in Requests \ {r} : pc'[s] = pc[s]
    BY <1>1 DEF Control, Places
  <1>5. response'[r] = p /\ \A s \in Requests \ {r} : response'[s] = response[s]
    BY <1>1 DEF Control
  <1> QED
    BY <1>1, <1>2, <1>3, <1>4, <1>5 DEF Control, Frame

LEMMA AttemptTruthful ==
  ASSUME Truthful, NEW r \in Requests, Attempt(r)
  PROVE  Truthful'
  <1>1. /\ Control /\ pc[r] \in {"handle", "retry"} /\ IsUpdate(r) /\ (Applies(r) \/ Fails(r))
        /\ times[r] \in Nat /\ att[r] \in Nat
    BY DEF Attempt, Truthful, Control
  <1>2. /\ times[r] <= att[r] /\ att[r] < Attempts
        /\ pc[r] = "retry" => backend = "database"
        /\ pc[r] = "handle" => times[r] = 0
    BY <1>1 DEF Truthful, Effect
  <1>3. Applied(r) \/ UNCHANGED times
    BY <1>1 DEF Applies, Fails
  <1>4. times'[r] \in {times[r], times[r] + 1} /\ (Applied(r) => times'[r] = times[r] + 1)
    BY <1>1, <1>3 DEF Applied, Control
  <1>5. CASE Again(r)
    <2>1. /\ Frame(r) /\ Control' /\ UNCHANGED <<input, response, before>>
          /\ pc'[r] = "retry" /\ att'[r] = att[r] + 1
      BY <1>1, <1>3, <1>5, PassesMoves DEF Again, Control
    <2>2. Effect(r)' /\ Sealed(r)'
      BY <1>1, <1>2, <1>4, <1>5, <2>1 DEF Again, Effect, Sealed, Answered, IsUpdate
    <2> QED
      BY <2>1, <2>2, FrameTruthful
  <1>6. ASSUME NEW p, Ends(r, p) PROVE Truthful'
    <2>1. /\ Frame(r) /\ Control' /\ pc'[r] = "write" /\ response'[r] = p
          /\ UNCHANGED <<input, before, att>>
      BY <1>1, <1>3, <1>6, RespondsMoves DEF Ends, Proper
    <2>2. backend' = backend
      BY <2>1 DEF Frame
    <2>3. p.status = 200 => times'[r] > 0
      BY <1>1, <1>4, <1>6 DEF Ends, Applies
    <2>4. times'[r] <= Attempts /\ (backend = "memory" => times'[r] <= 1)
      BY <1>1, <1>2, <1>4
    <2>5. Effect(r)'
      BY <1>1, <1>6, <2>1, <2>2, <2>3, <2>4 DEF Ends, Effect, Answered, IsUpdate
    <2>6. Sealed(r)'
      BY <1>6, <2>1 DEF Ends, Proper, Sealed
    <2> QED
      BY <2>1, <2>5, <2>6, FrameTruthful
  <1> QED
    BY <1>5, <1>6 DEF Attempt

LEMMA StepKinds ==
  ASSUME Truthful, Next
  PROVE  \E r \in Requests :
           Arrive(r) \/ Passes(r) \/ (\E p : Replies(r, p)) \/ Attempt(r) \/ Write(r)
  <1>1. PICK r \in Requests :
          Arrive(r) \/ DecompressFails(r) \/ Filter(r) \/ Handle(r) \/ Retry(r) \/ Write(r)
    BY DEF Next
  <1>2. Control
    BY DEF Truthful
  <1>3. Retry(r) => Attempt(r)
    BY <1>2, StoresAttempts DEF Retry, Truthful, Control, Effect
  <1> QED
    BY <1>1, <1>2, <1>3, FilterSteps, HandleSteps

LEMMA NextTruthful ==
  ASSUME Truthful, [Next]_vars
  PROVE  Truthful'
  <1> USE DEF storage
  <1>1. CASE UNCHANGED vars
    BY <1>1 DEF vars, Truthful, Control, Shaped, Effect, Sealed, Answered, IsUpdate
  <1>0. Control
    BY DEF Truthful
  <1>2. ASSUME NEW r \in Requests, Arrive(r) PROVE Truthful'
    <2>1. /\ Frame(r) /\ Control' /\ pc[r] = "new" /\ pc'[r] = "filter" /\ UNCHANGED <<att, times>>
      BY <1>0, <1>2, ArriveMoves
    <2>2. Effect(r)' /\ Sealed(r)'
      BY <2>1 DEF Truthful, Control, Effect, Sealed, Answered
    <2> QED
      BY <2>1, <2>2, FrameTruthful
  <1>3. ASSUME NEW r \in Requests, Passes(r) \/ Write(r) PROVE Truthful'
    <2>1. /\ Frame(r) /\ Control' /\ UNCHANGED <<input, response, att, times, backend>>
          /\ pc' = [pc EXCEPT ![r] = pc'[r]]
      BY <1>0, <1>3, PassesMoves DEF Passes, Write
    <2>2. \/ pc[r] = "filter" /\ pc'[r] = "handle"
          \/ pc[r] = "write" /\ pc'[r] = "done"
      BY <1>0, <1>3 DEF Passes, Write, Control
    <2>3. Effect(r)' /\ Sealed(r)'
      BY <2>1, <2>2 DEF Truthful, Control, Effect, Sealed, Answered, IsUpdate
    <2> QED
      BY <2>1, <2>3, FrameTruthful
  <1>4. ASSUME NEW r \in Requests, NEW p, Replies(r, p) PROVE Truthful'
    <2>1. /\ Frame(r) /\ Control' /\ UNCHANGED <<input, att, times>>
          /\ pc'[r] = "write" /\ response'[r] = p /\ pc[r] \in {"filter", "handle"}
      BY <1>0, <1>4, RespondsMoves DEF Replies, Proper
    <2>2. Effect(r)' /\ Sealed(r)'
      BY <1>4, <2>1 DEF Replies, Proper, Truthful, Control, Effect, Sealed, Answered, IsUpdate
    <2> QED
      BY <2>1, <2>2, FrameTruthful
  <1> QED
    BY <1>1, <1>2, <1>3, <1>4, AttemptTruthful, StepKinds

LEMMA TruthfulHolds == Spec => []Truthful
  BY InitTruthful, NextTruthful, PTL DEF Spec

\* No report of an agent with the server's key is refused, for any length of
\* its body, any metrics in it and any key.
THEOREM AgentIsAccepted == Spec => []SignedAccepted
  <1>1. Truthful => SignedAccepted
    BY DEF Truthful, Sealed, FromAgent, Answered, SignedAccepted
  <1> QED
    BY <1>1, TruthfulHolds, PTL


-----------------------------------------------------------------------------
(* What a batch does to the storage.                                       *)

LEMMA StoreTotal == \A f, S : Store!Total(f, S) = Total(f, S)
  BY DEF Store!Total, Total, Store!MapThenSumSet, MapThenSumSet, Store!MapThenFoldSet, MapThenFoldSet

LEMMA StoreMax == \A S : Store!Max(S) = Max(S)
  BY DEF Store!Max, Max

Base(x) == IF x = Nil THEN 0 ELSE x

LEMMA CounterAfter ==
  ASSUME NEW c, NEW ms, NEW n \in CNames
  PROVE  Store!CountersAfter(c, ms)[n] =
           IF PlacesOf(ms, n) = {} THEN c[n] ELSE Wrapped(Base(c[n]) + Rise(ms, n), Half)
  BY StoreTotal DEF Store!CountersAfter, PlacesOf, Increments, Rise, Base, Wrapped

LEMMA BatchTyped ==
  ASSUME NEW q \in Inputs
  PROVE  \E k \in Nat :
           /\ DOMAIN Batch(q) = 1 .. k
           /\ \A i \in 1 .. k :
                /\ Batch(q)[i].delta \in Deltas \cup {Nil} /\ Batch(q)[i].value \in Values \cup {Nil}
                /\ Batch(q)[i].mtype = "gauge" => Batch(q)[i].id \in GNames
  <1> DEFINE ms == q.wire.metrics
  <1>1. ms \in Seq(Metrics)
    BY DEF Bodies
  <1>2. Len(ms) \in Nat /\ DOMAIN ms = 1 .. Len(ms) /\ \A i \in 1 .. Len(ms) : ms[i] \in Metrics
    BY <1>1
  <1>3. \A i \in 1 .. Len(ms) : ms[i].mtype = "gauge" => ms[i].id \in GNames
    BY <1>2
  <1> HIDE DEF ms
  <1>4. DOMAIN Typed(ms) = 1 .. Len(ms)
    BY <1>2 DEF Typed
  <1>5. ASSUME NEW i \in 1 .. Len(ms)
        PROVE  /\ Typed(ms)[i].delta = ms[i].delta /\ Typed(ms)[i].value = ms[i].value
               /\ Typed(ms)[i].id = ms[i].id
               /\ Typed(ms)[i].mtype = "gauge" => ms[i].mtype = "gauge"
    <2>1. Typed(ms)[i] = [ms[i] EXCEPT !.mtype = TypeOf(ms[i])]
      BY <1>2 DEF Typed
    <2>2. TypeOf(ms[i]) = "gauge" => ms[i].mtype = "gauge"
      BY DEF TypeOf
    <2> QED
      BY <1>2, <2>1, <2>2 DEF Metrics
  <1>6. \A i \in 1 .. Len(ms) :
          ms[i].delta \in Deltas \cup {Nil} /\ ms[i].value \in Values \cup {Nil}
    BY <1>2 DEF Metrics
  <1>7. Batch(q) = ms \/ Batch(q) = Typed(ms)
    BY DEF Batch, ms
  <1> HIDE DEF Batch
  <1> QED
    BY <1>2, <1>3, <1>4, <1>5, <1>6, <1>7

\* The places of the increments of a counter.
LEMMA PlacesTyped ==
  ASSUME NEW q \in Inputs, NEW n
  PROVE  LET ms == Batch(q)
             I == PlacesOf(ms, n) IN
         /\ I \in SUBSET Int /\ IsFiniteSet(I) /\ Integral(Increments(ms, n), I)
         /\ Rise(ms, n) \in Int /\ (I = {} => Rise(ms, n) = 0)
  <1> DEFINE ms == Batch(q)
             I == PlacesOf(ms, n)
  <1>1. PICK k \in Nat : /\ DOMAIN ms = 1 .. k
                         /\ \A i \in 1 .. k : ms[i].delta \in Deltas \cup {Nil}
    BY BatchTyped
  <1> HIDE DEF ms
  <1>2. I \subseteq 1 .. k /\ \A i \in I : ms[i].delta # Nil
    BY <1>1 DEF PlacesOf, Store!DeltasOf
  <1>3. IsFiniteSet(I)
    <2>1. IsFiniteSet(1 .. k)
      BY FS_Interval
    <2> QED
      BY <1>2, <2>1, FS_Subset
  <1>4. \A i \in I : ms[i].delta \in Int
    BY <1>1, <1>2 DEF Deltas
  <1>5. Integral(Increments(ms, n), I)
    BY <1>4 DEF Integral, Increments
  <1> HIDE DEF I
  <1>6. Total(Increments(ms, n), I) \in Int /\ (I = {} => Total(Increments(ms, n), I) = 0)
    BY <1>3, <1>5, TotalType
  <1>7. I \in SUBSET Int
    BY <1>2
  <1> QED
    BY <1>3, <1>5, <1>6, <1>7 DEF Rise, ms, I

\* The last value of a gauge.
LEMMA ValuesTyped ==
  ASSUME NEW q \in Inputs, NEW n
  PROVE  LET ms == Batch(q)
             V == Store!ValuesOf(ms, n) IN
         V # {} => n \in GNames /\ ms[Max(V)].value \in Values /\ ms[Max(V)].value # Nil
  <1> DEFINE ms == Batch(q)
             V == Store!ValuesOf(ms, n)
  <1>1. PICK k \in Nat :
          /\ DOMAIN ms = 1 .. k
          /\ \A i \in 1 .. k : /\ ms[i].value \in Values \cup {Nil}
                               /\ ms[i].mtype = "gauge" => ms[i].id \in GNames
    BY BatchTyped
  <1> HIDE DEF ms
  <1>2. V \subseteq 1 .. k /\ \A i \in V : ms[i].value # Nil /\ ms[i].mtype = "gauge" /\ ms[i].id = n
    BY <1>1 DEF Store!ValuesOf
  <1> HIDE DEF V
  <1>3. V \in SUBSET Int /\ IsFiniteSet(V)
    <2>1. IsFiniteSet(1 .. k) /\ V \in SUBSET Int
      BY <1>2, FS_Interval
    <2> QED
      BY <1>2, <2>1, FS_Subset
  <1>4. V # {} => Max(V) \in V
    BY <1>3, MaxIsBound DEF Bounds
  <1>5. V # {} => n \in GNames /\ ms[Max(V)].value \in Values /\ ms[Max(V)].value # Nil
    BY <1>1, <1>2, <1>4
  <1> QED
    BY <1>5 DEF ms, V

LEMMA GaugeAfter ==
  ASSUME NEW g, NEW ms, NEW n \in GNames
  PROVE  Store!GaugesAfter(g, ms)[n] =
           IF Store!ValuesOf(ms, n) = {} THEN g[n] ELSE ms[Max(Store!ValuesOf(ms, n))].value
  BY StoreMax DEF Store!GaugesAfter

Stored == counters \in [CNames -> Deltas \cup {Nil}] /\ gauges \in [GNames -> Values \cup {Nil}]

\* What a batch that the database accepts makes of a counter.
LEMMA RowAfter ==
  ASSUME Stored, NEW q \in Inputs, NEW n \in CNames, Accepts(Batch(q)), Upserts(Batch(q))
  PROVE  LET ms == Batch(q) IN
         IF CounterRow(ms, n) /\ PlacesOf(ms, n) # {}
         THEN counters'[n] = Old(n) + Rise(ms, n) /\ counters'[n] \in Deltas
         ELSE counters'[n] = counters[n]
  <1> DEFINE ms == Batch(q)
             I == PlacesOf(ms, n)
             i == Max(I)
  <1>1. counters'[n] = IF CounterRow(ms, n) /\ I # {} THEN Old(n) + Rise(ms, n) ELSE counters[n]
    BY DEF Upserts
  <1>2. ASSUME CounterRow(ms, n), I # {} PROVE Old(n) + Rise(ms, n) \in Deltas
    <2>1. I \in SUBSET Int /\ IsFiniteSet(I)
      BY PlacesTyped
    <2>2. i \in I /\ \A j \in I : i >= j
      <3> HIDE DEF I
      <3> QED
        BY <1>2, <2>1, MaxIsBound DEF Bounds
    <2>3. {j \in I : j <= i} = I
      <3> HIDE DEF I, i
      <3> QED
        BY <2>1, <2>2
    <2>4. Old(n) + Total(Increments(ms, n), {j \in I : j <= i}) \in Deltas
      <3> HIDE DEF i
      <3> QED
        BY <1>2, <2>2 DEF Accepts
    <2> QED
      BY <2>3, <2>4 DEF Rise
  <1> QED
    BY <1>1, <1>2

LEMMA AppliesTyped ==
  ASSUME Stored, NEW r, input[r] \in Inputs, Applies(r)
  PROVE  Stored' /\ gauges' = Store!GaugesAfter(gauges, Batch(input[r]))
  <1> DEFINE q == input[r]
             ms == Batch(q)
  <1>1. gauges' = Store!GaugesAfter(gauges, ms)
    BY DEF Applies, Updates, Upserts
  <1>2. ASSUME NEW n \in GNames PROVE gauges'[n] \in Values \cup {Nil}
    BY <1>1, GaugeAfter, ValuesTyped DEF Stored
  <1>3. gauges' \in [GNames -> Values \cup {Nil}]
    BY <1>1, <1>2 DEF Store!GaugesAfter
  <1>4. CASE backend = "memory" /\ Updates(ms)
    <2>1. ASSUME NEW n \in CNames PROVE counters'[n] \in Deltas \cup {Nil}
      <3>1. counters'[n] = IF PlacesOf(ms, n) = {} THEN counters[n]
                           ELSE Wrapped(Base(counters[n]) + Rise(ms, n), Half)
        BY <1>4, CounterAfter DEF Updates
      <3>2. Base(counters[n]) + Rise(ms, n) \in Int
        BY PlacesTyped DEF Base, Deltas, Stored
      <3> QED
        BY <3>1, <3>2, WrappedType DEF Deltas, Stored
    <2>2. counters' \in [CNames -> Deltas \cup {Nil}]
      BY <1>4, <2>1 DEF Updates, Store!CountersAfter
    <2> QED
      BY <1>1, <1>3, <2>2 DEF Stored
  <1>5. CASE backend = "database" /\ Accepts(ms) /\ Upserts(ms)
    <2>1. ASSUME NEW n \in CNames PROVE counters'[n] \in Deltas \cup {Nil}
      BY <1>5, RowAfter DEF Stored
    <2>2. counters' \in [CNames -> Deltas \cup {Nil}]
      BY <1>5, <2>1 DEF Upserts
    <2> QED
      BY <1>1, <1>3, <2>2 DEF Stored
  <1> QED
    BY <1>4, <1>5 DEF Applies

-----------------------------------------------------------------------------
(* Types.                                                                  *)

Typing == Stored /\ input \in [Requests -> Inputs \cup {Nil}]

LEMMA NextTyping ==
  ASSUME Truthful, Typing, [Next]_vars
  PROVE  Typing'
  <1> USE DEF storage
  <1>0. Control
    BY DEF Truthful
  <1>1. CASE UNCHANGED vars
    BY <1>1 DEF vars, Typing, Stored
  <1>2. ASSUME NEW r \in Requests, Arrive(r) PROVE Typing'
    <2>1. PICK q \in Inputs : input' = [input EXCEPT ![r] = q]
      BY <1>2 DEF Arrive
    <2> QED
      BY <1>2, <2>1 DEF Arrive, Typing, Stored
  <1>3. ASSUME NEW r \in Requests, Passes(r) \/ Write(r) \/ \E p : Replies(r, p) PROVE Typing'
    <2>1. UNCHANGED <<counters, gauges, input>>
      BY <1>3 DEF Passes, Write, Replies, Responds
    <2> QED
      BY <2>1 DEF Typing, Stored
  <1>4. ASSUME NEW r \in Requests, Attempt(r) PROVE Typing'
    <2>1. input' = input
      BY <1>4 DEF Attempt, Again, Ends, Responds
    <2>2. input[r] \in Inputs
      BY <1>0, <1>4 DEF Attempt, Control
    <2>3. Stored'
      <3>1. CASE Applies(r)
        BY <2>2, <3>1, AppliesTyped DEF Typing
      <3>2. CASE Fails(r)
        BY <3>2 DEF Fails, Typing, Stored
      <3> QED
        BY <1>4, <3>1, <3>2 DEF Attempt
    <2> QED
      BY <2>1, <2>3 DEF Typing
  <1> QED
    BY <1>1, <1>2, <1>3, <1>4, StepKinds

LEMMA TypingHolds == Spec => []Typing
  <1>1. Init => Typing
    BY DEF Init, Typing, Stored
  <1> QED
    BY <1>1, NextTyping, TruthfulHolds, PTL DEF Spec

\* The types of the server's state: in particular the counters stay in the
\* width of int64, although the database refuses the sums the memory wraps, and
\* no answer has another status than those of the handlers.
THEOREM TypeCorrect == Spec => []TypeOK
  <1>1. Truthful /\ Typing => TypeOK
    BY DEF Truthful, Control, Typing, Stored, Shaped, Statuses, Kinds, Places, TypeOK
  <1> QED
    BY <1>1, TypingHolds, TruthfulHolds, PTL

-----------------------------------------------------------------------------
(* The sums of updates.                                                    *)

\* What u adds to the counter n when it is applied m[u] times, and the sum.
Share(m, in, n) == [u \in Requests |-> IF m[u] = 0 THEN 0 ELSE m[u] * Rise(Batch(in[u]), n)]
SumOf(m, in, n) == Total(Share(m, in, n), Requests)

\* Only requests that have arrived are applied.
Sound(m, in) == m \in [Requests -> Nat] /\ \A u \in Requests : m[u] > 0 => in[u] \in Inputs

LEMMA TallyIs == \A m, n : Tally(m, n) = SumOf(m, input, n)
  BY DEF Tally, SumOf, Share

LEMMA SumTyped ==
  ASSUME NEW m, NEW in, Sound(m, in), NEW n
  PROVE  Integral(Share(m, in, n), Requests) /\ SumOf(m, in, n) \in Int
  <1>1. ASSUME NEW u \in Requests PROVE Share(m, in, n)[u] \in Int
    <2>1. PICK k \in Nat : m[u] = k
      BY DEF Sound
    <2>2. CASE k = 0
      BY <2>1, <2>2 DEF Share
    <2>3. CASE k > 0
      <3>1. PICK x \in Int : Rise(Batch(in[u]), n) = x
        BY <2>1, <2>3, PlacesTyped DEF Sound
      <3>2. k * x \in Int
        OBVIOUS
      <3> QED
        BY <2>1, <2>3, <3>1, <3>2 DEF Share
    <2> QED
      BY <2>2, <2>3
  <1>2. Integral(Share(m, in, n), Requests)
    BY <1>1 DEF Integral
  <1> QED
    BY <1>2, TotalType DEF SumOf

\* Nothing was applied.
LEMMA SumNone ==
  ASSUME NEW m, NEW in, m \in [Requests -> Nat], \A u \in Requests : m[u] = 0, NEW n
  PROVE  SumOf(m, in, n) = 0
  <1> DEFINE P == {k \in Nat : \A S \in SUBSET Requests :
                                 Cardinality(S) = k => Total(Share(m, in, n), S) = 0}
             f == Share(m, in, n)
  <1>1. \A u \in Requests : f[u] = 0
    BY DEF Share
  <1> HIDE DEF f
  <1>2. \A S \in SUBSET Requests : IsFiniteSet(S) /\ Integral(f, S)
    BY <1>1, FS_Subset DEF Integral
  <1>3. 0 \in P
    <2>1. ASSUME NEW S \in SUBSET Requests, Cardinality(S) = 0 PROVE Total(f, S) = 0
      <3>1. S = {} /\ IsFiniteSet(S) /\ Integral(f, S)
        BY <1>2, <2>1, FS_EmptySet
      <3> QED
        BY <3>1, TotalType
    <2> QED
      BY <2>1 DEF f
  <1>4. ASSUME NEW k \in P PROVE k + 1 \in P
    <2>1. ASSUME NEW S \in SUBSET Requests, Cardinality(S) = k + 1 PROVE Total(f, S) = 0
      <3>1. IsFiniteSet(S) /\ Integral(f, S)
        BY <1>2
      <3>2. S # {}
        BY <2>1, <3>1, FS_EmptySet
      <3>3. PICK u \in S : TRUE
        BY <3>2
      <3>4. Cardinality(S \ {u}) = k /\ S \ {u} \in SUBSET Requests
        <4>1. Cardinality(S) = k + 1 /\ k \in Nat
          BY <2>1
        <4>2. Cardinality(S \ {u}) = Cardinality(S) - 1
          BY <3>1, FS_RemoveElement
        <4> QED
          BY <4>1, <4>2
      <3>5. Total(f, S \ {u}) = 0
        BY <3>4 DEF f
      <3>6. Total(f, S) = f[u] + Total(f, S \ {u})
        BY <3>1, TotalRemove
      <3> QED
        BY <1>1, <3>5, <3>6
    <2> QED
      BY <2>1 DEF f
  <1>5. P = Nat
    <2>1. P \in SUBSET Nat
      OBVIOUS
    <2> HIDE DEF P
    <2> QED
      BY <1>3, <1>4, <2>1, Induction
  <1>6. Cardinality(Requests) \in Nat
    BY FS_CardinalityType
  <1> QED
    BY <1>5, <1>6 DEF SumOf

\* Requests that arrive change no sum.
LEMMA SumSame ==
  ASSUME NEW m, NEW in, NEW to, Sound(m, in), \A u \in Requests : m[u] > 0 => to[u] = in[u], NEW n
  PROVE  SumOf(m, to, n) = SumOf(m, in, n) /\ Sound(m, to)
  <1>1. \A u \in Requests : m[u] \in Nat
    BY DEF Sound
  <1>2. \A u \in Requests : Share(m, to, n)[u] = Share(m, in, n)[u]
    BY <1>1 DEF Share
  <1>3. Integral(Share(m, in, n), Requests)
    BY SumTyped
  <1>4. Total(Share(m, to, n), Requests) = Total(Share(m, in, n), Requests)
    BY <1>2, <1>3, TotalSame
  <1> QED
    BY <1>4 DEF SumOf, Sound

\* An update that is applied once more adds its increments once more.
LEMMA SumMore ==
  ASSUME NEW m, NEW in, Sound(m, in), NEW r \in Requests, in[r] \in Inputs, NEW n,
         NEW more, more \in [Requests -> Nat], more[r] = m[r] + 1,
         \A u \in Requests \ {r} : more[u] = m[u]
  PROVE  SumOf(more, in, n) = SumOf(m, in, n) + Rise(Batch(in[r]), n)
  <1> DEFINE f == Share(m, in, n)
             g == Share(more, in, n)
             R == Requests \ {r}
  <1>1. PICK x \in Int : Rise(Batch(in[r]), n) = x
    BY PlacesTyped
  <1>2. PICK k \in Nat : m[r] = k
    BY DEF Sound
  <1>3. more[r] = k + 1 /\ (\A u \in R : more[u] = m[u]) /\ more \in [Requests -> Nat]
    BY <1>2 DEF Sound
  <1>4. Sound(more, in)
    BY <1>3 DEF Sound
  <1>5. f[r] = IF k = 0 THEN 0 ELSE k * x
    BY <1>1, <1>2 DEF Share
  <1>6. g[r] = (k + 1) * x
    BY <1>1, <1>3 DEF Share
  <1>7. \A u \in R : g[u] = f[u]
    BY <1>3 DEF Share
  <1>8. Integral(f, Requests) /\ Integral(g, Requests)
    BY <1>4, SumTyped
  <1> HIDE DEF f, g
  <1>9. IsFiniteSet(R) /\ Integral(f, R) /\ Integral(g, R)
    <2>1. R \in SUBSET Requests
      OBVIOUS
    <2> QED
      BY <1>8, <2>1, FS_Subset DEF Integral
  <1>10. Total(f, Requests) = f[r] + Total(f, R)
    BY <1>8, TotalRemove
  <1>11. Total(g, Requests) = g[r] + Total(g, R)
    BY <1>8, TotalRemove
  <1>12. Total(g, R) = Total(f, R)
    BY <1>7, <1>9, TotalSame
  <1>13. PICK t \in Int : Total(f, R) = t
    BY <1>9, TotalType
  <1>14. PICK y \in Int : y = k * x
    OBVIOUS
  <1>15. f[r] = y /\ g[r] = y + x
    <2>1. (k + 1) * x = k * x + x
      OBVIOUS
    <2>2. k = 0 => k * x = 0
      OBVIOUS
    <2> QED
      BY <1>5, <1>6, <1>14, <2>1, <2>2
  <1>16. Total(g, Requests) = Total(f, Requests) + x
    BY <1>10, <1>11, <1>12, <1>13, <1>15
  <1> QED
    BY <1>1, <1>16 DEF SumOf, f, g

-----------------------------------------------------------------------------
(* What the storage holds, and what the reads have been answered with.     *)

Tallies(x, s) == IF x = Nil THEN s = 0 ELSE x = Wrapped(s, Half)

\* A counter of the memory is the sum of what was applied; so is a counter of
\* the database, unless a gauge has its row.
Counting(n) ==
  IF backend = "memory" THEN Tallies(counters[n], SumOf(times, input, n))
  ELSE /\ counters[n] # Nil => ~GaugeRow(n)
       /\ ~GaugeRow(n) => Old(n) = SumOf(times, input, n)

\* A gauge is the value of an update u that was applied, and no update of it
\* that was sent after u was answered has been applied.
Author(u, n) ==
  /\ Sets(u, n) /\ times[u] > 0 /\ LastValue(u, n) = gauges[n]
  /\ \A w \in Requests : u \in before[w] /\ Sets(w, n) => times[w] = 0

Holding ==
  /\ \A n \in CNames : Counting(n)
  /\ \A n \in GNames : gauges[n] # Nil => \E u \in Requests : Author(u, n)

\* r has been answered with a value of the metric n.
ReadOf(r, mtype, n) ==
  /\ Answered(r) /\ response[r].status = 200 /\ response[r].body.kind = "value"
  /\ input[r].to \in {"value_url", "value"}
  /\ Metric(input[r]).mtype = mtype /\ Metric(input[r]).id = n

\* The answer counts each update u m[u] times: the properties of m, and the sum.
CounterTold(r, m, n) ==
  /\ m \in [Requests -> Nat]
  /\ \A u \in Requests :
       /\ m[u] <= times[u]
       /\ m[u] > 0 => r \notin before[u]
       /\ u \in before[r] /\ IsUpdate(u) /\ Ok(u) => m[u] > 0
  /\ \/ backend = "database" /\ GaugeRow(n)
     \/ response[r].body.value =
          IF backend = "memory" THEN Wrapped(SumOf(m, input, n), Half) ELSE SumOf(m, input, n)

\* The answer is the value of u.
GaugeTold(r, u, n) ==
  /\ Sets(u, n) /\ times[u] > 0 /\ LastValue(u, n) = response[r].body.value
  /\ r \notin before[u]
  /\ \A w \in before[r] : Sets(w, n) /\ Ok(w) => u \notin before[w]

ReadTrue(r) ==
  \A n : /\ ReadOf(r, "counter", n) => \E m : CounterTold(r, m, n)
         /\ ReadOf(r, "gauge", n) => \E u \in Requests : GaugeTold(r, u, n)

Reading ==
  /\ Holding
  /\ \A r \in Requests : before[r] \subseteq Done /\ ReadTrue(r)

\* All that the proofs below start from.
Sane == Truthful /\ Typing /\ Reading

LEMMA InitReading == Init => Reading
  <1> SUFFICES ASSUME Init PROVE Reading
    OBVIOUS
  <1>1. ASSUME NEW n \in CNames PROVE Counting(n)
    <2>1. times \in [Requests -> Nat] /\ \A u \in Requests : times[u] = 0
      BY DEF Init
    <2>2. SumOf(times, input, n) = 0
      BY <2>1, SumNone
    <2>3. counters[n] = Nil
      BY DEF Init
    <2> QED
      BY <2>2, <2>3 DEF Counting, Tallies, Old
  <1>2. Holding
    BY <1>1 DEF Holding, Init
  <1> QED
    BY <1>2 DEF Init, Reading, ReadTrue, ReadOf, Answered

\* A request that was applied has arrived, and one in the past of another has
\* been answered.
LEMMA Arrived ==
  ASSUME Sane
  PROVE  /\ Sound(times, input)
         /\ \A u \in Requests : times[u] \in Nat /\ (times[u] > 0 => pc[u] # "new")
         /\ \A r \in Requests : \A u \in before[r] : u \in Requests /\ pc[u] = "done"
  <1>1. \A u \in Requests : times[u] \in Nat /\ (times[u] > 0 => pc[u] # "new")
    BY DEF Sane, Truthful, Control, Effect
  <1>2. Sound(times, input)
    BY <1>1 DEF Sound, Sane, Truthful, Control
  <1> QED
    BY <1>1, <1>2 DEF Sane, Reading, Done

\* A step of r, before it changes the storage or not.
StepOf(r) ==
  /\ Frame(r) /\ Control' /\ pc[r] # "done" /\ pc'[r] # "new"
  /\ pc[r] # "new" => input'[r] = input[r] /\ before'[r] = before[r]
  /\ Answered(r) => response'[r] = response[r]
  /\ times'[r] >= times[r]
  /\ \A n \in GNames : gauges[n] # Nil => gauges'[n] # Nil
  /\ before'[r] \subseteq Done

\* What has arrived and what has been answered stays.
LEMMA StepKeeps ==
  ASSUME Sane, NEW r \in Requests, StepOf(r), NEW u \in Requests
  PROVE  /\ pc[u] # "new" => input'[u] = input[u] /\ before'[u] = before[u]
         /\ Answered(u) => response'[u] = response[u]
         /\ pc[u] = "done" => pc'[u] = "done"
         /\ Answered(u)' => Answered(u) \/ (u = r /\ ~Answered(r))
         /\ times'[u] \in Nat /\ times'[u] >= times[u]
  <1>1. times[u] \in Nat /\ times'[u] \in Nat
    BY DEF StepOf, Sane, Truthful, Control
  <1> QED
    BY <1>1 DEF StepOf, Frame, Answered

LEMMA UpdateKept ==
  ASSUME NEW u, NEW n, input'[u] = input[u]
  PROVE  /\ IsUpdate(u)' = IsUpdate(u) /\ Sets(u, n)' = Sets(u, n)
         /\ LastValue(u, n)' = LastValue(u, n)
  BY DEF IsUpdate, Sets, LastValue

\* What explained the answer of s explains it for ever.
LEMMA CounterStays ==
  ASSUME Sane, NEW r \in Requests, StepOf(r), NEW s \in Requests, Answered(s),
         NEW n, NEW m, CounterTold(s, m, n)
  PROVE  CounterTold(s, m, n)'
  <1>0. backend' = backend
    BY DEF StepOf, Frame
  <1>1. ASSUME NEW u \in Requests
        PROVE  m[u] \in Nat /\ m[u] <= times[u] /\ times[u] \in Nat /\ (m[u] > 0 => pc[u] # "new")
    BY Arrived DEF CounterTold
  <1>2. Sound(m, input)
    BY <1>1, Arrived DEF Sound, CounterTold
  <1>3. \A u \in Requests : m[u] > 0 => input'[u] = input[u] /\ before'[u] = before[u]
    BY <1>1, StepKeeps
  <1>4. SumOf(m, input', n) = SumOf(m, input, n)
    BY <1>2, <1>3, SumSame
  <1>5. pc[s] # "new" /\ before'[s] = before[s] /\ response'[s] = response[s]
    BY StepKeeps DEF Answered
  <1>6. ASSUME NEW u \in Requests
        PROVE  /\ m[u] <= times'[u]
               /\ m[u] > 0 => s \notin before'[u]
               /\ u \in before'[s] /\ (IsUpdate(u) /\ Ok(u))' => m[u] > 0
    <2>1. m[u] <= times'[u]
      BY <1>1, StepKeeps
    <2>2. m[u] > 0 => s \notin before'[u]
      BY <1>3 DEF CounterTold
    <2>3. ASSUME u \in before'[s], (IsUpdate(u) /\ Ok(u))' PROVE m[u] > 0
      <3>1. u \in before[s] /\ pc[u] = "done"
        BY <1>5, <2>3, Arrived
      <3>2. input'[u] = input[u] /\ response'[u] = response[u]
        BY <3>1, StepKeeps DEF Answered
      <3>3. IsUpdate(u) /\ Ok(u)
        BY <2>3, <3>1, <3>2 DEF IsUpdate, Ok
      <3> QED
        BY <3>1, <3>3 DEF CounterTold
    <2> QED
      BY <2>1, <2>2, <2>3
  <1>7. GaugeRow(n) => GaugeRow(n)'
    BY DEF GaugeRow, StepOf
  <1>8. \/ backend' = "database" /\ GaugeRow(n)'
        \/ response'[s].body.value =
             IF backend' = "memory" THEN Wrapped(SumOf(m, input', n), Half) ELSE SumOf(m, input', n)
    BY <1>0, <1>4, <1>5, <1>7 DEF CounterTold
  <1>9. m \in [Requests -> Nat]
    BY DEF CounterTold
  <1> QED
    BY <1>6, <1>8, <1>9 DEF CounterTold, SumOf, Share, Wrapped

LEMMA GaugeStays ==
  ASSUME Sane, NEW r \in Requests, StepOf(r), NEW s \in Requests, Answered(s),
         NEW n, NEW u \in Requests, GaugeTold(s, u, n)
  PROVE  GaugeTold(s, u, n)'
  <1>1. times[u] > 0 /\ times[u] \in Nat /\ pc[u] # "new"
    BY Arrived DEF GaugeTold
  <1>2. input'[u] = input[u] /\ before'[u] = before[u] /\ times'[u] > 0
    BY <1>1, StepKeeps
  <1>3. pc[s] # "new" /\ before'[s] = before[s] /\ response'[s] = response[s]
    BY StepKeeps DEF Answered
  <1>4. ASSUME NEW w \in before[s], Sets(w, n)', Ok(w)' PROVE u \notin before'[w]
    <2>1. w \in Requests /\ pc[w] = "done"
      BY Arrived
    <2>2. input'[w] = input[w] /\ response'[w] = response[w] /\ before'[w] = before[w]
      BY <2>1, StepKeeps DEF Answered
    <2>3. Sets(w, n) /\ Ok(w)
      BY <1>4, <2>1, <2>2, UpdateKept DEF Ok
    <2> QED
      BY <2>2, <2>3 DEF GaugeTold
  <1>5. Sets(u, n)' /\ LastValue(u, n)' = response'[s].body.value
    BY <1>2, <1>3, UpdateKept DEF GaugeTold
  <1> QED
    BY <1>2, <1>3, <1>4, <1>5 DEF GaugeTold

LEMMA StepReads ==
  ASSUME Sane, NEW r \in Requests, StepOf(r), Holding', ~Answered(r) => ReadTrue(r)'
  PROVE  Reading'
  <1>1. \A s \in Requests : (before[s] \subseteq Done)'
    BY StepKeeps, Arrived DEF Sane, Reading, StepOf, Frame, Done
  <1>2. ASSUME NEW s \in Requests, s # r \/ Answered(r), NEW n, NEW mtype, ReadOf(s, mtype, n)'
        PROVE  Answered(s) /\ ReadOf(s, mtype, n)
    <2>1. Answered(s)
      BY <1>2, StepKeeps DEF ReadOf
    <2>2. input'[s] = input[s] /\ response'[s] = response[s]
      BY <2>1, StepKeeps DEF Answered
    <2> QED
      BY <1>2, <2>1, <2>2 DEF ReadOf, Metric
  <1>3. ASSUME NEW s \in Requests, s # r \/ Answered(r) PROVE ReadTrue(s)'
    <2>1. ReadTrue(s)
      BY DEF Sane, Reading
    <2>2. ASSUME NEW n, ReadOf(s, "counter", n)' PROVE \E m : CounterTold(s, m, n)'
      <3>1. Answered(s) /\ ReadOf(s, "counter", n)
        BY <1>2, <1>3, <2>2
      <3>2. PICK m : CounterTold(s, m, n)
        BY <2>1, <3>1 DEF ReadTrue
      <3> QED
        BY <3>1, <3>2, CounterStays
    <2>3. ASSUME NEW n, ReadOf(s, "gauge", n)' PROVE \E u \in Requests : GaugeTold(s, u, n)'
      <3>1. Answered(s) /\ ReadOf(s, "gauge", n)
        BY <1>2, <1>3, <2>3
      <3>2. PICK u \in Requests : GaugeTold(s, u, n)
        BY <2>1, <3>1 DEF ReadTrue
      <3> QED
        BY <3>1, <3>2, GaugeStays
    <2> QED
      BY <2>2, <2>3 DEF ReadTrue
  <1> QED
    BY <1>1, <1>3 DEF Reading

-----------------------------------------------------------------------------
(* The storage holds what was applied.                                     *)

\* A step that applies nothing.
LEMMA QuietHolds ==
  ASSUME Sane, NEW r \in Requests, StepOf(r), UNCHANGED <<counters, gauges, times>>
  PROVE  Holding'
  <1>0. backend' = backend
    BY DEF StepOf, Frame
  <1>1. \A u \in Requests : times[u] > 0 => input'[u] = input[u] /\ before'[u] = before[u]
    BY Arrived, StepKeeps
  <1>2. ASSUME NEW n \in CNames PROVE Counting(n)'
    <2>1. Sound(times, input)
      BY Arrived
    <2>2. SumOf(times, input', n) = SumOf(times, input, n)
      BY <1>1, <2>1, SumSame
    <2>3. SumOf(times, input, n)' = SumOf(times', input', n)
      BY DEF SumOf, Share
    <2>4. Counting(n)
      BY DEF Sane, Reading, Holding
    <2>5. GaugeRow(n)' = GaugeRow(n) /\ Old(n)' = Old(n)
      BY DEF GaugeRow, Old
    <2> QED
      BY <1>0, <2>2, <2>3, <2>4, <2>5 DEF Counting, Tallies, Wrapped
  <1>3. ASSUME NEW n \in GNames, gauges'[n] # Nil PROVE \E u \in Requests : Author(u, n)'
    <2>1. PICK u \in Requests : Author(u, n)
      BY <1>3 DEF Sane, Reading, Holding
    <2>2. input'[u] = input[u] /\ times[u] > 0
      BY <1>1, <2>1 DEF Author
    <2>3. Sets(u, n)' /\ LastValue(u, n)' = gauges'[n] /\ times'[u] > 0
      BY <2>1, <2>2, UpdateKept DEF Author
    <2>4. ASSUME NEW w \in Requests, u \in before'[w], Sets(w, n)' PROVE times'[w] = 0
      <3>1. CASE times[w] > 0
        <4>1. input'[w] = input[w] /\ before'[w] = before[w]
          BY <1>1, <3>1
        <4>2. Sets(w, n)
          BY <2>4, <4>1, UpdateKept
        <4> QED
          BY <2>1, <2>4, <4>1, <4>2 DEF Author
      <3>2. times[w] \in Nat
        BY Arrived
      <3> QED
        BY <3>1, <3>2
    <2> QED
      BY <2>3, <2>4 DEF Author
  <1> QED
    BY <1>2, <1>3 DEF Holding

\* Applying a batch keeps the tally of the memory.
LEMMA UpdateTallies ==
  ASSUME NEW c, NEW ms, NEW n \in CNames, NEW s \in Int, Tallies(c[n], s), Rise(ms, n) \in Int,
         PlacesOf(ms, n) = {} => Rise(ms, n) = 0
  PROVE  Tallies(Store!CountersAfter(c, ms)[n], s + Rise(ms, n))
  <1> DEFINE x == c[n]
             y == Store!CountersAfter(c, ms)[n]
  <1>1. PICK d \in Int : d = Rise(ms, n)
    OBVIOUS
  <1>2. y = IF PlacesOf(ms, n) = {} THEN x ELSE Wrapped(Base(x) + d, Half)
    BY <1>1, CounterAfter
  <1> HIDE DEF x, y
  <1>3. CASE PlacesOf(ms, n) = {}
    BY <1>1, <1>2, <1>3 DEF x, y
  <1>4. CASE PlacesOf(ms, n) # {}
    <2>1. y = Wrapped(s + d, Half)
      <3>1. CASE x = Nil
        BY <1>2, <1>4, <3>1 DEF Tallies, Base, x
      <3>2. CASE x # Nil
        BY <1>2, <1>4, <3>2, WrappedAdd DEF Tallies, Base, x
      <3> QED
        BY <3>1, <3>2
    <2>2. y # Nil
      BY <2>1, WrappedType DEF Deltas
    <2> QED
      BY <1>1, <2>1, <2>2 DEF Tallies, y
  <1> QED
    BY <1>3, <1>4

\* An upsert keeps a counter the sum s, unless a gauge has or takes its row.
LEMMA UpsertCounts ==
  ASSUME Stored, NEW q \in Inputs, NEW n \in CNames, NEW s \in Int,
         Accepts(Batch(q)), Upserts(Batch(q)),
         counters[n] # Nil => ~GaugeRow(n), ~GaugeRow(n) => Old(n) = s
  PROVE  /\ counters'[n] # Nil => ~GaugeRow(n)'
         /\ ~GaugeRow(n)' => Old(n)' = s + Rise(Batch(q), n)
  <1> DEFINE ms == Batch(q)
             I == PlacesOf(ms, n)
             V == Store!ValuesOf(ms, n)
  <1>1. IF CounterRow(ms, n) /\ I # {}
        THEN counters'[n] = Old(n) + Rise(ms, n) /\ counters'[n] \in Deltas
        ELSE counters'[n] = counters[n]
    BY RowAfter
  <1>2. PICK d \in Int : d = Rise(ms, n) /\ (I = {} => d = 0)
    BY PlacesTyped
  <1>3. CounterRow(ms, n) => V = {}
    BY DEF Accepts
  <1>4. V # {} => n \in GNames /\ ms[Max(V)].value # Nil
    BY ValuesTyped
  <1>5. n \in GNames => gauges'[n] = IF V = {} THEN gauges[n] ELSE ms[Max(V)].value
    BY GaugeAfter DEF Upserts
  <1>6. CounterRow(ms, n) <=> \/ counters[n] # Nil
                              \/ ~GaugeRow(n) /\ \E i \in I : \A j \in V : i < j
    BY DEF CounterRow
  <1> HIDE DEF ms, I, V
  <1>7. GaugeRow(n)' <=> GaugeRow(n) \/ V # {}
    BY <1>4, <1>5 DEF GaugeRow
  <1>8. counters'[n] # Nil => ~GaugeRow(n)'
    BY <1>1, <1>3, <1>6, <1>7
  <1>9. ASSUME ~GaugeRow(n)' PROVE Old(n)' = s + d
    <2>1. ~GaugeRow(n) /\ V = {} /\ Old(n) = s
      BY <1>7, <1>9
    <2>2. CASE I = {}
      <3>1. counters'[n] = counters[n] /\ d = 0
        BY <1>1, <1>2, <2>2
      <3> QED
        BY <2>1, <3>1 DEF Old
    <2>3. CASE I # {}
      <3>1. CounterRow(ms, n)
        BY <1>6, <2>1, <2>3
      <3>2. counters'[n] = Old(n) + d /\ counters'[n] # Nil
        BY <1>1, <1>2, <2>3, <3>1
      <3> QED
        BY <2>1, <3>2 DEF Old
    <2> QED
      BY <2>2, <2>3
  <1> QED
    BY <1>2, <1>8, <1>9 DEF ms

LEMMA AppliesHolds ==
  ASSUME Sane, NEW r \in Requests, Applies(r), IsUpdate(r), pc[r] \in {"handle", "retry"},
         UNCHANGED <<backend, input, before>>
  PROVE  /\ Holding'
         /\ \A n \in GNames : gauges[n] # Nil => gauges'[n] # Nil
  <1> DEFINE ms == Batch(input[r])
  <1>1. input[r] \in Inputs /\ Stored /\ times \in [Requests -> Nat]
    BY DEF Sane, Truthful, Control, Typing
  <1>2. times' = [times EXCEPT ![r] = @ + 1]
    BY DEF Applies, Applied
  <1>3. gauges' = Store!GaugesAfter(gauges, ms)
    BY <1>1, AppliesTyped
  <1>4. ASSUME NEW n \in CNames PROVE Counting(n)'
    <2> DEFINE s == SumOf(times, input, n)
    <2>1. s \in Int /\ Sound(times, input)
      BY Arrived, SumTyped
    <2>2. SumOf(times, input, n)' = s + Rise(ms, n)
      <3>1. /\ times' \in [Requests -> Nat] /\ times'[r] = times[r] + 1
            /\ \A u \in Requests \ {r} : times'[u] = times[u]
        BY <1>1, <1>2
      <3>2. SumOf(times', input, n) = s + Rise(ms, n)
        BY <1>1, <2>1, <3>1, SumMore
      <3> QED
        BY <3>2 DEF SumOf, Share
    <2>3. Rise(ms, n) \in Int /\ (PlacesOf(ms, n) = {} => Rise(ms, n) = 0)
      BY <1>1, PlacesTyped
    <2>4. Counting(n)
      BY DEF Sane, Reading, Holding
    <2> HIDE DEF s, ms
    <2>5. CASE backend = "memory" /\ Updates(ms)
      <3>1. Tallies(counters[n], s)
        BY <2>4, <2>5 DEF Counting, s
      <3>2. Tallies(counters'[n], s + Rise(ms, n))
        BY <2>1, <2>3, <2>5, <3>1, UpdateTallies DEF Updates
      <3> QED
        BY <2>2, <2>5, <3>2 DEF Counting, Tallies, Wrapped
    <2>6. CASE backend = "database" /\ Accepts(ms) /\ Upserts(ms)
      <3>1. /\ counters[n] # Nil => ~GaugeRow(n)
            /\ ~GaugeRow(n) => Old(n) = s
        BY <2>4, <2>6 DEF Counting, s
      <3>2. /\ counters'[n] # Nil => ~GaugeRow(n)'
            /\ ~GaugeRow(n)' => Old(n)' = s + Rise(ms, n)
        BY <1>1, <2>1, <2>6, <3>1, UpsertCounts DEF ms
      <3> QED
        BY <2>2, <2>6, <3>2 DEF Counting
    <2> QED
      BY <2>5, <2>6 DEF Applies, ms
  <1>5. ASSUME NEW n \in GNames
        PROVE  /\ gauges[n] # Nil => gauges'[n] # Nil
               /\ gauges'[n] # Nil => \E u \in Requests : Author(u, n)'
    <2> DEFINE V == Store!ValuesOf(ms, n)
    <2>1. gauges'[n] = IF V = {} THEN gauges[n] ELSE ms[Max(V)].value
      BY <1>3, GaugeAfter
    <2>2. V # {} => ms[Max(V)].value # Nil
      BY <1>1, ValuesTyped
    <2>3. \A u : Sets(u, n)' = Sets(u, n) /\ LastValue(u, n)' = LastValue(u, n)
      BY UpdateKept
    <2>4. Sets(r, n) <=> V # {}
      BY DEF Sets
    <2>5. LastValue(r, n) = ms[Max(V)].value
      BY DEF LastValue
    <2> HIDE DEF V, ms
    <2>6. CASE V = {}
      <3>1. ASSUME gauges'[n] # Nil PROVE \E u \in Requests : Author(u, n)'
        <4>1. PICK u \in Requests : Author(u, n)
          BY <2>1, <2>6, <3>1 DEF Sane, Reading, Holding
        <4>2. u # r /\ ~Sets(r, n)
          BY <2>4, <2>6, <4>1 DEF Author
        <4>3. Author(u, n)'
          BY <1>1, <1>2, <2>1, <2>3, <2>6, <4>1, <4>2 DEF Author
        <4> QED
          BY <4>3
      <3> QED
        BY <2>1, <2>6, <3>1
    <2>7. CASE V # {}
      <3>1. \A w \in Requests : r \notin before[w]
        BY Arrived
      <3>2. times'[r] > 0
        BY <1>1, <1>2
      <3>3. Author(r, n)'
        BY <2>1, <2>3, <2>4, <2>5, <2>7, <3>1, <3>2 DEF Author
      <3> QED
        BY <2>1, <2>2, <2>7, <3>3
    <2> QED
      BY <2>6, <2>7
  <1> QED
    BY <1>4, <1>5 DEF Holding

-----------------------------------------------------------------------------
(* The steps.                                                              *)

LEMMA AttemptReads ==
  ASSUME Sane, NEW r \in Requests, Attempt(r)
  PROVE  Reading'
  <1>1. /\ Control /\ pc[r] \in {"handle", "retry"} /\ IsUpdate(r) /\ (Applies(r) \/ Fails(r))
        /\ before[r] \subseteq Done /\ times \in [Requests -> Nat]
    BY DEF Attempt, Sane, Truthful, Control, Reading
  <1>2. Applied(r) \/ UNCHANGED times
    BY <1>1 DEF Applies, Fails
  <1>3. times'[r] >= times[r]
    BY <1>1, <1>2 DEF Applied
  <1>4. /\ Frame(r) /\ Control' /\ UNCHANGED <<input, before>> /\ pc'[r] \in {"retry", "write"}
        /\ ~ReadOf(r, "counter", Metric(input[r]).id)' /\ ~ReadOf(r, "gauge", Metric(input[r]).id)'
    <2>1. CASE Again(r)
      <3>1. Frame(r) /\ Control' /\ UNCHANGED <<input, before>> /\ pc'[r] = "retry"
        BY <1>1, <1>2, <2>1, PassesMoves DEF Again, Control
      <3> QED
        BY <3>1 DEF ReadOf, Answered
    <2>2. ASSUME NEW p, Ends(r, p)
          PROVE  /\ Frame(r) /\ Control' /\ UNCHANGED <<input, before>> /\ pc'[r] = "write"
                 /\ ~ReadOf(r, "counter", Metric(input[r]).id)'
                 /\ ~ReadOf(r, "gauge", Metric(input[r]).id)'
      <3>1. /\ Frame(r) /\ Control' /\ pc'[r] = "write" /\ response'[r] = p
            /\ UNCHANGED <<input, before>>
        BY <1>1, <1>2, <2>2, RespondsMoves DEF Ends, Proper
      <3> QED
        BY <2>2, <3>1 DEF Ends, ReadOf
    <2> QED
      BY <2>1, <2>2 DEF Attempt
  <1>5. ReadTrue(r)'
    BY <1>1, <1>4 DEF ReadTrue, ReadOf, IsUpdate
  <1>6. backend' = backend
    BY <1>4 DEF Frame
  <1>7. CASE Applies(r)
    <2>1. Holding' /\ \A n \in GNames : gauges[n] # Nil => gauges'[n] # Nil
      BY <1>1, <1>4, <1>6, <1>7, AppliesHolds
    <2>2. StepOf(r)
      BY <1>1, <1>3, <1>4, <2>1 DEF StepOf, Answered
    <2> QED
      BY <1>5, <2>1, <2>2, StepReads
  <1>8. CASE Fails(r)
    <2>1. StepOf(r)
      BY <1>1, <1>3, <1>4, <1>8 DEF StepOf, Answered, Fails
    <2>2. Holding'
      BY <1>8, <2>1, QuietHolds DEF Fails
    <2> QED
      BY <1>5, <2>1, <2>2, StepReads
  <1> QED
    BY <1>1, <1>7, <1>8

\* A step that leaves the storage alone.
LEMMA QuietReads ==
  ASSUME Sane, NEW r \in Requests, Frame(r), Control', UNCHANGED storage,
         pc[r] # "done", pc'[r] # "new", before'[r] \subseteq Done,
         pc[r] # "new" => input'[r] = input[r] /\ before'[r] = before[r],
         Answered(r) => response'[r] = response[r],
         ~Answered(r) => ReadTrue(r)'
  PROVE  Reading'
  <1>1. StepOf(r)
    BY DEF StepOf, storage, Sane, Truthful, Control
  <1>2. Holding'
    BY <1>1, QuietHolds DEF storage
  <1> QED
    BY <1>1, <1>2, StepReads

\* A value is read: the updates applied so far explain it.
LEMMA RepliesTrue ==
  ASSUME Sane, NEW r \in Requests, NEW p, Replies(r, p)
  PROVE  ReadTrue(r)'
  <1>1. /\ Control /\ pc[r] \in {"filter", "handle"} /\ input[r] \in Inputs
        /\ UNCHANGED <<counters, gauges, att, times>>
    BY DEF Replies, storage, Sane, Truthful, Control
  <1>2. /\ Frame(r) /\ response'[r] = p /\ UNCHANGED <<input, before>>
    BY <1>1, RespondsMoves DEF Replies, Proper
  <1>3. backend' = backend /\ backend \in {"memory", "database"}
    BY <1>1, <1>2 DEF Frame, Control
  <1>4. \A u \in before[r] : u \in Requests /\ pc[u] = "done"
    BY Arrived
  <1>5. ASSUME NEW u \in before[r], IsUpdate(u)', Ok(u)' PROVE times[u] > 0
    <2>1. u \in Requests /\ pc[u] = "done" /\ u # r
      BY <1>1, <1>4
    <2>2. input'[u] = input[u] /\ response'[u] = response[u]
      BY <1>2, <2>1 DEF Frame
    <2>3. IsUpdate(u) /\ response[u].status = 200 /\ Answered(u)
      BY <1>5, <2>1, <2>2 DEF IsUpdate, Ok, Answered
    <2> QED
      BY <2>1, <2>3 DEF Sane, Truthful, Effect
  <1>6. \A u \in Requests : r \notin before[u]
    BY <1>1, Arrived
  <1>7. ASSUME NEW n, NEW mtype, ReadOf(r, mtype, n)'
        PROVE  /\ Metric(input[r]).mtype = mtype /\ Metric(input[r]).id = n
               /\ Found(Metric(input[r]), mtype) # Nil
               /\ p.body.value = Found(Metric(input[r]), mtype)
               /\ (mtype = "counter" => n \in CNames) /\ (mtype = "gauge" => n \in GNames)
    <2> DEFINE m == Metric(input[r])
    <2>1. /\ p.status = 200 /\ p.body.kind = "value" /\ m.mtype = mtype /\ m.id = n
          /\ input[r].to \in {"value_url", "value"}
      BY <1>2, <1>7 DEF ReadOf, Metric
    <2>2. Found(m, mtype) # Nil /\ p.body = ValueOf(Found(m, mtype))
      BY <2>1 DEF Replies, Tells
    <2>3. (mtype = "counter" => n \in CNames) /\ (mtype = "gauge" => n \in GNames)
      <3>1. Len(input[r].wire.metrics) = 1 /\ input[r].wire.metrics \in Seq(Metrics)
        BY <1>1, <2>1 DEF Bodies
      <3>2. 1 \in DOMAIN input[r].wire.metrics
        BY <3>1
      <3> QED
        BY <1>1, <2>1, <3>2 DEF Metric
    <2> HIDE DEF m
    <2>4. p.body.value = Found(m, mtype)
      BY <2>2, BodyKinds
    <2> QED
      BY <2>1, <2>2, <2>3, <2>4 DEF m
  <1>8. ASSUME NEW n, ReadOf(r, "counter", n)' PROVE \E m : CounterTold(r, m, n)'
    <2> DEFINE s == SumOf(times, input, n)
    <2>1. /\ n \in CNames /\ Metric(input[r]).id = n
          /\ Found(Metric(input[r]), "counter") # Nil
          /\ p.body.value = Found(Metric(input[r]), "counter")
      BY <1>7, <1>8
    <2>2. Counting(n)
      BY <2>1 DEF Sane, Reading, Holding
    <2>3. \/ backend = "database" /\ GaugeRow(n)
          \/ p.body.value = IF backend = "memory" THEN Wrapped(s, Half) ELSE s
      <3>1. CASE backend = "memory"
        <4>1. p.body.value = counters[n] /\ counters[n] # Nil
          BY <2>1, <3>1 DEF Found
        <4> QED
          BY <2>2, <3>1, <4>1 DEF Counting, Tallies
      <3>2. CASE backend = "database"
        <4>1. p.body.value = Old(n)
          BY <2>1, <3>2 DEF Found
        <4> QED
          BY <2>2, <3>2, <4>1 DEF Counting
      <3> QED
        BY <1>3, <3>1, <3>2
    <2>4. PICK m : m = times
      OBVIOUS
    <2>5. m \in [Requests -> Nat] /\ \A u \in Requests : m[u] = times[u] /\ m[u] \in Nat
      BY <1>1, <2>4 DEF Control
    <2>6. ASSUME NEW u \in Requests
          PROVE  /\ m[u] <= times'[u]
                 /\ r \notin before'[u]
                 /\ u \in before'[r] /\ (IsUpdate(u) /\ Ok(u))' => m[u] > 0
      BY <1>1, <1>2, <1>5, <1>6, <2>5
    <2>7. GaugeRow(n)' = GaugeRow(n)
      BY <1>1 DEF GaugeRow
    <2>8. \/ backend' = "database" /\ GaugeRow(n)'
          \/ response'[r].body.value =
               IF backend' = "memory" THEN Wrapped(SumOf(m, input', n), Half) ELSE SumOf(m, input', n)
      BY <1>2, <1>3, <2>3, <2>4, <2>7
    <2>9. CounterTold(r, m, n)'
      BY <2>5, <2>6, <2>8 DEF CounterTold, SumOf, Share, Wrapped
    <2> QED
      BY <2>9
  <1>9. ASSUME NEW n, ReadOf(r, "gauge", n)' PROVE \E u \in Requests : GaugeTold(r, u, n)'
    <2>1. n \in GNames /\ gauges[n] # Nil /\ p.body.value = gauges[n]
      BY <1>7, <1>9 DEF Found
    <2>2. PICK u \in Requests : Author(u, n)
      BY <2>1 DEF Sane, Reading, Holding
    <2>3. \A w : Sets(w, n)' = Sets(w, n) /\ IsUpdate(w)' = IsUpdate(w)
                 /\ LastValue(w, n)' = LastValue(w, n)
      BY <1>2, UpdateKept
    <2>4. ASSUME NEW w \in before[r], Sets(w, n)', Ok(w)' PROVE u \notin before'[w]
      <3>1. Sets(w, n) /\ IsUpdate(w)' /\ w \in Requests
        BY <1>4, <2>3, <2>4 DEF Sets
      <3>2. times[w] > 0
        BY <1>5, <2>4, <3>1
      <3> QED
        BY <1>2, <2>2, <3>1, <3>2 DEF Author
    <2>5. Sets(u, n)' /\ times'[u] > 0 /\ LastValue(u, n)' = response'[r].body.value
      BY <1>1, <1>2, <2>1, <2>2, <2>3 DEF Author
    <2>6. GaugeTold(r, u, n)'
      BY <1>2, <1>6, <2>4, <2>5 DEF GaugeTold
    <2> QED
      BY <2>6
  <1> QED
    BY <1>8, <1>9 DEF ReadTrue

LEMMA NextReading ==
  ASSUME Sane, [Next]_vars
  PROVE  Reading'
  <1>0. Control /\ Truthful /\ \A r \in Requests : before[r] \subseteq Done
    BY DEF Sane, Truthful, Reading
  <1>1. CASE UNCHANGED vars
    <2> USE <1>1 DEF vars, storage
    <2>1. Reading
      BY DEF Sane
    <2>2. Holding'
      <3>1. \A n \in CNames : Counting(n)'
        BY <2>1 DEF Reading, Holding, Counting, Tallies, SumOf, Share, Wrapped, GaugeRow, Old
      <3>2. \A u, n : Author(u, n)' = Author(u, n)
        BY DEF Author, Sets, LastValue, IsUpdate
      <3> QED
        BY <2>1, <3>1, <3>2 DEF Reading, Holding
    <2>3. ASSUME NEW r \in Requests PROVE ReadTrue(r)'
      <3>1. \A n, t : ReadOf(r, t, n)' = ReadOf(r, t, n)
        BY DEF ReadOf, Answered, Metric
      <3>2. \A u, n : GaugeTold(r, u, n)' = GaugeTold(r, u, n)
        BY DEF GaugeTold, Sets, LastValue, IsUpdate, Ok
      <3>3. \A m, n : CounterTold(r, m, n)' = CounterTold(r, m, n)
        BY DEF CounterTold, SumOf, Share, Wrapped, GaugeRow, IsUpdate, Ok
      <3> QED
        BY <2>1, <3>1, <3>2, <3>3 DEF Reading, ReadTrue
    <2> QED
      BY <2>1, <2>2, <2>3 DEF Reading, Done
  <1>2. ASSUME NEW r \in Requests, Arrive(r) PROVE Reading'
    <2>1. /\ Frame(r) /\ Control' /\ pc[r] = "new" /\ pc'[r] = "filter" /\ UNCHANGED storage
          /\ before'[r] = Done
      BY <1>0, <1>2, ArriveMoves
    <2>2. ReadTrue(r)'
      BY <2>1 DEF ReadTrue, ReadOf, Answered
    <2> QED
      BY <2>1, <2>2, QuietReads DEF Answered
  <1>3. ASSUME NEW r \in Requests, Passes(r) \/ Write(r) PROVE Reading'
    <2>1. /\ Frame(r) /\ Control' /\ UNCHANGED <<input, response, before>> /\ pc[r] # "new"
          /\ pc'[r] \in {"handle", "done", "retry"} /\ UNCHANGED storage
      BY <1>0, <1>3, PassesMoves DEF Passes, Write
    <2>2. pc[r] # "done" /\ (~Answered(r) => pc'[r] = "handle")
      BY <1>0, <1>3 DEF Passes, Write, Answered, Control
    <2>3. ~Answered(r) => ReadTrue(r)'
      BY <2>2 DEF ReadTrue, ReadOf, Answered
    <2> QED
      BY <1>0, <2>1, <2>2, <2>3, QuietReads
  <1>4. ASSUME NEW r \in Requests, NEW p, Replies(r, p) PROVE Reading'
    <2>1. /\ pc[r] \in {"filter", "handle"} /\ UNCHANGED storage
      BY <1>4 DEF Replies
    <2>2. /\ Frame(r) /\ Control' /\ pc'[r] = "write" /\ UNCHANGED <<input, before>>
      BY <1>0, <1>4, <2>1, RespondsMoves DEF Replies, Proper, storage
    <2>3. ReadTrue(r)'
      BY <1>4, RepliesTrue
    <2> QED
      BY <1>0, <2>1, <2>2, <2>3, QuietReads DEF Answered
  <1> QED
    BY <1>0, <1>1, <1>2, <1>3, <1>4, AttemptReads, StepKinds

LEMMA SaneHolds == Spec => []Sane
  <1>1. Init => Truthful /\ Typing /\ Reading
    BY InitTruthful, InitReading DEF Init, Typing, Stored
  <1>2. ASSUME Sane, [Next]_vars PROVE Sane'
    BY <1>2, NextTruthful, NextTyping, NextReading DEF Sane
  <1> QED
    BY <1>1, <1>2, PTL DEF Spec, Sane

\* What a client reads of a counter is the sum of increments that its own and
\* all other clients can agree on, although the database's retries may count an
\* update again: every update acknowledged before the read was sent is in it,
\* none that was refused or sent after its answer, in the memory each once and
\* in the database at most once per attempt.  For any number of requests, any
\* batches, any width of the counters, any number of attempts.
THEOREM CounterReadsAddUp == Spec => []CounterReads
  <1>1. ASSUME Sane PROVE CounterReads
    <2> SUFFICES ASSUME NEW r \in Requests, ReadsValue(r, "counter"), NEW n,
                        n = Metric(input[r]).id, ~(backend = "database" /\ GaugeRow(n))
                 PROVE  \E m \in [Requests -> 0 .. Attempts] :
                          /\ \A u \in Requests :
                               /\ m[u] > 0 => IsUpdate(u) /\ ~Refused(u) /\ r \notin before[u]
                               /\ m[u] > 1 => backend = "database"
                               /\ u \in before[r] /\ IsUpdate(u) /\ Ok(u) => m[u] > 0
                          /\ ValueRead(r) = IF backend = "memory"
                                            THEN ((Tally(m, n) + Half) % (2 * Half)) - Half
                                            ELSE Tally(m, n)
      BY DEF CounterReads
    <2>1. ReadOf(r, "counter", n) /\ ReadTrue(r)
      BY <1>1 DEF ReadsValue, ReadOf, Ok, Answered, Sane, Reading
    <2>2. PICK m : CounterTold(r, m, n)
      BY <2>1 DEF ReadTrue
    <2>3. ASSUME NEW u \in Requests
          PROVE  /\ times[u] \in Nat /\ times[u] <= Attempts
                 /\ times[u] > 0 => IsUpdate(u) /\ ~Refused(u)
                 /\ times[u] > 1 => backend = "database"
      <3>1. /\ Effect(u) /\ times[u] \in Nat /\ att[u] \in Nat /\ pc[u] \in Places
            /\ backend \in {"memory", "database"}
        BY <1>1 DEF Sane, Truthful, Control
      <3> QED
        BY <3>1 DEF Effect, Answered, Refused, Places
    <2>4. \A u \in Requests : m[u] \in Nat /\ m[u] <= times[u]
      BY <2>2 DEF CounterTold
    <2>5. m \in [Requests -> 0 .. Attempts]
      BY <2>2, <2>3, <2>4 DEF CounterTold
    <2>6. \A u \in Requests :
            /\ m[u] > 0 => IsUpdate(u) /\ ~Refused(u) /\ r \notin before[u]
            /\ m[u] > 1 => backend = "database"
            /\ u \in before[r] /\ IsUpdate(u) /\ Ok(u) => m[u] > 0
      BY <2>2, <2>3, <2>4 DEF CounterTold
    <2>7. ValueRead(r) = response[r].body.value
      BY <1>1, <2>1 DEF ValueRead, ProcessResponse, ReadOf, Sane, Truthful, Sealed
    <2>8. Tally(m, n) = SumOf(m, input, n)
      BY TallyIs
    <2>9. ValueRead(r) = IF backend = "memory"
                         THEN ((Tally(m, n) + Half) % (2 * Half)) - Half ELSE Tally(m, n)
      BY <2>2, <2>7, <2>8 DEF CounterTold, Wrapped
    <2> QED
      BY <2>5, <2>6, <2>9
  <1> QED
    BY <1>1, SaneHolds, PTL

\* What a client reads of a gauge is the value of an update that was not
\* refused and not sent after the answer, and no update sent later and
\* acknowledged before the read was sent had replaced it: a retried update that
\* the database applies late or twice makes no acknowledged value come back
\* from the dead.
THEOREM GaugeReadsAreFresh == Spec => []GaugeReads
  <1>1. ASSUME Sane PROVE GaugeReads
    <2> SUFFICES ASSUME NEW r \in Requests, ReadsValue(r, "gauge"), NEW n, n = Metric(input[r]).id
                 PROVE  \E u \in Requests :
                          /\ Sets(u, n) /\ LastValue(u, n) = ValueRead(r)
                          /\ ~Refused(u) /\ r \notin before[u]
                          /\ \A w \in before[r] : Sets(w, n) /\ Ok(w) => u \notin before[w]
      BY DEF GaugeReads
    <2>1. ReadOf(r, "gauge", n) /\ ReadTrue(r)
      BY <1>1 DEF ReadsValue, ReadOf, Ok, Answered, Sane, Reading
    <2>2. PICK u \in Requests : GaugeTold(r, u, n)
      BY <2>1 DEF ReadTrue
    <2>3. ValueRead(r) = response[r].body.value
      BY <1>1, <2>1 DEF ValueRead, ProcessResponse, ReadOf, Sane, Truthful, Sealed
    <2>4. ~Refused(u)
      BY <1>1, <2>2 DEF GaugeTold, Sane, Truthful, Effect, Answered, Refused
    <2> QED
      BY <2>2, <2>3, <2>4 DEF GaugeTold
  <1> QED
    BY <1>1, SaneHolds, PTL
=============================================================================
