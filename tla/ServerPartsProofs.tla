------------------------- MODULE ServerPartsProofs --------------------------
(***************************************************************************)
(* What the requests of the server share besides the storage: the pooled   *)
(* gzip streams and the audit observers, for any number of requests, events*)
(* and attempts.                                                           *)
(***************************************************************************)
EXTENDS GzipPools, Audit, SequenceTheorems, TLAPS

-----------------------------------------------------------------------------
(* The pooled gzip streams.                                                *)

USE PoolsAssumption

Positions ==
  {"decompress", "reset", "compress", "sign", "verify", "handle", "write", "closeBody", "close",
   "release", "over"}

\* Before the handler, or the middleware in its place, has answered.
Silent == {"decompress", "reset", "compress", "sign", "verify", "handle", "write"}

\* What a response may carry.
Whole(r) == {<<>>, <<r>>, <<End>>, <<r, End>>}

StreamTypes ==
  /\ kind \in [Requests -> Kinds]
  /\ pc \in [Requests -> Positions]
  /\ zr \in [Requests -> Objects \cup {None}] /\ zw \in [Requests -> Objects \cup {None}]
  /\ rpool \subseteq Objects /\ wpool \subseteq Objects
  /\ rmade \in Nat /\ wmade \in Nat
  /\ src \in [Objects -> Requests \cup {Discard}] /\ dst \in [Objects -> Requests \cup {Discard}]
  /\ pending \in [Objects -> {<<>>} \cup {<<r>> : r \in Requests}]
  /\ got \in [Requests -> SUBSET Requests]
  /\ out \in [Requests -> UNION {Whole(r) : r \in Requests}]
  /\ wrote \in [Requests -> BOOLEAN] /\ cut \in [Requests -> BOOLEAN]

\* A reader is in the pool or with one request, which has attached it to its
\* own body.
Readers ==
  /\ \A z \in rpool : z <= rmade
  /\ \A r \in Requests :
       /\ pc[r] = "decompress" => zr[r] = None
       /\ pc[r] = "reset" => zr[r] # None
       /\ zr[r] # None =>
            /\ zr[r] \notin rpool /\ zr[r] <= rmade
            /\ pc[r] # "reset" => src[zr[r]] = r
            /\ \A s \in Requests \ {r} : zr[s] # zr[r]

\* A writer is in the pool or with one request, to whose response it writes.
Writers ==
  /\ \A z \in wpool : z <= wmade
  /\ \A r \in Requests :
       /\ pc[r] \in {"decompress", "reset", "compress"} => zw[r] = None
       /\ pc[r] = "release" => zw[r] # None
       /\ pc[r] \in Positions \ {"decompress", "reset", "compress", "over"} =>
            (zw[r] # None <=> kind[r].accept)
       /\ zw[r] # None =>
            /\ zw[r] \notin wpool /\ zw[r] <= wmade
            /\ dst[zw[r]] = r
            /\ \A s \in Requests \ {r} : zw[s] # zw[r]

\* What was written of the response of r, and what its writer still holds.
Progress(r) ==
  /\ got[r] \subseteq {r}
  /\ out[r] \in Whole(r)
  /\ pc[r] \in Silent => out[r] = <<>> /\ ~wrote[r]
  /\ pc[r] \in Silent /\ zw[r] # None => pending[zw[r]] = <<>>
  /\ pc[r] \in {"closeBody", "close"} =>
       /\ zw[r] = None /\ ~cut[r] => out[r] = IF wrote[r] THEN <<r>> ELSE <<>>
       /\ zw[r] # None =>
            \/ out[r] = <<>> /\ pending[zw[r]] = <<>> /\ ~wrote[r]
            \/ out[r] = <<>> /\ pending[zw[r]] = <<r>> /\ wrote[r]
            \/ out[r] = <<r>> /\ pending[zw[r]] = <<>> /\ wrote[r]
  /\ pc[r] = "release" /\ ~cut[r] => out[r] = IF wrote[r] THEN <<r, End>> ELSE <<End>>
  /\ pc[r] = "over" /\ kind[r].accept /\ kind[r].coding # "nohead" /\ ~cut[r] =>
       out[r] = IF wrote[r] THEN <<r, End>> ELSE <<End>>

GInv == StreamTypes /\ Readers /\ Writers /\ \A r \in Requests : Progress(r)

LEMMA Concat ==
  ASSUME NEW x, NEW y
  PROVE  /\ <<>> \o <<x>> = <<x>> /\ <<x>> \o <<y>> = <<x, y>>
         /\ <<>> \o Append(<<>>, y) = <<y>>
         /\ <<>> \o Append(<<x>>, y) = <<x, y>>
         /\ <<x>> \o Append(<<>>, y) = <<x, y>>
         /\ Append(<<>>, x) = <<x>>
  <1> DEFINE S == {x, y}
  <1>1. Append(<<>>, x) = <<x>> /\ Append(<<>>, y) = <<y>>
    OBVIOUS
  <1>3. <<x>> \in Seq(S) /\ <<y>> \in Seq(S) /\ <<x, y>> \in Seq(S) /\ <<>> \in Seq(S)
    OBVIOUS
  <1>4. \A q \in Seq(S) : <<>> \o q = q
    OBVIOUS
  <1>5. Append(<<x>>, y) = <<x, y>>
    <2>1. Append(<<x>>, y) \in Seq(S) /\ Len(Append(<<x>>, y)) = 2
      BY <1>3
    <2>2. Append(<<x>>, y)[1] = x /\ Append(<<x>>, y)[2] = y
      BY <1>3
    <2>3. \A i \in 1 .. Len(Append(<<x>>, y)) : Append(<<x>>, y)[i] = <<x, y>>[i]
      BY <2>1, <2>2
    <2> HIDE DEF S
    <2> QED
      BY <1>3, <2>1, <2>3, SeqEqual
  <1>6. <<x>> \o <<y>> = Append(<<x>>, y)
    BY <1>3, AppendIsConcat
  <1> QED
    BY <1>1, <1>3, <1>4, <1>5, <1>6

LEMMA InitGInv == Init => GInv
  <1> SUFFICES ASSUME Init PROVE GInv
    OBVIOUS
  <1>1. kind \in [Requests -> Kinds]
    BY DEF Init
  <1>2. \A r \in Requests : <<>> \in Whole(r)
    BY DEF Whole
  <1>3. StreamTypes
    BY <1>1, <1>2 DEF Init, StreamTypes, Positions, Objects
  <1>4. Readers /\ Writers
    BY DEF Init, Readers, Writers, Positions
  <1>5. \A r \in Requests : Progress(r)
    BY <1>2 DEF Init, Progress, Silent
  <1> QED
    BY <1>3, <1>4, <1>5 DEF GInv

\* Steps that move the request on and leave the streams alone.
LEMMA MovesGInv ==
  ASSUME GInv, NEW r \in Requests,
         Plain(r) \/ Uncompressed(r) \/ NoSignature(r) \/ Verify(r) \/ HandlerAnswers(r)
  PROVE  GInv'
  <1> USE DEF GInv, Goes, Plain, Uncompressed, NoSignature, Verify, HandlerAnswers, readers, writers,
              streams, Handled
  <1>1. StreamTypes'
    BY DEF StreamTypes, Positions
  <1>2. Readers'
    BY DEF StreamTypes, Readers, Positions
  <1>3. Writers'
    BY DEF StreamTypes, Writers, Positions
  <1>4. ASSUME NEW s \in Requests PROVE Progress(s)'
    BY DEF StreamTypes, Progress, Silent, Writers, Positions
  <1> QED
    BY <1>1, <1>2, <1>3, <1>4

\* Steps that take, attach or give back a reader.
LEMMA ReaderGInv ==
  ASSUME GInv, NEW r \in Requests,
         GetReader(r) \/ ResetReader(r) \/ ResetFails(r) \/ CloseBody(r) \/ NoWriter(r)
  PROVE  GInv'
  <1> USE DEF GInv, Goes, writers, streams
  <1>1. UNCHANGED <<kind, writers, streams>>
    BY DEF GetReader, ResetReader, ResetFails, CloseBody, NoWriter
  <1>2. CASE GetReader(r)
    <2>1. PICK z \in Available(rpool, rmade) :
            /\ zr' = [zr EXCEPT ![r] = z]
            /\ rpool' = rpool \ {z} /\ rmade' = IF z \in rpool THEN rmade ELSE z
      BY <1>2 DEF GetReader
    <2>2. z \in Objects /\ (z \in rpool \/ z = rmade + 1)
      BY DEF Available, StreamTypes
    <2>3. StreamTypes'
      BY <1>1, <1>2, <2>1, <2>2 DEF GetReader, StreamTypes, Positions, Objects
    <2>4. Readers'
      BY <1>2, <2>1, <2>2 DEF GetReader, StreamTypes, Readers, Objects, Positions
    <2>5. Writers' /\ \A s \in Requests : Progress(s)'
      BY <1>1, <1>2 DEF GetReader, StreamTypes, Writers, Progress, Silent, Positions
    <2> QED
      BY <2>3, <2>4, <2>5
  <1>3. CASE ResetReader(r)
    <2>1. StreamTypes'
      BY <1>1, <1>3 DEF ResetReader, StreamTypes, Readers, Positions
    <2>2. Readers'
      BY <1>3 DEF ResetReader, StreamTypes, Readers, Positions
    <2>3. Writers' /\ \A s \in Requests : Progress(s)'
      BY <1>1, <1>3 DEF ResetReader, StreamTypes, Writers, Progress, Silent, Positions
    <2> QED
      BY <2>1, <2>2, <2>3
  <1>4. CASE ResetFails(r)
    <2>1. zr[r] \in Objects
      BY <1>4 DEF ResetFails, StreamTypes, Readers
    <2>2. StreamTypes'
      BY <1>1, <1>4, <2>1 DEF ResetFails, StreamTypes, Positions
    <2>3. Readers'
      BY <1>4, <2>1 DEF ResetFails, StreamTypes, Readers, Positions
    <2>4. Writers' /\ \A s \in Requests : Progress(s)'
      BY <1>1, <1>4 DEF ResetFails, StreamTypes, Writers, Progress, Silent, Positions
    <2> QED
      BY <2>2, <2>3, <2>4
  <1>5. CASE CloseBody(r)
    <2>1. StreamTypes'
      BY <1>1, <1>5 DEF CloseBody, StreamTypes, Positions
    <2>2. Readers'
      BY <1>5 DEF CloseBody, StreamTypes, Readers, Positions
    <2>3. Writers' /\ \A s \in Requests : Progress(s)'
      BY <1>1, <1>5 DEF CloseBody, StreamTypes, Writers, Progress, Silent, Positions
    <2> QED
      BY <2>1, <2>2, <2>3
  <1>6. CASE NoWriter(r)
    <2>1. StreamTypes'
      BY <1>1, <1>6 DEF NoWriter, StreamTypes, Positions
    <2>2. Readers'
      BY <1>6 DEF NoWriter, StreamTypes, Readers, Positions
    <2>3. Writers' /\ \A s \in Requests : Progress(s)'
      BY <1>1, <1>6 DEF NoWriter, StreamTypes, Writers, Progress, Silent, Positions
    <2> QED
      BY <2>1, <2>2, <2>3
  <1> QED
    BY <1>2, <1>3, <1>4, <1>5, <1>6

\* Steps that read the body.
LEMMA ReadsGInv ==
  ASSUME GInv, NEW r \in Requests, ReadSigned(r) \/ ReadSignedFails(r) \/ HandlerReads(r)
  PROVE  GInv'
  <1> USE DEF GInv, Goes, ReadSigned, ReadSignedFails, HandlerReads, readers, writers
  <1>1. BodyOf(r) = r
    BY DEF BodyOf, StreamTypes, Readers
  <1>2. got' = got \/ got' = [got EXCEPT ![r] = @ \cup {r}]
    BY <1>1 DEF Reads
  <1>3. StreamTypes'
    <2>1. got' \in [Requests -> SUBSET Requests]
      BY <1>2 DEF StreamTypes
    <2>2. pc' \in [Requests -> Positions]
      BY DEF StreamTypes, Positions
    <2> QED
      BY <2>1, <2>2 DEF StreamTypes
  <1>4. Readers' /\ Writers'
    <2>1. UNCHANGED <<kind, zr, zw, rpool, wpool, rmade, wmade, src, dst>>
      OBVIOUS
    <2>2. PICK p : pc' = [pc EXCEPT ![r] = p] /\ p \in {"verify", "close", "write"}
      OBVIOUS
    <2>3. pc[r] \in {"sign", "handle"}
      OBVIOUS
    <2>4. Readers'
      BY <2>1, <2>2, <2>3 DEF StreamTypes, Readers
    <2>5. Writers'
      BY <2>1, <2>2, <2>3 DEF StreamTypes, Writers, Positions
    <2> QED
      BY <2>4, <2>5
  <1>5. ASSUME NEW s \in Requests PROVE Progress(s)'
    BY <1>2 DEF StreamTypes, Progress, Silent, Writers, Positions
  <1> QED
    BY <1>3, <1>4, <1>5

\* A handler that panics has written nothing.
LEMMA PanicsGInv ==
  ASSUME GInv, NEW r \in Requests, HandlerPanics(r)
  PROVE  GInv'
  <1> USE DEF GInv, Goes, HandlerPanics, Handled, readers, writers
  <1>1. StreamTypes'
    BY DEF StreamTypes, Positions
  <1>2. Readers'
    BY DEF StreamTypes, Readers, Positions
  <1>3. Writers'
    BY DEF StreamTypes, Writers, Positions
  <1>4. ASSUME NEW s \in Requests PROVE Progress(s)'
    BY DEF StreamTypes, Progress, Silent, Positions
  <1> QED
    BY <1>1, <1>2, <1>3, <1>4

\* A writer taken from the pool is reset to the response of the request.
LEMMA GetWriterGInv ==
  ASSUME GInv, NEW r \in Requests, GetWriter(r)
  PROVE  GInv'
  <1> USE DEF GInv, Goes, GetWriter, readers, streams
  <1>1. PICK z \in Available(wpool, wmade) :
          /\ zw' = [zw EXCEPT ![r] = z]
          /\ wpool' = wpool \ {z} /\ wmade' = IF z \in wpool THEN wmade ELSE z
          /\ dst' = [dst EXCEPT ![z] = r] /\ pending' = [pending EXCEPT ![z] = <<>>]
    OBVIOUS
  <1>2. z \in Objects /\ (z \in wpool \/ z = wmade + 1)
    BY DEF Available, StreamTypes
  <1>3. \A s \in Requests : zw[s] # z
    BY <1>2 DEF StreamTypes, Writers, Objects
  <1>4. StreamTypes'
    <2>1. pc' \in [Requests -> Positions] /\ wpool' \subseteq Objects /\ wmade' \in Nat
      BY <1>1, <1>2 DEF StreamTypes, Positions, Objects
    <2>2. zw' \in [Requests -> Objects \cup {None}] /\ dst' \in [Objects -> Requests \cup {Discard}]
      BY <1>1, <1>2 DEF StreamTypes
    <2>3. pending' \in [Objects -> {<<>>} \cup {<<s>> : s \in Requests}]
      BY <1>1, <1>2 DEF StreamTypes
    <2> QED
      BY <2>1, <2>2, <2>3 DEF StreamTypes
  <1>5. Readers'
    BY DEF StreamTypes, Readers, Positions
  <1>6. Writers'
    BY <1>1, <1>2, <1>3 DEF StreamTypes, Writers, Positions, Objects
  <1>7. ASSUME NEW s \in Requests PROVE Progress(s)'
    <2>1. CASE s = r
      BY <1>1, <1>2, <2>1 DEF StreamTypes, Progress, Silent
    <2>2. CASE s # r
      BY <1>1, <1>2, <1>3, <2>2 DEF StreamTypes, Progress, Silent
    <2> QED
      BY <2>1, <2>2
  <1> QED
    BY <1>4, <1>5, <1>6, <1>7

\* The response goes straight to the client, or into the writer of the request
\* and perhaps through it.
LEMMA WritesGInv ==
  ASSUME GInv, NEW r \in Requests, HandlerWrites(r)
  PROVE  GInv'
  <1> USE DEF GInv, Goes, HandlerWrites, Handled, readers
  <1>1. pc[r] = "write" /\ out[r] = <<>> /\ ~wrote[r]
    BY DEF Progress, Silent
  <1>2. zw[r] # None => pending[zw[r]] = <<>> /\ dst[zw[r]] = r /\ zw[r] \in Objects
    BY <1>1 DEF Progress, Silent, Writers, StreamTypes
  <1>3. \/ out' = [out EXCEPT ![r] = <<r>>] /\ pending' = pending
        \/ zw[r] # None /\ pending' = [pending EXCEPT ![zw[r]] = <<r>>] /\ out' = out
    <2>1. CASE zw[r] = None /\ out' = [out EXCEPT ![r] = Append(@, r)] /\ UNCHANGED pending
      BY <1>1, <2>1, Concat DEF StreamTypes
    <2>2. CASE zw[r] # None /\ pending' = [pending EXCEPT ![zw[r]] = @ \o <<r>>] /\ UNCHANGED out
      BY <1>2, <2>2, Concat DEF StreamTypes
    <2>3. CASE zw[r] # None /\ Emits(zw[r], <<r>>) /\ UNCHANGED pending
      <3>1. out' = [out EXCEPT ![r] = @ \o <<r>>]
        BY <1>2, <2>3 DEF Emits
      <3> QED
        BY <1>1, <2>3, <3>1, Concat DEF StreamTypes
    <2> QED
      BY <2>1, <2>2, <2>3
  <1>4. <<r>> \in Whole(r)
    BY DEF Whole
  <1>5. StreamTypes'
    <2>1. pc' \in [Requests -> Positions]
      BY DEF StreamTypes, Positions
    <2>2. out' \in [Requests -> UNION {Whole(s) : s \in Requests}]
      BY <1>3, <1>4 DEF StreamTypes
    <2>3. pending' \in [Objects -> {<<>>} \cup {<<s>> : s \in Requests}]
      BY <1>2, <1>3 DEF StreamTypes
    <2>4. wrote' \in [Requests -> BOOLEAN]
      BY DEF StreamTypes
    <2> QED
      BY <2>1, <2>2, <2>3, <2>4 DEF StreamTypes
  <1>6. Readers'
    BY DEF StreamTypes, Readers, Positions
  <1>7. Writers'
    BY DEF StreamTypes, Writers, Positions
  <1>8. ASSUME NEW s \in Requests PROVE Progress(s)'
    <2>1. CASE s = r
      BY <1>1, <1>2, <1>3, <1>4, <2>1 DEF StreamTypes, Progress, Silent
    <2>2. CASE s # r
      <3>1. pc'[s] = pc[s] /\ out'[s] = out[s] /\ wrote'[s] = wrote[s]
        BY <1>3, <2>2 DEF StreamTypes
      <3>2. zw[s] # None => pending'[zw[s]] = pending[zw[s]]
        BY <1>2, <1>3, <2>2 DEF StreamTypes, Writers
      <3> QED
        BY <3>1, <3>2 DEF Progress
    <2> QED
      BY <2>1, <2>2
  <1> QED
    BY <1>5, <1>6, <1>7, <1>8

\* What was held back and the trailer go out, once, or the client is gone.
LEMMA FlushGInv ==
  ASSUME GInv, NEW r \in Requests, Flush(r)
  PROVE  GInv'
  <1> USE DEF GInv, Goes, Flush, readers, writers
  <1>1. pc[r] = "close" /\ zw[r] # None /\ dst[zw[r]] = r
    BY DEF Writers
  <1>2. \/ out' = [out EXCEPT ![r] = IF wrote[r] THEN <<r, End>> ELSE <<End>>] /\ cut' = cut
        \/ out' = out /\ cut' = [cut EXCEPT ![r] = TRUE]
    <2>1. CASE Emits(zw[r], Append(pending[zw[r]], End)) /\ UNCHANGED cut
      <3>1. out' = [out EXCEPT ![r] = @ \o Append(pending[zw[r]], End)]
        BY <1>1, <2>1 DEF Emits
      <3>2. out[r] \o Append(pending[zw[r]], End) = IF wrote[r] THEN <<r, End>> ELSE <<End>>
        <4>1. \/ out[r] = <<>> /\ pending[zw[r]] = <<>> /\ ~wrote[r]
              \/ out[r] = <<>> /\ pending[zw[r]] = <<r>> /\ wrote[r]
              \/ out[r] = <<r>> /\ pending[zw[r]] = <<>> /\ wrote[r]
          BY <1>1 DEF Progress
        <4>2. /\ <<>> \o Append(<<>>, End) = <<End>>
              /\ <<>> \o Append(<<r>>, End) = <<r, End>>
              /\ <<r>> \o Append(<<>>, End) = <<r, End>>
          BY Concat
        <4> QED
          BY <4>1, <4>2, Zenon
      <3> QED
        BY <2>1, <3>1, <3>2 DEF StreamTypes
    <2>2. CASE cut' = [cut EXCEPT ![r] = TRUE] /\ UNCHANGED out
      BY <2>2
    <2> QED
      BY <2>1, <2>2
  <1>3. <<r, End>> \in Whole(r) /\ <<End>> \in Whole(r)
    BY DEF Whole
  <1>4. StreamTypes'
    <2>1. pc' \in [Requests -> Positions]
      BY DEF StreamTypes, Positions
    <2>2. out' \in [Requests -> UNION {Whole(s) : s \in Requests}]
      <3>1. (IF wrote[r] THEN <<r, End>> ELSE <<End>>) \in UNION {Whole(s) : s \in Requests}
        BY <1>3, Zenon
      <3> QED
        BY <1>2, <3>1 DEF StreamTypes
    <2>3. cut' \in [Requests -> BOOLEAN]
      BY <1>2 DEF StreamTypes
    <2> QED
      BY <2>1, <2>2, <2>3 DEF StreamTypes
  <1>5. Readers'
    BY DEF StreamTypes, Readers, Positions
  <1>6. Writers'
    BY DEF StreamTypes, Writers, Positions
  <1>7. ASSUME NEW s \in Requests PROVE Progress(s)'
    <2>1. CASE s = r
      BY <1>1, <1>2, <1>3, <2>1 DEF StreamTypes, Progress, Silent
    <2>2. CASE s # r
      <3>1. pc'[s] = pc[s] /\ out'[s] = out[s] /\ (cut'[s] <=> cut[s])
        BY <1>2, <2>2 DEF StreamTypes
      <3> QED
        BY <3>1 DEF Progress
    <2> QED
      BY <2>1, <2>2
  <1> QED
    BY <1>4, <1>5, <1>6, <1>7

\* The writer goes back to the pool.
LEMMA ReleaseGInv ==
  ASSUME GInv, NEW r \in Requests, Release(r)
  PROVE  GInv'
  <1> USE DEF GInv, Goes, Release, streams
  <1>1. pc[r] = "release" /\ zw[r] \in Objects /\ kind[r].accept
    BY DEF StreamTypes, Writers, Positions
  <1>2. StreamTypes'
    <2>1. pc' \in [Requests -> Positions] /\ zr' \in [Requests -> Objects \cup {None}]
      BY DEF StreamTypes, Positions
    <2>2. zw' \in [Requests -> Objects \cup {None}] /\ wpool' \subseteq Objects
      BY <1>1 DEF StreamTypes
    <2>3. dst' \in [Objects -> Requests \cup {Discard}]
      BY <1>1 DEF StreamTypes
    <2>4. pending' \in [Objects -> {<<>>} \cup {<<s>> : s \in Requests}]
      BY <1>1 DEF StreamTypes
    <2> QED
      BY <2>1, <2>2, <2>3, <2>4 DEF StreamTypes
  <1>3. Readers'
    BY <1>1 DEF StreamTypes, Readers, Positions
  <1>4. Writers'
    BY <1>1 DEF StreamTypes, Writers, Positions
  <1>5. ASSUME NEW s \in Requests PROVE Progress(s)'
    <2>1. CASE s = r
      BY <1>1, <2>1 DEF StreamTypes, Progress, Silent
    <2>2. CASE s # r
      <3>1. pc'[s] = pc[s] /\ zw'[s] = zw[s]
        BY <2>2 DEF StreamTypes
      <3>2. zw[s] # None => pending'[zw[s]] = pending[zw[s]]
        BY <1>1, <2>2 DEF StreamTypes, Writers
      <3> QED
        BY <3>1, <3>2 DEF Progress
    <2> QED
      BY <2>1, <2>2
  <1> QED
    BY <1>2, <1>3, <1>4, <1>5

LEMMA StutterGInv ==
  ASSUME GInv, UNCHANGED vars
  PROVE  GInv'
  BY DEF GInv, StreamTypes, Readers, Writers, Progress, vars, readers, writers, streams

\* Readers and writers belong to the pool or to one request, and every response
\* is as far as its request (gzip.go, compressor.go).
THEOREM GInvHolds == Spec => []GInv
  <1>1. GInv /\ [Next]_vars => GInv'
    BY MovesGInv, ReaderGInv, ReadsGInv, PanicsGInv, GetWriterGInv, WritesGInv, FlushGInv,
       ReleaseGInv, StutterGInv DEF Next, Request
  <1> QED
    BY InitGInv, <1>1, PTL DEF Spec

\* No request reads the body of another, no client gets bytes of the response to
\* another, for any number of requests (gzip.go:93, :116).
THEOREM StreamsAreOwn == Spec => []OwnStreams
  <1>1. GInv => OwnStreams
    <2> SUFFICES ASSUME GInv, NEW r \in Requests
                 PROVE  got[r] \subseteq {r} /\ \A i \in DOMAIN out[r] : out[r][i] \in {r, End}
      BY DEF OwnStreams
    <2>1. got[r] \subseteq {r} /\ out[r] \in Whole(r)
      BY DEF GInv, Progress
    <2>2. CASE out[r] = <<>>
      BY <2>1, <2>2
    <2>3. CASE out[r] = <<r>> \/ out[r] = <<End>>
      BY <2>1, <2>3
    <2>4. CASE out[r] = <<r, End>>
      BY <2>1, <2>4
    <2> QED
      BY <2>1, <2>2, <2>3, <2>4 DEF Whole
  <1> QED
    BY <1>1, GInvHolds, PTL

\* A compressed response whose connection held is what the handler wrote and
\* one trailer, for any number of requests (gzip.go:67, compressor.go:21).
THEOREM StreamsAreWhole == Spec => []WholeStreams
  <1>1. GInv => WholeStreams
    <2> SUFFICES ASSUME GInv, NEW r \in Requests,
                        pc[r] = "over" /\ kind[r].accept /\ kind[r].coding # "nohead" /\ ~cut[r]
                 PROVE  out[r] = (IF wrote[r] THEN <<r>> ELSE <<>>) \o <<End>>
      BY DEF WholeStreams
    <2>1. out[r] = IF wrote[r] THEN <<r, End>> ELSE <<End>>
      BY DEF GInv, Progress
    <2> QED
      BY <2>1, Concat
  <1> QED
    BY <1>1, GInvHolds, PTL

-----------------------------------------------------------------------------
(* The audit observers.                                                    *)

USE AuditAssumption

AuditTypes ==
  /\ pub \in [Events -> {"none", "publish", "published"}]
  /\ main \in {"run", "closeFile", "sync", "closeHTTP", "stopped", "exited"}
  /\ file \in {"open", "closed", "nil"}
  /\ fmu \in Events \cup {Closer, Free}
  /\ fpc \in [Events -> {"none", "lock", "write", "over"}]
  /\ foundOpen \in [Events -> BOOLEAN]
  /\ line \in [Events -> {"none", "written", "torn", "lost"}]
  /\ hpc \in [Events -> {"none", "lock", "post", "delay", "over"}]
  /\ failures \in [Events -> Nat]
  /\ outcome \in [Events -> {"none", "sent", "refused", "failed"}]
  /\ received \in [Events -> Nat]
  /\ answers \in [Events -> Nat] /\ broken \in [Events -> Nat]

\* No observer runs for an event before it is published.
NotYet == \A e \in Events : pub[e] # "published" => fpc[e] = "none" /\ hpc[e] = "none"

\* f.mu belongs to main while it closes the file and to the writer of a line,
\* so that the file a writer has found open stays open.
FileOwner ==
  /\ main = "sync" => fmu = Closer
  /\ \A e \in Events :
       /\ fpc[e] = "write" => fmu = e /\ (foundOpen[e] => file = "open")
       /\ fpc[e] # "over" => line[e] = "none"

\* Before the last attempt of an event ends, every delivery was followed by a
\* network error and nothing was answered.
Unanswered ==
  \A e \in Events : hpc[e] # "over" =>
    /\ received[e] <= failures[e] /\ failures[e] < Attempts
    /\ answers[e] = 0 /\ broken[e] = 0 /\ outcome[e] = "none"

AInv ==
  /\ AuditTypes
  /\ NotYet
  /\ FileOwner
  /\ WritesSurviveClose
  /\ Unanswered
  /\ AnswerIsFinal

LEMMA InitAInv == AuditInit => AInv
  BY DEF AuditInit, AInv, AuditTypes, NotYet, FileOwner, WritesSurviveClose, Unanswered, AnswerIsFinal

\* The steps of the publisher, of the file observer and of main.
LEMMA PublisherAInv ==
  ASSUME AInv, NEW e \in Events, Processed(e) \/ Publish(e)
  PROVE  AInv'
  <1> USE DEF AInv, fileVars, httpVars
  <1>1. AuditTypes'
    BY DEF AuditTypes, Processed, Publish
  <1>2. NotYet'
    BY DEF AuditTypes, NotYet, Processed, Publish
  <1>3. FileOwner' /\ WritesSurviveClose'
    BY DEF AuditTypes, NotYet, FileOwner, WritesSurviveClose, Processed, Publish
  <1>4. Unanswered' /\ AnswerIsFinal'
    BY DEF AuditTypes, NotYet, Unanswered, AnswerIsFinal, Processed, Publish
  <1> QED
    BY <1>1, <1>2, <1>3, <1>4

LEMMA FileAInv ==
  ASSUME AInv, NEW e \in Events, FileLock(e) \/ FileWrite(e)
  PROVE  AInv'
  <1> USE DEF AInv, fileVars, httpVars
  <1>1. AuditTypes'
    <2>1. foundOpen' \in [Events -> BOOLEAN]
      BY Zenon DEF AuditTypes, FileLock, FileWrite
    <2> QED
      BY <2>1 DEF AuditTypes, FileLock, FileWrite
  <1>2. NotYet'
    BY DEF AuditTypes, NotYet, FileLock, FileWrite
  <1>3. FileOwner'
    <2>1. CASE FileLock(e)
      <3>1. \A d \in Events : foundOpen'[d] <=> (IF d = e THEN file = "open" ELSE foundOpen[d])
        BY <2>1, Zenon DEF AuditTypes, FileLock
      <3> QED
        BY <2>1, <3>1 DEF AuditTypes, FileOwner, FileLock
    <2>2. CASE FileWrite(e)
      BY <2>2 DEF AuditTypes, FileOwner, FileWrite
    <2> QED
      BY <2>1, <2>2
  <1>4. WritesSurviveClose'
    BY DEF AuditTypes, FileOwner, WritesSurviveClose, FileLock, FileWrite
  <1>5. Unanswered' /\ AnswerIsFinal'
    BY DEF Unanswered, AnswerIsFinal, FileLock, FileWrite
  <1> QED
    BY <1>1, <1>2, <1>3, <1>4, <1>5

LEMMA MainAInv ==
  ASSUME AInv, CloseObservers \/ Close \/ Exit
  PROVE  AInv'
  <1> USE DEF AInv, fileVars, httpVars, Close, CloseObservers, FileClose, FileCloses, HTTPClose, Exit
  <1>1. AuditTypes'
    BY DEF AuditTypes
  <1>2. NotYet' /\ Unanswered' /\ AnswerIsFinal'
    BY DEF NotYet, Unanswered, AnswerIsFinal
  <1>3. FileOwner'
    BY DEF AuditTypes, FileOwner
  <1>4. WritesSurviveClose'
    BY DEF AuditTypes, FileOwner, WritesSurviveClose
  <1> QED
    BY <1>1, <1>2, <1>3, <1>4

\* The steps of the HTTP observer.
LEMMA HTTPAInv ==
  ASSUME AInv, NEW e \in Events, HTTPLock(e) \/ Delay(e) \/ Attempt(e)
  PROVE  AInv'
  <1> USE DEF AInv
  <1>1. UNCHANGED <<pub, main, fileVars>>
    BY DEF HTTPLock, Delay, Attempt, Accepted, ClientError, ServerError, NetworkError, OtherError,
           AttemptEnds
  <1>2. FileOwner' /\ WritesSurviveClose'
    BY <1>1 DEF FileOwner, WritesSurviveClose, fileVars
  <1>3. CASE HTTPLock(e) \/ Delay(e)
    BY <1>1, <1>2, <1>3 DEF HTTPLock, Delay, AuditTypes, NotYet, Unanswered, AnswerIsFinal, fileVars
  <1>4. CASE Accepted(e) \/ ClientError(e) \/ ServerError(e)
    BY <1>1, <1>2, <1>4 DEF Accepted, ClientError, ServerError, AttemptEnds, AuditTypes, NotYet,
                            Unanswered, AnswerIsFinal, fileVars
  <1>5. ASSUME NEW k \in {0, 1}, NetworkError(e, k) PROVE AInv'
    BY <1>1, <1>2, <1>5 DEF NetworkError, AttemptEnds, AuditTypes, NotYet, Unanswered, AnswerIsFinal,
                            fileVars
  <1>6. ASSUME NEW k \in {0, 1}, OtherError(e, k) PROVE AInv'
    BY <1>1, <1>2, <1>6 DEF OtherError, AttemptEnds, AuditTypes, NotYet, Unanswered, AnswerIsFinal,
                            fileVars
  <1> QED
    BY <1>3, <1>4, <1>5, <1>6 DEF Attempt

LEMMA StutterAInv ==
  ASSUME AInv, UNCHANGED auditVars
  PROVE  AInv'
  BY DEF AInv, AuditTypes, NotYet, FileOwner, WritesSurviveClose, Unanswered, AnswerIsFinal, auditVars,
         fileVars, httpVars

\* The locks, the file, the attempts and the history of every event fit
\* together in every reachable state (file_observer.go, http_observer.go).
THEOREM AInvHolds == AuditSpec => []AInv
  <1>1. AInv /\ [AuditNext]_auditVars => AInv'
    BY PublisherAInv, FileAInv, MainAInv, HTTPAInv, StutterAInv DEF AuditNext, Locks, OnMetricProcessed
  <1> QED
    BY InitAInv, <1>1, PTL DEF AuditSpec

\* Close takes the audit file from no writer that found it open, for any number
\* of events (file_observer.go:36, :64).
THEOREM CloseSparesWriters == AuditSpec => []WritesSurviveClose
  <1>1. AInv => WritesSurviveClose
    BY DEF AInv
  <1> QED
    BY <1>1, AInvHolds, PTL

\* An event is sent at most once per attempt, and never again once the audit
\* server has taken or refused it, for any number of attempts
\* (http_observer.go:92).
THEOREM AnswersAreFinal == AuditSpec => []AnswerIsFinal
  <1>1. AInv => AnswerIsFinal
    BY DEF AInv
  <1> QED
    BY <1>1, AInvHolds, PTL
=============================================================================
