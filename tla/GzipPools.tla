----------------------------- MODULE GzipPools -----------------------------
(***************************************************************************)
(* The pooled gzip readers and writers of the compressing middleware       *)
(* (internal/handler/middlewares/compressor), shared by concurrent         *)
(* requests, with the signature middleware that reads and closes the body  *)
(* (middlewares/signer).  HttpApi has the contents of the messages; here a *)
(* stream is only whose bytes it carries.                                  *)
(***************************************************************************)
EXTENDS Naturals, Sequences

CONSTANTS Requests,  \* the requests of a run
          Inputs,    \* what they may ask for
          MaxPooled, \* bound: readers, and writers, ever made
          None,      \* no reader or writer
          Discard,   \* io.Discard
          End        \* the trailer of a gzip stream

\* What a request asks for: coding is its body, "plain" or declared as gzip and
\* then sound, without a gzip header ("nohead") or broken inside ("broken");
\* accept: it accepts gzip; signed: it has a signature to verify.
Kinds == [coding : {"plain", "gzip", "nohead", "broken"}, accept : BOOLEAN, signed : BOOLEAN]

ASSUME PoolsAssumption ==
  /\ Inputs \subseteq Kinds
  /\ MaxPooled \in Nat
  /\ None \notin 1 .. MaxPooled
  /\ Discard \notin Requests /\ End \notin Requests /\ Discard # End

VARIABLES
  kind,     \* per request: what it asks for
  pc,       \* per request: where its goroutine is
  zr, zw,   \* per request: its gzip.Reader and gzip.Writer, or None
  rpool,    \* gzipReaderPool: the readers in it
  wpool,    \* gzipWriterPool: the writers in it
  rmade, wmade,  \* number of readers and writers made
  src,      \* per reader: the request whose body it reads
  dst,      \* per writer: the request whose response it writes to
  pending,  \* per writer: whose data it holds back
  got,      \* history, per request: the requests whose bodies it read from
  out,      \* history, per request: what was written to its response
  wrote,    \* history, per request: its handler wrote a body
  cut       \* history, per request: the connection broke, or the handler panicked

readers == <<zr, rpool, rmade, src>>
writers == <<zw, wpool, wmade, dst, pending>>
streams == <<got, out, wrote, cut>>
vars == <<kind, pc, readers, writers, streams>>

Objects == 1 .. MaxPooled

Init ==
  /\ kind \in [Requests -> Inputs]
  /\ pc = [r \in Requests |-> "decompress"]
  /\ zr = [r \in Requests |-> None] /\ zw = [r \in Requests |-> None]
  /\ rpool = {} /\ wpool = {} /\ rmade = 0 /\ wmade = 0
  /\ src = [z \in Objects |-> Discard] /\ dst = [z \in Objects |-> Discard]
  /\ pending = [z \in Objects |-> <<>>]
  /\ got = [r \in Requests |-> {}] /\ out = [r \in Requests |-> <<>>]
  /\ wrote = [r \in Requests |-> FALSE] /\ cut = [r \in Requests |-> FALSE]

Goes(r, from, to) == pc[r] = from /\ pc' = [pc EXCEPT ![r] = to] /\ UNCHANGED kind

\* sync.Pool hands out any object put into it, or makes one.
Available(p, made) == p \cup ({made + 1} \cap Objects)

-----------------------------------------------------------------------------
(* DecompressRequest.                                                      *)

Plain(r) ==
  /\ kind[r].coding = "plain" /\ Goes(r, "decompress", "compress")
  /\ UNCHANGED <<readers, writers, streams>>

GetReader(r) ==
  /\ kind[r].coding # "plain" /\ Goes(r, "decompress", "reset")
  /\ \E z \in Available(rpool, rmade) :
       /\ zr' = [zr EXCEPT ![r] = z]
       /\ rpool' = rpool \ {z} /\ rmade' = IF z \in rpool THEN rmade ELSE z
  /\ UNCHANGED <<src, writers, streams>>

\* zr.Reset reads the header of the stream.
ResetReader(r) ==
  /\ kind[r].coding # "nohead" /\ Goes(r, "reset", "compress")
  /\ src' = [src EXCEPT ![zr[r]] = r]
  /\ UNCHANGED <<zr, rpool, rmade, writers, streams>>

\* Mutant: the error is logged, and the request goes on.
ResetFailsGoesOn(r) ==
  /\ kind[r].coding = "nohead" /\ Goes(r, "reset", "compress")
  /\ src' = [src EXCEPT ![zr[r]] = r] /\ rpool' = rpool \cup {zr[r]}
  /\ UNCHANGED <<zr, rmade, writers, streams>>

\* The reader goes back, and the request is answered 500, uncompressed.
ResetFails(r) ==
  /\ kind[r].coding = "nohead" /\ Goes(r, "reset", "over")
  /\ src' = [src EXCEPT ![zr[r]] = r]
  /\ rpool' = rpool \cup {zr[r]} /\ zr' = [zr EXCEPT ![r] = None]
  /\ UNCHANGED <<rmade, writers, streams>>

-----------------------------------------------------------------------------
(* CompressResponse.                                                       *)

Uncompressed(r) ==
  /\ ~kind[r].accept /\ Goes(r, "compress", "sign")
  /\ UNCHANGED <<readers, writers, streams>>

\* Mutant: the writer keeps its old destination.
GetWriterNoReset(r) ==
  /\ kind[r].accept /\ Goes(r, "compress", "sign")
  /\ \E z \in Available(wpool, wmade) :
       /\ zw' = [zw EXCEPT ![r] = z]
       /\ wpool' = wpool \ {z} /\ wmade' = IF z \in wpool THEN wmade ELSE z
  /\ UNCHANGED <<dst, pending, readers, streams>>

GetWriter(r) ==
  /\ kind[r].accept /\ Goes(r, "compress", "sign")
  /\ \E z \in Available(wpool, wmade) :
       /\ zw' = [zw EXCEPT ![r] = z]
       /\ wpool' = wpool \ {z} /\ wmade' = IF z \in wpool THEN wmade ELSE z
       /\ dst' = [dst EXCEPT ![z] = r] /\ pending' = [pending EXCEPT ![z] = <<>>]
  /\ UNCHANGED <<readers, streams>>

-----------------------------------------------------------------------------
(* The signature middleware and the handler.                               *)

\* Reading the body: through the reader of the request, if it has one.
BodyOf(r) == IF zr[r] = None THEN r ELSE src[zr[r]]
Reads(r) == got' = [got EXCEPT ![r] = @ \cup {BodyOf(r)}]

NoSignature(r) ==
  /\ ~kind[r].signed /\ Goes(r, "sign", "handle")
  /\ UNCHANGED <<readers, writers, streams>>

\* The whole body is read before the handler gets it; its Close is deferred.
ReadSigned(r) ==
  /\ kind[r].signed /\ kind[r].coding # "broken"
  /\ Goes(r, "sign", "verify") /\ Reads(r)
  /\ UNCHANGED <<readers, writers, out, wrote, cut>>

\* 400 without a body, and the reader does not go back to its pool.
ReadSignedFails(r) ==
  /\ kind[r].signed /\ kind[r].coding = "broken"
  /\ Goes(r, "sign", "close") /\ Reads(r)
  /\ UNCHANGED <<readers, writers, out, wrote, cut>>

\* The signature is right, or the answer is 400.
Verify(r) ==
  /\ Goes(r, "verify", "handle") \/ Goes(r, "verify", "closeBody")
  /\ UNCHANGED <<readers, writers, streams>>

\* The handler reads the body; of a signed request that is the copy.
HandlerReads(r) ==
  /\ Goes(r, "handle", "write")
  /\ IF kind[r].signed THEN UNCHANGED got ELSE Reads(r)
  /\ UNCHANGED <<readers, writers, out, wrote, cut>>

\* After the handler come the deferred calls, also when it has panicked.
Handled(r) == IF kind[r].signed THEN "closeBody" ELSE "close"

HandlerPanics(r) ==
  /\ Goes(r, "write", Handled(r))
  /\ cut' = [cut EXCEPT ![r] = TRUE]
  /\ UNCHANGED <<readers, writers, got, out, wrote>>

\* What the writer z sends on goes to the response it was last reset to.
Emits(z, chunks) ==
  IF dst[z] = Discard THEN UNCHANGED out
  ELSE out' = [out EXCEPT ![dst[z]] = @ \o chunks]

\* Status only.
HandlerAnswers(r) ==
  /\ Goes(r, "write", Handled(r))
  /\ UNCHANGED <<readers, writers, streams>>

\* A body; a writer holds it back, or sends it on when it is long.
HandlerWrites(r) ==
  /\ Goes(r, "write", Handled(r))
  /\ wrote' = [wrote EXCEPT ![r] = TRUE]
  /\ \/ zw[r] = None /\ out' = [out EXCEPT ![r] = Append(@, r)] /\ UNCHANGED pending
     \/ zw[r] # None /\ pending' = [pending EXCEPT ![zw[r]] = @ \o <<r>>] /\ UNCHANGED out
     \/ zw[r] # None /\ Emits(zw[r], <<r>>) /\ UNCHANGED pending
  /\ UNCHANGED <<readers, zw, wpool, wmade, dst, got, cut>>

\* Close of the body: the reader goes back to its pool, still attached.
CloseBody(r) ==
  /\ Goes(r, "closeBody", "close")
  /\ rpool' = IF zr[r] = None THEN rpool ELSE rpool \cup {zr[r]}
  /\ zr' = [zr EXCEPT ![r] = None]
  /\ UNCHANGED <<rmade, src, writers, streams>>

-----------------------------------------------------------------------------
(* The deferred Close of the compressing writer.                           *)

\* A response that is not compressed is left alone.  A reader that nobody has
\* closed is garbage.
NoWriter(r) ==
  /\ zw[r] = None /\ Goes(r, "close", "over")
  /\ zr' = [zr EXCEPT ![r] = None]
  /\ UNCHANGED <<rpool, rmade, src, writers, streams>>

\* zw.Close writes what it held back and the trailer, unless the client is gone.
Flush(r) ==
  /\ zw[r] # None /\ Goes(r, "close", "release")
  /\ \/ Emits(zw[r], Append(pending[zw[r]], End)) /\ UNCHANGED cut
     \/ cut' = [cut EXCEPT ![r] = TRUE] /\ UNCHANGED out
  /\ UNCHANGED <<readers, writers, got, wrote>>

\* Reset(io.Discard), Put, and the middleware returns.
Release(r) ==
  /\ Goes(r, "release", "over")
  /\ dst' = [dst EXCEPT ![zw[r]] = Discard] /\ pending' = [pending EXCEPT ![zw[r]] = <<>>]
  /\ wpool' = wpool \cup {zw[r]}
  /\ zw' = [zw EXCEPT ![r] = None] /\ zr' = [zr EXCEPT ![r] = None]
  /\ UNCHANGED <<rpool, rmade, src, wmade, streams>>

Request(r) ==
  \/ Plain(r) \/ GetReader(r) \/ ResetReader(r) \/ ResetFails(r)
  \/ Uncompressed(r) \/ GetWriter(r)
  \/ NoSignature(r) \/ ReadSigned(r) \/ ReadSignedFails(r) \/ Verify(r)
  \/ HandlerReads(r) \/ HandlerPanics(r) \/ HandlerAnswers(r) \/ HandlerWrites(r) \/ CloseBody(r)
  \/ NoWriter(r) \/ Flush(r) \/ Release(r)

Next == \E r \in Requests : Request(r)

Spec == Init /\ [][Next]_vars

-----------------------------------------------------------------------------
(* Properties.                                                             *)

\* A request reads its own body only and its client gets its own response only,
\* although readers and writers go from one request to the next, readers with
\* the body of the last one still attached (gzip.go:93, :116).
OwnStreams ==
  \A r \in Requests :
    /\ got[r] \subseteq {r}
    /\ \A i \in DOMAIN out[r] : out[r][i] \in {r, End}

\* A compressed response whose connection held is complete when the middleware
\* has returned: what the handler wrote, then the trailer, once
\* (gzip.go:67, compressor.go:21).
WholeStreams ==
  \A r \in Requests :
    pc[r] = "over" /\ kind[r].accept /\ kind[r].coding # "nohead" /\ ~cut[r] =>
      out[r] = (IF wrote[r] THEN <<r>> ELSE <<>>) \o <<End>>
=============================================================================
