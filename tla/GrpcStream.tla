----------------------------- MODULE GrpcStream -----------------------------
(***************************************************************************)
(* One direction of the optional gRPC framing (xhttp/grpc.go): grpcWriter  *)
(* cuts writes into messages, the body carries them, grpcReader puts the   *)
(* bytes together again and finish publishes the status.                   *)
(*                                                                         *)
(* The body is a sequence of tokens: a message is the compression flag     *)
(* (the first byte of the five-byte header), the size (the rest of the     *)
(* header and the protobuf field's tag and length), and its bytes.  So a   *)
(* body can end between messages, inside a header or inside a payload.     *)
(***************************************************************************)
EXTENDS Integers, Sequences

CONSTANTS
  Writers,       \* goroutines that each call Write once
  Bytes,         \* length of each write
  Chunk,         \* grpcWriteChunkSize
  Backlog,       \* tokens the body takes before a Write blocks
  ReadSizes,     \* buffer lengths of Read
  MaxHeartbeats, \* bound: empty messages from the peer
  MaxFaults      \* bound: failing body writes, broken connections

ASSUME SizesAssumption ==
  /\ Bytes \in Nat \ {0} /\ Chunk \in Nat \ {0} /\ Backlog \in Nat
  /\ ReadSizes \subseteq Nat \ {0} /\ MaxHeartbeats \in Nat /\ MaxFaults \in Nat
ASSUME WriterAssumption == "free" \notin Writers  \* wmu tells a writer from none

VARIABLES
  response,              \* the body is a response: its end is judged by the trailer
  wpc, left, reported,   \* per Write: where it is, bytes to go, its count so far
  wmu, werr, inBody,     \* grpcWriter: holder of mu, err, a body.Write is running
  wclose,                \* progress of its Close
  body, end, trailer,    \* tokens not yet read, how the body ended, Grpc-Status
  rpc, need, cache, rerr, rclose, status,  \* grpcReader: Read, size, cache, err,
                         \* progress of Close, and what finish published
  sent, torn, got,       \* history: bytes in whole messages, a message is cut or bad, bytes read
  beats, faults          \* the bounded counters

wvars == <<wpc, left, reported, wmu, werr, inBody>>
rvars == <<rpc, need, cache, rerr>>
ghost == <<sent, torn>>
vars == <<response, wvars, wclose, body, end, trailer, rvars, rclose, status, ghost, got, beats, faults>>

Errors == {"EOF", "malformed", "unexpected", "status", "broken", "closed"}

Init ==
  /\ response \in BOOLEAN
  /\ wpc = [w \in Writers |-> "new"] /\ left = [w \in Writers |-> Bytes]
  /\ reported = [w \in Writers |-> 0] /\ wmu = "free" /\ werr = FALSE
  /\ inBody = FALSE /\ wclose = "no"
  /\ body = <<>> /\ end = "open" /\ trailer = ""
  /\ rpc = "idle" /\ need = 0 /\ cache = <<>> /\ rerr = "none" /\ rclose = "no"
  /\ status = "none" /\ sent = <<>> /\ torn = FALSE /\ got = <<>>
  /\ beats = 0 /\ faults = 0

Message(bytes) ==
  <<[t |-> "flag"], [t |-> "size", n |-> Len(bytes)]>>
    \o [i \in 1 .. Len(bytes) |-> [t |-> "byte", b |-> bytes[i]]]

\* The next bytes of writer w: at most one chunk.
NextChunk(w) ==
  LET from == Bytes - left[w]
      size == IF left[w] < Chunk THEN left[w] ELSE Chunk
  IN  [i \in 1 .. size |-> <<w, from + i>>]

-----------------------------------------------------------------------------
(***************************************************************************)
(* grpcWriter: Write holds mu for all its messages.                        *)
(***************************************************************************)
WriteLock(w) ==
  /\ wpc[w] = "new" /\ wmu = "free"
  /\ IF wclose # "no" \/ werr
       THEN wpc' = [wpc EXCEPT ![w] = "done"] /\ UNCHANGED wmu
       ELSE wpc' = [wpc EXCEPT ![w] = "write"] /\ wmu' = w
  /\ UNCHANGED <<response, left, reported, werr, inBody, wclose, body, end, trailer, rvars,
                 rclose, status, ghost, got, beats, faults>>

\* body.Write begins: flushWriter.Write, in a response, takes its mutex.
WriteBody(w) ==
  /\ wpc[w] = "write" /\ ~inBody /\ end = "open" /\ inBody' = TRUE
  /\ UNCHANGED <<response, wpc, left, reported, wmu, werr, wclose, body, end, trailer, rvars,
                 rclose, status, ghost, got, beats, faults>>

\* Mutant: mu is held for one message only.
MutWriteMessage(w) ==
  LET chunk == NextChunk(w)
      rest  == left[w] - Len(chunk)
  IN
  /\ wpc[w] = "write" /\ inBody /\ inBody' = FALSE /\ end = "open" /\ Len(body) <= Backlog
  /\ body' = body \o Message(chunk) /\ sent' = sent \o chunk
  /\ reported' = [reported EXCEPT ![w] = @ + Len(chunk)]
  /\ left' = [left EXCEPT ![w] = rest]
  /\ wpc' = [wpc EXCEPT ![w] = IF rest = 0 THEN "done" ELSE "new"] /\ wmu' = "free"
  /\ UNCHANGED <<response, werr, wclose, end, trailer, rvars, rclose, status, torn, got,
                 beats, faults>>

WriteMessage(w) ==
  LET chunk == NextChunk(w)
      rest  == left[w] - Len(chunk)
  IN
  /\ wpc[w] = "write" /\ inBody /\ inBody' = FALSE /\ end = "open" /\ Len(body) <= Backlog
  /\ body' = body \o Message(chunk) /\ sent' = sent \o chunk
  /\ reported' = [reported EXCEPT ![w] = @ + Len(chunk)]
  /\ left' = [left EXCEPT ![w] = rest]
  /\ IF rest = 0
       THEN wpc' = [wpc EXCEPT ![w] = "done"] /\ wmu' = "free"
       ELSE UNCHANGED <<wpc, wmu>>
  /\ UNCHANGED <<response, werr, wclose, end, trailer, rvars, rclose, status, torn, got,
                 beats, faults>>

\* body.Write fails after k tokens: a fault, or the body was closed under it.
WriteFails(w, k) ==
  LET message == Message(NextChunk(w)) IN
  /\ wpc[w] = "write" /\ k < Len(message)
  /\ IF end = "open" THEN inBody /\ faults < MaxFaults /\ faults' = faults + 1
                     ELSE k = 0 /\ UNCHANGED faults
  /\ inBody' = FALSE
  /\ body' = body \o SubSeq(message, 1, k) /\ torn' = (torn \/ k > 0)
  /\ werr' = TRUE /\ wmu' = "free" /\ wpc' = [wpc EXCEPT ![w] = "done"]
  /\ UNCHANGED <<response, left, reported, wclose, end, trailer, rvars, rclose, status,
                 sent, got, beats>>

\* Close does not take mu: closed.Swap, then body.Close.
WriterClose ==
  /\ wclose = "no" /\ wclose' = "body"
  /\ UNCHANGED <<response, wvars, body, end, trailer, rvars, rclose, status, ghost, got,
                 beats, faults>>

\* The body of a response is a flushWriter, whose Close waits for the mutex its
\* Write holds; that of a request is a pipe, whose Close waits for nobody.
CloseWaits == response /\ inBody

WriterCloseBody ==
  /\ wclose = "body" /\ ~CloseWaits /\ wclose' = "done"
  /\ IF end = "open" THEN end' = "ended" /\ trailer' \in {"", "0", "13"}
                     ELSE UNCHANGED <<end, trailer>>
  /\ UNCHANGED <<response, wvars, body, rvars, rclose, status, ghost, got, beats, faults>>

\* "Empty protobuf messages are valid heartbeats": one from the peer.
Heartbeat ==
  /\ beats < MaxHeartbeats /\ beats' = beats + 1
  /\ end = "open" /\ ~torn
  /\ body' = body \o Message(<<>>)
  /\ UNCHANGED <<response, wvars, wclose, end, trailer, rvars, rclose, status, ghost, got,
                 faults>>

\* A message the reader must refuse (compressed, too long, no protobuf), which
\* shows in its header or, for the last, once it was read.
Malformed ==
  /\ end = "open" /\ ~torn /\ torn' = TRUE /\ faults < MaxFaults /\ faults' = faults + 1
  /\ body' = body \o <<[t |-> "flag"], [t |-> "size", n |-> Chunk + 1]>>
  /\ UNCHANGED <<response, wvars, wclose, end, trailer, rvars, rclose, status, sent, got,
                 beats>>

\* The connection breaks: what is left of the body ends in an error.
Broken ==
  /\ end = "open" /\ end' = "broken" /\ faults < MaxFaults /\ faults' = faults + 1
  /\ UNCHANGED <<response, wvars, wclose, body, trailer, rvars, rclose, status, ghost,
                 got, beats>>

-----------------------------------------------------------------------------
(***************************************************************************)
(* grpcReader.                                                             *)
(***************************************************************************)
BodyClosed == rclose \in {"lock", "finish", "done"}

\* Mutant: the trailer is not looked at.
MutEndOfBodyNoTrailer ==
  IF BodyClosed THEN "closed"
  ELSE IF end = "broken" THEN "broken"
  ELSE IF rpc = "header" /\ body = <<>> THEN "EOF" ELSE "unexpected"

\* The error of a body read that finds fewer tokens than it wants.
EndOfBody ==
  IF BodyClosed THEN "closed"
  ELSE IF end = "broken" THEN "broken"
  ELSE IF response /\ trailer # "0" THEN "status"
  ELSE IF rpc = "header" /\ body = <<>> THEN "EOF" ELSE "unexpected"

ReadBegin ==
  /\ rpc = "idle" /\ rclose = "no" /\ rerr = "none"
  /\ rpc' = IF cache = <<>> THEN "header" ELSE "copy"
  /\ UNCHANGED <<response, wvars, wclose, body, end, trailer, need, cache, rerr, rclose,
                 status, ghost, got, beats, faults>>

\* readMessage: io.ReadFull of the header, then of the message.
ReadHeader ==
  /\ rpc = "header" /\ ~BodyClosed /\ Len(body) >= 2 /\ body[2].n <= Chunk
  /\ rpc' = "payload" /\ need' = body[2].n
  /\ body' = SubSeq(body, 3, Len(body))
  /\ UNCHANGED <<response, wvars, wclose, end, trailer, cache, rerr, rclose, status,
                 ghost, got, beats, faults>>

ReadPayload ==
  /\ rpc = "payload" /\ (need = 0 \/ ~BodyClosed) /\ Len(body) >= need
  /\ cache' = [i \in 1 .. need |-> body[i].b]
  /\ body' = SubSeq(body, need + 1, Len(body))
  /\ rpc' = IF need = 0 THEN "header" ELSE "copy"
  /\ UNCHANGED <<response, wvars, wclose, end, trailer, need, rerr, rclose, status, ghost,
                 got, beats, faults>>

ReadMalformed ==
  /\ rpc = "header" /\ ~BodyClosed /\ Len(body) >= 2 /\ body[2].n > Chunk
  /\ rpc' = "idle" /\ rerr' = "malformed"
  /\ body' = SubSeq(body, 3, Len(body))
  /\ UNCHANGED <<response, wvars, wclose, end, trailer, need, cache, rclose, status,
                 ghost, got, beats, faults>>

ReadFails ==
  /\ rpc \in {"header", "payload"}
  /\ \/ BodyClosed
     \/ end # "open" /\ Len(body) < IF rpc = "header" THEN 2 ELSE need
  /\ rpc = "payload" => need > 0
  /\ rpc' = "idle" /\ rerr' = EndOfBody
  /\ UNCHANGED <<response, wvars, wclose, body, end, trailer, need, cache, rclose, status,
                 ghost, got, beats, faults>>

ReadCopy(n) ==
  LET k == IF n < Len(cache) THEN n ELSE Len(cache) IN
  /\ rpc = "copy" /\ rpc' = "idle"
  /\ got' = got \o SubSeq(cache, 1, k) /\ cache' = SubSeq(cache, k + 1, Len(cache))
  /\ UNCHANGED <<response, wvars, wclose, body, end, trailer, need, rerr, rclose, status,
                 ghost, beats, faults>>

\* Close: closed.Swap, body.Close, then the buffers under mu.
ReaderClose ==
  /\ rclose = "no" /\ rclose' = "body"
  /\ UNCHANGED <<response, wvars, wclose, body, end, trailer, rvars, status, ghost, got,
                 beats, faults>>

\* Mutant: Close takes mu before it closes the body.
MutReaderCloseBody ==
  /\ rclose = "body" /\ rclose' = "lock" /\ rpc = "idle"
  /\ UNCHANGED <<response, wvars, wclose, body, end, trailer, rvars, status, ghost, got,
                 beats, faults>>

ReaderCloseBody ==
  /\ rclose = "body" /\ rclose' = "lock"
  /\ UNCHANGED <<response, wvars, wclose, body, end, trailer, rvars, status, ghost, got,
                 beats, faults>>

\* Mutant: the buffers are dropped without waiting for the Read in flight, and
\* finish reads the error without mu.
MutFinish ==
  /\ ~response /\ rclose = "lock" /\ rclose' = "done"
  /\ status' = IF rerr \in {"none", "EOF"} THEN "0" ELSE "13"
  /\ UNCHANGED <<response, wvars, wclose, body, end, trailer, rvars, ghost, got, beats,
                 faults>>

ReaderCloseClear ==
  /\ rclose = "lock" /\ rpc = "idle" /\ rclose' = "finish" /\ cache' = <<>>
  /\ UNCHANGED <<response, wvars, wclose, body, end, trailer, rpc, need, rerr, status,
                 ghost, got, beats, faults>>

\* The last call of the server's handler, which reads a request, under mu.
finish ==
  /\ ~response /\ rclose = "finish" /\ rpc = "idle" /\ rclose' = "done"
  /\ status' = IF rerr \in {"none", "EOF"} THEN "0" ELSE "13"
  /\ UNCHANGED <<response, wvars, wclose, body, end, trailer, rvars, ghost, got, beats,
                 faults>>

Next ==
  \/ \E w \in Writers : \/ WriteLock(w) \/ WriteBody(w) \/ WriteMessage(w)
                        \/ \E k \in 0 .. Chunk + 1 : WriteFails(w, k)
  \/ WriterClose \/ WriterCloseBody \/ Heartbeat \/ Malformed \/ Broken
  \/ ReadBegin \/ ReadHeader \/ ReadPayload \/ ReadMalformed \/ ReadFails
  \/ \E n \in ReadSizes : ReadCopy(n)
  \/ ReaderClose \/ ReaderCloseBody \/ ReaderCloseClear \/ finish

\* Goroutines inside a call run on; no call of Read, Write or Close is owed.
Fairness ==
  /\ \A w \in Writers : WF_vars(\/ WriteBody(w) \/ WriteMessage(w)
                                \/ end # "open" /\ WriteFails(w, 0))
  /\ WF_vars(WriterCloseBody)
  /\ WF_vars(\/ ReadHeader \/ ReadPayload \/ ReadMalformed \/ ReadFails
             \/ \E n \in ReadSizes : ReadCopy(n))
  /\ WF_vars(ReaderCloseBody \/ ReaderCloseClear \/ finish)

Spec == Init /\ [][Next]_vars /\ Fairness

-----------------------------------------------------------------------------
(***************************************************************************)
(* Properties                                                              *)
(***************************************************************************)
\* grpcReader returns the bytes of the writes one write after another, whatever
\* the chunk and buffer sizes: nothing lost, doubled or moved, and two
\* concurrent writes of several messages each never mixed, because Write holds
\* mu for all its messages.
InOrder ==
  /\ \E n \in 0 .. Len(sent) : got \o cache = SubSeq(sent, 1, n)
  /\ \A i, j, k \in DOMAIN sent :
       i < j /\ j < k /\ sent[i][1] = sent[k][1] => sent[j][1] = sent[i][1]

\* io.EOF means the whole stream: a body cut inside a header or a message, and a
\* response without Grpc-Status 0, is never taken for its end.
CleanEnd == rerr = "EOF" => got = sent /\ ~torn /\ (response => trailer = "0")

\* "malformed input must not end with status OK": the status published by
\* finish agrees with what the reader met, a Read in flight included.
StatusHonest == status = "0" => rerr \in {"none", "EOF"} /\ rpc = "idle"

\* Close ends whoever waits on its side.  A blocked Read returns, so that Close
\* and, in the server, finish get the mutex.  A blocked Write of a request returns
\* too ("Closing the pipe must interrupt an in-flight Write without taking mu",
\* grpc.go:189); that of a response may only wait for the client to make room for
\* the message it is writing, because flushWriter.Close waits for it.
CloseUnblocks ==
  /\ rclose # "no" ~> rclose = IF response THEN "finish" ELSE "done"
  /\ wclose # "no" ~> \/ \A w \in Writers : wpc[w] # "write"
                      \/ CloseWaits /\ Len(body) > Backlog

=============================================================================
