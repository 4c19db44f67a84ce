---------------------------- MODULE PacketUplink ----------------------------
(***************************************************************************)
(* The uplink of one packet-up session from end to end: the application's  *)
(* writes go into the accumulator (BatchAccumulator), the uploader         *)
(* goroutine (runPacketUploader) turns chunks into numbered POSTs, the     *)
(* POST goroutines (sendOnePost) wait for the responses, the server's      *)
(* handlers push the payloads, each when it is scheduled, and the queue    *)
(* (UploadQueue) puts them back in order for the server's upper layer.     *)
(* Errors, cancellation and Close run through the same code as the data.   *)
(***************************************************************************)
EXTENDS Integers, Sequences

CONSTANTS
  MaxEachPost,        \* the batch size given to newBatchAccumulator
  ScMaxBufferedPosts, \* the server's sc_max_buffered_posts
  WriteSizes,         \* lengths of the application's writes
  ReadSizes,          \* lengths of the server's read buffers
  Transports,         \* a subset of {"h1", "h2"}: see transport
  Faults,             \* what may break the session besides a Close by the
                      \* application: "network", "caller", "server"
  MaxResend,          \* bound: how often sendH1Request repeats one request
  WriteBudget,        \* bound: number of Write calls
  MaxSeq              \* bound: highest sequence number, never reached

ASSUME TransportsAssumption == Transports \subseteq {"h1", "h2"}
ASSUME SizesAssumption ==
  MaxEachPost \in Int /\ WriteSizes \subseteq Nat /\ ReadSizes \subseteq Nat
ASSUME BoundsAssumption == MaxResend \in Nat /\ WriteBudget \in Nat /\ MaxSeq \in Nat
ASSUME FaultsAssumption == Faults \subseteq {"network", "caller", "server"}

Seqs == 0 .. MaxSeq

\* What can arrive at the server: request <<s, c>> is the c-th repetition of
\* the POST with sequence number s.
Posts == Seqs \X (0 .. MaxResend)

App == "app"

VARIABLES
  transport, \* "h1": the raw HTTP/1.1 connection pool, "h2": H2 or H3
  \* the accumulator
  data, accClosed, writeErr, writePC, writeLen, drainPC, chunk, drained,
  accepted, returned, budget,
  \* the server's queue
  pkt, pushPC, pushed, qClosed, heap, off, nextSeq, readPC, readLen,
  delivered, dropped,
  \* the client
  upPC,      \* runPacketUploader: "top", "drain", "got", "send", "wait", "stopped"
  seq,       \* its seq
  failed,    \* its failed flag
  post,      \* the goroutine of POST s: "none", "running", "failed",
             \* "closing", "joined", "ended"
  wire,      \* the requests that reached the server
  wrote,     \* the POSTs whose wroteRequest channel is closed
  ctxDone,   \* uctx is cancelled
  closeAll,  \* progress of dialPacketUp's closeAll: "no", "cancel", "acc",
             \* "down", "done"
  appPC,     \* splitConn.Close by the application: "open", "acc", "down",
             \* "closed"
  downClosed \* downBody is closed, which ends the GET

accVars == <<data, accClosed, writeErr, writePC, writeLen, drainPC, chunk,
             drained, accepted, returned, budget>>
readVars == <<heap, off, nextSeq, readPC, readLen, delivered, dropped>>
queueVars == <<pkt, pushPC, pushed, qClosed, readVars>>
upVars == <<upPC, seq>>
postVars == <<post, wire, wrote, failed>>
closeVars == <<ctxDone, closeAll, appPC, downClosed>>
vars == <<transport, accVars, queueVars, upVars, postVars, closeVars>>

Acc == INSTANCE BatchAccumulator WITH
  Writers <- {App}, Batch <- MaxEachPost, Errors <- {"post"}, closed <- accClosed

Q == INSTANCE UploadQueue WITH
  Posts <- Posts, Workloads <- {}, closed <- qClosed

TypeOK ==
  /\ transport \in Transports
  /\ Acc!TypeOK
  /\ Q!TypeOK
  /\ upPC \in {"top", "drain", "got", "send", "wait", "stopped"}
  /\ seq \in Nat
  /\ failed \in BOOLEAN
  /\ post \in [Seqs -> {"none", "running", "failed", "closing", "joined", "ended"}]
  /\ wire \in SUBSET Posts
  /\ wrote \in SUBSET Seqs
  /\ ctxDone \in BOOLEAN
  /\ closeAll \in {"no", "cancel", "acc", "down", "done"}
  /\ appPC \in {"open", "acc", "down", "closed"}
  /\ downClosed \in BOOLEAN

Init ==
  /\ transport \in Transports
  /\ Acc!Init
  /\ Q!QueueInit
  /\ pkt = [p \in Posts |-> [seq |-> p[1], start |-> 0, len |-> 0]]
  /\ upPC = "top" /\ seq = 0 /\ failed = FALSE
  /\ post = [s \in Seqs |-> "none"]
  /\ wire = {} /\ wrote = {}
  /\ ctxDone = FALSE /\ closeAll = "no" /\ appPC = "open" /\ downClosed = FALSE

-----------------------------------------------------------------------------
(***************************************************************************)
(* The application writes, and the uploader loop.                          *)
(***************************************************************************)
AppWrite ==
  /\ \/ appPC = "open" /\ \E n \in WriteSizes : Acc!WriteCall(App, n)
     \/ Acc!WriteResume(App)
  /\ UNCHANGED <<transport, queueVars, upVars, postVars, closeVars>>

UpTop ==
  /\ upPC = "top"
  /\ upPC' = IF failed THEN "stopped" ELSE "drain"
  /\ UNCHANGED <<transport, accVars, queueVars, seq, postVars, closeVars>>

\* acc.Drain: blocks, returns io.EOF, or returns a chunk.
UpDrain ==
  /\ upPC = "drain"
  /\ Acc!Drain
  /\ upPC' = IF drainPC' = "wait" THEN "drain"
             ELSE IF chunk' = <<>> THEN "stopped" ELSE "got"
  /\ UNCHANGED <<transport, queueVars, seq, postVars, closeVars>>

\* The second failed check, and the sequence number.
UpGot ==
  /\ upPC = "got"
  /\ IF failed THEN upPC' = "stopped" /\ seq' = seq
               ELSE upPC' = "send" /\ seq' = seq + 1
  /\ UNCHANGED <<transport, accVars, queueVars, postVars, closeVars>>

\* The pacing delay, which a cancelled context may cut short, then the
\* dispatch of the chunk.  (Which pooled connection carries it is the
\* business of module Xmux.)
UpSend ==
  /\ upPC = "send"
  /\ \/ ctxDone /\ upPC' = "stopped" /\ UNCHANGED <<pkt, post>>
     \/ /\ upPC' = "wait"
        /\ post' = [post EXCEPT ![seq - 1] = "running"]
        /\ pkt' = [p \in Posts |->
                     IF p[1] = seq - 1
                       THEN [seq |-> seq - 1, start |-> chunk[1] - 1, len |-> Len(chunk)]
                       ELSE pkt[p]]
  /\ UNCHANGED <<transport, accVars, pushPC, pushed, qClosed, readVars, seq, wire, wrote,
                 failed, closeVars>>

\* The select on wroteRequest and ctx.Done.
UpWait ==
  /\ upPC = "wait"
  /\ \/ seq - 1 \in wrote /\ upPC' = "top"
     \/ ctxDone /\ upPC' = "stopped"
  /\ UNCHANGED <<transport, accVars, queueVars, seq, postVars, closeVars>>

Uploader == UpTop \/ UpDrain \/ UpGot \/ UpSend \/ UpWait

-----------------------------------------------------------------------------
(***************************************************************************)
(* The goroutine of POST s.                                                *)
(***************************************************************************)
\* The request is written out.  WroteRequest fires when that ended, also when
\* it ended with an error; the HTTP/1.1 path has no such hook.
PostWritten(s) ==
  /\ post[s] = "running"
  /\ s \notin wrote /\ <<s, 0>> \notin wire
  /\ \/ wire' = wire \cup {<<s, 0>>}
     \/ "network" \in Faults /\ wire' = wire
  /\ wrote' = IF transport = "h2" THEN wrote \cup {s} ELSE wrote
  /\ UNCHANGED <<transport, accVars, queueVars, upVars, post, failed, closeVars>>

\* sendH1Request wrote the request on a pooled connection but got no response:
\* it sends it again on another one, although the server may have handled it.
PostResend(s) ==
  /\ transport = "h1" /\ "network" \in Faults
  /\ post[s] = "running"
  /\ \E c \in 1 .. MaxResend :
       /\ <<s, c - 1>> \in wire /\ <<s, c>> \notin wire
       /\ wire' = wire \cup {<<s, c>>}
  /\ UNCHANGED <<transport, accVars, queueVars, upVars, post, wrote, failed, closeVars>>

\* The request whose response POST s is waiting for.
Awaited(s) == {p \in wire : p[1] = s /\ <<s, p[2] + 1>> \notin wire}

\* The response is 200 OK.
PostOK(s) ==
  /\ post[s] = "running"
  /\ \E p \in Awaited(s) : pushPC[p] = "ok"
  /\ post' = [post EXCEPT ![s] = "ended"]
  /\ wrote' = wrote \cup {s}
  /\ UNCHANGED <<transport, accVars, queueVars, upVars, wire, failed, closeVars>>

Doomed(s) ==
  \/ ctxDone
  \/ \E p \in Awaited(s) : pushPC[p] = "err"
  \/ s \in wrote /\ <<s, 0>> \notin wire

\* The request fails: 409 from a closed queue, a cancelled context, or the
\* network at any moment, also after the server took the payload.
PostFail(s) ==
  /\ post[s] = "running"
  /\ Doomed(s) \/ "network" \in Faults
  /\ post' = [post EXCEPT ![s] = "failed"]
  /\ failed' = TRUE
  /\ UNCHANGED <<transport, accVars, queueVars, upVars, wire, wrote, closeVars>>

\* Mutant: closeAll comes first, so that its acc.Close hides the error.
MutPostCloseAccLate(s) ==
  /\ post[s] = "failed"
  /\ post' = [post EXCEPT ![s] = "closing"]
  /\ UNCHANGED <<transport, accVars, queueVars, upVars, wire, wrote, failed, closeVars>>

\* failed is set; acc.CloseWithError(postErr).
PostCloseAcc(s) ==
  /\ post[s] = "failed"
  /\ Acc!CloseWithError("post")
  /\ post' = [post EXCEPT ![s] = "closing"]
  /\ UNCHANGED <<transport, queueVars, upVars, wire, wrote, failed, closeVars>>

\* closeAll: the first caller (closeOnce.Swap) runs it, others return.
PostCloseAll(s) ==
  /\ post[s] = "closing"
  /\ IF closeAll = "no"
       THEN closeAll' = "cancel" /\ wrote' = wrote
            /\ post' = [post EXCEPT ![s] = "joined"]
       ELSE closeAll' = closeAll /\ wrote' = wrote \cup {s}
            /\ post' = [post EXCEPT ![s] = "ended"]
  /\ UNCHANGED <<transport, accVars, queueVars, upVars, wire, failed, ctxDone, appPC,
                 downClosed>>

PostJoin(s) ==
  /\ post[s] = "joined"
  /\ closeAll = "done"
  /\ post' = [post EXCEPT ![s] = "ended"]
  /\ wrote' = wrote \cup {s}
  /\ UNCHANGED <<transport, accVars, queueVars, upVars, wire, failed, closeVars>>

PostGoroutine(s) ==
  PostWritten(s) \/ PostResend(s) \/ PostOK(s) \/ PostFail(s)
    \/ PostCloseAcc(s) \/ PostCloseAll(s) \/ PostJoin(s)

-----------------------------------------------------------------------------
(***************************************************************************)
(* Teardown on the client: closeAll's body (cancel, acc.Close,             *)
(* downBody.Close; releaseUsage is in module Xmux), splitConn.Close, and   *)
(* the caller's context given to DialContext.                              *)
(***************************************************************************)
CloseAllStep ==
  \/ /\ closeAll = "cancel" /\ closeAll' = "acc" /\ ctxDone' = TRUE
     /\ UNCHANGED <<transport, accVars, queueVars, upVars, postVars, appPC, downClosed>>
  \/ /\ closeAll = "acc" /\ closeAll' = "down" /\ Acc!CloseWithError("nil")
     /\ UNCHANGED <<transport, queueVars, upVars, postVars, ctxDone, appPC, downClosed>>
  \/ /\ closeAll = "down" /\ closeAll' = "done" /\ downClosed' = TRUE
     /\ UNCHANGED <<transport, accVars, queueVars, upVars, postVars, ctxDone, appPC>>

AppClose ==
  \/ /\ appPC = "open" /\ appPC' = "acc" /\ Acc!CloseWithError("nil")
     /\ UNCHANGED <<transport, queueVars, upVars, postVars, ctxDone, closeAll, downClosed>>
  \/ /\ appPC = "acc" /\ appPC' = "down" /\ downClosed' = TRUE
     /\ UNCHANGED <<transport, accVars, queueVars, upVars, postVars, ctxDone, closeAll>>
  \/ /\ appPC = "down" /\ appPC' = "closed"
     /\ closeAll' = IF closeAll = "no" THEN "cancel" ELSE closeAll
     /\ UNCHANGED <<transport, accVars, queueVars, upVars, postVars, ctxDone, downClosed>>

CallerCancels ==
  /\ "caller" \in Faults
  /\ ~ctxDone
  /\ ctxDone' = TRUE
  /\ UNCHANGED <<transport, accVars, queueVars, upVars, postVars, closeAll, appPC,
                 downClosed>>

-----------------------------------------------------------------------------
(***************************************************************************)
(* The server: a handler per POST that has arrived, the upper layer's      *)
(* reads, and the end of the session, whose causes are on either side.     *)
(***************************************************************************)
\* upsertSession once handleDownloadGet has deleted the session: the POST gets a
\* fresh one, whose queue takes the payload for nobody to read.  (Where that
\* queue is full the POST ends with the 30 s of its session, as if closed here.)
FreshSession(p) ==
  /\ qClosed
  /\ pushPC[p] = "call"
  /\ pushPC' = [pushPC EXCEPT ![p] = "ok"]
  /\ UNCHANGED <<pkt, pushed, qClosed, readVars>>

ServerHandler(p) ==
  /\ p \in wire
  /\ Q!Push(p) \/ FreshSession(p)
  /\ UNCHANGED <<transport, accVars, upVars, postVars, closeVars>>

ServerRead ==
  /\ Q!Read
  /\ UNCHANGED <<transport, accVars, upVars, postVars, closeVars>>

ServerClose ==
  /\ downClosed \/ ctxDone \/ dropped # {} \/ "server" \in Faults
  /\ Q!Close
  /\ UNCHANGED <<transport, accVars, upVars, postVars, closeVars>>

Next ==
  \/ AppWrite \/ Uploader \/ CloseAllStep \/ AppClose \/ CallerCancels
  \/ \E s \in Seqs : PostGoroutine(s)
  \/ \E p \in Posts : ServerHandler(p)
  \/ ServerRead \/ ServerClose

Spec == Init /\ [][Next]_vars

(***************************************************************************)
(* Fairness.  Goroutines on both sides are scheduled; a request ends with  *)
(* its context, with a response, or once its write has failed; an          *)
(* application whose download ended closes its connection (where the       *)
(* uploader stops in its pacing delay, only that frees a blocked Write:    *)
(* nothing else closes the accumulator, client.go:966); the server closes  *)
(* a session whose GET ended; its upper layer keeps reading.  All of these *)
(* but the reads are finitely many steps, so that one condition is enough. *)
(***************************************************************************)
DownloadEnded == downClosed \/ qClosed \/ ctxDone \/ appPC # "open"

ClientStep ==
  \/ Acc!WriteResume(App) /\ AppWrite
  \/ Uploader
  \/ CloseAllStep
  \/ DownloadEnded /\ AppClose
  \/ \E s \in Seqs :
       \/ PostWritten(s) \/ PostOK(s) \/ PostCloseAcc(s)
       \/ PostCloseAll(s) \/ PostJoin(s)
       \/ Doomed(s) /\ PostFail(s)

FairSpec ==
  /\ Spec
  /\ WF_vars(ClientStep \/ (\E p \in Posts : ServerHandler(p)) \/ (downClosed /\ ServerClose))
  /\ WF_vars(ServerRead)

-----------------------------------------------------------------------------
\* End to end the uplink is a byte stream: the server's upper layer reads a
\* beginning of what the application wrote, whatever fails or is closed.
Stream == INSTANCE ByteStream WITH sent <- accepted, received <- delivered
EndToEnd == Stream!Spec

\* A failed POST surfaces in the application's writes as that POST's error,
\* because acc.CloseWithError(postErr) comes before closeAll's acc.Close:
\* io.ErrClosedPipe is only seen by an application that has closed.
PostErrorSurfaces == "ErrClosedPipe" \in returned => appPC # "open"

\* README.md, uplink model: POSTs are kept in strict sequence order "so the
\* server's reassembly queue never has to buffer/reorder".
NeverReorders == \A p \in heap : pkt[p].seq <= nextSeq

\* What the application wrote reaches the server's upper layer, unless the
\* connection broke, overflowed or was closed.
Broken == failed \/ qClosed \/ dropped # {} \/ ctxDone \/ appPC # "open"
EventuallyDelivered == [](Len(delivered) < accepted => <>(Len(delivered) = accepted \/ Broken))

\* No goroutine is left behind: the application's Write never blocks for ever,
\* whatever ends the uploader; after Close the uploader and every POST end.
NoGoroutineLeak ==
  /\ writePC[App] = "wait" ~> writePC[App] = "idle"
  /\ appPC = "closed" ~> upPC = "stopped" /\ \A s \in Seqs : post[s] \in {"none", "ended"}
=============================================================================
