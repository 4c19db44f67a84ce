# A TLA+ model of sing-xhttp

sing-xhttp carries one bidirectional byte stream (a `net.Conn`) over HTTP
requests. This directory models its concurrent parts in TLA+, checks them with
TLC on small instances and proves nearly all safety that is checked, for every
instance, with TLAPS. Source references are to `src/xhttp/` unless they say otherwise;
`PROJECT.json` gives for every definition the lines it models.

## 1. The system

A client dials in one of four modes. In all but one of them the downlink is a
long GET, and client and server meet through a session ID.

| mode | uplink | downlink |
|---|---|---|
| packet-up, stream-down | numbered POSTs of bounded size | GET |
| stream-up | one long POST, optionally in gRPC messages | GET |
| stream-one | the request body of one POST | its response body |

| part | state | operations | goroutines that meet there |
|---|---|---|---|
| `batch.go` accumulator | buffer, closed flag, error, one condition variable | Write, Drain, CloseWithError | application writers, uploader, closers |
| `client.go` uploader | sequence number, failed flag, POSTs in flight | drain, pace, rotate, send | uploader, one goroutine per POST, `closeAll` |
| `h1_conn.go` pool | idle raw connections | send with retry | POST goroutines |
| `upload_queue.go` | channel, heap, nextSeq, done | Push, Read, Close | one handler per POST, one reader, closers |
| `xmux.go` pool | connections with usage counters and budgets | Pick, Close | dials, rotating uploaders, `closeAll`, `Client.Close` |
| `server.go` sessions | map by ID; per session: connected, uplink, closed | upsert, delete, reap, three handlers | one handler per request, reaper, watcher, upper layer |
| `client.go` stream dials | pipe, `waitReadCloser`, `closeAll` | openDownload, dialStreamUp, dialStreamOne | dial, request goroutines, application |
| `grpc.go` framing | frame in progress, sticky error, closed flag | Write, Read, Close, finish | writers, reader, handler |
| `meta.go`, `validate.go`, `ServeHTTP` | none | draw session IDs; place and extract session, seq, padding and payload; dispatch | none |
| `h2_conn.go` | stream table, header block being rewritten, peer's frame size, sticky write error | Read, Write | HTTP/2 reader and writers |

What is hard here is not any one of these but their meeting: POSTs that arrive
in any order, closers that race with the arrival of what they should close, a
condition variable shared by two kinds of waiters, counters moved in two steps,
a reaper against a late GET, a `ResponseWriter` that must not outlive its
handler. `PROJECT.json` lists these hazards line by line.

## 2. Modules

| module | models | form |
|---|---|---|
| `UploadQueue` | the reassembly queue | Push and Read are split where they block; bytes are stream positions |
| `BatchAccumulator` | the accumulator | one step per critical section, waiters are asleep or woken |
| `ByteStream` | what one direction of a connection promises | abstract specification |
| `PacketUplink` | the uplink from the application's Write to the server's Read | composes `UploadQueue` and `BatchAccumulator` by INSTANCE with uploader, POSTs, handlers and all closers; a POST that finds its session gone is answered by a new one; implements `ByteStream` |
| `Xmux` | the connection pool and every user of its counters | Pick is atomic, each atomic Add a step |
| `ServerSession` | one session ID: map, reaper, the handlers of GET, stream-up, packet-up and stream-one, `splitConn`, `flushWriter`, `lazyStreamReader` | `sync.Once` bodies of several steps are phases that later callers wait for |
| `StreamDial` | the two stream dials, `waitReadCloser`, `closeAll` | a variable that never changes is the mode |
| `GrpcStream` | writer, body and reader of one framed direction, `finish` | a message is header and payload, and may be cut between them; a response's body has the mutex of `flushWriter`, which its Close waits for |
| `RequestRouting` | options, Validate, session IDs, placement and extraction, dispatch | the codec as operators over small records; a payload is its length, its base64 text the positions in it |
| `AtLeastOnce` | what `sendH1Request` promises its caller | abstract specification |
| `H1Pool` | the raw HTTP/1.1 pool, its peer and its network | a connection has the name of the call that dialled it; implements `AtLeastOnce` |
| `H2Conn` | the rewriting HTTP/2 connection between x/net's client and the peer | a frame is a record, a parent comes with the moment it was chosen; `noteLocalHeaders` and `parentStream` lock the table separately and are two steps |
| `Transport` | `decideHTTPVersion` and the choice of carrier | composes the two modules above; the version is chosen once, by Init |

Theorems are in modules of their own:

| module | proves about |
|---|---|
| `BatchAccumulatorProofs`, `PacketUplinkProofs`, `GrpcStreamProofs` | the module of its name |
| `ServerProofs` | the server's side: `UploadQueue`, `ServerSession` |
| `DialProofs` | the client's side: `Xmux`, `StreamDial` |
| `H2ConnProofs`, `H2WriteProofs` | the invariant of `H2Conn`: its statement with the steps of x/net and of Read; the steps of Write |
| `TransportProofs` | the theorems on `H2Conn`, `H1Pool` and their composition `Transport` |

Where two specifications meet in one module their definitions have names of
their own: `ServerSpec`, `DialSpec`, `H2Spec`, `TransportSpec`.

How state and actions correspond in the modules whose shape is least like the
code's:

- `H1Pool`: `pc` is the line of `sendH1Request` a call is at; `hc` its local `hc`; `pool`, `unread` the fields of `h1ConnPool` and `H1Conn`. `GetPooled`, `GetDialed` and `DialFails` are `get`; `WriteFails`, `ReadFails`, `ReadRefused` and `ReadOK` the four ways a round can end. `PeerAnswers`, `Break` and `PoolDrops` are the environment: `sync.Pool` may lose a connection or fail to return one it holds. The drain of stale responses (`h1_conn.go:79-96`) has no action, because `PooledIsIdle`, which is proved, makes its condition false.
- `H2Conn`: `src` is what x/net has written, `done` how much of it `Write` has taken out of `writeBuf`, `wire` what reached the peer. Frames cut in two at the end of a `Write` or a `Read` wait in `writeBuf` and `readBuf`, and so count as not yet written or read. `Flush` may pass on any beginning of the output and then sets `writeErr`. x/net is not assumed to stop after an error.
- `StreamDial`: `all` is how far the one run of `closeAll` is. The error path of `dialStreamUp` makes the same calls, with `releaseUsage` last, and uses the same variable.
- `RequestRouting`: one behaviour is one choice of options, then `Build` (NewClient, NewServer), `DialContext`, and requests of this client or of a stranger.

`MCUploadQueue`, `MCXmux` and `MCRequestRouting` only give constants their
values. Operators whose names begin with `Mut` are deliberately wrong variants
of the definition that follows them; each breaks the property it is listed with
in `PROJECT.json`, which shows that the property depends on that code.

Common conventions. A step is what one goroutine does between two points where
another can interfere: a lock held throughout, a channel operation, an atomic
access. A `select` with several ready cases is a disjunction. Variables marked
*history* are read by properties only. The network, the upper layer and the
peer are environment actions, marked external in the map.

## 3. Runs

| run | instance | checks |
|---|---|---|
| `queue` | 4 POSTs in every order, some sent twice, limit 1, buffers of 1 and 2 | `InOrder`, `Accounted`, `MemoryBound`, `OverflowJustified`, `CloseUnblocks`, `AllDelivered` |
| `queue_duplicate` | POSTs sent twice, limit 2, buffers shorter than a packet | **violates** `InOrder` |
| `accumulator` | 3 writers, batch 2, writes of 0, 1, 3 bytes | `Fifo`, `Bounded`, `NoLostWakeup`, `AcceptedIsDrained` |
| `uplink` | 2 writes of 2 bytes, H2 or HTTP/1.1 with one resend, all faults | `PostErrorSurfaces`, `EndToEnd` |
| `uplink_live` | 2 writes over H2, the caller may cancel, the application may close | `EventuallyDelivered`, `NoGoroutineLeak` |
| `xmux` | 2 packet-up sessions that rotate, concurrency 1, 1 connection, every budget | `ReuseLimit`, `PooledIsOpen`, `SpawnJustified` |
| `xmux_usage` | 2 packet-up sessions, concurrency 2 | **violates** `UsageIsSessions` |
| `session` | six mixes of requests: a GET with a blocking upper layer and a stream POST; a GET with an asynchronous one and a packet; uploads without a GET; stream-one with either upper layer; heartbeats may fail | `BodyReleased`, `NoWriteAfterReturn`, `LiveSessionMapped`, `Released` |
| `dial` | both stream modes, response held back until uplink bytes flow | `OneOwner`, `EndKeepsDownload`, `CallsUnblocked`, `TornDown` |
| `grpc` | request or response, 2 writers, 3 bytes each in chunks of 2, one fault | `InOrder`, `CleanEnd`, `StatusHonest`, `CloseUnblocks` |
| `routing` | all modes, placements and paddings with equal options, the ones that fail included; payloads of 1 to 4 bytes in body, headers or cookies; a client of any mode against a server of any mode | `RoutedAsMeant`, `ValidOptionsWork` |
| `transports` | HTTP/1.1: 3 calls, answers 200 and 500, any connection may break; HTTP/2: 2 streams, 4 frames of x/net, 2 of the peer, frame sizes 2 and 3, header blocks of 1 and 3 | `PooledIsIdle`, `ErrorIsOwn`, `RepeatIsForced`, `AnswerIsOwn`, `SendReturns`; `Transparent`, `FrameSizeHonoured`, `TableExact`, `ParentIsOpen` |

Deadlock is checked in the queue, the accumulator and the uplink, which go on or
have an explicit end; in the others the system stops once
everything is closed or the bound on frames is reached. No run takes more than
about four and a half minutes.

Why the bounds are enough. With a limit of one and four packets every branch of
the queue's Read is taken: due, early, stale, overflow, and end while blocked;
packets of different lengths against buffers of 1 and 2 give whole and partial
reads. A packet sent twice in `queue` fits into every buffer, the assumption
under which order is also proved. Two writes of the uplink become up to two
POSTs, which is what it takes to overlap, overtake and fail after each other;
`MaxSeq` is the highest number two writes can need. In `uplink` a write
fills a batch of 2 bytes, which the server reads one byte at a time, so that every
packet is cut and a second write waits for room or becomes a second POST. Two sessions are enough for
two dials between Pick and Add, and for a rotation onto the other's connection.

The mixes of the session run have one GET per ID, as the client sends. With two,
`deleteSession` unmaps by ID and `LiveSessionMapped` does not hold; the hazard is
listed.

Three calls of the pool are what it takes for one to reuse a connection that a
second has put back while a third still waits on its own. A header block of
length 1 is not split; one of length 3 is split into frames of 2 and 2 or, at
frame size 3, of 3 and 1, which a peer that allows only 2 would refuse.
Four frames of x/net are its SETTINGS and, say, HEADERS, CONTINUATION and the
HEADERS of a second stream. `H2Conn.cfg` on `H2Conn` is a larger instance, with
three streams and five frames (4.6 million states, about two and a half
minutes); it passes too.

A payload of up to four bytes is up to six characters of base64, which chunks of
two to four characters cut into one, two or three pieces, the last of them full
or not. `MaxPost` and `MinChunk` stand for the code's 1,000,000 and 64.

The routing run has the options that Validate accepts and the two ends then do
not work with among its options, and its properties say which they are:

- `OwnNames`: session ID, sequence number and padding have names of their own, and none that the client uses for another header. Validate compares the first two only, and as written. Without it fields overwrite each other, and nothing is claimed.
- `Misread`: the upload's method is OPTIONS, or GET where that means a download.
- `Unworkable`: no padding, a header over the limit, an empty mode over REALITY, and a body cut short on the way, which is no option.

`RoutedAsMeant` says that outside the first two every request is refused or
handled as meant, whatever the modes of the two ends. `ValidOptionsWork` says
that between equal options exactly the requests of the last two fail, so that it
would be violated by one more or one less; and that a dial is stuck only if the
size of its table divides 256 or exceeds it. `FailsFast` is what Validate's
comment says, with no exceptions: the next section refutes it kind by kind.

## 4. Where code and documents disagree

Two are findings with a run of their own:

1. A packet repeated while its first copy is partly read delivers its first bytes twice (`queue_duplicate`).
2. After a rotation `closeAll` releases the wrong connection's count (`xmux_usage`). The old connection's count falls below its sessions, the new one's stays one too high for good.

The others are smaller. Each can be seen by running TLC with the configuration
named, which stops with a violation:

| what the code does | what it contradicts | configuration |
|---|---|---|
| the queue holds one more early packet than `sc_max_buffered_posts` | `src/README.md:324` | `UploadQueue_held.cfg` on `MCUploadQueue` (`HeldWithinLimit`) |
| over H2/H3 handlers of POSTs written in order run in any order, so that the server does buffer | `src/README.md:363` | `PacketUplink_reorder.cfg` (`NeverReorders`) |
| dials that pick before they have counted themselves exceed `max_concurrency` | `options.go:131` | `Xmux_concurrency.cfg` on `MCXmux` (`ConcurrencyLimit`) |
| header keys that differ only in case pass Validate and collide | `src/README.md:409-411` | `RequestRouting_keycase.cfg` on `MCRequestRouting` (`FailsFast`) |
| a padding key equal to that of a session ID in the same carrier passes Validate, and the padding replaces the session ID | `validate.go:10-13` | `RequestRouting_padkey.cfg` (`FailsFast`) |
| a padding range from zero passes Validate, and requests without padding are refused | `validate.go:10-13` | `RequestRouting_zeropad.cfg` (`FailsFast`) |
| stream-up with method GET passes Validate, and the upload is taken for a download | `validate.go:10-13` | `RequestRouting_getstream.cfg` (`FailsFast`) |
| with a session ID table whose size divides 256 (the predefined `HEX` and `hex`) the rejection limit `byte(256 - 256 % m)` is 0, every random byte is rejected, and the dial never returns | `options.go:103-106` ("may be a predefined name"), `src/README.md:205` | `RequestRouting_hexids.cfg` (`FailsFast`) |
| payloads placed in headers or cookies may be as long as a POST, 1,000,000 bytes by default, and the server's header limit is 8192 bytes by default: Validate accepts the two together, and the server refuses the request | `validate.go:10-13` | `RequestRouting_longheader.cfg` (`FailsFast`) |
| a server with an empty mode is a packet-up server | `server.go:381` | `RequestRouting_reality.cfg` (`EmptyModeAcceptsAll`) |

## 5. Fairness

Safety needs none. Liveness assumes what Go's scheduler gives: a goroutine that
can go on does (weak fairness of its own steps). Beyond that:

- `PacketUplink` has one condition for the steps of the client, of the handlers and of the server's teardown: each of them takes finitely many steps, so that none can keep the others from theirs. The teardown by the server is owed only once the download has ended.
- `NoGoroutineLeak` of the uplink says that a blocked Write returns once the session has ended. That rests on the application: when the context ends while the uploader paces, `runPacketUploader` returns and leaves the accumulator open (`client.go:966`), and a Write that waits for room is freed by the application's own Close, which is assumed to come once its download has ended (`DownloadEnded /\ AppClose`). What the code frees by itself are the uploader and the POST goroutines.
- `GrpcStream`: a Write that has the mutex of a response's body goes on when the client makes room, which is never owed; `CloseUnblocks` says that this is all it can wait for.
- `UploadQueue!LiveSpec` and the uplink assume an upper layer that keeps reading, as a copy loop does.
- `BatchAccumulator!FairSpec` assumes weak fairness of woken writers and of the uploader's drain.
- `ServerSession` has strong fairness for closing the `flushWriter`: a writer may take and release its mutex again and again, and a Go mutex hands itself to a waiter that starves.
- `H1Pool` assumes a peer that answers a request it has received, or whose connection breaks; a call on a silent connection would wait, as the code does. Dials end. `SendReturns` needs no assumption on how many pooled connections are dead.
- Timers fire; a request whose context is cancelled ends. A request of the network is never assumed to succeed. `StreamDial` assumes that connecting ends, in a connection or an error, but not that a response ever comes.

## 6. Proofs

All theorems hold for every value of the constants that satisfies the named
assumptions of the module.

### Server: `ServerProofs`

The queue, for any finite set of POSTs, any limit and any buffer sizes:

- `TypeCorrect` by the invariant `Base`, which adds to the type that channel and heap hold accepted packets, each in one place once, and how much has been cut off each.
- `ReadsInOrder`: `InOrder` is not inductive, because it does not say where the next byte comes from. `Cursor` does: what is delivered ends exactly where the rest of the packet due begins, and nothing is cut off a later packet. The theorem assumes `RepeatsFit` (a packet that arrives twice fits into every buffer); without it the claim is false, which is finding 1.
- `NothingForgotten`, from `Base` alone.
- `MemoryIsBounded`, by `Room`, which bounds the heap differently when Read is idle and when it is blocked.
- `OverflowIsJustified`, which also needs that everything dropped was accepted.

The sessions, for any number of requests of every kind:

- `ServerTypeCorrect`, with `HasSession`: who is past `upsertSession` has a session.
- `BodyIsReleased`, from `Attached`, which ties a decided uplink to the POST that decided it.
- `WritesAreJoined`, from `Joined`: past the first phase of `splitConn.Close` the writer is closed and idle, and a handler past its join has seen the whole of it.
- `SessionStaysMapped`, from `Mapped`, under the assumption `OneGet` (each mix has at most one download).

### Uplink buffer: `BatchAccumulatorProofs`

For any number of writers, any batch size and any lengths of writes:
`BytesInOrder`, `BufferIsBounded`, `NoWakeupIsLost`. `Fifo`
and `NoLostWakeup` are inductive once the types are known; `Bounded` needs
`Sized`, that a woken writer appends as much as it came with. The bytes are
handled as runs of consecutive numbers (`From`), which appending joins
(`JoinedRuns`) and Drain cuts (`CutRun`).

### Uplink: `PacketUplinkProofs`

For any sizes of writes, batches and buffers, any number of POSTs and of
repetitions, and all faults:

- `UplinkIsStream`, that a session implements `ByteStream`. The accumulator's steps within the uplink are steps of `BatchAccumulator` (`AccumulatorStep`), so its theorems are used as they stand: what was drained is a beginning of what was accepted, in order. `Packets` and `Dispatch` say that the POSTs sent so far cut what was drained into consecutive packets, in every phase of the uploader; `Arrival`, that only what was sent can be at the server; `Reading`, where in which packet the reader is. Unlike `ReadsInOrder` this needs no `RepeatsFit`. Over HTTP/2 nothing is repeated; over HTTP/1.1 `InTurn` holds: a POST is sent after the one before it was taken (`Paced`), so the heap never holds two packets (`Alone`), and what finding 1 needs does not arise between this client and this server. A session made anew may have swallowed a packet the client takes for delivered; `Kept` says that the queue was closed then and that no later packet is on its way into it, so that the reader sees no gap.
- `OrderedOverH1`, from `InTurn`: over HTTP/1.1 the queue neither reorders nor overflows, which is what `src/README.md` says of it. Over HTTP/2 it is false (section 4).
- `ErrorSurfaces`, from `Surfacing`: whoever closes the accumulator while the application has not, its stored error is that of a POST.

### Client: `DialProofs`

The stream dials, in both modes: `IInv` joins the type with `Holders` (who
holds the response body, by the control state of each caller), `Order` (which
steps can have happened before which) and `Counted` (closings counted against
the state of the body, releases against that of `closeAll` or of the error path). From it `TypeCorrect`, `SingleOwner`, `ClosedOnce` and
`EndIsNotTeardown`.

The pool, for any number of sessions and connections and any limits:

- `PicksAreLimited` and `PoolIsOpen`, from `PoolInv`: with `Budgets`, the picks of a connection and what is left of its budget always add up to the budget.
- `SpawnsAreJustified`, from `Counts`, which says what `openUsage` counts in every state, rotations included: the sessions dialled on the connection, plus the uploaders that use it, less those that began on it, plus those that move to it. Before a rotation that is the number of its sessions (`UsageBeforeRotation`); after one it is not, which is finding 2.

### Framing: `GrpcStreamProofs`

For any number of writers and any sizes of writes, chunks and buffers (the
assumption `WriterAssumption` only says that no writer is called as the free
mutex is):

- `StreamInOrder`: `InOrder` says nothing of the bytes on their way. `Framed` does: from the reader's place on the body is a row of whole messages with the next bytes sent, and after them comes nothing, a malformed header, or a message that was cut and that no Write will follow (`Dead`). A parse is recursive, and so outside the prover; the row is given instead by the set of places where a message begins and the number of bytes sent before each. Once Read has failed, was closed (`Stopped`) or waits inside a cut message (`Stuck`), the body no longer matters. That two writes do not mix follows from `Runs`: the bytes of the Write that has `mu` come last.
- `EndIsClean`, from the same invariant: a reader between two messages of an empty body has everything, and after io.EOF nothing can be sent.
- `StatusIsHonest`, from `Published`: `Close` gets the mutex before `finish`, and no Read begins after it.

`StreamInv` quantifies over all sets of places, so TLC cannot evaluate it: it is
proved, and TLC checks what follows from it.

### Transports: `H2ConnProofs`, `H2WriteProofs`, `TransportProofs`

The rewriting connection, for any number of streams and frames, any lengths of
header blocks and any sizes the peer announces. The properties speak of the
wire, where a frame arrives long after the table was changed for it, and Write
and Read change the table in between; `H2Inv` therefore speaks of `Out`, the wire
and the output not yet written, and of `Noted`, how many frames of x/net the
table knows.

- `Source` and `Peer`: x/net opens streams in order and acknowledges what it received; the peer speaks of streams it knows.
- `Table`: the table is a function of what both sides have said so far.
- `InBlock` and `Mirror`: what comes out stands for what went in, but for the block in hand, of which nothing has come out.
- `Limit` and `Sizes`: `maxFrame` is the size last announced; every header frame fits a size that the peer, by the SETTINGS acknowledged so far, still has to accept.
- `Parents`: the parent was the youngest open stream when `parentStream` looked, by the frames of the peer observed until then. The frame carries that moment; what the peer closes later does not count.

`H2Invariant` is the invariant; `RewritingIsTransparent`, `FramesFit`,
`TableIsExact` and `ParentsAreOpen` follow from it.

The raw pool, for any number of concurrent calls: `Held` says that a connection
is in the pool, held by one call, gone or not yet dialled; `Carried` what is on
it in each case; `Answers` on which connection a request was answered. From
their conjunction follow `PooledAreIdle`, `ErrorsAreOwn`, `RepeatsAreForced`, and
`AnswersAreOwn`: the refinement of `AtLeastOnce`, by cases over the actions, each
of which maps to `Call`, `Answer`, `Succeed`, `Fail` or a stutter.

`TransportIsSafe` puts the two together: whatever version was decided, at most one
of the carriers leaves its initial state, and it runs as it does alone, so
every transport has the properties of both.

### Only model-checked

- All liveness (`CloseUnblocks` of queue and framing, `AllDelivered`, `AcceptedIsDrained`, `EventuallyDelivered`, `NoGoroutineLeak`, `Released`, `CallsUnblocked`, `TornDown`, `SendReturns`): fairness and ENABLED are outside the prover.
- `RoutedAsMeant` and `ValidOptionsWork` of `RequestRouting`, whose cutting and joining of payloads is recursive: what it computes for every payload needs an induction over data, which is outside the prover too.

## 7. Not modelled

- Tokenish padding (`generateTokenishBase62` and its check): it lengthens or shortens a random string up to 150 times towards the wanted Huffman length, so whether the result is accepted depends on the string drawn. Padding of responses, which nothing reads back.
- HPACK and the order of header fields in `h2_conn.go`: data that is decoded, sorted and encoded again. The `errInvalidH2Write` branches for input x/net never produces (padding, malformed or out-of-order frames).
- A GET without a session ID (`server.go:613-636`): it joins no session, and its connection reads from `io.NopCloser(io.Reader(nil))`. No client sends one; `RequestRouting` has its dispatch, `ServerSession` not what follows.
- HTTP/3: quic-go does the work; `Transport` only knows that neither carrier here is used.
- The limits of x/net and net/http themselves, apart from the header limit.
- Construction of TLS, QUIC and HTTP objects, host matching, CORS headers, registration, logging: no state of their own.
- Wall-clock time: intervals, expiry and the 30 s reaper may strike at any moment.
- Sequence numbers are not given their 64-bit width: a session would have to send 2^64 POSTs.

## 8. What would come next

1. `PacketUplink` over `AtLeastOnce` by INSTANCE, instead of its own transport that resends a bounded number of times.
2. `RequestRouting` with the pieces of a payload given by their places instead of recursively, so that the round trip of a payload can be proved.
