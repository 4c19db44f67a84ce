------------------------------- MODULE H2Conn -------------------------------
(***************************************************************************)
(* chromeH2Conn: the connection under x/net/http2 that rewrites what the   *)
(* client writes into the frames a browser would write.  Writers of x/net  *)
(* call Write with bytes cut anywhere; its read loop calls Read, which     *)
(* watches the peer's frames go by.  The two share the table of open       *)
(* streams and the peer's maximum frame size.                              *)
(*                                                                         *)
(* The part of a frame at the end of a Write waits in writeBuf, and of one *)
(* at the end of a Read in readBuf: it counts as not yet written, or read. *)
(* x/net's client writes no padding, no priority and no trailers; its      *)
(* sequence of frames is a legal one, so the errInvalidH2Write branches    *)
(* about malformed input are left out.  Header fields and HPACK are data:  *)
(* the new encoding of a block has any length of Blocks.                   *)
(***************************************************************************)
EXTENDS Integers, Sequences

CONSTANTS Streams,       \* 1 .. n: the streams x/net may open, in this order
          FrameSizes,    \* values the peer may choose for SETTINGS_MAX_FRAME_SIZE
          DefaultSize,   \* 16384
          Blocks,        \* the lengths of a header block, in the unit of FrameSizes
          MaxFrames,     \* bounds the frames of x/net, its SETTINGS included
          MaxAnswers     \* bounds the frames of the peer

ASSUME StreamsAssumption == Streams \subseteq Nat \ {0}
ASSUME LengthsAssumption ==
  FrameSizes \subseteq Nat \ {0} /\ DefaultSize \in Nat \ {0} /\ Blocks \subseteq Nat

VARIABLES src,       \* the frames x/net has produced
          done,      \* how many of them Write has taken out of writeBuf
          wpc,       \* where Write is
          block,     \* headerBlock, or <<>>
          output,    \* the frames of this Write
          wire,      \* the frames that reached the peer
          writeErr,
          order,     \* the open streams, in the order of their HEADERS
          ended,     \* h2StreamState of each: a subset of {"local", "remote"}
          maxFrame,  \* peerMaxFrameSize
          answers,   \* the peer's frames observeRead has looked at
          seen       \* how many of them x/net has been given

wVars == <<src, done, wpc, block, output, wire, writeErr>>
tVars == <<order, ended>>
rVars == <<answers, seen>>
h2Vars == <<wVars, tVars, maxFrame, rVars>>

\* The settings x/net sends for newChromeLikeH2Transport, in its order, and those
\* of a browser, which leaves out 5: its value is the default.
initialSettings == <<2, 4, 5, 6, 1>>
want == <<1, 2, 4, 6>>

\* Other ids are errInvalidH2Write, here <<>>; x/net never sends them.
chromiumInitialSettings(ids) ==
  IF {ids[i] : i \in DOMAIN ids} = {want[i] : i \in DOMAIN want} \cup {5} THEN want ELSE <<>>

Settings(ids) == [t |-> "SETTINGS", ids |-> ids]
PeerSettings(v) == [t |-> "SETTINGS", size |-> v]
Ack(k) == [t |-> "ACK", of |-> k]       \* the peer's frame k; ACKs come in that order
Headers(s, end, last, n, parent) ==
  [t |-> "HEADERS", s |-> s, end |-> end, last |-> last, n |-> n, parent |-> parent]
\* A parent comes with the number of the peer's frames observed when it was chosen.
Parent(s, at) == [s |-> s, at |-> at]
Continuation(s, last, n) == [t |-> "CONTINUATION", s |-> s, last |-> last, n |-> n]
Data(s) == [t |-> "DATA", s |-> s]      \* with END_STREAM: others change nothing here
Reset(s) == [t |-> "RST", s |-> s]

H2Init ==
  /\ src = <<Settings(initialSettings)>>
  /\ done = 0 /\ wpc = "idle"
  /\ block = <<>> /\ output = <<>> /\ wire = <<>> /\ writeErr = FALSE
  /\ order = <<>> /\ ended = [s \in Streams |-> {}]
  /\ maxFrame = DefaultSize
  /\ answers = <<>> /\ seen = 0

\* Of the first n frames of a sequence: one of type t for stream s, the streams
\* they open, reset and end, and whether they acknowledge the peer's frame k.
Carry(frames, n, t, s) == \E i \in 1 .. n : frames[i].t = t /\ frames[i].s = s
Opened(frames, n) == {s \in Streams : Carry(frames, n, "HEADERS", s)}
ResetIn(frames, n, s) == Carry(frames, n, "RST", s)
EndedIn(frames, n, s) ==
  \/ Carry(frames, n, "DATA", s)
  \/ \E i \in 1 .. n : frames[i].t = "HEADERS" /\ frames[i].s = s /\ frames[i].end
Acked(frames, n, k) == \E i \in 1 .. n : frames[i].t = "ACK" /\ frames[i].of = k

\* A frame whose header block goes on with the next one.
GoesOn(f) == f.t \in {"HEADERS", "CONTINUATION"} /\ ~f.last
Unfinished(frames, n) == n > 0 /\ GoesOn(frames[n])

-----------------------------------------------------------------------------
(***************************************************************************)
(* x/net/http2 and the peer, as this connection meets them.                *)
(***************************************************************************)
\* The next frame of the client's HTTP/2 state machine, which writes under a
\* lock of its own and may write on after an error; a block of HEADERS has at
\* most two CONTINUATIONs.
XFrames ==
  LET n == Len(src)
      new == {s \in Streams \ Opened(src, n) : \A q \in Streams : q < s => q \in Opened(src, n)}
      live == {s \in Opened(src, n) : ~ResetIn(src, n, s) /\ ~ResetIn(answers, seen, s)}
      due == {k \in 1 .. seen : answers[k].t = "SETTINGS" /\ ~Acked(src, n, k)}
  IN  IF Unfinished(src, n)
      THEN {Continuation(src[n].s, last, 1) :
              last \in {b \in BOOLEAN : src[n].t = "CONTINUATION" => b}}
      ELSE {Headers(s, end, last, 1, Parent(0, 0)) : s \in new, end \in BOOLEAN, last \in BOOLEAN}
             \cup {Data(s) : s \in {q \in live : ~EndedIn(src, n, q)}}
             \cup {Reset(s) : s \in {q \in live :
                                   ~(EndedIn(src, n, q) /\ EndedIn(answers, seen, q))}}
             \cup {Ack(k) : k \in {j \in due : \A i \in due : j <= i}}

XProduces ==
  /\ wpc = "idle" /\ Len(src) < MaxFrames
  /\ \E f \in XFrames : src' = Append(src, f)
  /\ UNCHANGED <<done, wpc, block, output, wire, writeErr, tVars, maxFrame, rVars>>

\* What the peer sends: SETTINGS, and answers to the streams whose header block
\* it has.  It may have sent one before it reads the client's RST_STREAM.
PeerFrames ==
  LET n == Len(wire)
      m == Len(answers)
      live == {s \in Opened(wire, n) : /\ ~ResetIn(answers, m, s)
                                       /\ ~(Unfinished(wire, n) /\ wire[n].s = s)}
  IN  {PeerSettings(v) : v \in FrameSizes}
        \cup {Data(s) : s \in {q \in live : ~EndedIn(answers, m, q)}}
        \cup {Reset(s) : s \in live}

-----------------------------------------------------------------------------
(***************************************************************************)
(* The stream table, under streamMu.                                       *)
(***************************************************************************)
InTable(s) == \E i \in DOMAIN order : order[i] = s

removeStream(s) ==
  LET at == CHOOSE i \in DOMAIN order : order[i] = s IN
  IF ~InTable(s) THEN UNCHANGED tVars
  ELSE /\ order' = [i \in 1 .. Len(order) - 1 |-> IF i < at THEN order[i] ELSE order[i + 1]]
       /\ ended' = [ended EXCEPT ![s] = {}]

noteEnd(s, side) ==
  IF ~InTable(s) THEN UNCHANGED tVars
  ELSE IF ended[s] \cup {side} = {"local", "remote"} THEN removeStream(s)
  ELSE ended' = [ended EXCEPT ![s] = @ \cup {side}] /\ UNCHANGED order

\* Mutant: END_STREAM on HEADERS is not noted.
MutNoteLocalHeaders(s, end) ==
  /\ order' = IF InTable(s) THEN order ELSE Append(order, s)
  /\ UNCHANGED ended

\* The stream is new: the peer has not ended it, and removeStreamIfDoneLocked finds
\* nothing to do.
noteLocalHeaders(s, end) ==
  /\ order' = IF InTable(s) THEN order ELSE Append(order, s)
  /\ ended' = [ended EXCEPT ![s] = IF end THEN @ \cup {"local"} ELSE @]

\* Mutant: the last stream opened, whether or not it is still in the table.
MutParentStream(s) ==
  LET before == Opened(src, done)
  IN  IF before = {} THEN 0 ELSE CHOOSE p \in before : \A q \in before : q <= p

parentStream(s) ==
  LET others == {i \in DOMAIN order : order[i] # s}
  IN  IF others = {} THEN 0 ELSE order[CHOOSE i \in others : \A j \in others : j <= i]

-----------------------------------------------------------------------------
(***************************************************************************)
(* Write, under writeMu: one frame of writeBuf after the other, then one   *)
(* write of the whole output.                                              *)
(***************************************************************************)
\* Mutant: an error does not stick.
MutWrite ==
  /\ wpc = "idle"
  /\ done < Len(src)
  /\ wpc' = "loop"
  /\ UNCHANGED <<src, done, block, output, wire, writeErr, tVars, maxFrame, rVars>>

\* What x/net flushes.  The frames of a full buffer's rest are those it
\* produces after this Write.
Write ==
  /\ wpc = "idle" /\ ~writeErr
  /\ done < Len(src)
  /\ wpc' = "loop"
  /\ UNCHANGED <<src, done, block, output, wire, writeErr, tVars, maxFrame, rVars>>

\* The loop has a complete frame f of type t in writeBuf.
Frame(t) == wpc = "loop" /\ done < Len(src) /\ src[done + 1].t = t

\* transformWriteFrame for the frames that go out as one frame.
WriteSettings ==
  /\ Frame("SETTINGS")
  /\ output' = Append(output, Settings(chromiumInitialSettings(src[done + 1].ids)))
  /\ done' = done + 1
  /\ UNCHANGED <<src, wpc, block, wire, writeErr, tVars, maxFrame, rVars>>

WriteAck ==
  /\ Frame("ACK")
  /\ output' = Append(output, src[done + 1])
  /\ done' = done + 1
  /\ UNCHANGED <<src, wpc, block, wire, writeErr, tVars, maxFrame, rVars>>

WriteData ==
  /\ Frame("DATA")
  /\ noteEnd(src[done + 1].s, "local")
  /\ output' = Append(output, src[done + 1])
  /\ done' = done + 1
  /\ UNCHANGED <<src, wpc, block, wire, writeErr, maxFrame, rVars>>

WriteReset ==
  /\ Frame("RST")
  /\ removeStream(src[done + 1].s)
  /\ output' = Append(output, src[done + 1])
  /\ done' = done + 1
  /\ UNCHANGED <<src, wpc, block, wire, writeErr, maxFrame, rVars>>

\* startHeaderBlock: the table is locked for noteLocalHeaders and once more for
\* parentStream, so the reader may come between.
StartHeaderBlock ==
  /\ Frame("HEADERS")
  /\ noteLocalHeaders(src[done + 1].s, src[done + 1].end)
  /\ wpc' = "parent"
  /\ UNCHANGED <<src, done, block, output, wire, writeErr, maxFrame, rVars>>

SetParent ==
  LET f == src[done + 1] IN
  /\ wpc = "parent"
  /\ block' = [s |-> f.s, end |-> f.end, parent |-> Parent(parentStream(f.s), Len(answers))]
  /\ IF f.last THEN wpc' = "finish" /\ UNCHANGED done
     ELSE wpc' = "loop" /\ done' = done + 1
  /\ UNCHANGED <<src, output, wire, writeErr, tVars, maxFrame, rVars>>

ContinueHeaderBlock ==
  /\ Frame("CONTINUATION")
  /\ IF src[done + 1].last THEN wpc' = "finish" /\ UNCHANGED done
     ELSE done' = done + 1 /\ UNCHANGED wpc
  /\ UNCHANGED <<src, block, output, wire, writeErr, tVars, maxFrame, rVars>>

\* The priority takes one unit of the first frame.
buildHeaderFrames(b, n, max) ==
  LET first == IF n <= max - 1 THEN n ELSE max - 1
      rest == n - first
      conts == (rest + max - 1) \div max
      size(i) == IF i < conts THEN max ELSE rest - (conts - 1) * max
  IN  <<Headers(b.s, b.end, rest = 0, 1 + first, b.parent)>>
        \o [i \in 1 .. conts |-> Continuation(b.s, i = conts, size(i))]

FinishHeaderBlock ==
  /\ wpc = "finish"
  /\ \E n \in Blocks : output' = output \o buildHeaderFrames(block, n, maxFrame)
  /\ block' = <<>> /\ done' = done + 1 /\ wpc' = "loop"
  /\ UNCHANGED <<src, wire, writeErr, tVars, maxFrame, rVars>>

\* writeAll(p) fails if the connection takes only n frames of p.
writeAll(p, n) == n < Len(p)

\* No complete frame is left: what the loop has put together is written, and
\* after an error every later Write fails.
Flush ==
  /\ wpc = "loop" /\ done = Len(src)
  /\ \E n \in 0 .. Len(output) :
       /\ wire' = wire \o SubSeq(output, 1, n)
       /\ writeErr' = writeAll(output, n)
  /\ output' = <<>> /\ wpc' = "idle"
  /\ UNCHANGED <<src, done, block, tVars, maxFrame, rVars>>

-----------------------------------------------------------------------------
(***************************************************************************)
(* Read: what arrived is observed frame by frame before x/net gets it.     *)
(***************************************************************************)
\* Mutant: the frame size only grows.
MutObserveRead(f) ==
  /\ Len(answers) < MaxAnswers
  /\ CASE f.t = "SETTINGS" -> maxFrame' = (IF f.size > maxFrame THEN f.size ELSE maxFrame) /\ UNCHANGED tVars
       [] f.t = "DATA" -> noteEnd(f.s, "remote") /\ UNCHANGED maxFrame
       [] f.t = "RST" -> removeStream(f.s) /\ UNCHANGED maxFrame
  /\ answers' = Append(answers, f)
  /\ UNCHANGED <<wVars, seen>>

ObserveRead(f) ==
  /\ Len(answers) < MaxAnswers
  /\ CASE f.t = "SETTINGS" -> maxFrame' = f.size /\ UNCHANGED tVars
       [] f.t = "DATA" -> noteEnd(f.s, "remote") /\ UNCHANGED maxFrame
       [] f.t = "RST" -> removeStream(f.s) /\ UNCHANGED maxFrame
  /\ answers' = Append(answers, f)
  /\ UNCHANGED <<wVars, seen>>

ReadReturns ==
  /\ seen < Len(answers)
  /\ seen' = Len(answers)
  /\ UNCHANGED <<wVars, tVars, maxFrame, answers>>

H2Next ==
  \/ XProduces \/ (\E f \in PeerFrames : ObserveRead(f)) \/ ReadReturns
  \/ Write \/ WriteSettings \/ WriteAck \/ WriteData \/ WriteReset
  \/ StartHeaderBlock \/ SetParent \/ ContinueHeaderBlock \/ FinishHeaderBlock \/ Flush

H2Spec == H2Init /\ [][H2Next]_h2Vars

-----------------------------------------------------------------------------
(***************************************************************************)
(* Properties                                                              *)
(***************************************************************************)
\* A frame of x/net and what the peer receives for it.  x/net sends no such frame
\* twice.
Same(f, g) ==
  /\ f.t = g.t
  /\ CASE f.t = "SETTINGS" -> {g.ids[i] : i \in DOMAIN g.ids} \ {5} = {f.ids[i] : i \in DOMAIN f.ids}
       [] f.t = "ACK" -> f.of = g.of
       [] f.t = "HEADERS" -> f.s = g.s /\ f.end = g.end
       [] OTHER -> f.s = g.s
Begins(f) == f.t # "CONTINUATION"

\* frames[i] stands for src[p]: it comes after the same frames as src[p].
StandsFor(frames, i, p) ==
  /\ Begins(src[p]) /\ Same(frames[i], src[p])
  /\ \A k \in 1 .. i - 1 : Begins(frames[k]) => \E q \in 1 .. p - 1 : Same(frames[k], src[q])
  /\ \A q \in 1 .. p - 1 : Begins(src[q]) => \E k \in 1 .. i - 1 : Same(frames[k], src[q])

\* A CONTINUATION follows exactly the frames whose header block goes on.
WholeBlocks(frames) ==
  \A i \in DOMAIN frames :
    IF Unfinished(frames, i - 1)
    THEN frames[i].t = "CONTINUATION" /\ frames[i].s = frames[i - 1].s
    ELSE Begins(frames[i])

\* frames[i] completes a header block that x/net has completed.
Completes(frames, i) ==
  frames[i].t \in {"HEADERS", "CONTINUATION"} /\ frames[i].last =>
    \E p \in DOMAIN src : /\ src[p].t \in {"HEADERS", "CONTINUATION"}
                           /\ src[p].s = frames[i].s /\ src[p].last

\* "It only changes frame-level details": the peer reads what x/net wrote, in
\* its order, and nothing is missing up to where it was written, whatever the
\* cuts of Write and Read and also after a failed write.  A header block stays
\* in one piece and is complete only when x/net's is.
Transparent ==
  /\ WholeBlocks(wire)
  /\ \A i \in DOMAIN wire :
       /\ Begins(wire[i]) => \E p \in DOMAIN src : StandsFor(wire, i, p)
       /\ Completes(wire, i)
  /\ wpc = "idle" /\ ~writeErr /\ ~Unfinished(src, done) =>
       /\ \A q \in 1 .. done : Begins(src[q]) => \E k \in DOMAIN wire : Same(wire[k], src[q])
       /\ ~Unfinished(wire, Len(wire))

\* frames[i] fits a size that the peer has sent after, or with, the last SETTINGS
\* acknowledged before it.
Fits(frames, i) ==
  \E j \in 0 .. Len(answers) :
    /\ j > 0 => answers[j].t = "SETTINGS"
    /\ \A k \in 1 .. i - 1 : frames[k].t = "ACK" => frames[k].of <= j
    /\ frames[i].n <= IF j = 0 THEN DefaultSize ELSE answers[j].size

\* buildHeaderFrames splits by a size the peer allows when the frame reaches it.
FrameSizeHonoured ==
  \A i \in DOMAIN wire : wire[i].t \in {"HEADERS", "CONTINUATION"} => Fits(wire, i)

\* s is closed by the first n of the frames sent and the first m of the peer's.
Closed(s, sent, n, m) ==
  \/ ResetIn(sent, n, s) \/ ResetIn(answers, m, s)
  \/ EndedIn(sent, n, s) /\ EndedIn(answers, m, s)

\* The table holds exactly the streams that are open, in the order they were
\* opened: no END_STREAM or RST_STREAM that crosses a HEADERS leaves one behind.
TableExact ==
  wpc \in {"idle", "loop"} =>
    /\ \A i, j \in DOMAIN order : i < j => order[i] < order[j]
    /\ {order[i] : i \in DOMAIN order} =
         {s \in Opened(src, done) : ~Closed(s, src, done, Len(answers))}

\* Of the streams the first n frames open, p is the last that was open when p was
\* chosen; it is 0 only if none was.
Youngest(p, frames, n) ==
  /\ p.at \in 0 .. Len(answers)
  /\ p.s = 0 \/ (p.s \in Opened(frames, n) /\ ~Closed(p.s, frames, n, p.at))
  /\ \A q \in Opened(frames, n) : q > p.s => Closed(q, frames, n, p.at)

\* The priority of HEADERS names the last of the streams opened before it that was
\* still open, by the frames sent before it and those of the peer observed until
\* parentStream looked: never a closed one, nor the stream itself.
ParentIsOpen ==
  \A i \in DOMAIN wire : wire[i].t = "HEADERS" => Youngest(wire[i].parent, wire, i - 1)
=============================================================================
