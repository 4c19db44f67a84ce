---------------------------- MODULE UploadQueue ----------------------------
(***************************************************************************)
(* The server's packet-up reassembly queue (xhttp/upload_queue.go).        *)
(*                                                                         *)
(* Every POST of a session calls Push once, from its own handler           *)
(* goroutine; one reader (the upper layer, through splitConn and           *)
(* lazyStreamReader) calls Read again and again; any goroutine may Close.  *)
(*                                                                         *)
(* The bytes of the client's stream are named by their positions 1, 2, 3   *)
(* and so on.  A packet is an interval of the stream, so that what Read    *)
(* copied out is right exactly when it is 1, 2, 3...  The bytes of p's     *)
(* payload that Read has already cut off (p.payload = p.payload[n:]) are   *)
(* counted in off[p].                                                      *)
(***************************************************************************)
EXTENDS Integers, Sequences, FiniteSets

CONSTANTS
  Posts,              \* the POST requests of the session, one Push call each
  ScMaxBufferedPosts, \* the argument of newUploadQueue
  ReadSizes,          \* the lengths of the buffers the upper layer reads into
  Workloads           \* the assignments of packets to POSTs considered

Packet == [seq : Nat, start : Nat, len : Nat]

\* Packets are consecutive intervals of the stream, and a repeated sequence
\* number is a repetition of the same packet.
WellFormed(w) ==
  /\ \A p \in Posts : w[p].seq = 0 => w[p].start = 0
  /\ \A p, q \in Posts : w[q].seq = w[p].seq => w[q] = w[p]
  /\ \A p, q \in Posts :
        w[q].seq = w[p].seq + 1 => w[q].start = w[p].start + w[p].len

ASSUME PostsAssumption == IsFiniteSet(Posts)
ASSUME BufferAssumption == ScMaxBufferedPosts \in Int
ASSUME ReadAssumption == ReadSizes \subseteq Nat
ASSUME WorkloadAssumption ==
  \A w \in Workloads : w \in [Posts -> Packet] /\ WellFormed(w)

\* newUploadQueue's normalisation of its argument.
maxBuffered == IF ScMaxBufferedPosts <= 0 THEN 30 ELSE ScMaxBufferedPosts

VARIABLES
  pkt,        \* pkt[p] is the packet POST p carries
  pushPC,     \* where POST p is inside Push: "call", "select", "ok", "err"
  pushed,     \* the buffered channel of packets (the POSTs that sent them)
  closed,     \* q.closed, and q.done being closed (set under one lock)
  heap,       \* the packets in q.heap
  off,        \* bytes of each packet's payload already copied out
  nextSeq,    \* q.nextSeq
  readPC,     \* "idle", or "recv" when Read is blocked in a select
  readLen,    \* len(b) of the Read in progress
  delivered,  \* history: the stream positions Read has returned
  dropped     \* history: the packets lost by a reassembly overflow

pushVars == <<pushPC, pushed>>
readVars == <<heap, off, nextSeq, readPC, readLen, delivered, dropped>>
vars == <<pkt, closed, pushVars, readVars>>

TypeOK ==
  /\ pkt \in [Posts -> Packet]
  /\ pushPC \in [Posts -> {"call", "select", "ok", "err"}]
  /\ pushed \in Seq(Posts)
  /\ closed \in BOOLEAN
  /\ heap \in SUBSET Posts
  /\ off \in [Posts -> Nat]
  /\ nextSeq \in Nat
  /\ readPC \in {"idle", "recv"}
  /\ readLen \in Nat
  /\ delivered \in Seq(Nat)
  /\ dropped \in SUBSET Posts

QueueInit ==
  /\ pushPC = [p \in Posts |-> "call"]
  /\ pushed = <<>>
  /\ closed = FALSE
  /\ heap = {}
  /\ off = [p \in Posts |-> 0]
  /\ nextSeq = 0
  /\ readPC = "idle"
  /\ readLen = 0
  /\ delivered = <<>>
  /\ dropped = {}

Init == pkt \in Workloads /\ QueueInit

-----------------------------------------------------------------------------
(***************************************************************************)
(* Push: the check of q.closed under the lock, then, with the lock         *)
(* released, a select between the send and q.done.  When both are ready    *)
(* Go takes either.                                                        *)
(***************************************************************************)
PushCheck(p) ==
  /\ pushPC[p] = "call"
  /\ pushPC' = [pushPC EXCEPT ![p] = IF closed THEN "err" ELSE "select"]
  /\ UNCHANGED <<pkt, closed, pushed, readVars>>

\* Mutant: the channel has no capacity limit.
MutPushSendUnbounded(p) ==
  /\ pushPC[p] = "select"
  /\ pushed' = Append(pushed, p)
  /\ pushPC' = [pushPC EXCEPT ![p] = "ok"]
  /\ UNCHANGED <<pkt, closed, readVars>>

PushSend(p) ==
  /\ pushPC[p] = "select"
  /\ Len(pushed) < maxBuffered
  /\ pushed' = Append(pushed, p)
  /\ pushPC' = [pushPC EXCEPT ![p] = "ok"]
  /\ UNCHANGED <<pkt, closed, readVars>>

\* Mutant: Push sends without watching q.done.
MutPushAbortNever(p) ==
  /\ pushPC[p] = "call"
  /\ closed
  /\ pushPC' = [pushPC EXCEPT ![p] = "err"]
  /\ UNCHANGED <<pkt, closed, pushed, readVars>>

PushAbort(p) ==
  /\ pushPC[p] = "select"
  /\ closed
  /\ pushPC' = [pushPC EXCEPT ![p] = "err"]
  /\ UNCHANGED <<pkt, closed, pushed, readVars>>

Push(p) == PushCheck(p) \/ PushSend(p) \/ PushAbort(p)

Close ==
  /\ ~closed
  /\ closed' = TRUE
  /\ UNCHANGED <<pkt, pushVars, readVars>>

-----------------------------------------------------------------------------
(***************************************************************************)
(* Read.  Only the reader touches the heap and nextSeq, so everything      *)
(* between two blocking selects is one step.  heap.Pop returns a packet of *)
(* least seq; which one among equals depends on the heap's layout, and is  *)
(* a choice here.                                                          *)
(***************************************************************************)
Lowest(H) == {p \in H : \A q \in H : pkt[p].seq <= pkt[q].seq}

Smaller(m, n) == IF m <= n THEN m ELSE n

\* Mutant: a partly copied payload is pushed back uncut.
MutCopyOutUncut(p, H, b) ==
  LET rest == pkt[p].len - off[p]
      n    == Smaller(b, rest)
  IN  /\ delivered' = delivered \o [i \in 1..n |-> pkt[p].start + off[p] + i]
      /\ off' = IF n < rest THEN off ELSE [off EXCEPT ![p] = @ + n]
      /\ heap' = IF n < rest THEN H ELSE H \ {p}
      /\ nextSeq' = IF n < rest THEN nextSeq ELSE pkt[p].seq + 1
      /\ readPC' = "idle"
      /\ UNCHANGED dropped

\* The popped packet p is due: copy, and cut or retire its payload.
CopyOut(p, H, b) ==
  LET rest == pkt[p].len - off[p]
      n    == Smaller(b, rest)
  IN  /\ delivered' = delivered \o [i \in 1..n |-> pkt[p].start + off[p] + i]
      /\ off' = [off EXCEPT ![p] = @ + n]
      /\ heap' = IF n < rest THEN H ELSE H \ {p}
      /\ nextSeq' = IF n < rest THEN nextSeq ELSE pkt[p].seq + 1
      /\ readPC' = "idle"
      /\ UNCHANGED dropped

\* Mutant: the early packet is not put back.
MutParkForgets(p, H) ==
  /\ IF Cardinality(H \ {p}) > maxBuffered
       THEN heap' = H \ {p} /\ dropped' = dropped \cup {p} /\ readPC' = "idle"
       ELSE heap' = H \ {p} /\ dropped' = dropped /\ readPC' = "recv"
  /\ UNCHANGED <<off, nextSeq, delivered>>

\* Mutant: the limit is compared with >=.
MutParkEarly(p, H) ==
  /\ IF Cardinality(H \ {p}) >= maxBuffered
       THEN heap' = H \ {p} /\ dropped' = dropped \cup {p} /\ readPC' = "idle"
       ELSE heap' = H /\ dropped' = dropped /\ readPC' = "recv"
  /\ UNCHANGED <<off, nextSeq, delivered>>

\* The popped packet p is early: give up when too much is buffered, else put
\* it back and wait for another packet.
Park(p, H) ==
  /\ IF Cardinality(H \ {p}) > maxBuffered
       THEN heap' = H \ {p} /\ dropped' = dropped \cup {p} /\ readPC' = "idle"
       ELSE heap' = H /\ dropped' = dropped /\ readPC' = "recv"
  /\ UNCHANGED <<off, nextSeq, delivered>>

\* Mutant: a stale packet is copied out again.
MutReadLoopStale(H, b) ==
  \/ \E p \in Lowest(H) : pkt[p].seq <= nextSeq /\ CopyOut(p, H, b)
  \/ \E p \in Lowest(H) : pkt[p].seq > nextSeq /\ Park(p, H)

\* Mutant: a stale packet is put back like an early one.
MutReadLoopKeepsStale(H, b) ==
  \/ \E p \in Lowest(H) : pkt[p].seq = nextSeq /\ CopyOut(p, H, b)
  \/ \E p \in Lowest(H) : pkt[p].seq # nextSeq /\ Park(p, H)

\* The for loop, entered with heap H: stale packets have the least sequence
\* numbers and are popped and dropped first.
ReadLoop(H, b) ==
  LET live == {p \in H : pkt[p].seq >= nextSeq}
  IN  \/ /\ live = {}
         /\ heap' = {} /\ readPC' = "idle"
         /\ UNCHANGED <<off, nextSeq, delivered, dropped>>
      \/ \E p \in Lowest(live) : pkt[p].seq = nextSeq /\ CopyOut(p, live, b)
      \/ \E p \in Lowest(live) : pkt[p].seq > nextSeq /\ Park(p, live)

\* Read is called with a buffer of length b.
ReadCall(b) ==
  /\ readPC = "idle"
  /\ readLen' = b
  /\ IF heap = {}
       THEN /\ readPC' = "recv"
            /\ UNCHANGED <<heap, off, nextSeq, delivered, dropped>>
       ELSE ReadLoop(heap, b)
  /\ UNCHANGED <<pkt, closed, pushVars>>

\* Either select of Read receives a packet and the loop goes on.
ReadRecv ==
  /\ readPC = "recv"
  /\ pushed # <<>>
  /\ pushed' = Tail(pushed)
  /\ ReadLoop(heap \cup {Head(pushed)}, readLen)
  /\ UNCHANGED <<pkt, closed, pushPC, readLen>>

\* Either select of Read sees q.done: io.EOF.
ReadEOF ==
  /\ readPC = "recv"
  /\ closed
  /\ readPC' = "idle"
  /\ UNCHANGED <<pkt, closed, pushVars, heap, off, nextSeq, readLen,
                 delivered, dropped>>

Read == (\E b \in ReadSizes : ReadCall(b)) \/ ReadRecv \/ ReadEOF

-----------------------------------------------------------------------------
Next == (\E p \in Posts : Push(p)) \/ Close \/ Read

Spec == Init /\ [][Next]_vars

(***************************************************************************)
(* Goroutines are scheduled: a Push or a Read that can go on does.  Live   *)
(* adds an upper layer that keeps reading, as a copy loop does.            *)
(***************************************************************************)
FairSpec ==
  /\ Spec
  /\ \A p \in Posts : WF_vars(Push(p))
  /\ WF_vars(ReadRecv \/ ReadEOF)

LiveSpec == FairSpec /\ WF_vars(Read)

-----------------------------------------------------------------------------
\* "Read ... returns reassembled bytes in seq order": what was copied out is
\* the beginning of the client's stream, nothing missing, repeated or swapped.
InOrder == \A i \in DOMAIN delivered : delivered[i] = i

\* A packet whose Push returned nil is never forgotten: it is in the channel,
\* in the heap, already consumed (or a duplicate of a consumed one), or it is
\* the packet that an overflow threw away.
Accounted ==
  \A p \in Posts :
    pushPC[p] = "ok" =>
      \/ \E i \in DOMAIN pushed : pushed[i] = p
      \/ p \in heap
      \/ pkt[p].seq < nextSeq
      \/ p \in dropped

\* What a session can make the server hold: the channel up to its capacity
\* and at most maxBuffered + 2 packets in the heap, the last of which is the
\* remainder of the packet being read.
MemoryBound ==
  /\ Len(pushed) <= maxBuffered
  /\ Cardinality(heap) <= maxBuffered + 2
  /\ Cardinality({p \in heap : pkt[p].seq > nextSeq}) <= maxBuffered + 1

\* Read reports a reassembly overflow only when more than maxBuffered packets
\* besides the lost one were accepted ahead of a missing one.
OverflowJustified ==
  \A d \in dropped :
    Cardinality({p \in Posts : pushPC[p] = "ok" /\ pkt[p].seq >= pkt[d].seq})
      >= maxBuffered + 2

\* README.md, sc_max_buffered_posts: "limits how many out-of-order POSTs the
\* server holds before EOF-ing the session".
HeldWithinLimit ==
  Cardinality({p \in heap : pkt[p].seq > nextSeq}) <= maxBuffered

\* Close wakes every blocked Push and a blocked Read (done is a channel of its
\* own for this, upload_queue.go).
CloseUnblocks ==
  /\ \A p \in Posts :
       (closed /\ pushPC[p] = "select") ~> (pushPC[p] \in {"ok", "err"})
  /\ (closed /\ readPC = "recv") ~> (readPC = "idle")

\* With a reader that keeps reading, back-pressure never wedges: the whole
\* stream gets out unless the queue is closed or overflows.
AllDelivered ==
  <>(closed \/ dropped # {} \/ \A p \in Posts : pkt[p].seq < nextSeq)
=============================================================================
