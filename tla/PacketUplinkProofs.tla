------------------------- MODULE PacketUplinkProofs -------------------------
(***************************************************************************)
(* The packet-up uplink end to end, for all sizes of writes, batches and   *)
(* read buffers, any number of POSTs and repetitions, and every fault.     *)
(*                                                                         *)
(* The accumulator's part of the state behaves as BatchAccumulator, whose  *)
(* theorems are used as they are.  The invariant connects them with the    *)
(* reader at the other end: Packets and Dispatch (the POSTs sent so far    *)
(* cut what was drained into consecutive packets), Arrival (what is under  *)
(* way was sent), Reading (where the reader is in its packet) and, for     *)
(* HTTP/1.1 with its repeated requests, InTurn: a POST is sent after the   *)
(* one before was answered, so that the reader never meets two copies of   *)
(* a packet at a time.                                                     *)
(***************************************************************************)
EXTENDS PacketUplink, TLAPS

-----------------------------------------------------------------------------
(***************************************************************************)
(* Numbers and sequences.                                                  *)
(***************************************************************************)
\* A number between n and m - 1.
LEMMA Between ==
  ASSUME NEW n \in Nat, NEW m \in Nat, NEW s \in n .. m - 1
  PROVE  s >= n
  OBVIOUS

\* A number from n + 1 on.
LEMMA Above ==
  ASSUME NEW n \in Nat, NEW m \in Int, NEW s \in n + 1 .. m
  PROVE  s \in n .. m /\ s # n
  OBVIOUS

\* Two numbers and how they compare.
LEMMA Compared ==
  ASSUME NEW n \in Nat, NEW m \in Nat
  PROVE  /\ n - 1 \in Int /\ ~(n >= n + 1) /\ ~(n > n)
         /\ n < m \/ n >= m
         /\ ~(n < m /\ n >= m)
         /\ n > m => m \in m .. n - 1
  OBVIOUS

\* An element of a sequence, and the places before it.
LEMMA Earlier ==
  ASSUME NEW S, NEW q \in Seq(S), NEW i \in DOMAIN q
  PROVE  q[i] \in S /\ i \in Nat /\ \A j \in 1 .. i - 1 : j \in DOMAIN q
  OBVIOUS

\* The channel without its head.
LEMMA Tailing ==
  ASSUME NEW S, NEW q \in Seq(S), q # <<>>
  PROVE  /\ Tail(q) \in Seq(S) /\ Head(q) \in S /\ Head(q) = q[1] /\ 1 \in DOMAIN q
         /\ \A i \in DOMAIN Tail(q) : i \in Nat /\ i + 1 \in DOMAIN q /\ Tail(q)[i] = q[i + 1]
         /\ \A i \in DOMAIN q : i = 1 \/ (i - 1 \in DOMAIN Tail(q) /\ Tail(q)[i - 1] = q[i])
<1>1. /\ Tail(q) \in Seq(S) /\ Head(q) \in S /\ Head(q) = q[1] /\ Len(q) \in Nat /\ Len(q) > 0
      /\ Len(Tail(q)) = Len(q) - 1
  OBVIOUS
<1> QED
  OBVIOUS

\* What is appended to what was delivered.
LEMMA Appended ==
  ASSUME NEW d \in Seq(Nat), \A i \in DOMAIN d : d[i] = i, NEW n \in Nat,
         NEW e, e = d \o [i \in 1 .. n |-> Len(d) + i]
  PROVE  e \in Seq(Nat) /\ Len(e) = Len(d) + n /\ \A i \in DOMAIN e : e[i] = i
<1> DEFINE f == [i \in 1 .. n |-> Len(d) + i]
<1>1. Len(d) \in Nat
  OBVIOUS
<1>2. f \in Seq(Nat) /\ Len(f) = n /\ \A i \in 1 .. n : f[i] = Len(d) + i
  OBVIOUS
<1> HIDE DEF f
<1>3. e = d \o f
  BY DEF f
<1>4. e \in Seq(Nat) /\ Len(e) = Len(d) + n
  OBVIOUS
<1>5. ASSUME NEW i \in 1 .. Len(d) + n PROVE e[i] = i
  OBVIOUS
<1> QED
  BY <1>4

-----------------------------------------------------------------------------
(***************************************************************************)
(* The invariant.                                                          *)
(***************************************************************************)
Sent(s) == post[s] # "none"
Start(s) == pkt[<<s, 0>>].start
End(s) == pkt[<<s, 0>>].start + pkt[<<s, 0>>].len

\* How many bytes the first n packets carry.
Taken(n) == IF n = 0 THEN 0 ELSE End(n - 1)

Packets ==
  /\ \A p \in Posts : pkt[p] = pkt[<<p[1], 0>>] /\ pkt[p].seq = p[1]
  /\ \A s \in Seqs : Sent(s) => Start(s) = Taken(s) /\ End(s) <= Len(drained)
  /\ \A s, t \in Seqs : Sent(t) /\ s < t => Sent(s)

Dispatch ==
  /\ upPC \in {"top", "drain", "got"} =>
       /\ seq = 0 \/ seq - 1 \in Seqs
       /\ \A s \in Seqs : Sent(s) <=> s < seq
  /\ upPC = "send" =>
       /\ seq > 0 /\ (seq = 1 \/ seq - 2 \in Seqs)
       /\ \A s \in Seqs : Sent(s) <=> s < seq - 1
  /\ upPC = "wait" => seq > 0 /\ \A s \in Seqs : Sent(s) <=> s < seq
  /\ upPC \in {"top", "drain"} => Taken(seq) = Len(drained)
  /\ upPC = "wait" /\ seq - 1 \in Seqs => Taken(seq) = Len(drained)
  /\ upPC \in {"got", "send"} => chunk # <<>> /\ chunk[1] = Len(drained) - Len(chunk) + 1
  /\ upPC = "got" => Taken(seq) = Len(drained) - Len(chunk)
  /\ upPC = "send" => Taken(seq - 1) = Len(drained) - Len(chunk)

Arrival ==
  /\ \A p \in wire : Sent(p[1]) /\ (transport = "h2" => p[2] = 0)
  /\ \A p \in Posts : pushPC[p] # "call" => p \in wire
  /\ \A i \in DOMAIN pushed : pushed[i] \in wire
  /\ heap \subseteq wire

\* Where the reader is, with the packets H in its heap: in the packet that is
\* due, or between two packets.
Cursor(H) ==
  /\ \A p \in Posts : off[p] <= pkt[p].len
  /\ \A p \in Posts : p[1] > nextSeq \/ (p[1] = nextSeq /\ p \notin H) => off[p] = 0
  /\ nextSeq = 0 \/ (nextSeq - 1 \in Seqs /\ Sent(nextSeq - 1))
  /\ \A p \in H : p[1] = nextSeq => Len(delivered) = Start(nextSeq) + off[p]
  /\ (\A p \in H : p[1] # nextSeq) => Len(delivered) = Taken(nextSeq)

Reading ==
  /\ Cursor(heap) /\ Q!InOrder
  /\ readPC = "recv" => \A p \in heap : p[1] > nextSeq

\* The server took the payload of POST s.
Answered(s) == \E p \in Posts : p[1] = s /\ pushPC[p] = "ok"

InChannel(p) == \E i \in DOMAIN pushed : pushed[i] = p

\* A POST is sent after the one before it was answered.
Paced ==
  /\ \A s \in wrote : Answered(s) \/ failed
  /\ \A s, t \in Seqs : Sent(t) /\ s < t => Answered(s)
  /\ upPC = "top" /\ ~failed => \A s \in Seqs : s < seq => Answered(s)
  /\ upPC \in {"drain", "got"} => \A s \in Seqs : s < seq => Answered(s)
  /\ upPC = "send" => \A s \in Seqs : s < seq - 1 => Answered(s)

\* The queue has packet p, or is past it.
Held(p) == InChannel(p) \/ p \in heap \/ p[1] < nextSeq

\* A session made anew swallowed packet s, and no later packet waits to enter
\* the queue.
Swallowed(s) == qClosed /\ \A q \in Posts : q[1] > s => pushPC[q] # "select"

\* What the server answered is in the queue, or nothing follows it there.
Kept == \A s \in Seqs : Answered(s) => Swallowed(s) \/ \E p \in Posts : p[1] = s /\ Held(p)

\* The queue holds at most one packet, the one that is due, and every packet
\* comes out of the channel after the ones before it.
Alone ==
  /\ \A p, q \in heap : p = q
  /\ \A p \in heap : p[1] = nextSeq
  /\ \A i \in DOMAIN pushed : \A s \in nextSeq .. pushed[i][1] - 1 :
       (\E j \in 1 .. i - 1 : pushed[j][1] = s) \/ (\E p \in heap : p[1] = s)
  /\ dropped = {}

InTurn == Paced /\ Kept /\ Alone

Failing == \A s \in Seqs : post[s] \in {"failed", "closing", "joined"} => failed

\* The types of everything but the accumulator.
Types ==
  /\ transport \in Transports
  /\ pkt \in [Posts -> [seq : Nat, start : Nat, len : Nat]]
  /\ pushPC \in [Posts -> {"call", "select", "ok", "err"}]
  /\ pushed \in Seq(Posts)
  /\ heap \in SUBSET Posts
  /\ off \in [Posts -> Nat]
  /\ nextSeq \in Nat
  /\ delivered \in Seq(Nat)
  /\ seq \in Nat
  /\ post \in [Seqs -> {"none", "running", "failed", "closing", "joined", "ended"}]
  /\ wire \in SUBSET Posts
  /\ wrote \in SUBSET Seqs
  /\ readLen \in Nat

Inv ==
  /\ Types /\ Packets /\ Dispatch /\ Arrival /\ Reading /\ Failing
  /\ transport = "h1" => InTurn

\* The accumulator is closed, with the error of a POST as long as the
\* application has not closed it.
Surfacing ==
  /\ closeAll # "no" \/ appPC # "open" => accClosed
  /\ \A s \in Seqs : post[s] \in {"closing", "joined"} => accClosed
  /\ accClosed /\ appPC = "open" => writeErr = "post"
  /\ PostErrorSurfaces

InOrderOnH1 == transport = "h1" => NeverReorders /\ dropped = {}

-----------------------------------------------------------------------------
(***************************************************************************)
(* What the parts of the invariant depend on.                              *)
(***************************************************************************)
\* The accumulator's part of a state, as the other lemmas need it.
AccOK ==
  /\ chunk \in Seq(Nat) /\ drained \in Seq(Nat) /\ accepted \in Nat /\ writeLen[App] \in Nat
  /\ Len(drained) <= accepted
  /\ \A i \in 1 .. Len(drained) : drained[i] = i

\* Sequence numbers are natural numbers.
LEMMA SeqsNat == Seqs \subseteq Nat
  BY DEF Seqs

\* The numbers of a packet.
LEMMA Numbers ==
  ASSUME Types, NEW s \in Seqs
  PROVE  /\ s \in Nat /\ <<s, 0>> \in Posts
         /\ Start(s) \in Nat /\ End(s) \in Nat /\ Start(s) <= End(s)
<1>1. s \in Nat /\ <<s, 0>> \in Posts
  BY BoundsAssumption DEF Seqs, Posts
<1>2. pkt[<<s, 0>>] \in [seq : Nat, start : Nat, len : Nat]
  BY <1>1, Zenon DEF Types
<1>3. pkt[<<s, 0>>].start \in Nat /\ pkt[<<s, 0>>].len \in Nat
  BY <1>2
<1> QED
  BY <1>1, <1>3 DEF Start, End

\* A POST is its sequence number and the number of the repetition.
LEMMA Parts ==
  ASSUME NEW p \in Posts
  PROVE  p[1] \in Seqs /\ p[1] \in Nat /\ p = <<p[1], p[2]>> /\ <<p[1], 0>> \in Posts
  BY BoundsAssumption DEF Seqs, Posts

\* A step that sends no POST.
SameSent == \A s \in Seqs : Sent(s)' <=> Sent(s)

\* The parts of the invariant that a step leaves alone when it sends no POST and
\* keeps the variables they read: first the content of the POSTs sent,
LEMMA PacketsFrame ==
  ASSUME Types, Packets, SameSent, UNCHANGED <<pkt, drained>>
  PROVE  Packets'
  BY DEF Packets, SameSent, Start, End, Taken

\* the packet uploadLoop has in hand,
LEMMA DispatchFrame ==
  ASSUME Types, Dispatch, SameSent, UNCHANGED <<upPC, seq, pkt, drained, chunk>>
  PROVE  Dispatch'
  BY DEF Dispatch, SameSent, End, Taken

\* the POSTs on their way and at the server,
LEMMA ArrivalFrame ==
  ASSUME Types, Arrival, SameSent, UNCHANGED <<wire, transport, pushPC, pushed, heap>>
  PROVE  Arrival'
<1>1. \A p \in wire : p[1] \in Seqs
  BY DEF Types, Posts
<1> QED
  BY <1>1 DEF Arrival, SameSent

\* the position of Read in the stream,
LEMMA ReadingFrame ==
  ASSUME Types, Reading, SameSent, UNCHANGED <<pkt, readVars>>
  PROVE  Reading'
  BY DEF Reading, Cursor, SameSent, Start, End, Taken, Q!InOrder, readVars

\* the order in which POSTs are sent over HTTP/1.1,
LEMMA PacedFrame ==
  ASSUME Types, Paced, SameSent, UNCHANGED <<wrote, failed, upPC, seq, pushPC>>
  PROVE  Paced'
  BY DEF Paced, SameSent, Answered

\* the order in which the queue takes them,
LEMMA AloneFrame ==
  ASSUME Types, Kept, Alone, UNCHANGED <<pushPC, pushed, heap, nextSeq, dropped>>,
         qClosed => qClosed'
  PROVE  Kept' /\ Alone'
<1>1. Alone'
  BY DEF Alone
<1>2. Kept'
  <2>1. \A s : Answered(s)' <=> Answered(s)
    BY Zenon DEF Answered
  <2>2. \A p : Held(p)' <=> Held(p)
    BY Zenon DEF Held, InChannel
  <2>3. \A s : Swallowed(s) => Swallowed(s)'
    BY Zenon DEF Swallowed
  <2> QED
    BY <2>1, <2>2, <2>3, Zenon DEF Kept
<1> QED
  BY <1>1, <1>2

\* and all of them.
LEMMA InTurnFrame ==
  ASSUME Types, InTurn, SameSent, qClosed => qClosed',
         UNCHANGED <<wrote, failed, upPC, seq, pushPC, pushed, heap, nextSeq, dropped>>
  PROVE  InTurn'
  BY PacedFrame, AloneFrame DEF InTurn

-----------------------------------------------------------------------------
(***************************************************************************)
(* The invariant is kept.                                                  *)
(***************************************************************************)
LEMMA InvStarts == Init => Inv
<1> SUFFICES ASSUME Init PROVE Inv
  OBVIOUS
<1> USE BoundsAssumption
<1>1. /\ transport \in Transports /\ drained = <<>> /\ chunk = <<>>
      /\ pushPC = [p \in Posts |-> "call"] /\ pushed = <<>> /\ heap = {}
      /\ off = [p \in Posts |-> 0] /\ nextSeq = 0 /\ readPC = "idle" /\ readLen = 0
      /\ delivered = <<>> /\ dropped = {}
      /\ pkt = [p \in Posts |-> [seq |-> p[1], start |-> 0, len |-> 0]]
      /\ upPC = "top" /\ seq = 0 /\ failed = FALSE
      /\ post = [s \in Seqs |-> "none"] /\ wire = {} /\ wrote = {}
  BY DEF Init, Acc!Init, Q!QueueInit
<1>2. \A p \in Posts : p[1] \in Seqs /\ p[1] \in Nat /\ <<p[1], 0>> \in Posts
  BY DEF Posts, Seqs
<1>3. Types
  <2>1. pkt \in [Posts -> [seq : Nat, start : Nat, len : Nat]]
    BY <1>1, <1>2, Zenon
  <2>2. pushed \in Seq(Posts) /\ delivered \in Seq(Nat)
    BY <1>1
  <2> QED
    BY <1>1, <2>1 DEF Types
<1>4. Packets
  BY <1>1, <1>2 DEF Packets, Sent
<1>5. Dispatch
  BY <1>1 DEF Seqs
<1>6. Arrival
  BY <1>1 DEF Arrival
<1>7. Reading
  BY <1>1 DEF Reading, Cursor, Taken, Q!InOrder
<1>8. Failing
  BY <1>1 DEF Failing
<1>9. InTurn
  BY <1>1 DEF Seqs
<1> QED
  BY <1>3, <1>4, <1>5, <1>6, <1>7, <1>8, <1>9 DEF Inv

\* Steps that concern the accumulator's clients and the teardown only.
LEMMA QuietStep ==
  ASSUME Inv, qClosed => qClosed',
         UNCHANGED <<transport, drained, chunk, pkt, pushPC, pushed, readVars, upVars, postVars>>
  PROVE  Inv'
<1>1. SameSent /\ Types'
  BY DEF Inv, Types, SameSent, Sent, readVars, upVars, postVars
<1>2. Packets' /\ Dispatch' /\ Arrival' /\ Reading'
  BY <1>1, PacketsFrame, DispatchFrame, ArrivalFrame, ReadingFrame
     DEF Inv, readVars, upVars, postVars
<1>3. Failing'
  BY DEF Inv, Failing, postVars
<1>4. transport' = "h1" => InTurn'
  BY <1>1, InTurnFrame DEF Inv, readVars, upVars, postVars
<1> QED
  BY <1>1, <1>2, <1>3, <1>4 DEF Inv

\* UpTop, UpGot and UpWait move the uploader and send nothing.
LEMMA MoveStep ==
  ASSUME Inv, UpTop \/ UpGot \/ UpWait
  PROVE  Inv'
<1> USE BoundsAssumption
<1>1. UNCHANGED <<transport, drained, chunk, pkt, pushPC, pushed, qClosed, readVars, postVars>>
  BY DEF UpTop, UpGot, UpWait, accVars, queueVars
<1>2. SameSent /\ Types'
  BY <1>1 DEF Inv, Types, SameSent, Sent, readVars, postVars, UpTop, UpGot, UpWait
<1>3. Packets' /\ Arrival' /\ Reading'
  BY <1>1, <1>2, PacketsFrame, ArrivalFrame, ReadingFrame DEF Inv, readVars, postVars
<1>4. Failing'
  BY <1>1 DEF Inv, Failing, postVars
<1>5. Dispatch'
  <2>1. seq \in Nat /\ Dispatch /\ wrote \subseteq Seqs
    BY DEF Inv, Types
  <2>2. CASE UpTop
    BY <1>1, <1>2, <2>1, <2>2 DEF UpTop, Dispatch, SameSent, Taken, End
  <2>3. CASE UpGot
    BY <1>1, <1>2, <2>1, <2>3 DEF UpGot, Dispatch, SameSent, Taken, End
  <2>4. CASE UpWait
    BY <1>1, <1>2, <2>1, <2>4 DEF UpWait, Dispatch, SameSent, Taken, End
  <2> QED
    BY <2>2, <2>3, <2>4
<1>6. ASSUME InTurn PROVE InTurn'
  <2>1. seq \in Nat /\ wrote \subseteq Seqs /\ Dispatch
    BY DEF Inv, Types
  <2>2. UNCHANGED <<wrote, failed, pushPC, pushed, qClosed, heap, nextSeq, dropped>>
    BY <1>1 DEF readVars, postVars
  <2> SUFFICES Paced'
    BY <1>6, <2>2, AloneFrame DEF InTurn, Inv
  <2>3. CASE UpTop
    BY <1>2, <1>6, <2>2, <2>3 DEF UpTop, InTurn, Paced, SameSent, Answered
  <2>4. CASE UpGot
    BY <1>2, <1>6, <2>1, <2>2, <2>4 DEF UpGot, InTurn, Paced, SameSent, Answered
  <2>5. CASE UpWait
    <3>1. upPC' = "top" /\ ~failed => \A s \in Seqs : s < seq => Answered(s)
      <4> SUFFICES ASSUME upPC' = "top", ~failed, NEW s \in Seqs, s < seq PROVE Answered(s)
        OBVIOUS
      <4>1. upPC = "wait" /\ seq - 1 \in wrote /\ seq - 1 \in Seqs /\ s \in Nat
        BY <2>1, <2>5 DEF UpWait, Seqs
      <4>2. Answered(seq - 1) /\ Sent(seq - 1)
        BY <1>6, <2>1, <4>1 DEF InTurn, Paced, Dispatch
      <4>3. CASE s = seq - 1
        BY <4>2, <4>3
      <4>4. CASE s < seq - 1
        BY <1>6, <4>1, <4>2, <4>4, Zenon DEF InTurn, Paced
      <4> QED
        BY <2>1, <4>1, <4>3, <4>4
    <3>2. upPC' \in {"top", "stopped"} /\ seq' = seq
      BY <2>5 DEF UpWait
    <3> QED
      BY <1>2, <1>6, <2>2, <3>1, <3>2 DEF InTurn, Paced, SameSent, Answered
  <2> QED
    BY <2>3, <2>4, <2>5
<1> QED
  BY <1>1, <1>2, <1>3, <1>4, <1>5, <1>6 DEF Inv

\* UpDrain: the chunk is what comes after everything drained before.
LEMMA DrainStep ==
  ASSUME Inv, AccOK, AccOK', UpDrain
  PROVE  Inv'
<1> USE BoundsAssumption
<1>1. UNCHANGED <<transport, pkt, pushPC, pushed, qClosed, readVars, seq, postVars>>
  BY DEF UpDrain, queueVars
<1>2. SameSent /\ Types'
  BY <1>1 DEF Inv, Types, SameSent, Sent, readVars, postVars
<1>3. Arrival' /\ Reading'
  BY <1>1, <1>2, ArrivalFrame, ReadingFrame DEF Inv, readVars, postVars
<1>4. Failing'
  BY <1>1 DEF Inv, Failing, postVars
<1>5. /\ upPC = "drain"
      /\ \/ upPC' \in {"drain", "stopped"}
         \/ upPC' = "got" /\ chunk' # <<>>
  BY DEF UpDrain
<1>6. /\ Len(drained) \in Nat /\ Len(drained') \in Nat /\ Len(drained) <= Len(drained')
      /\ \/ UNCHANGED <<drained, chunk>>
         \/ drained' = drained \o chunk' /\ Len(drained') = Len(drained) + Len(chunk')
  <2>1. UNCHANGED <<drained, chunk>> \/ drained' = drained \o chunk'
    BY Zenon DEF UpDrain, Acc!Drain, Acc!TakeChunk
  <2>2. drained \in Seq(Nat) /\ drained' \in Seq(Nat) /\ chunk' \in Seq(Nat)
    BY DEF AccOK
  <2> QED
    BY <2>1
<1>7. upPC' = "drain" => UNCHANGED <<drained, chunk>>
  BY DEF UpDrain, Acc!Drain, Acc!TakeChunk
<1>8. upPC' = "got" =>
        /\ chunk' # <<>> /\ chunk'[1] = Len(drained') - Len(chunk') + 1
        /\ Len(drained) = Len(drained') - Len(chunk')
  <2> SUFFICES ASSUME upPC' = "got"
               PROVE  /\ chunk'[1] = Len(drained') - Len(chunk') + 1
                      /\ Len(drained) = Len(drained') - Len(chunk')
    BY <1>5
  <2>1. drained' = drained \o chunk' /\ chunk' # <<>>
    BY Zenon DEF UpDrain, Acc!Drain, Acc!TakeChunk
  <2>2. /\ Len(drained') = Len(drained) + Len(chunk') /\ Len(chunk') >= 1
        /\ drained'[Len(drained) + 1] = chunk'[1]
    BY <2>1
  <2>3. drained'[Len(drained) + 1] = Len(drained) + 1
    BY <2>2 DEF AccOK
  <2> QED
    BY <2>2 DEF AccOK
<1>9. Packets'
  <2>2. \A s \in Seqs : End(s) \in Nat
    BY Numbers, Zenon DEF Inv
  <2>3. \A s \in Seqs : Sent(s) => End(s) <= Len(drained')
    BY <1>6, <2>2 DEF Inv, Packets
  <2> QED
    BY <1>1, <1>2, <2>3 DEF Inv, Packets, SameSent, Start, End, Taken
<1>10. Dispatch'
  <2>1. Taken(seq)' = Taken(seq) /\ Taken(seq) = Len(drained)
    BY <1>1, <1>5 DEF Taken, End, Inv, Dispatch
  <2>2. CASE upPC' = "stopped"
    BY <2>2 DEF Dispatch
  <2>3. CASE upPC' = "drain"
    BY <1>1, <1>2, <1>5, <1>7, <2>1, <2>3 DEF Inv, Dispatch, SameSent
  <2>4. CASE upPC' = "got"
    BY <1>1, <1>2, <1>5, <1>8, <2>1, <2>4 DEF Inv, Dispatch, SameSent
  <2> QED
    BY <1>5, <2>2, <2>3, <2>4
<1>11. ASSUME InTurn PROVE InTurn'
  <2>1. Paced'
    BY <1>1, <1>2, <1>5, <1>11 DEF InTurn, Paced, SameSent, Answered, postVars
  <2>2. Kept' /\ Alone'
    BY <1>1, <1>11, AloneFrame DEF Inv, InTurn, readVars
  <2> QED
    BY <2>1, <2>2 DEF InTurn
<1> QED
  BY <1>1, <1>2, <1>3, <1>4, <1>9, <1>10, <1>11 DEF Inv

\* UpSend: packet n follows the packets before it.
LEMMA SendStep ==
  ASSUME Inv, AccOK, UpSend
  PROVE  Inv'
<1>0. PICK n \in Int : n = seq - 1
  BY DEF Inv, Types
<1>1. /\ upPC = "send"
      /\ UNCHANGED <<transport, drained, chunk, pushPC, pushed, qClosed, readVars, seq, wire,
                     wrote, failed>>
  BY DEF UpSend, accVars
<1>a. Kept /\ Alone => Kept' /\ Alone'
  BY <1>1, AloneFrame DEF Inv, readVars
<1>2. CASE upPC' = "stopped" /\ UNCHANGED <<pkt, post>>
  <2>1. SameSent /\ Types'
    BY <1>1, <1>2 DEF Inv, Types, SameSent, Sent, readVars
  <2>2. Packets' /\ Arrival' /\ Reading'
    BY <1>1, <1>2, <2>1, PacketsFrame, ArrivalFrame, ReadingFrame DEF Inv, readVars
  <2>3. Failing' /\ Dispatch'
    BY <1>1, <1>2 DEF Inv, Failing, Dispatch
  <2>4. ASSUME InTurn PROVE InTurn'
    BY <1>1, <1>2, <1>a, <2>1, <2>4 DEF InTurn, Paced, SameSent, Answered
  <2> QED
    BY <1>1, <2>1, <2>2, <2>3, <2>4 DEF Inv
<1>3. CASE /\ upPC' = "wait"
           /\ post' = [post EXCEPT ![n] = "running"]
           /\ pkt' = [p \in Posts |->
                        IF p[1] = n
                          THEN [seq |-> n, start |-> chunk[1] - 1, len |-> Len(chunk)]
                          ELSE pkt[p]]
  <2>1. /\ n \in Nat /\ seq = n + 1 /\ seq \in Nat
        /\ \A s \in Seqs : Sent(s) <=> s < n
        /\ Taken(n) = Len(drained) - Len(chunk)
        /\ chunk # <<>> /\ chunk[1] = Len(drained) - Len(chunk) + 1
        /\ n = 0 \/ n - 1 \in Seqs
    BY <1>0, <1>1 DEF Inv, Types, Dispatch
  <2>2. /\ Len(chunk) \in Nat /\ Len(drained) \in Nat
        /\ chunk[1] - 1 \in Nat /\ chunk[1] - 1 = Taken(n)
        /\ Taken(n) + Len(chunk) = Len(drained)
    <3>1. Len(chunk) \in Nat /\ Len(drained) \in Nat /\ chunk[1] \in Nat
      BY <2>1 DEF AccOK
    <3>2. Taken(n) \in Nat
      BY <2>1, Numbers, Zenon DEF Inv, Taken
    <3> QED
      BY <2>1, <3>2
  <2>3. \A s \in Seqs : Sent(s)' <=> s < seq
    <3> SUFFICES ASSUME NEW s \in Seqs PROVE Sent(s)' <=> s < seq
      OBVIOUS
    <3>1. s \in Nat /\ post'[s] = IF s = n THEN "running" ELSE post[s]
      BY <1>3, Numbers, Zenon DEF Inv, Types
    <3> QED
      BY <2>1, <3>1 DEF Sent
  <2>4. ASSUME NEW s \in Seqs, s # n PROVE Start(s)' = Start(s) /\ End(s)' = End(s)
    BY <1>3, <2>4, Numbers DEF Inv, Start, End
  <2>5. n \in Seqs => Start(n)' = Taken(n) /\ End(n)' = Len(drained)
    <3> SUFFICES ASSUME n \in Seqs PROVE Start(n)' = Taken(n) /\ End(n)' = Len(drained)
      OBVIOUS
    <3>1. pkt'[<<n, 0>>] = [seq |-> n, start |-> chunk[1] - 1, len |-> Len(chunk)]
      BY <1>3, Numbers DEF Inv
    <3> QED
      BY <2>2, <3>1 DEF Start, End
  <2>6. ASSUME NEW s \in Nat, s = 0 \/ (s - 1 \in Seqs /\ s - 1 # n) PROVE Taken(s)' = Taken(s)
    BY <2>4, <2>6 DEF Taken
  <2>7. Types'
    <3>1. pkt' \in [Posts -> [seq : Nat, start : Nat, len : Nat]]
      BY <1>3, <2>1, <2>2 DEF Inv, Types
    <3>2. post' \in [Seqs -> {"none", "running", "failed", "closing", "joined", "ended"}]
      BY <1>3, Zenon DEF Inv, Types
    <3> QED
      BY <1>1, <3>1, <3>2 DEF Inv, Types, readVars
  <2>8. Packets'
    <3>1. ASSUME NEW p \in Posts PROVE pkt'[p] = pkt'[<<p[1], 0>>] /\ pkt'[p].seq = p[1]
      BY <1>3, Parts DEF Inv, Packets
    <3>2. ASSUME NEW s \in Seqs, Sent(s)'
          PROVE  Start(s)' = Taken(s)' /\ End(s)' <= Len(drained')
      <4>1. s \in Nat /\ s <= n /\ (s = 0 \/ s - 1 \in Seqs)
        BY <2>1, <2>3, <3>2, BoundsAssumption DEF Seqs
      <4>2. Taken(s)' = Taken(s)
        BY <2>6, <4>1
      <4>3. CASE s = n
        BY <1>1, <2>5, <4>2, <4>3
      <4>4. CASE s # n
        BY <1>1, <2>1, <2>4, <4>1, <4>2, <4>4 DEF Inv, Packets
      <4> QED
        BY <4>3, <4>4
    <3>3. ASSUME NEW s \in Seqs, NEW t \in Seqs, Sent(t)', s < t PROVE Sent(s)'
      <4>1. s \in Nat /\ t \in Nat /\ t < seq
        BY <2>3, <3>3, SeqsNat
      <4> QED
        BY <2>1, <2>3, <3>3, <4>1
    <3> QED
      BY <3>1, <3>2, <3>3 DEF Packets
  <2>9. Dispatch'
    <3>1. Taken(seq)' = IF seq = 0 THEN 0 ELSE End(n)'
      BY <1>1, <2>1 DEF Taken
    <3> QED
      BY <1>1, <1>3, <2>1, <2>3, <2>5, <3>1 DEF Dispatch
  <2>10. Arrival'
    <3>1. \A p \in wire : p[1] \in Seqs /\ p[1] \in Nat
      BY Parts, Zenon DEF Inv, Types
    <3>2. \A p \in wire : Sent(p[1])'
      BY <2>1, <2>3, <3>1 DEF Inv, Arrival
    <3> QED
      BY <1>1, <3>2 DEF Inv, Arrival, readVars
  <2>11. Reading'
    <3>1. nextSeq \in Nat /\ nextSeq <= n
      BY <2>1 DEF Inv, Types, Reading, Cursor
    <3>2. UNCHANGED <<heap, off, nextSeq, readPC, delivered>>
      BY <1>1 DEF readVars
    <3>3. ASSUME NEW p \in Posts PROVE off[p] <= pkt'[p].len
      <4>1. CASE p[1] = n
        <5>1. p \notin heap
          <6>1. p[1] \in Seqs
            BY Parts, Zenon
          <6>2. ~Sent(p[1])
            BY <2>1, <4>1, <6>1
          <6> QED
            BY <6>2 DEF Inv, Arrival
        <5>2. off[p] = 0
          BY <3>1, <4>1, <5>1 DEF Inv, Reading, Cursor
        <5>3. pkt'[p].len = Len(chunk)
          BY <1>3, <4>1
        <5> QED
          BY <5>2, <5>3
      <4>2. CASE p[1] # n
        BY <1>3, <4>2 DEF Inv, Reading, Cursor
      <4> QED
        BY <4>1, <4>2
    <3>4. Taken(nextSeq)' = Taken(nextSeq)
      <4>1. nextSeq = 0 \/ (nextSeq - 1 \in Seqs /\ nextSeq - 1 # n)
        BY <3>1 DEF Inv, Reading, Cursor
      <4>2. \A k \in Nat : k = 0 \/ (k - 1 \in Seqs /\ k - 1 # n) => Taken(k)' = Taken(k)
        BY <2>6
      <4> QED
        BY <3>1, <3>2, <4>1, <4>2
    <3>5. ASSUME NEW p \in heap, p[1] = nextSeq PROVE Start(nextSeq)' = Start(nextSeq)
      <4>1. p \in Posts /\ Sent(p[1])
        BY DEF Inv, Types, Arrival
      <4>2. nextSeq \in Seqs /\ nextSeq < n
        <5>1. nextSeq \in Seqs
          BY <3>5, <4>1, Parts, Zenon
        <5> QED
          BY <2>1, <3>5, <4>1, <5>1
      <4> QED
        BY <2>4, <3>2, <4>2
    <3>6. nextSeq = 0 \/ (nextSeq - 1 \in Seqs /\ Sent(nextSeq - 1)')
      <4>1. CASE nextSeq # 0
        <5>1. PICK m \in Seqs : m = nextSeq - 1
          BY <4>1 DEF Inv, Reading, Cursor
        <5>2. m < seq
          BY <2>1, <3>1, <5>1
        <5>3. Sent(m)'
          BY <2>3, <5>2
        <5> QED
          BY <3>2, <5>1, <5>3
      <4> QED
        BY <4>1
    <3>8. Cursor(heap)'
      BY <3>2, <3>3, <3>4, <3>5, <3>6 DEF Inv, Reading, Cursor
    <3> QED
      BY <3>2, <3>8 DEF Inv, Reading, Q!InOrder
  <2>12. Failing'
    BY <1>1, <1>3, Zenon DEF Inv, Types, Failing
  <2>13. ASSUME InTurn PROVE InTurn'
    <3>1. ASSUME NEW s \in Seqs, NEW t \in Seqs, Sent(t)', s < t PROVE Answered(s)
      <4>1. s \in Nat /\ t \in Nat /\ t < seq
        BY <2>3, <3>1, SeqsNat
      <4>2. s < n
        BY <2>1, <3>1, <4>1
      <4> QED
        BY <1>0, <1>1, <2>13, <4>2 DEF InTurn, Paced
    <3> QED
      <4>1. \A s : Answered(s)' <=> Answered(s)
        BY <1>1, Zenon DEF Answered
      <4>2. Paced'
        BY <1>1, <1>3, <2>13, <3>1, <4>1 DEF InTurn, Paced
      <4> QED
        BY <1>a, <2>13, <4>2, Zenon DEF InTurn
  <2> QED
    BY <1>1, <2>7, <2>8, <2>9, <2>10, <2>11, <2>12, <2>13 DEF Inv
<1> QED
  BY <1>0, <1>2, <1>3, Zenon DEF UpSend

\* A step of the goroutine of a POST that was sent.
LEMMA PostMoves ==
  ASSUME Inv, NEW s \in Seqs, Sent(s), NEW x \in {"failed", "closing", "joined", "ended"},
         post' = [post EXCEPT ![s] = x]
  PROVE  /\ SameSent
         /\ post' \in [Seqs -> {"none", "running", "failed", "closing", "joined", "ended"}]
  BY DEF Inv, Types, SameSent, Sent

\* The goroutine of a POST keeps the invariant: a POST that ends without an
\* error was answered, and one that fails sets failed first.
LEMMA PostStep ==
  ASSUME Inv, NEW s \in Seqs, PostGoroutine(s)
  PROVE  Inv'
<1>1. UNCHANGED <<transport, drained, chunk, pkt, pushPC, pushed, qClosed, readVars, upVars>>
  BY Zenon DEF PostGoroutine, PostWritten, PostResend, PostOK, PostFail, PostCloseAcc,
    PostCloseAll, PostJoin, queueVars, accVars, Acc!CloseWithError
<1>2. post[s] # "none"
  BY DEF PostGoroutine, PostWritten, PostResend, PostOK, PostFail, PostCloseAcc, PostCloseAll,
    PostJoin
<1>3. CASE PostWritten(s) \/ PostResend(s)
  <2>1. /\ UNCHANGED <<post, failed>>
        /\ transport = "h1" => wrote' = wrote
        /\ wrote' = wrote \/ wrote' = wrote \cup {s}
    BY <1>3 DEF PostWritten, PostResend
  <2>2. PICK c \in 0 .. MaxResend : /\ wire' = wire \/ wire' = wire \cup {<<s, c>>}
                                    /\ c = 0 \/ transport = "h1"
    <3>1. CASE PostWritten(s)
      <4>1. 0 \in 0 .. MaxResend
        BY BoundsAssumption
      <4> QED
        BY <3>1, <4>1 DEF PostWritten
    <3>2. CASE PostResend(s)
      <4>1. \A c \in 1 .. MaxResend : c \in 0 .. MaxResend
        OBVIOUS
      <4> QED
        BY <3>2 DEF PostResend
    <3> QED
      BY <1>3, <3>1, <3>2
  <2>3. <<s, c>> \in Posts /\ <<s, c>>[1] = s /\ <<s, c>>[2] = c
    BY DEF Posts
  <2>4. SameSent /\ Types'
    BY <1>1, <2>1, <2>2, <2>3, Zenon DEF Inv, Types, SameSent, Sent, readVars, upVars
  <2>5. Packets' /\ Dispatch' /\ Reading' /\ Failing'
    BY <1>1, <2>1, <2>4, PacketsFrame, DispatchFrame, ReadingFrame DEF Inv, upVars, Failing
  <2>6. Arrival'
    <3>1. \A p \in wire' : p \in wire \/ p = <<s, c>>
      BY <2>2
    <3>2. wire \subseteq wire' /\ UNCHANGED <<heap, pushed, pushPC, transport, post>>
      BY <1>1, <2>1, <2>2 DEF readVars
    <3>3. ASSUME NEW p \in wire' PROVE Sent(p[1])' /\ (transport' = "h2" => p[2] = 0)
      <4>1. CASE p \in wire
        BY <3>2, <4>1 DEF Inv, Arrival, Sent
      <4>2. CASE p = <<s, c>>
        BY <1>2, <2>2, <3>2, <4>2 DEF Sent
      <4> QED
        BY <3>1, <4>1, <4>2
    <3> QED
      BY <3>2, <3>3 DEF Inv, Arrival
  <2>7. ASSUME InTurn, transport = "h1" PROVE InTurn'
    BY <1>1, <2>1, <2>4, <2>7, InTurnFrame DEF Inv, readVars, upVars
  <2> QED
    BY <1>1, <2>4, <2>5, <2>6, <2>7 DEF Inv
<1>4. CASE PostOK(s) \/ PostFail(s) \/ PostCloseAcc(s) \/ PostCloseAll(s) \/ PostJoin(s)
  <2>1. PICK x \in {"failed", "closing", "joined", "ended"} : post' = [post EXCEPT ![s] = x]
    BY <1>4 DEF PostOK, PostFail, PostCloseAcc, PostCloseAll, PostJoin
  <2>2. /\ wire' = wire
        /\ wrote' = wrote \/ wrote' = wrote \cup {s}
        /\ failed' = failed \/ (failed' /\ wrote' = wrote)
    BY <1>4 DEF PostOK, PostFail, PostCloseAcc, PostCloseAll, PostJoin
  <2>3. \/ x = "ended" /\ failed' = failed /\ PostOK(s)
        \/ failed'
    <3>1. CASE PostOK(s)
      BY <2>1, <3>1 DEF PostOK, Inv, Types
    <3>2. CASE PostFail(s)
      BY <3>2, Zenon DEF PostFail
    <3>3. CASE PostCloseAcc(s) \/ PostCloseAll(s) \/ PostJoin(s)
      <4>1. post[s] \in {"failed", "closing", "joined"} /\ failed' = failed
        BY <3>3 DEF PostCloseAcc, PostCloseAll, PostJoin
      <4> QED
        BY <4>1, Zenon DEF Inv, Failing
    <3> QED
      BY <1>4, <3>1, <3>2, <3>3, Zenon
  <2>4. SameSent /\ Types'
    <3>1. /\ SameSent
          /\ post' \in [Seqs -> {"none", "running", "failed", "closing", "joined", "ended"}]
      BY <1>2, <2>1, PostMoves, Zenon DEF Sent
    <3> QED
      BY <1>1, <2>2, <3>1 DEF Inv, Types, readVars, upVars
  <2>5. Packets' /\ Dispatch' /\ Reading' /\ Arrival'
    BY <1>1, <2>2, <2>4, PacketsFrame, DispatchFrame, ReadingFrame, ArrivalFrame
       DEF Inv, upVars, readVars
  <2>6. Failing'
    BY <2>1, <2>3 DEF Inv, Failing
  <2>7. ASSUME InTurn PROVE InTurn'
    <3>1. \A t \in wrote' : Answered(t) \/ failed'
      <4>1. CASE failed'
        BY <4>1
      <4>2. CASE ~failed'
        <5>1. PostOK(s) /\ failed' = failed
          BY <2>3, <4>2
        <5>2. Answered(s)
          BY <5>1 DEF PostOK, Awaited, Answered, Inv, Types
        <5> QED
          BY <2>2, <2>7, <4>2, <5>1, <5>2, Zenon DEF InTurn, Paced
      <4> QED
        BY <4>2
    <3>2. ~failed' => ~failed
      BY <2>2
    <3>3. upPC' = upPC /\ seq' = seq
      BY <1>1, Zenon DEF upVars
    <3>4. \A t : Answered(t)' <=> Answered(t)
      BY <1>1, Zenon DEF Answered
    <3>5. Paced'
      BY <2>4, <2>7, <3>1, <3>2, <3>3, <3>4 DEF InTurn, Paced, SameSent
    <3>6. Kept' /\ Alone'
      BY <1>1, <2>7, AloneFrame DEF Inv, InTurn, readVars
    <3> QED
      BY <3>5, <3>6, Zenon DEF InTurn
  <2> QED
    BY <1>1, <2>4, <2>5, <2>6, <2>7 DEF Inv
<1> QED
  BY <1>3, <1>4 DEF PostGoroutine

\* The steps of Push: what is pushed was on the wire, and over HTTP/1.1 the
\* packets before it were answered, hence are in the channel, in the heap or
\* consumed.
LEMMA HandlerStep ==
  ASSUME Inv, NEW p \in Posts, ServerHandler(p)
  PROVE  Inv'
<1>1. UNCHANGED <<transport, drained, chunk, pkt, qClosed, readVars, upVars, post, wire, wrote,
                  failed>>
  BY Zenon DEF ServerHandler, FreshSession, Q!Push, Q!PushCheck, Q!PushSend, Q!PushAbort,
    postVars, accVars, Q!readVars, readVars
<1>2. /\ p \in wire /\ pushPC[p] \in {"call", "select"}
      /\ \E x \in {"select", "ok", "err"} : pushPC' = [pushPC EXCEPT ![p] = x]
  BY DEF ServerHandler, FreshSession, Q!Push, Q!PushCheck, Q!PushSend, Q!PushAbort
<1>3. PICK x \in {"select", "ok", "err"} : pushPC' = [pushPC EXCEPT ![p] = x]
  BY <1>2, Zenon
<1>4. \/ pushed' = pushed /\ x = "select" /\ ~qClosed
      \/ pushed' = pushed /\ x = "err"
      \/ pushed' = pushed /\ x = "ok" /\ qClosed
      \/ pushed' = Append(pushed, p) /\ x = "ok" /\ pushPC[p] = "select"
  BY <1>3 DEF ServerHandler, FreshSession, Q!Push, Q!PushCheck, Q!PushSend, Q!PushAbort, Inv,
    Types
<1>5. SameSent
  BY <1>1 DEF SameSent, Sent
<1>6. Types'
  <2>1. pushPC' \in [Posts -> {"call", "select", "ok", "err"}] /\ pushed' \in Seq(Posts)
    <3>1. pushed \in Seq(Posts) /\ pushPC \in [Posts -> {"call", "select", "ok", "err"}]
      BY DEF Inv, Types
    <3>2. pushed' \in Seq(Posts)
      BY <1>4, <3>1
    <3> QED
      BY <1>3, <3>1, <3>2
  <2> QED
    BY <1>1, <2>1, Zenon DEF Inv, Types, readVars, upVars
<1>7. Packets' /\ Dispatch' /\ Reading' /\ Failing'
  BY <1>1, <1>5, PacketsFrame, DispatchFrame, ReadingFrame DEF Inv, upVars, Failing
<1>8. /\ \A i \in DOMAIN pushed : i \in DOMAIN pushed' /\ pushed'[i] = pushed[i]
      /\ \A i \in DOMAIN pushed' : i \in DOMAIN pushed \/ (i = Len(pushed) + 1 /\ pushed'[i] = p)
      /\ pushed' = pushed \/ (Len(pushed) + 1 \in DOMAIN pushed' /\ pushed'[Len(pushed) + 1] = p)
  <2>1. pushed \in Seq(Posts)
    BY DEF Inv, Types
  <2>2. CASE pushed' = pushed
    BY <2>2
  <2>3. CASE pushed' = Append(pushed, p)
    <3>1. /\ Len(pushed) \in Nat /\ DOMAIN pushed = 1 .. Len(pushed)
          /\ DOMAIN pushed' = 1 .. Len(pushed) + 1
          /\ \A i \in 1 .. Len(pushed) : pushed'[i] = pushed[i]
          /\ pushed'[Len(pushed) + 1] = p
      BY <2>3
    <3> QED
      BY <3>1
  <2> QED
    BY <1>4
<1>9. Arrival'
  <2>1. \A q \in Posts : pushPC'[q] # "call" => q \in wire'
    <3>1. \A q \in Posts : q = p \/ pushPC'[q] = pushPC[q]
      BY <1>3 DEF Inv, Types
    <3> QED
      BY <1>1, <1>2, <3>1, Zenon DEF Inv, Arrival
  <2>2. \A i \in DOMAIN pushed' : pushed'[i] \in wire'
    BY <1>1, <1>2, <1>8 DEF Inv, Arrival
  <2> QED
    <3>1. \A q \in wire : q[1] \in Seqs
      BY DEF Inv, Types, Posts
    <3> QED
      BY <1>1, <1>5, <2>1, <2>2, <3>1, Zenon DEF Inv, Arrival, SameSent, readVars
<1>10. ASSUME InTurn PROVE InTurn'
  <2>1. \A q \in Posts : pushPC[q] = "ok" => pushPC'[q] = "ok"
    BY <1>2
  <2>2. \A s \in Seqs : Answered(s) => Answered(s)'
    BY <2>1 DEF Answered
  <2>3. \A q \in Posts : InChannel(q) => InChannel(q)'
    BY <1>8 DEF InChannel
  <2>4. Kept'
    <3>1. \A q \in Posts : Held(q) => Held(q)'
      BY <1>1, <2>3, Zenon DEF Held, readVars
    <3>2. \A s \in Seqs : Swallowed(s) => Swallowed(s)'
      <4> SUFFICES ASSUME NEW s \in Seqs, Swallowed(s) PROVE Swallowed(s)'
        BY Zenon
      <4>1. x # "select"
        BY <1>4, Zenon DEF Swallowed
      <4>2. \A q \in Posts : pushPC'[q] = "select" => pushPC[q] = "select"
        BY <1>3, <4>1 DEF Inv, Types
      <4> QED
        BY <1>1, <4>2, Zenon DEF Swallowed
    <3> SUFFICES ASSUME NEW s \in Seqs, Answered(s)'
                 PROVE  Swallowed(s)' \/ \E q \in Posts : q[1] = s /\ Held(q)'
      BY Zenon DEF Kept
    <3>3. CASE Answered(s)
      BY <1>10, <3>1, <3>2, <3>3, Zenon DEF InTurn, Kept
    <3>4. CASE ~Answered(s)
      <4>1. x = "ok" /\ p[1] = s
        BY <1>3, <3>4 DEF Answered, Inv, Types
      <4>2. CASE pushed' = Append(pushed, p)
        <5>1. pushed' # pushed
          BY <4>2 DEF Inv, Types
        <5>2. InChannel(p)'
          BY <1>8, <5>1 DEF InChannel
        <5> QED
          BY <4>1, <5>2, Zenon DEF Held
      <4>3. CASE qClosed
        <5>1. ASSUME NEW q \in Posts, q[1] > s PROVE pushPC'[q] # "select"
          <6>1. pushPC[q] # "select"
            <7> SUFFICES ASSUME pushPC[q] = "select" PROVE FALSE
              OBVIOUS
            <7>1. q \in wire /\ Sent(q[1]) /\ q[1] \in Seqs
              BY Parts, Zenon DEF Inv, Arrival
            <7>2. s < q[1]
              BY <5>1, <7>1, SeqsNat
            <7> QED
              BY <1>10, <3>4, <7>1, <7>2, Zenon DEF InTurn, Paced
          <6> QED
            BY <1>3, <4>1, <6>1 DEF Inv, Types
        <5> QED
          BY <1>1, <4>3, <5>1, Zenon DEF Swallowed
      <4> QED
        BY <1>4, <4>1, <4>2, <4>3
    <3> QED
      BY <3>3, <3>4
  <2>5. ASSUME NEW i \in DOMAIN pushed', NEW s \in nextSeq .. pushed'[i][1] - 1
        PROVE  (\E j \in 1 .. i - 1 : pushed'[j][1] = s) \/ (\E q \in heap : q[1] = s)
    <3>1. CASE i \in DOMAIN pushed
      <4>1. s \in nextSeq .. pushed[i][1] - 1
        BY <1>8, <3>1
      <4>2. (\E j \in 1 .. i - 1 : pushed[j][1] = s) \/ (\E q \in heap : q[1] = s)
        BY <1>10, <3>1, <4>1, Zenon DEF InTurn, Alone
      <4>3. \A j \in 1 .. i - 1 : j \in DOMAIN pushed
        <5>1. pushed \in Seq(Posts)
          BY Zenon DEF Inv, Types
        <5> QED
          BY <3>1, <5>1, Earlier, Zenon
      <4> QED
        BY <1>8, <4>2, <4>3
    <3>2. CASE i = Len(pushed) + 1 /\ pushed'[i] = p /\ i \notin DOMAIN pushed
      <4>0. pushPC[p] = "select"
        BY <1>4, <3>2, Zenon
      <4>1. p[1] \in Seqs /\ nextSeq \in Nat /\ Sent(p[1])
        BY <1>2 DEF Posts, Inv, Arrival, Types
      <4>2. s \in Seqs /\ s < p[1] /\ s >= nextSeq
        BY <3>2, <4>1, BoundsAssumption DEF Seqs
      <4>3. Answered(s)
        BY <1>10, <4>1, <4>2, Zenon DEF InTurn, Paced
      <4>a. ~Swallowed(s)
        <5>1. p[1] > s
          BY <4>1, <4>2, SeqsNat
        <5> QED
          BY <4>0, <5>1, Zenon DEF Swallowed
      <4>4. PICK q \in Posts : q[1] = s /\ Held(q)
        BY <1>10, <4>2, <4>3, <4>a, Zenon DEF InTurn, Kept
      <4>5. InChannel(q) \/ q \in heap
        <5>1. ~(s < nextSeq)
          BY <4>1, <4>2
        <5> QED
          BY <4>4, <5>1, Zenon DEF Held
      <4>6. ASSUME InChannel(q) PROVE \E j \in 1 .. i - 1 : pushed'[j][1] = s
        <5>1. PICK j \in DOMAIN pushed : pushed[j] = q
          BY <4>6 DEF InChannel
        <5>2. j \in 1 .. i - 1
          <6>1. pushed \in Seq(Posts)
            BY DEF Inv, Types
          <6> QED
            BY <3>2
        <5> QED
          BY <1>8, <4>4, <5>1, <5>2
      <4> QED
        BY <4>4, <4>5, <4>6
    <3> QED
      BY <1>8, <3>1, <3>2, Zenon
  <2> QED
    BY <1>1, <1>5, <1>10, <2>2, <2>4, <2>5, Zenon
       DEF InTurn, Paced, Alone, SameSent, readVars, upVars, Inv, Types
<1> QED
  BY <1>1, <1>6, <1>7, <1>9, <1>10 DEF Inv

-----------------------------------------------------------------------------
(***************************************************************************)
(* Read.                                                                   *)
(***************************************************************************)
\* Read's loop is entered with the packets H, of which at most one is due.
OneDue(H) ==
  /\ H \subseteq wire
  /\ Cursor(H)
  /\ \A p, q \in H : p[1] = nextSeq /\ q[1] = nextSeq => p = q

Live(H) == {p \in H : p[1] >= nextSeq}

\* What a step of the loop leaves.
Advances ==
  /\ off' \in [Posts -> Nat] /\ nextSeq' \in Nat /\ delivered' \in Seq(Nat)
  /\ Len(delivered') >= Len(delivered)

\* Copying out of the packet that is due delivers the next bytes of the
\* stream, and leaves the reader inside it or at the beginning of the next.
LEMMA CopyOutStep ==
  ASSUME Inv, NEW H, OneDue(H), NEW p \in Live(H), p[1] = nextSeq, NEW b \in Nat,
         Q!CopyOut(p, Live(H), b), UNCHANGED <<pkt, post>>
  PROVE  Cursor(heap)' /\ Q!InOrder' /\ Advances
<1>1. PICK n \in Nat : n = nextSeq
  BY DEF Inv, Types
<1>2. p \in H /\ p \in wire /\ p \in Posts /\ p[1] = n /\ n \in Seqs /\ <<n, 0>> \in Posts
  BY <1>1, Parts DEF Inv, Types, OneDue, Live
<1>3. PICK a \in Nat, l \in Nat :
        /\ pkt[p].start = a /\ pkt[p].len = l /\ pkt[p].seq = n
        /\ Start(n) = a /\ End(n) = a + l
  <2>1. pkt[p] = pkt[<<n, 0>>] /\ pkt[p].seq = n
    BY <1>2, Zenon DEF Inv, Packets
  <2>2. pkt[p] \in [seq : Nat, start : Nat, len : Nat]
    BY <1>2 DEF Inv, Types
  <2> QED
    BY <2>1, <2>2 DEF Start, End
<1>4. PICK o \in Nat : off[p] = o /\ o <= l
  <2>1. off \in [Posts -> Nat] /\ off[p] <= pkt[p].len
    BY <1>2, Zenon DEF Inv, Types, OneDue, Cursor
  <2> QED
    BY <1>2, <1>3, <2>1, Zenon
<1>5. delivered \in Seq(Nat) /\ Len(delivered) = a + o /\ Len(delivered) \in Nat
  <2>1. delivered \in Seq(Nat) /\ Len(delivered) = Start(n) + off[p]
    BY <1>2, Zenon DEF Inv, Types, OneDue, Cursor
  <2>2. a + o \in Nat
    OBVIOUS
  <2> QED
    BY <1>3, <1>4, <2>1, <2>2, Zenon
<1>6. PICK r \in Nat : r = l - o
  BY <1>4
<1>7. PICK m \in Nat : m = Q!Smaller(b, r) /\ m <= r
  BY DEF Q!Smaller
<1>8. /\ delivered' = delivered \o [i \in 1 .. m |-> Len(delivered) + i]
      /\ off' = [off EXCEPT ![p] = @ + m]
      /\ heap' = IF m < r THEN Live(H) ELSE Live(H) \ {p}
      /\ nextSeq' = IF m < r THEN n ELSE n + 1
  BY <1>1, <1>3, <1>4, <1>5, <1>6, <1>7, Zenon DEF Q!CopyOut
<1>9. /\ delivered' \in Seq(Nat) /\ Len(delivered') = (a + o) + m /\ Q!InOrder'
      /\ Len(delivered') >= Len(delivered)
  <2>1. \A i \in DOMAIN delivered : delivered[i] = i
    BY Zenon DEF Inv, Reading, Q!InOrder
  <2>2. /\ delivered' \in Seq(Nat) /\ Len(delivered') = Len(delivered) + m
        /\ \A i \in DOMAIN delivered' : delivered'[i] = i
    BY <1>5, <1>8, <2>1, Appended, Zenon
  <2>3. (a + o) + m >= a + o
    OBVIOUS
  <2> QED
    BY <1>5, <2>2, <2>3, Zenon DEF Q!InOrder
<1>10. /\ off' \in [Posts -> Nat] /\ off'[p] = o + m /\ o + m \in Nat
       /\ \A q \in Posts : q # p => off'[q] = off[q]
  <2>1. off \in [Posts -> Nat]
    BY Zenon DEF Inv, Types
  <2>2. o + m \in Nat
    OBVIOUS
  <2> QED
    BY <1>2, <1>4, <1>8, <2>1, <2>2, Zenon
<1>11. \A q \in Posts : off'[q] <= pkt'[q].len
  <2>1. \A q \in Posts : off[q] <= pkt[q].len
    BY DEF OneDue, Cursor
  <2>2. o + m <= l
    BY <1>4, <1>6, <1>7
  <2> QED
    BY <1>3, <1>10, <2>1, <2>2, Zenon
<1>12. \A q \in Posts : q[1] > n => off'[q] = 0
  <2>1. ~(n > n)
    OBVIOUS
  <2> QED
    BY <1>1, <1>2, <1>10, <2>1, Zenon DEF OneDue, Cursor
<1>13. \A q \in Live(H) : q \in H /\ q \in Posts /\ q[1] \in Nat /\ q[1] >= n /\ Sent(q[1])
  BY <1>1, Parts, Zenon DEF Inv, Types, Arrival, OneDue, Live
<1>14. \A q \in Live(H) : q[1] = n => q = p
  BY <1>2, <1>13 DEF OneDue
<1>15. ASSUME m < r PROVE Cursor(heap)'
  <2>1. heap' = Live(H) /\ nextSeq' = n
    BY <1>8, <1>15
  <2>2. \A q \in Posts : q[1] > n \/ (q[1] = n /\ q \notin Live(H)) => off'[q] = 0
    <3>1. \A q \in Posts : q[1] = n /\ q \notin Live(H) => q \notin H
      BY <1>1 DEF Live
    <3>2. \A q \in Posts : q[1] = n /\ q \notin Live(H) => off'[q] = 0
      BY <1>2, <1>10, Zenon DEF OneDue, Cursor
    <3> QED
      BY <1>12, <3>2, Zenon
  <2>3. n = 0 \/ (n - 1 \in Seqs /\ Sent(n - 1))
    BY <1>1, Zenon DEF OneDue, Cursor
  <2>4. \A q \in Live(H) : q[1] = n => Len(delivered') = Start(n) + off'[q]
    <3>1. (a + o) + m = a + (o + m)
      OBVIOUS
    <3> QED
      BY <1>3, <1>9, <1>10, <1>14, <3>1, Zenon
  <2>5. ~ \A q \in Live(H) : q[1] # n
    BY <1>1
  <2>6. Start(nextSeq)' = Start(n) /\ (Sent(nextSeq - 1)' <=> Sent(n - 1))
    BY <2>1 DEF Start, Sent
  <2> QED
    BY <1>11, <2>1, <2>2, <2>3, <2>4, <2>5, <2>6, Zenon DEF Cursor
<1>16. ASSUME ~(m < r) PROVE Cursor(heap)'
  <2>1. heap' = Live(H) \ {p} /\ nextSeq' = n + 1 /\ m = r
    BY <1>7, <1>8, <1>16
  <2>2. \A q \in Posts : q[1] > n + 1 \/ (q[1] = n + 1 /\ q \notin heap') => off'[q] = 0
    <3>1. \A q \in Posts : q[1] \in Nat
      BY Parts, Zenon
    <3> QED
      BY <1>12, <3>1
  <2>3. (n + 1) - 1 \in Seqs /\ Sent((n + 1) - 1)
    <3>1. (n + 1) - 1 = n
      OBVIOUS
    <3> QED
      BY <1>2, <1>13
  <2>4. Len(delivered') = End(n)
    <3>1. (a + o) + r = a + l
      BY <1>6
    <3> QED
      BY <1>3, <1>9, <2>1, <3>1, Zenon
  <2>5. Taken(n + 1) = End(n)
    <3>1. (n + 1) - 1 = n /\ n + 1 # 0
      OBVIOUS
    <3> QED
      BY DEF Taken
  <2>6. \A q \in heap' : q[1] = n + 1 => Len(delivered') = Start(n + 1) + off'[q]
    <3>1. TAKE q \in heap'
    <3>2. HAVE q[1] = n + 1
    <3>3. q \in Live(H) /\ q \in Posts /\ Sent(n + 1) /\ n + 1 \in Seqs
      BY <1>13, <2>1, <3>2, Parts, Zenon
    <3>4. Start(n + 1) = Taken(n + 1) /\ Start(n + 1) \in Nat
      BY <3>3, Numbers, Zenon DEF Inv, Packets
    <3>5. off'[q] = 0
      <4>1. n + 1 > n
        OBVIOUS
      <4> QED
        BY <1>12, <3>2, <3>3, <4>1, Zenon
    <3> QED
      BY <2>4, <2>5, <3>4, <3>5
  <2>7. /\ Taken(nextSeq)' = Taken(n + 1) /\ Start(nextSeq)' = Start(n + 1)
        /\ nextSeq' - 1 \in Seqs /\ Sent(nextSeq - 1)'
    BY <2>1, <2>3 DEF Taken, Start, End, Sent
  <2> QED
    BY <1>11, <2>1, <2>2, <2>4, <2>5, <2>6, <2>7, Zenon DEF Cursor
<1>17. nextSeq' \in Nat
  BY <1>8
<1> QED
  BY <1>9, <1>10, <1>15, <1>16, <1>17 DEF Advances

\* Every way through the loop.
LEMMA LoopStep ==
  ASSUME Inv, NEW H, OneDue(H), NEW b \in Nat, Q!ReadLoop(H, b), UNCHANGED <<pkt, post>>
  PROVE  Reading' /\ heap' \subseteq H /\ Advances
<1>1. \A p \in H : p \in Posts /\ p[1] \in Nat /\ pkt[p].seq = p[1]
  BY Parts, Zenon DEF Inv, Types, Packets, OneDue
<1>2. Live(H) = {p \in H : pkt[p].seq >= nextSeq}
  BY <1>1 DEF Live
<1>3. \/ Live(H) = {} /\ heap' = {} /\ readPC' = "idle" /\ UNCHANGED <<off, nextSeq, delivered>>
      \/ \E p \in Live(H) : p[1] = nextSeq /\ Q!CopyOut(p, Live(H), b)
      \/ \E p \in Q!Lowest(Live(H)) : p \in Live(H) /\ p[1] > nextSeq /\ Q!Park(p, Live(H))
  <2>1. \A p \in Q!Lowest(Live(H)) : p \in Live(H) /\ pkt[p].seq = p[1]
    BY <1>1 DEF Q!Lowest, Live
  <2> QED
    BY <1>2, <2>1, Zenon DEF Q!ReadLoop
<1>4. /\ off \in [Posts -> Nat] /\ nextSeq \in Nat /\ delivered \in Seq(Nat)
      /\ Len(delivered) >= Len(delivered)
  <2>1. off \in [Posts -> Nat] /\ nextSeq \in Nat /\ delivered \in Seq(Nat)
    BY DEF Inv, Types
  <2>2. Len(delivered) \in Nat
    OBVIOUS
  <2> QED
    BY <2>1
<1>5. ASSUME UNCHANGED <<off, nextSeq, delivered>>, heap' \subseteq Live(H),
             \A p \in Live(H) : p[1] # nextSeq
      PROVE  Cursor(heap)' /\ Q!InOrder'
  <2>1. \A p \in H : p[1] # nextSeq
    BY <1>4, <1>5 DEF Live
  <2>2. Taken(nextSeq)' = Taken(nextSeq) /\ (Sent(nextSeq - 1)' <=> Sent(nextSeq - 1))
    BY <1>5 DEF Taken, End, Sent
  <2>3. Cursor(heap)'
    BY <1>5, <2>1, <2>2 DEF OneDue, Cursor
  <2>4. Q!InOrder'
    BY <1>5 DEF Inv, Reading, Q!InOrder
  <2> QED
    BY <2>3, <2>4
<1>6. CASE Live(H) = {} /\ heap' = {} /\ readPC' = "idle" /\ UNCHANGED <<off, nextSeq, delivered>>
  <2>1. Cursor(heap)' /\ Q!InOrder'
    BY <1>5, <1>6
  <2> QED
    BY <1>4, <1>6, <2>1 DEF Reading, Advances
<1>7. ASSUME NEW p \in Live(H), p[1] = nextSeq, Q!CopyOut(p, Live(H), b)
      PROVE  Reading' /\ heap' \subseteq H /\ Advances
  <2>1. Cursor(heap)' /\ Q!InOrder' /\ Advances
    BY <1>7, CopyOutStep, Zenon
  <2>2. readPC' = "idle" /\ heap' \subseteq Live(H)
    BY <1>7 DEF Q!CopyOut
  <2> QED
    BY <2>1, <2>2 DEF Reading, Live
<1>8. ASSUME NEW p \in Q!Lowest(Live(H)), p \in Live(H), p[1] > nextSeq, Q!Park(p, Live(H))
      PROVE  Reading' /\ heap' \subseteq H /\ Advances
  <2>1. UNCHANGED <<off, nextSeq, delivered>> /\ heap' \subseteq Live(H)
    BY <1>8 DEF Q!Park
  <2>2. \A q \in Live(H) : q[1] > nextSeq
    <3>1. TAKE q \in Live(H)
    <3>2. p[1] <= q[1] /\ p[1] \in Nat /\ q[1] \in Nat
      BY <1>1, <1>8, Zenon DEF Q!Lowest, Live
    <3> QED
      BY <1>4, <1>8, <3>2
  <2>3. Cursor(heap)' /\ Q!InOrder'
    BY <1>4, <1>5, <2>1, <2>2
  <2>4. heap' \subseteq H
    BY <2>1 DEF Live
  <2> QED
    BY <1>4, <2>1, <2>2, <2>3, <2>4 DEF Reading, Advances
<1> QED
  BY <1>3, <1>6, <1>7, <1>8, Zenon

\* Read's loop with at most one packet, which is not early: it drops a stale
\* one, reads a part of one that is due or all of it, and parks none.
LEMMA LoopInTurn ==
  ASSUME Inv, NEW H \in SUBSET Posts, \A p, q \in H : p = q,
         \A p \in H : p[1] <= nextSeq, NEW b \in Nat, Q!ReadLoop(H, b)
  PROVE  /\ dropped' = dropped
         /\ \/ heap' = {} /\ nextSeq' = nextSeq /\ \A p \in H : p[1] < nextSeq
            \/ heap' = H /\ nextSeq' = nextSeq /\ \A p \in H : p[1] = nextSeq
            \/ heap' = {} /\ nextSeq' = nextSeq + 1 /\ \A p \in H : p[1] = nextSeq
<1> DEFINE live == {p \in H : pkt[p].seq >= nextSeq}
<1>1. \A p \in H : p[1] \in Nat /\ pkt[p].seq = p[1]
  BY Parts, Zenon DEF Inv, Packets
<1>2. nextSeq \in Nat
  BY DEF Inv, Types
<1>3. \A p \in live : p[1] = nextSeq /\ H = {p} /\ live = {p}
  BY <1>1, <1>2
<1>4. live = {} => \A p \in H : p[1] < nextSeq
  BY <1>1, <1>2
<1>5. \A p \in Q!Lowest(live) : p \in live /\ pkt[p].seq = nextSeq
  BY <1>1, <1>3 DEF Q!Lowest
<1> HIDE DEF live
<1>6. \/ live = {} /\ heap' = {} /\ UNCHANGED <<nextSeq, dropped>>
      \/ \E p \in live : Q!CopyOut(p, live, b)
  <2>1. ~(nextSeq > nextSeq)
    BY <1>2
  <2> QED
    BY <1>5, <2>1, Zenon DEF Q!ReadLoop, live
<1>7. CASE live = {} /\ heap' = {} /\ UNCHANGED <<nextSeq, dropped>>
  BY <1>4, <1>7
<1>8. ASSUME NEW p \in live, Q!CopyOut(p, live, b)
      PROVE  /\ dropped' = dropped
             /\ \/ heap' = H /\ nextSeq' = nextSeq
                \/ heap' = {} /\ nextSeq' = nextSeq + 1
             /\ \A q \in H : q[1] = nextSeq
  <2>1. p[1] = nextSeq /\ H = {p} /\ live = {p} /\ pkt[p].seq = nextSeq
    BY <1>1, <1>3
  <2>2. dropped' = dropped
    BY <1>8 DEF Q!CopyOut
  <2>3. \/ heap' = live /\ nextSeq' = nextSeq
        \/ heap' = live \ {p} /\ nextSeq' = pkt[p].seq + 1
    BY <1>8, Zenon DEF Q!CopyOut
  <2> QED
    BY <2>1, <2>2, <2>3
<1> QED
  BY <1>6, <1>7, <1>8

\* A Read that finds a packet in the heap goes on with it.
LEMMA ReadCallStep ==
  ASSUME Inv, NEW b \in Nat, heap # {}, Q!ReadLoop(heap, b), readLen' \in Nat,
         UNCHANGED <<transport, drained, chunk, pkt, pushPC, pushed, qClosed, upVars, postVars>>
  PROVE  Inv' /\ Len(delivered') >= Len(delivered)
<1>1. SameSent
  BY DEF SameSent, Sent, postVars
<1>2. transport \in {"h1", "h2"}
  BY TransportsAssumption DEF Inv, Types
<1>3. \A p, q \in heap : p[1] = nextSeq /\ q[1] = nextSeq => p = q
  <2>1. CASE transport = "h1"
    BY <2>1, Zenon DEF Inv, InTurn, Alone
  <2>2. CASE transport = "h2"
    <3>1. \A p \in heap : p \in Posts /\ p[2] = 0
      BY <2>2, Zenon DEF Inv, Arrival, Types
    <3>2. \A p \in heap : p = <<p[1], 0>>
      BY <3>1, Parts, Zenon
    <3> QED
      BY <3>2
  <2> QED
    BY <1>2, <2>1, <2>2
<1>4. Reading' /\ heap' \subseteq heap /\ Advances
  <2>1. OneDue(heap)
    BY <1>3, Zenon DEF OneDue, Inv, Reading, Arrival
  <2> QED
    BY <2>1, LoopStep, Zenon DEF postVars
<1>5. Types'
  BY <1>4 DEF Inv, Types, upVars, postVars, Advances
<1>6. Packets' /\ Dispatch' /\ Failing'
  BY <1>1, PacketsFrame, DispatchFrame DEF Inv, upVars, postVars, Failing
<1>7. Arrival'
  BY <1>4 DEF Inv, Arrival, Sent, postVars
<1>8. ASSUME InTurn PROVE InTurn'
  <2>1. \A p \in heap : p \in Posts /\ p[1] = nextSeq /\ p[1] \in Nat /\ p[1] <= nextSeq
    <3>1. nextSeq \in Nat /\ nextSeq <= nextSeq /\ heap \subseteq Posts
      BY DEF Inv, Types
    <3> QED
      BY <1>8, <3>1, Zenon DEF InTurn, Alone
  <2>2. /\ dropped' = dropped
        /\ \/ heap' = {} /\ nextSeq' = nextSeq /\ \A p \in heap : p[1] < nextSeq
           \/ heap' = heap /\ nextSeq' = nextSeq
           \/ heap' = {} /\ nextSeq' = nextSeq + 1
    BY <1>8, <2>1, LoopInTurn, Zenon DEF InTurn, Alone
  <2>3. PICK p \in heap : heap = {p}
    BY <1>8 DEF InTurn, Alone
  <2>4. \/ heap' = heap /\ nextSeq' = nextSeq
        \/ heap' = {} /\ nextSeq' = nextSeq + 1
    BY <2>1, <2>2
  <2>5. CASE heap' = heap /\ nextSeq' = nextSeq
    <3>1. UNCHANGED <<wrote, failed, upPC, seq, pushPC, pushed, heap, nextSeq, dropped>>
      BY <2>2, <2>5 DEF upVars, postVars
    <3> QED
      BY <1>1, <1>8, <3>1, InTurnFrame DEF Inv
  <2>6. CASE heap' = {} /\ nextSeq' = nextSeq + 1
    <3>1. nextSeq \in Nat /\ p[1] = nextSeq
      BY <2>1, <2>3
    <3>2. \A q \in Posts : q[1] \in Nat
      BY Parts, Zenon
    <3>3. \A q \in Posts : Held(q) => Held(q)'
      <4>1. \A q \in Posts : InChannel(q)' <=> InChannel(q)
        BY Zenon DEF InChannel
      <4>2. \A q \in Posts : q[1] < nextSeq \/ q[1] = nextSeq => q[1] < nextSeq + 1
        BY <3>1, <3>2
      <4> QED
        BY <1>8, <2>6, <4>1, <4>2, Zenon DEF InTurn, Alone, Held
    <3>4. \A i \in DOMAIN pushed : pushed[i] \in Posts /\ pushed[i][1] \in Nat
      <4>1. pushed \in Seq(Posts)
        BY DEF Inv, Types
      <4>2. \A i \in DOMAIN pushed : pushed[i] \in Posts
        BY <4>1
      <4> QED
        BY <4>2, Parts, Zenon
    <3>5. \A i \in DOMAIN pushed : \A s \in nextSeq + 1 .. pushed[i][1] - 1 :
            \E j \in 1 .. i - 1 : pushed[j][1] = s
      <4>1. TAKE i \in DOMAIN pushed
      <4>2. TAKE s \in nextSeq + 1 .. pushed[i][1] - 1
      <4>3. s \in nextSeq .. pushed[i][1] - 1 /\ s # nextSeq
        <5>1. pushed[i][1] - 1 \in Int
          BY <3>4, Compared, Zenon
        <5>2. s \in nextSeq .. pushed[i][1] - 1
          BY <3>1, <5>1, Above, Zenon
        <5>3. s # nextSeq
          BY <3>1, <5>1, Above, Zenon
        <5> QED
          BY <5>2, <5>3, Zenon
      <4> QED
        BY <1>8, <4>3, Zenon DEF InTurn, Alone
    <3>6. UNCHANGED <<wrote, failed, upPC, seq, pushPC, pushed, dropped>>
      BY <2>2 DEF upVars, postVars
    <3> QED
      <4>1. \A s : Answered(s)' <=> Answered(s)
        BY DEF Answered
      <4>2. \A i \in DOMAIN pushed' : \A s \in nextSeq' .. pushed'[i][1] - 1 :
              \E j \in 1 .. i - 1 : pushed'[j][1] = s
        BY <2>6, <3>5
      <4>3. Kept'
        BY <1>8, <3>3, <4>1, Zenon DEF InTurn, Kept, Swallowed
      <4> QED
        BY <1>1, <1>8, <2>6, <3>6, <4>1, <4>2, <4>3, Zenon DEF InTurn, Paced, Alone, SameSent
  <2> QED
    BY <2>4, <2>5, <2>6
<1> QED
  BY <1>4, <1>5, <1>6, <1>7, <1>8 DEF Inv, Advances

\* A Read that receives a packet from the channel.
LEMMA ReadRecvStep ==
  ASSUME Inv, readPC = "recv", pushed # <<>>, pushed' = Tail(pushed),
         Q!ReadLoop(heap \cup {Head(pushed)}, readLen),
         UNCHANGED <<transport, drained, chunk, pkt, pushPC, qClosed, upVars, postVars, readLen>>
  PROVE  Inv' /\ Len(delivered') >= Len(delivered)
<1> DEFINE h == Head(pushed)
           H == heap \cup {h}
<1>1. pushed \in Seq(Posts) /\ nextSeq \in Nat /\ readLen \in Nat /\ heap \in SUBSET Posts
  BY DEF Inv, Types
<1>2. /\ pushed' \in Seq(Posts) /\ h \in Posts /\ h = pushed[1] /\ 1 \in DOMAIN pushed
      /\ \A i \in DOMAIN pushed' : i \in Nat /\ i + 1 \in DOMAIN pushed /\ pushed'[i] = pushed[i + 1]
      /\ \A i \in DOMAIN pushed : i = 1 \/ (i - 1 \in DOMAIN pushed' /\ pushed'[i - 1] = pushed[i])
  BY <1>1, Tailing, Zenon
<1> HIDE DEF h
<1>3. SameSent /\ transport \in {"h1", "h2"}
  BY TransportsAssumption DEF SameSent, Sent, postVars, Inv, Types
<1>4. h \in wire /\ heap \subseteq wire /\ H \subseteq wire /\ Sent(h[1]) /\ h[1] \in Seqs
  BY <1>2, Parts, Zenon DEF Inv, Arrival
<1>5. \A p \in heap : p[1] > nextSeq
  BY DEF Inv, Reading
<1>6. \A p, q \in H : p[1] = nextSeq /\ q[1] = nextSeq => p = q
  BY <1>1, <1>5
<1>7. Cursor(H)
  <2>1. Cursor(heap) /\ Len(delivered) = Taken(nextSeq)
    <3>1. \A p \in heap : p[1] # nextSeq
      BY <1>1, <1>5
    <3> QED
      BY <3>1, Zenon DEF Inv, Reading, Cursor
  <2>2. ASSUME h[1] = nextSeq PROVE off[h] = 0 /\ Len(delivered) = Start(nextSeq) + off[h]
    <3>1. h \notin heap
      BY <1>1, <1>5, <2>2
    <3>2. off[h] = 0
      BY <1>2, <2>1, <2>2, <3>1 DEF Cursor
    <3>3. Start(nextSeq) = Taken(nextSeq) /\ Start(nextSeq) \in Nat
      BY <1>4, <2>2, Numbers, Zenon DEF Inv, Packets
    <3> QED
      BY <2>1, <3>2, <3>3
  <2> QED
    BY <2>1, <2>2 DEF Cursor
<1>8. Reading' /\ heap' \subseteq H /\ Advances
  <2>1. Q!ReadLoop(H, readLen)
    BY Zenon DEF h
  <2> HIDE DEF H
  <2>2. OneDue(H)
    BY <1>4, <1>6, <1>7, Zenon DEF OneDue
  <2> QED
    BY <1>1, <2>1, <2>2, LoopStep, Zenon DEF postVars
<1>9. Types'
  <2>1. heap' \in SUBSET Posts
    BY <1>4, <1>8, Zenon DEF Inv, Types
  <2> QED
    BY <1>2, <1>8, Zenon DEF Inv, Types, upVars, postVars, Advances
<1>10. Packets' /\ Dispatch' /\ Failing'
  BY <1>3, PacketsFrame, DispatchFrame DEF Inv, upVars, postVars, Failing
<1>11. Arrival'
  BY <1>2, <1>8 DEF Inv, Arrival, Sent, postVars
<1>12. ASSUME InTurn PROVE InTurn'
  <2>1. heap = {}
    <3>1. \A p \in heap : p[1] = nextSeq /\ p[1] > nextSeq
      BY <1>5, <1>12, Zenon DEF InTurn, Alone
    <3> QED
      BY <1>1, <3>1
  <2>2. h[1] \in Nat /\ h[1] <= nextSeq
    <3>1. h[1] \in Nat
      BY <1>2, Parts, Zenon
    <3>2. ASSUME h[1] > nextSeq PROVE FALSE
      <4>1. nextSeq \in nextSeq .. pushed[1][1] - 1
        BY <1>1, <1>2, <3>1, <3>2, Compared, Zenon
      <4>2. \E j \in 1 .. 1 - 1 : pushed[j][1] = nextSeq
        BY <1>2, <1>12, <2>1, <4>1 DEF InTurn, Alone
      <4> QED
        BY <4>2
    <3> QED
      BY <1>1, <3>1, <3>2
  <2>3. /\ dropped' = dropped
        /\ \/ heap' = {} /\ nextSeq' = nextSeq /\ h[1] < nextSeq
           \/ heap' = {h} /\ nextSeq' = nextSeq /\ h[1] = nextSeq
           \/ heap' = {} /\ nextSeq' = nextSeq + 1 /\ h[1] = nextSeq
    <3>1. Q!ReadLoop({h}, readLen)
      <4>1. heap \cup {h} = {h}
        BY <2>1
      <4> QED
        BY <4>1, Zenon DEF h
    <3>2. {h} \in SUBSET Posts /\ (\A p, q \in {h} : p = q) /\ \A p \in {h} : p[1] <= nextSeq
      BY <1>2, <2>2
    <3>3. /\ dropped' = dropped
          /\ \/ heap' = {} /\ nextSeq' = nextSeq /\ \A p \in {h} : p[1] < nextSeq
             \/ heap' = {h} /\ nextSeq' = nextSeq /\ \A p \in {h} : p[1] = nextSeq
             \/ heap' = {} /\ nextSeq' = nextSeq + 1 /\ \A p \in {h} : p[1] = nextSeq
      BY <1>1, <3>1, <3>2, LoopInTurn, Zenon
    <3> QED
      BY <3>3
  <2>a. nextSeq' \in Nat
    <3>1. nextSeq + 1 \in Nat
      BY <1>1
    <3> QED
      BY <1>1, <2>3, <3>1, Zenon
  <2>4. h \in heap' \/ h[1] < nextSeq'
    BY <2>2, <2>3
  <2>5. \A p \in Posts : Held(p) => Held(p)'
    <3>1. TAKE p \in Posts
    <3>2. HAVE Held(p)
    <3>3. CASE p[1] < nextSeq
      <4>1. p[1] \in Nat
        BY Parts, Zenon
      <4> QED
        BY <1>1, <2>3, <3>3, <4>1 DEF Held
    <3>4. CASE InChannel(p)
      <4>1. PICK i \in DOMAIN pushed : pushed[i] = p
        BY <3>4 DEF InChannel
      <4> QED
        BY <1>2, <2>4, <4>1, Zenon DEF InChannel, Held
    <3> QED
      BY <2>1, <3>2, <3>3, <3>4 DEF Held
  <2>6. ASSUME NEW i \in DOMAIN pushed', NEW s \in nextSeq' .. pushed'[i][1] - 1
        PROVE  (\E j \in 1 .. i - 1 : pushed'[j][1] = s) \/ (\E p \in heap' : p[1] = s)
    <3>1. i \in Nat /\ i + 1 \in DOMAIN pushed /\ pushed'[i] = pushed[i + 1]
      BY <1>2, Zenon
    <3>2. pushed'[i][1] \in Nat
      <4>1. pushed'[i] \in Posts
        BY <1>2, Earlier, Zenon
      <4> QED
        BY <4>1, Parts, Zenon
    <3>3. s \in nextSeq .. pushed[i + 1][1] - 1
      <4>1. pushed[i + 1][1] - 1 \in Int /\ s \in nextSeq' .. pushed[i + 1][1] - 1
        BY <3>1, <3>2, Compared, Zenon
      <4>2. CASE nextSeq' = nextSeq
        BY <4>1, <4>2, Zenon
      <4>3. CASE nextSeq' = nextSeq + 1
        BY <1>1, <4>1, <4>3, Above, Zenon
      <4> QED
        BY <2>3, <4>2, <4>3, Zenon
    <3>4. PICK j \in 1 .. (i + 1) - 1 : pushed[j][1] = s
      BY <1>12, <2>1, <3>1, <3>3 DEF InTurn, Alone
    <3>5. CASE j = 1
      <4>1. h[1] = s /\ s >= nextSeq'
        <5>1. h[1] = s
          BY <1>2, <3>4, <3>5, Zenon
        <5>2. s >= nextSeq'
          BY <2>a, <3>2, Between, Zenon
        <5> QED
          BY <5>1, <5>2, Zenon
      <4>2. heap' = {h}
        BY <1>1, <2>2, <2>3, <4>1, Compared, Zenon
      <4> QED
        BY <4>1, <4>2
    <3>6. CASE j # 1
      <4>1. j \in DOMAIN pushed /\ j - 1 \in 1 .. i - 1
        BY <1>1, <3>6
      <4>2. pushed'[j - 1] = pushed[j]
        BY <1>2, <3>6, <4>1, Zenon
      <4> QED
        BY <3>4, <4>1, <4>2, Zenon
    <3> QED
      BY <3>5, <3>6
  <2>7. (\A p, q \in heap' : p = q) /\ \A p \in heap' : p[1] = nextSeq'
    BY <2>3
  <2>8. UNCHANGED <<wrote, failed, upPC, seq, pushPC>> /\ dropped' = dropped
    BY <2>3 DEF upVars, postVars
  <2>9. \A s : Answered(s)' <=> Answered(s)
    BY DEF Answered
  <2>10. Kept'
    BY <1>12, <2>5, <2>9, Zenon DEF InTurn, Kept, Swallowed
  <2> QED
    BY <1>3, <1>12, <2>6, <2>7, <2>8, <2>9, <2>10, Zenon DEF InTurn, Paced, Alone, SameSent
<1> QED
  BY <1>8, <1>9, <1>10, <1>11, <1>12 DEF Inv, Advances

\* Every call of Read.
LEMMA ReadStep ==
  ASSUME Inv, ServerRead
  PROVE  Inv' /\ Len(delivered') >= Len(delivered)
<1>1. UNCHANGED <<transport, drained, chunk, pkt, pushPC, qClosed, upVars, postVars>>
  BY Zenon DEF ServerRead, Q!Read, Q!ReadCall, Q!ReadRecv, Q!ReadEOF, Q!pushVars, accVars
<1>2. ASSUME UNCHANGED <<heap, off, nextSeq, delivered, dropped, pushed>>,
             heap = {} \/ readPC' = "idle", readLen' \in Nat
      PROVE  Inv' /\ Len(delivered') >= Len(delivered)
  <2>1. SameSent /\ Types'
    BY <1>1, <1>2 DEF SameSent, Sent, Inv, Types, upVars, postVars
  <2>2. Packets' /\ Dispatch' /\ Arrival' /\ Failing'
    BY <1>1, <1>2, <2>1, PacketsFrame, DispatchFrame, ArrivalFrame
       DEF Inv, upVars, postVars, Failing
  <2>3. Reading'
    <3>1. Cursor(heap)'
      BY <1>1, <1>2, <2>1 DEF Inv, Reading, Cursor, SameSent, Start, End, Taken
    <3>2. Q!InOrder'
      BY <1>2 DEF Inv, Reading, Q!InOrder
    <3> QED
      BY <1>2, <3>1, <3>2 DEF Reading
  <2>4. ASSUME InTurn PROVE InTurn'
    BY <1>1, <1>2, <2>1, <2>4, InTurnFrame DEF Inv, upVars, postVars
  <2>5. Len(delivered) \in Nat
    <3>1. delivered \in Seq(Nat)
      BY DEF Inv, Types
    <3> QED
      OBVIOUS
  <2>6. Len(delivered') >= Len(delivered)
    BY <1>2
  <2> QED
    BY <1>1, <2>1, <2>2, <2>3, <2>4, <2>6 DEF Inv
<1>3. ASSUME NEW b \in ReadSizes, Q!ReadCall(b)
      PROVE  Inv' /\ Len(delivered') >= Len(delivered)
  <2>1. b \in Nat /\ readLen' = b /\ pushed' = pushed
    BY <1>3, SizesAssumption DEF Q!ReadCall, Q!pushVars
  <2>2. CASE heap = {}
    BY <1>2, <1>3, <2>1, <2>2 DEF Q!ReadCall
  <2>3. CASE heap # {}
    <3>1. Q!ReadLoop(heap, b)
      BY <1>3, <2>3, Zenon DEF Q!ReadCall
    <3> QED
      BY <1>1, <2>1, <2>3, <3>1, ReadCallStep
  <2> QED
    BY <2>2, <2>3
<1>4. CASE Q!ReadRecv
  <2>1. /\ readPC = "recv" /\ pushed # <<>> /\ pushed' = Tail(pushed) /\ readLen' = readLen
        /\ Q!ReadLoop(heap \cup {Head(pushed)}, readLen)
    BY <1>4, Zenon DEF Q!ReadRecv
  <2> QED
    BY <1>1, <2>1, ReadRecvStep
<1>5. CASE Q!ReadEOF
  <2>1. /\ UNCHANGED <<heap, off, nextSeq, delivered, dropped, pushed>>
        /\ readPC' = "idle" /\ readLen' = readLen
    BY <1>5, Zenon DEF Q!ReadEOF, Q!pushVars
  <2>2. readLen' \in Nat
    BY <2>1 DEF Inv, Types
  <2> QED
    BY <1>2, <2>1, <2>2
<1> QED
  BY <1>3, <1>4, <1>5 DEF ServerRead, Q!Read

-----------------------------------------------------------------------------
\* Every step keeps the invariant.
LEMMA InvKept ==
  ASSUME Inv, AccOK, AccOK', [Next]_vars
  PROVE  Inv'
<1>1. CASE UNCHANGED vars
  BY <1>1, QuietStep DEF vars, accVars, queueVars
<1>2. CASE AppWrite \/ CloseAllStep \/ AppClose \/ CallerCancels \/ ServerClose
  <2>1. UNCHANGED <<transport, drained, chunk, pkt, pushPC, pushed, readVars, upVars, postVars>>
    BY <1>2, Zenon DEF AppWrite, CloseAllStep, AppClose, CallerCancels, ServerClose,
      Acc!WriteCall, Acc!WriteResume, Acc!CloseWithError, Q!Close, Q!pushVars, Q!readVars,
      readVars, queueVars, accVars
  <2>2. qClosed => qClosed'
    <3>1. CASE ServerClose
      BY <3>1, Zenon DEF ServerClose, Q!Close
    <3>2. CASE ~ServerClose
      BY <1>2, <3>2, Zenon DEF AppWrite, CloseAllStep, AppClose, CallerCancels, queueVars
    <3> QED
      BY <3>1, <3>2
  <2> QED
    BY <2>1, <2>2, QuietStep
<1>3. CASE Uploader
  BY <1>3, MoveStep, DrainStep, SendStep DEF Uploader
<1>4. CASE \E s \in Seqs : PostGoroutine(s)
  BY <1>4, PostStep
<1>5. CASE \E p \in Posts : ServerHandler(p)
  BY <1>5, HandlerStep
<1>6. CASE ServerRead
  BY <1>6, ReadStep
<1> QED
  BY <1>1, <1>2, <1>3, <1>4, <1>5, <1>6 DEF Next

Behind == Len(delivered) \in Nat /\ Len(delivered) <= accepted

\* The reader is never ahead of the writer: it is inside a packet that was
\* sent, or at the end of one.
LEMMA ReaderBehind ==
  ASSUME Inv, AccOK
  PROVE  Behind
<1>1. /\ delivered \in Seq(Nat) /\ drained \in Seq(Nat) /\ accepted \in Nat
      /\ Len(drained) <= accepted /\ nextSeq \in Nat
  BY DEF Inv, Types, AccOK
<1>2. Len(delivered) \in Nat /\ Len(drained) \in Nat
  OBVIOUS
<1>3. ASSUME NEW p \in heap, p[1] = nextSeq PROVE Len(delivered) <= Len(drained)
  <2>1. /\ p \in wire /\ p \in Posts /\ nextSeq \in Seqs /\ Sent(nextSeq)
        /\ <<nextSeq, 0>> \in Posts
    BY <1>3, Parts DEF Inv, Arrival, Types
  <2>2. End(nextSeq) <= Len(drained) /\ pkt[p] = pkt[<<nextSeq, 0>>]
    BY <1>3, <2>1, Zenon DEF Inv, Packets
  <2>3. Len(delivered) = Start(nextSeq) + off[p] /\ off[p] <= pkt[p].len
    BY <1>3, <2>1 DEF Inv, Reading, Cursor
  <2>4. off[p] \in Nat /\ pkt[p] \in [seq : Nat, start : Nat, len : Nat]
    BY DEF Inv, Types
  <2>5. PICK a \in Nat, l \in Nat, o \in Nat :
          Start(nextSeq) = a /\ End(nextSeq) = a + l /\ pkt[p].len = l /\ off[p] = o
    BY <2>2, <2>4 DEF Start, End
  <2>6. PICK d \in Nat : d = Len(drained)
    BY <1>2, Zenon
  <2>7. o <= l /\ a + l <= d
    BY <2>2, <2>3, <2>5, <2>6, Zenon
  <2>8. a + o <= d
    BY <2>7
  <2> QED
    BY <2>3, <2>5, <2>6, <2>8, Zenon
<1>4. ASSUME \A p \in heap : p[1] # nextSeq PROVE Len(delivered) <= Len(drained)
  <2>1. Len(delivered) = Taken(nextSeq) /\ (nextSeq = 0 \/ (nextSeq - 1 \in Seqs /\ Sent(nextSeq - 1)))
    BY <1>4 DEF Inv, Reading, Cursor
  <2>2. nextSeq # 0 => End(nextSeq - 1) <= Len(drained)
    BY <2>1 DEF Inv, Packets
  <2> QED
    BY <2>1, <2>2 DEF Taken
<1> QED
  BY <1>1, <1>3, <1>4 DEF Behind

\* The steps of the uplink are steps of a byte stream: Write is a Write that
\* the accumulator accepted, Deliver a Read that returned something.
LEMMA StreamStep ==
  ASSUME Inv, AccOK, Behind, Inv', AccOK', Behind', [Next]_vars
  PROVE  [Stream!Next]_(Stream!vars)
<1>1. accepted \in Nat /\ accepted' \in Nat
  BY DEF AccOK
<1>2. Len(delivered) \in Nat /\ Len(delivered') \in Nat /\ Len(delivered') <= accepted'
  BY DEF Behind
<1>3. CASE ServerRead
  <2>1. Len(delivered') >= Len(delivered) /\ accepted' = accepted
    BY <1>3, ReadStep DEF ServerRead, accVars
  <2>2. delivered \in Seq(Nat) /\ delivered' \in Seq(Nat)
    BY DEF Inv, Types
  <2>3. /\ \A i \in DOMAIN delivered : delivered[i] = i
        /\ \A i \in DOMAIN delivered' : delivered'[i] = i
    BY DEF Inv, Reading, Q!InOrder
  <2>4. delivered' = [i \in 1 .. Len(delivered') |-> i]
    BY <2>2, <2>3
  <2>5. CASE Len(delivered') = Len(delivered)
    <3>1. delivered = [i \in 1 .. Len(delivered) |-> i]
      BY <2>2, <2>3
    <3> QED
      BY <2>1, <2>4, <2>5, <3>1 DEF Stream!vars
  <2>6. CASE Len(delivered') # Len(delivered)
    <3>1. Len(delivered') \in Len(delivered) + 1 .. accepted
      BY <1>2, <2>1, <2>6
    <3> QED
      BY <2>1, <2>4, <3>1 DEF Stream!Next, Stream!Deliver
  <2> QED
    BY <2>5, <2>6
<1>4. CASE ~ServerRead
  <2>1. delivered' = delivered
    BY <1>4, Zenon DEF Next, vars, AppWrite, Uploader, UpTop, UpDrain, UpGot, UpSend, UpWait,
      CloseAllStep, AppClose, CallerCancels, PostGoroutine, PostWritten, PostResend, PostOK,
      PostFail, PostCloseAcc, PostCloseAll, PostJoin, ServerHandler, FreshSession, ServerClose,
      Q!Push, Q!PushCheck, Q!PushSend, Q!PushAbort, Q!Close, Q!readVars, readVars, queueVars
  <2>2. accepted' >= accepted
    <3>1. CASE AppWrite
      <4>1. accepted' = accepted \/ \E n \in Nat : accepted' = accepted + n
        <5>1. \A n \in WriteSizes : n \in Nat
          BY SizesAssumption
        <5>2. writeLen[App] \in Nat
          BY DEF AccOK
        <5> QED
          BY <3>1, <5>1, <5>2 DEF AppWrite, Acc!WriteCall, Acc!WriteResume, Acc!TryWrite
      <4> QED
        BY <1>1, <4>1
    <3>2. CASE ~AppWrite
      <4>1. accepted' = accepted
        BY <3>2, Zenon DEF Next, vars, Uploader, UpTop, UpDrain, UpGot, UpSend, UpWait,
          CloseAllStep, AppClose, CallerCancels, PostGoroutine, PostWritten, PostResend, PostOK,
          PostFail, PostCloseAcc, PostCloseAll, PostJoin, ServerHandler, ServerRead, ServerClose,
          Acc!Drain, Acc!CloseWithError, accVars
      <4> QED
        BY <1>1, <4>1
    <3> QED
      BY <3>1, <3>2
  <2> QED
    BY <1>1, <2>1, <2>2 DEF Stream!Next, Stream!Write, Stream!vars
<1> QED
  BY <1>3, <1>4

\* Only a writer adds to the errors that Write returned: the error that the
\* accumulator was closed with.
LEMMA ErrorStep ==
  ASSUME AppWrite
  PROVE  /\ UNCHANGED <<accClosed, writeErr, closeAll, appPC, post>>
         /\ "ErrClosedPipe" \in returned' =>
              "ErrClosedPipe" \in returned \/ (accClosed /\ writeErr # "post")
<1>1. UNCHANGED <<accClosed, writeErr, closeAll, appPC, post>>
  BY Zenon DEF AppWrite, Acc!WriteCall, Acc!WriteResume, closeVars, postVars
<1>2. \/ returned' = returned
      \/ /\ accClosed
         /\ returned' = returned \cup {IF writeErr # "nil" THEN writeErr ELSE "ErrClosedPipe"}
  BY Zenon DEF AppWrite, Acc!WriteCall, Acc!WriteResume, Acc!TryWrite
<1>3. CASE writeErr = "post"
  BY <1>1, <1>2
<1>4. CASE writeErr # "post"
  BY <1>1, <1>2
<1> QED
  BY <1>3, <1>4

\* Initially no POST has failed.
LEMMA SurfacingStarts == Init => Surfacing
  BY DEF Init, Acc!Init, Surfacing, PostErrorSurfaces

\* Every step keeps the error of a failed POST in sight of the application.
LEMMA SurfacingKept ==
  ASSUME Surfacing, post \in [Seqs -> {"none", "running", "failed", "closing", "joined", "ended"}],
         [Next]_vars
  PROVE  Surfacing'
<1> USE DEF Surfacing, PostErrorSurfaces
<1>1. CASE AppWrite
  BY <1>1, ErrorStep
<1>2. ASSUME UNCHANGED <<accClosed, writeErr, returned, closeAll, appPC>>,
             \A s \in Seqs : post'[s] \in {"closing", "joined"} => post[s] \in {"closing", "joined"}
      PROVE  Surfacing'
  BY <1>2
<1>3. CASE \/ UNCHANGED vars \/ UpTop \/ UpDrain \/ UpGot \/ UpWait \/ CallerCancels
           \/ (\E p \in Posts : ServerHandler(p)) \/ ServerRead \/ ServerClose
  <2>1. UNCHANGED <<accClosed, writeErr, returned, closeAll, appPC, post>>
    BY <1>3, Zenon DEF vars, UpTop, UpDrain, UpGot, UpWait, CallerCancels, ServerHandler,
      ServerRead, ServerClose, Acc!Drain, accVars, closeVars, postVars
  <2> QED
    BY <2>1
<1>4. CASE UpSend
  <2>1. UNCHANGED <<accClosed, writeErr, returned, closeAll, appPC>>
    BY <1>4 DEF UpSend, accVars, closeVars
  <2>2. post' = post \/ post' = [post EXCEPT ![seq - 1] = "running"]
    BY <1>4 DEF UpSend
  <2> QED
    BY <2>1, <2>2
<1>5. ASSUME NEW s \in Seqs,
             PostWritten(s) \/ PostResend(s) \/ PostOK(s) \/ PostFail(s) \/ PostJoin(s)
      PROVE  Surfacing'
  <2>1. UNCHANGED <<accClosed, writeErr, returned, closeAll, appPC>>
    BY <1>5, Zenon DEF PostWritten, PostResend, PostOK, PostFail, PostJoin, accVars, closeVars
  <2>2. \E x \in {"ended", "failed"} : post' = post \/ post' = [post EXCEPT ![s] = x]
    BY <1>5 DEF PostWritten, PostResend, PostOK, PostFail, PostJoin
  <2> QED
    BY <2>1, <2>2
<1>6. ASSUME NEW s \in Seqs, PostCloseAcc(s) PROVE Surfacing'
  <2>1. /\ UNCHANGED <<returned, closeAll, appPC>> /\ post' = [post EXCEPT ![s] = "closing"]
        /\ accClosed'
        /\ IF accClosed THEN writeErr' = writeErr ELSE writeErr' = "post"
    BY <1>6, Zenon DEF PostCloseAcc, Acc!CloseWithError, closeVars
  <2> QED
    BY <2>1
<1>7. ASSUME NEW s \in Seqs, PostCloseAll(s) PROVE Surfacing'
  <2>1. UNCHANGED <<accClosed, writeErr, returned, appPC>> /\ post[s] = "closing"
    BY <1>7, Zenon DEF PostCloseAll, accVars
  <2>2. post' = [post EXCEPT ![s] = "joined"] \/ post' = [post EXCEPT ![s] = "ended"]
    BY <1>7 DEF PostCloseAll
  <2>3. accClosed
    BY <2>1
  <2> QED
    BY <2>1
<1>8. CASE CloseAllStep \/ AppClose
  <2>1. UNCHANGED <<returned, post>>
    BY <1>8, Zenon DEF CloseAllStep, AppClose, Acc!CloseWithError, accVars, postVars
  <2>2. \/ UNCHANGED <<accClosed, writeErr, appPC>> /\ closeAll # "no"
        \/ UNCHANGED <<accClosed, writeErr>> /\ appPC # "open" /\ appPC' # "open"
        \/ accClosed' /\ appPC' # "open"
        \/ /\ closeAll # "no" /\ accClosed' /\ appPC' = appPC
           /\ IF accClosed THEN writeErr' = writeErr ELSE TRUE
    BY <1>8, Zenon DEF CloseAllStep, AppClose, Acc!CloseWithError, accVars
  <2> QED
    BY <2>1, <2>2
<1> QED
  BY <1>1, <1>3, <1>4, <1>5, <1>6, <1>7, <1>8, Zenon DEF Next, Uploader, PostGoroutine

-----------------------------------------------------------------------------
(***************************************************************************)
(* The accumulator.                                                        *)
(***************************************************************************)
AccProofs == INSTANCE BatchAccumulatorProofs WITH
  Writers <- {App}, Batch <- MaxEachPost, Errors <- {"post"}, closed <- accClosed

\* What the uplink does to the accumulator is what BatchAccumulator does.
LEMMA AccumulatorStep == [Next]_vars => [AccProofs!Next]_(AccProofs!vars)
<1> USE DEF AccProofs!vars, AccProofs!callVars, accVars
<1>1. ASSUME Acc!Drain PROVE AccProofs!Drain
  BY <1>1, Zenon DEF Acc!Drain, AccProofs!Drain, Acc!TakeChunk, AccProofs!TakeChunk,
    Acc!maxBatch, AccProofs!maxBatch, Acc!Awake, AccProofs!Awake
<1>2. ASSUME NEW err, Acc!CloseWithError(err) PROVE AccProofs!CloseWithError(err)
  BY <1>2, Zenon DEF Acc!CloseWithError, AccProofs!CloseWithError, Acc!Awake, AccProofs!Awake
<1>3. ASSUME NEW n, Acc!TryWrite(App, n) PROVE AccProofs!TryWrite(App, n)
  BY <1>3, Zenon DEF Acc!TryWrite, AccProofs!TryWrite, Acc!maxBatch, AccProofs!maxBatch,
    Acc!BroadcastAndLeave, AccProofs!BroadcastAndLeave, Acc!Awake, AccProofs!Awake
<1>4. ASSUME NEW n \in WriteSizes, Acc!WriteCall(App, n) PROVE AccProofs!WriteCall(App, n)
  BY <1>3, <1>4, Zenon DEF Acc!WriteCall, AccProofs!WriteCall
<1>5. ASSUME Acc!WriteResume(App) PROVE AccProofs!WriteResume(App)
  BY <1>3, <1>5, Zenon DEF Acc!WriteResume, AccProofs!WriteResume
<1>6. \/ AppWrite \/ UpDrain \/ CloseAllStep \/ AppClose \/ (\E s \in Seqs : PostCloseAcc(s))
      \/ UNCHANGED accVars
    => [AccProofs!Next]_(AccProofs!vars)
  BY <1>1, <1>2, <1>4, <1>5, Zenon
     DEF AppWrite, UpDrain, CloseAllStep, AppClose, PostCloseAcc, AccProofs!Next
<1>7. [Next]_vars =>
      \/ AppWrite \/ UpDrain \/ CloseAllStep \/ AppClose \/ (\E s \in Seqs : PostCloseAcc(s))
      \/ UNCHANGED accVars
  <2>1. ASSUME Uploader PROVE UpDrain \/ UNCHANGED accVars
    BY <2>1, Zenon DEF Uploader, UpTop, UpGot, UpSend, UpWait
  <2>2. ASSUME NEW s \in Seqs, PostGoroutine(s) PROVE PostCloseAcc(s) \/ UNCHANGED accVars
    BY <2>2, Zenon DEF PostGoroutine, PostWritten, PostResend, PostOK, PostFail, PostCloseAll,
      PostJoin
  <2> QED
    BY <2>1, <2>2, Zenon
       DEF Next, CallerCancels, ServerHandler, ServerRead, ServerClose, vars
<1> QED
  BY <1>6, <1>7

\* So the theorems about it hold here, with one writer and one error.
LEMMA Accumulator == Spec => [](AccProofs!TypeOK /\ AccProofs!Fifo)
<1>1. Init => AccProofs!Init
  BY DEF Init, Acc!Init, AccProofs!Init
<1>2. AccProofs!Spec => [](AccProofs!TypeOK /\ AccProofs!Fifo)
  <2>1. AccProofs!Spec => []AccProofs!IInv
    BY AccProofs!Invariance, SizesAssumption, BoundsAssumption
  <2>2. AccProofs!IInv => AccProofs!TypeOK /\ AccProofs!Fifo
    BY DEF AccProofs!IInv
  <2> QED
    BY <2>1, <2>2, PTL
<1> QED
  BY <1>1, <1>2, AccumulatorStep, PTL DEF Spec, AccProofs!Spec

\* What the other lemmas need of it.
LEMMA AccFacts ==
  ASSUME AccProofs!TypeOK, AccProofs!Fifo
  PROVE  AccOK
<1>1. /\ chunk \in Seq(Nat) /\ drained \in Seq(Nat) /\ accepted \in Nat /\ data \in Seq(Nat)
  BY DEF AccProofs!TypeOK
<1>2. /\ accepted = Len(drained) + Len(data)
      /\ \A i \in DOMAIN drained : drained[i] = i
  BY Zenon DEF AccProofs!Fifo
<1>3. writeLen[App] \in Nat
  BY Zenon DEF AccProofs!TypeOK
<1> QED
  BY <1>1, <1>2, <1>3 DEF AccOK

-----------------------------------------------------------------------------
(***************************************************************************)
(* The theorems.                                                           *)
(***************************************************************************)
\* The invariant holds.
LEMMA Invariance == Spec => [](Inv /\ AccOK)
<1>1. Spec => []AccOK
  BY Accumulator, AccFacts, PTL
<1>2. Inv /\ AccOK /\ AccOK' /\ [Next]_vars => Inv'
  BY InvKept
<1> QED
  BY <1>1, <1>2, InvStarts, PTL DEF Spec

\* The packet-up uplink implements a byte stream (module ByteStream), whatever
\* is lost, repeated, cancelled or closed: the server's upper layer reads a
\* beginning of what the application wrote.
THEOREM UplinkIsStream == Spec => EndToEnd
<1>1. Init => Stream!Init
  BY DEF Init, Acc!Init, Q!QueueInit, Stream!Init
<1>2. Inv /\ AccOK => Behind
  BY ReaderBehind
<1>3. /\ Inv /\ AccOK /\ Behind /\ Inv' /\ AccOK' /\ Behind' /\ [Next]_vars
      => [Stream!Next]_(Stream!vars)
  BY StreamStep
<1> QED
  BY <1>1, <1>2, <1>3, Invariance, PTL DEF Spec, EndToEnd, Stream!Spec

\* Over HTTP/1.1 "the server's reassembly queue never has to buffer/reorder"
\* (README.md): runPacketUploader waits for the answer of a POST before it
\* sends the next, so no packet is early and the queue never overflows.
THEOREM OrderedOverH1 == Spec => []InOrderOnH1
<1>1. Inv => InOrderOnH1
  <2> SUFFICES ASSUME Inv, transport = "h1" PROVE NeverReorders /\ dropped = {}
    BY DEF InOrderOnH1
  <2>1. \A p \in heap : p \in Posts /\ p[1] = nextSeq /\ nextSeq \in Nat
    BY Zenon DEF Inv, InTurn, Alone, Types
  <2>2. \A p \in heap : pkt[p].seq = nextSeq
    BY <2>1, Zenon DEF Inv, Packets
  <2>3. nextSeq <= nextSeq
    BY DEF Inv, Types
  <2> QED
    BY <2>2, <2>3, Zenon DEF NeverReorders, Inv, InTurn, Alone
<1> QED
  BY <1>1, Invariance, PTL

\* An application that has not closed its connection sees the error of a
\* failed POST in its writes, never io.ErrClosedPipe: sendOnePost calls
\* acc.CloseWithError(postErr) before closeAll's acc.Close.
THEOREM ErrorSurfaces == Spec => []PostErrorSurfaces
<1>1. Inv => post \in [Seqs -> {"none", "running", "failed", "closing", "joined", "ended"}]
  BY DEF Inv, Types
<1>2. /\ Surfacing /\ [Next]_vars
      /\ post \in [Seqs -> {"none", "running", "failed", "closing", "joined", "ended"}]
      => Surfacing'
  BY SurfacingKept
<1>3. Surfacing => PostErrorSurfaces
  BY DEF Surfacing
<1> QED
  BY <1>1, <1>2, <1>3, SurfacingStarts, Invariance, PTL DEF Spec
=============================================================================
