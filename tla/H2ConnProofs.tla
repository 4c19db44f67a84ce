---------------------------- MODULE H2ConnProofs ----------------------------
(***************************************************************************)
(* The inductive invariant of the rewriting HTTP/2 connection, for any     *)
(* number of streams and frames; what x/net writes and what Read observes  *)
(* keep it.  H2WriteProofs goes on with the steps of Write, and            *)
(* TransportProofs concludes.                                              *)
(*                                                                         *)
(* H2Inv relates the frames that come out (Out) to those x/net wrote       *)
(* (Mirror, but for the block InHand), the stream table to both directions *)
(* (Table), and the limit and the parent to what the peer had sent (Sizes, *)
(* Parents).                                                               *)
(***************************************************************************)
EXTENDS H2Conn, TLAPS

\* A parent and when it was chosen.
Choice == [s : Nat, at : Nat]

\* The frames of the connection, of either direction.
H2Frame ==
  [t : {"SETTINGS"}, ids : Seq(Nat)] \cup [t : {"SETTINGS"}, size : Nat]
    \cup [t : {"ACK"}, of : Nat]
    \cup [t : {"HEADERS"}, s : Streams, end : BOOLEAN, last : BOOLEAN, n : Nat, parent : Choice]
    \cup [t : {"CONTINUATION"}, s : Streams, last : BOOLEAN, n : Nat]
    \cup [t : {"DATA", "RST"}, s : Streams]

\* What the kind of a frame says about its fields.
LEMMA Kinds ==
  ASSUME NEW f \in H2Frame
  PROVE  /\ f.t \in {"SETTINGS", "ACK", "HEADERS", "CONTINUATION", "DATA", "RST"}
         /\ f.t \in {"HEADERS", "CONTINUATION", "DATA", "RST"} => f.s \in Streams /\ f.s \in Nat
         /\ f.t \in {"HEADERS", "CONTINUATION"} => f.last \in BOOLEAN /\ f.n \in Nat
         /\ f.t = "HEADERS" => f.end \in BOOLEAN /\ f.parent \in Choice
         /\ f.t = "ACK" => f.of \in Nat
<1>1. \A s \in Streams : s \in Nat
  BY StreamsAssumption
<1> QED
  BY <1>1 DEF H2Frame

\* The frames of x/net, of Write and of the peer.
LEMMA Made ==
  ASSUME NEW s \in Streams, NEW end \in BOOLEAN, NEW last \in BOOLEAN, NEW n \in Nat,
         NEW parent \in Choice
  PROVE  /\ Headers(s, end, last, n, parent) \in H2Frame
         /\ Continuation(s, last, n) \in H2Frame
         /\ Data(s) \in H2Frame /\ Reset(s) \in H2Frame
         /\ Ack(n) \in H2Frame /\ PeerSettings(n) \in H2Frame
  BY DEF H2Frame, Headers, Continuation, Data, Reset, Ack, PeerSettings

\* What the first n frames say depends on these frames alone,
LEMMA CarryPrefix ==
  ASSUME NEW f, NEW g, NEW n \in Nat, \A k \in 1 .. n : f[k] = g[k]
  PROVE  /\ \A t, s : Carry(f, n, t, s) <=> Carry(g, n, t, s)
         /\ Opened(f, n) = Opened(g, n)
         /\ \A s : ResetIn(f, n, s) <=> ResetIn(g, n, s)
         /\ \A s : EndedIn(f, n, s) <=> EndedIn(g, n, s)
         /\ \A k : Acked(f, n, k) <=> Acked(g, n, k)
         /\ Unfinished(f, n) <=> Unfinished(g, n)
<1>1. \A t, s : Carry(f, n, t, s) <=> Carry(g, n, t, s)
  BY DEF Carry
<1>2. \A s : EndedIn(f, n, s) <=> EndedIn(g, n, s)
  BY <1>1 DEF EndedIn
<1>3. Unfinished(f, n) <=> Unfinished(g, n)
  BY DEF Unfinished
<1> QED
  BY <1>1, <1>2, <1>3 DEF Opened, ResetIn, Acked

\* it is never taken back,
LEMMA CarryMore ==
  ASSUME NEW f, NEW m \in Nat, NEW n \in Nat, m <= n
  PROVE  /\ \A t, s : Carry(f, m, t, s) => Carry(f, n, t, s)
         /\ Opened(f, m) \subseteq Opened(f, n)
         /\ \A s : ResetIn(f, m, s) => ResetIn(f, n, s)
         /\ \A s : EndedIn(f, m, s) => EndedIn(f, n, s)
<1>1. \A t, s : Carry(f, m, t, s) => Carry(f, n, t, s)
  BY DEF Carry
<1>2. \A s : EndedIn(f, m, s) => EndedIn(f, n, s)
  BY <1>1 DEF EndedIn
<1> QED
  BY <1>1, <1>2 DEF Opened, ResetIn

\* and the next frame adds what it says itself.
LEMMA CarryNext ==
  ASSUME NEW f, NEW n \in Nat
  PROVE  /\ \A t, s : Carry(f, n + 1, t, s) <=> Carry(f, n, t, s)
            \/ (f[n + 1].t = t /\ f[n + 1].s = s)
         /\ \A s : s \in Opened(f, n + 1) <=>
                     s \in Opened(f, n)
                        \/ (s \in Streams /\ f[n + 1].t = "HEADERS" /\ f[n + 1].s = s)
         /\ \A s : ResetIn(f, n + 1, s) <=> ResetIn(f, n, s)
            \/ (f[n + 1].t = "RST" /\ f[n + 1].s = s)
         /\ \A s : EndedIn(f, n + 1, s) <=>
                     \/ EndedIn(f, n, s)
                     \/ f[n + 1].t = "DATA" /\ f[n + 1].s = s
                     \/ f[n + 1].t = "HEADERS" /\ f[n + 1].s = s /\ f[n + 1].end
<1>1. 1 .. (n + 1) = (1 .. n) \cup {n + 1}
  OBVIOUS
<1>2. \A t, s : Carry(f, n + 1, t, s) <=> Carry(f, n, t, s) \/ (f[n + 1].t = t /\ f[n + 1].s = s)
  BY <1>1, Zenon DEF Carry
<1>3. \A s : EndedIn(f, n + 1, s) <=>
                     \/ EndedIn(f, n, s)
                     \/ f[n + 1].t = "DATA" /\ f[n + 1].s = s
                     \/ f[n + 1].t = "HEADERS" /\ f[n + 1].s = s /\ f[n + 1].end
  BY <1>1, <1>2, Zenon DEF EndedIn
<1> QED
  BY <1>2, <1>3, Zenon DEF Opened, ResetIn

\* The number of CONTINUATIONs that r units need.
LEMMA Division ==
  ASSUME NEW r \in Nat, NEW max \in Nat \ {0}
  PROVE  LET c == (r + max - 1) \div max
         IN  c \in Nat /\ r <= c * max /\ c * max < r + max /\ (c = 0 <=> r = 0)
  OBVIOUS
-----------------------------------------------------------------------------
(***************************************************************************)
(* The invariant.                                                          *)
(***************************************************************************)
\* The frames of this connection so far, written or about to be.
Out == wire \o output

\* The frames of x/net that the stream table knows: startHeaderBlock notes one it
\* has not finished with.
Noted == IF wpc \in {"parent", "finish"} THEN done + 1 ELSE done

\* Types.  The output of the loop is written before Write returns, and no Write
\* follows a failed one.
H2Types ==
  /\ src \in Seq(H2Frame) /\ done \in 0 .. Len(src)
  /\ wpc \in {"idle", "loop", "parent", "finish"}
  /\ output \in Seq(H2Frame) /\ wire \in Seq(H2Frame) /\ writeErr \in BOOLEAN
  /\ order \in Seq(Streams) /\ ended \in [Streams -> SUBSET {"local", "remote"}]
  /\ maxFrame \in Nat \ {0}
  /\ answers \in Seq(H2Frame) /\ seen \in 0 .. Len(answers)
  /\ wpc = "idle" => output = <<>>
  /\ writeErr => wpc = "idle"
  /\ wpc \in {"parent", "finish"} => done < Len(src)

\* x/net opens the streams in their order, once each, and speaks of open ones only;
\* it acknowledges SETTINGS it has received.
Source ==
  /\ WholeBlocks(src)
  /\ \A i \in 1 .. Len(src) : \A j \in 1 .. Len(src) :
       i < j /\ src[i].t = "HEADERS" /\ src[j].t = "HEADERS" => src[i].s < src[j].s
  /\ \A q \in Opened(src, Len(src)) : \A s \in Streams : s < q => s \in Opened(src, Len(src))
  /\ \A i \in 1 .. Len(src) :
       /\ src[i].t \in {"DATA", "RST"} => src[i].s \in Opened(src, i - 1)
       /\ src[i].t = "ACK" => src[i].of \in 1 .. Len(answers) /\ answers[src[i].of].t = "SETTINGS"
       /\ src[i].t = "SETTINGS" => src[i] = Settings(initialSettings)

\* The peer speaks of streams it has received.
Peer ==
  \A j \in 1 .. Len(answers) :
    /\ answers[j].t \in {"SETTINGS", "DATA", "RST"}
    /\ answers[j].t \in {"DATA", "RST"} => answers[j].s \in Opened(src, Noted)
    /\ answers[j].t = "SETTINGS" => answers[j].size \in Nat \ {0}

\* maxFrame is the size of the last SETTINGS.
Limit ==
  \E j \in 0 .. Len(answers) :
    /\ j > 0 => answers[j].t = "SETTINGS"
    /\ \A k \in j + 1 .. Len(answers) : answers[k].t # "SETTINGS"
    /\ maxFrame = IF j = 0 THEN DefaultSize ELSE answers[j].size

\* The table for the streams opened, reset by one of the two, and ended by each.
TableOf(opened, reset, local, remote) ==
  /\ \A i \in 1 .. Len(order) : \A j \in 1 .. Len(order) : i < j => order[i] < order[j]
  /\ \A s \in Streams : InTable(s) <=> s \in opened \ reset /\ s \notin local \cap remote
  /\ \A s \in Streams :
       IF InTable(s)
       THEN ("local" \in ended[s] <=> s \in local) /\ ("remote" \in ended[s] <=> s \in remote)
       ELSE ended[s] = {}

\* The streams that one of the two has reset, that x/net and that the peer ended.
Resets == {s \in Streams : ResetIn(src, Noted, s) \/ ResetIn(answers, Len(answers), s)}
LocalEnds == {s \in Streams : EndedIn(src, Noted, s)}
RemoteEnds == {s \in Streams : EndedIn(answers, Len(answers), s)}

\* The table is exact between the two halves of startHeaderBlock too.
Table == TableOf(Opened(src, Noted), Resets, LocalEnds, RemoteEnds)

\* A header block of x/net is noted, but not yet rewritten: src[q] opens it.
Pending == wpc \in {"parent", "finish"} \/ Unfinished(src, done)
InHand(q) == Pending /\ src[q].t = "HEADERS" /\ src[q].s = src[Noted].s

\* It started at src[h], and nothing but its CONTINUATIONs came after.
StartsAt(h) ==
  /\ src[h].t = "HEADERS"
  /\ \A k \in h + 1 .. Noted : src[k].t = "CONTINUATION"
  /\ src[h].s = src[Noted].s
  /\ wpc # "parent" => block.s = src[h].s /\ block.end = src[h].end /\ block.parent \in Choice

\* The block in hand is the last that x/net wrote; "finish" means it is complete.
InBlock ==
  /\ Pending => \E h \in 1 .. Noted : StartsAt(h)
  /\ wpc = "parent" => src[Noted].t = "HEADERS"
  /\ wpc = "finish" => src[Noted].t \in {"HEADERS", "CONTINUATION"} /\ src[Noted].last

\* What comes out stands for what went in, and only the block in hand is missing.
Mirror ==
  /\ WholeBlocks(Out)
  /\ \A i \in 1 .. Len(Out) :
       /\ Begins(Out[i]) => \E p \in 1 .. Noted : StandsFor(Out, i, p) /\ ~InHand(p)
       /\ Completes(Out, i)
  /\ ~writeErr => /\ ~Unfinished(Out, Len(Out))
                  /\ \A q \in 1 .. Noted :
                       Begins(src[q]) /\ ~InHand(q) => \E k \in 1 .. Len(Out) : Same(Out[k], src[q])

\* Header frames fit the size the peer allowed.
Sizes == \A i \in 1 .. Len(Out) : Out[i].t \in {"HEADERS", "CONTINUATION"} => Fits(Out, i)

\* The parent of a block fits what comes out before it.
Parents ==
  /\ \A i \in 1 .. Len(Out) : Out[i].t = "HEADERS" => Youngest(Out[i].parent, Out, i - 1)
  /\ Pending /\ wpc # "parent" /\ ~writeErr => Youngest(block.parent, Out, Len(Out))

\* The inductive invariant.
H2Inv == H2Types /\ Source /\ Peer /\ Limit /\ Table /\ InBlock /\ Mirror /\ Sizes /\ Parents

-----------------------------------------------------------------------------
(***************************************************************************)
(* The stream table.                                                       *)
(***************************************************************************)
TableTypes == order \in Seq(Streams) /\ ended \in [Streams -> SUBSET {"local", "remote"}]

\* removeStream takes s out of the table and keeps the order of the others.
LEMMA Removing ==
  ASSUME TableTypes, NEW s \in Streams, InTable(s), removeStream(s),
         \A i \in 1 .. Len(order) : \A j \in 1 .. Len(order) : i < j => order[i] < order[j]
  PROVE  /\ TableTypes'
         /\ \A i \in 1 .. Len(order') : \A j \in 1 .. Len(order') : i < j => order'[i] < order'[j]
         /\ \A q \in Streams : InTable(q)' <=> InTable(q) /\ q # s
         /\ \A q \in Streams : ended'[q] = IF q = s THEN {} ELSE ended[q]
<1>1. PICK at \in 1 .. Len(order) :
        /\ order[at] = s
        /\ order' = [i \in 1 .. Len(order) - 1 |-> IF i < at THEN order[i] ELSE order[i + 1]]
        /\ ended' = [ended EXCEPT ![s] = {}]
  <2> DEFINE at == CHOOSE i \in DOMAIN order : order[i] = s
  <2>1. at \in DOMAIN order /\ order[at] = s
    BY DEF InTable
  <2>2. at \in 1 .. Len(order)
    BY <2>1 DEF TableTypes
  <2> QED
    BY <2>1, <2>2, Zenon DEF removeStream
<1>2. Len(order) \in Nat /\ DOMAIN order = 1 .. Len(order)
         /\ \A i \in 1 .. Len(order) : order[i] \in Streams
  BY DEF TableTypes
<1>3. order' \in Seq(Streams) /\ Len(order') = Len(order) - 1 /\ DOMAIN order' = 1 .. Len(order) - 1
  BY <1>1, <1>2
<1>4. \A i \in 1 .. Len(order) - 1 : order'[i] = IF i < at THEN order[i] ELSE order[i + 1]
  BY <1>1
<1>5. \A i \in 1 .. Len(order) : order[i] \in Nat
  BY <1>2, StreamsAssumption, Zenon
<1>6. \A i \in 1 .. Len(order') : \A j \in 1 .. Len(order') : i < j => order'[i] < order'[j]
  BY <1>2, <1>3, <1>4, <1>5
<1>7. ASSUME NEW q \in Streams PROVE InTable(q)' <=> InTable(q) /\ q # s
  <2>1. ASSUME NEW i \in 1 .. Len(order) - 1, order'[i] = q PROVE InTable(q) /\ q # s
    <3>1. PICK k \in 1 .. Len(order) : order[k] = q /\ k # at
      BY <1>1, <1>2, <1>4, <2>1
    <3>2. order[k] # order[at]
      BY <1>1, <1>5, <3>1
    <3> QED
      BY <1>1, <1>2, <3>1, <3>2 DEF InTable
  <2>2. ASSUME NEW i \in 1 .. Len(order), order[i] = q, q # s PROVE InTable(q)'
    <3>1. CASE i < at
      BY <1>2, <1>3, <1>4, <2>2, <3>1 DEF InTable
    <3>2. CASE i > at
      <4>1. i - 1 \in 1 .. Len(order) - 1 /\ order'[i - 1] = q
        BY <1>2, <1>4, <2>2, <3>2
      <4> QED
        BY <1>3, <4>1 DEF InTable
    <3> QED
      BY <1>1, <2>2, <3>1, <3>2
  <2> QED
    BY <1>2, <1>3, <2>1, <2>2 DEF InTable
<1>8. ended' \in [Streams -> SUBSET {"local", "remote"}]
  BY <1>1 DEF TableTypes
<1>9. \A q \in Streams : ended'[q] = IF q = s THEN {} ELSE ended[q]
  BY <1>1 DEF TableTypes
<1> QED
  BY <1>3, <1>6, <1>7, <1>8, <1>9 DEF TableTypes

\* A RST_STREAM of either side.
LEMMA TableReset ==
  ASSUME TableTypes, NEW s \in Streams, removeStream(s),
         NEW opened, NEW reset, NEW local, NEW remote, TableOf(opened, reset, local, remote)
  PROVE  TableTypes' /\ TableOf(opened, reset \cup {s}, local, remote)'
<1>1. CASE InTable(s)
  BY <1>1, Removing DEF TableOf
<1>2. CASE ~InTable(s)
  BY <1>2 DEF TableOf, removeStream, tVars, TableTypes, InTable
<1> QED
  BY <1>1, <1>2

\* An END_STREAM of the client.
LEMMA TableLocalEnd ==
  ASSUME TableTypes, NEW s \in Streams, noteEnd(s, "local"),
         NEW opened, NEW reset, NEW local, NEW remote, TableOf(opened, reset, local, remote),
         s \in opened
  PROVE  TableTypes' /\ TableOf(opened, reset, local \cup {s}, remote)'
<1>1. CASE ~InTable(s)
  BY <1>1 DEF TableOf, noteEnd, tVars, TableTypes, InTable
<1>2. CASE InTable(s) /\ ended[s] \cup {"local"} = {"local", "remote"}
  <2>1. removeStream(s)
    BY <1>2 DEF noteEnd
  <2>2. "remote" \in ended[s]
    BY <1>2
  <2> QED
    BY <1>2, <2>1, <2>2, Removing DEF TableOf
<1>3. CASE InTable(s) /\ ended[s] \cup {"local"} # {"local", "remote"}
  <2>1. ended' = [ended EXCEPT ![s] = @ \cup {"local"}] /\ order' = order
    BY <1>3 DEF noteEnd
  <2>2. "remote" \notin ended[s]
    BY <1>3 DEF TableTypes
  <2>3. \A q \in Streams : InTable(q)' <=> InTable(q)
    BY <2>1 DEF InTable
  <2>4. \A q \in Streams : ended'[q] = IF q = s THEN ended[s] \cup {"local"} ELSE ended[q]
    BY <2>1 DEF TableTypes
  <2>5. TableTypes'
    BY <2>1 DEF TableTypes
  <2> QED
    BY <1>3, <2>1, <2>2, <2>3, <2>4, <2>5 DEF TableOf
<1> QED
  BY <1>1, <1>2, <1>3

\* An END_STREAM of the peer.
LEMMA TableRemoteEnd ==
  ASSUME TableTypes, NEW s \in Streams, noteEnd(s, "remote"),
         NEW opened, NEW reset, NEW local, NEW remote, TableOf(opened, reset, local, remote),
         s \in opened
  PROVE  TableTypes' /\ TableOf(opened, reset, local, remote \cup {s})'
<1>1. CASE ~InTable(s)
  BY <1>1 DEF TableOf, noteEnd, tVars, TableTypes, InTable
<1>2. CASE InTable(s) /\ ended[s] \cup {"remote"} = {"local", "remote"}
  <2>1. removeStream(s)
    BY <1>2 DEF noteEnd
  <2>2. "local" \in ended[s]
    BY <1>2
  <2> QED
    BY <1>2, <2>1, <2>2, Removing DEF TableOf
<1>3. CASE InTable(s) /\ ended[s] \cup {"remote"} # {"local", "remote"}
  <2>1. ended' = [ended EXCEPT ![s] = @ \cup {"remote"}] /\ order' = order
    BY <1>3 DEF noteEnd
  <2>2. "local" \notin ended[s]
    BY <1>3 DEF TableTypes
  <2>3. \A q \in Streams : InTable(q)' <=> InTable(q)
    BY <2>1 DEF InTable
  <2>4. \A q \in Streams : ended'[q] = IF q = s THEN ended[s] \cup {"remote"} ELSE ended[q]
    BY <2>1 DEF TableTypes
  <2>5. TableTypes'
    BY <2>1 DEF TableTypes
  <2> QED
    BY <1>3, <2>1, <2>2, <2>3, <2>4, <2>5 DEF TableOf
<1> QED
  BY <1>1, <1>2, <1>3

\* HEADERS of a new stream, younger than all the others.
LEMMA TableHeaders ==
  ASSUME TableTypes, NEW s \in Streams, NEW end \in BOOLEAN, noteLocalHeaders(s, end),
         NEW opened, NEW reset, NEW local, NEW remote, TableOf(opened, reset, local, remote),
         opened \subseteq Streams, \A q \in opened : q < s,
         s \notin reset, s \notin local, s \notin remote
  PROVE  /\ TableTypes'
         /\ TableOf(opened \cup {s}, reset, IF end THEN local \cup {s} ELSE local, remote)'
<1>1. ~InTable(s) /\ ended[s] = {} /\ s \in Nat
  BY StreamsAssumption DEF TableOf
<1>2. order' = Append(order, s) /\ ended' = [ended EXCEPT ![s] = IF end THEN {"local"} ELSE {}]
  BY <1>1 DEF noteLocalHeaders
<1>3. Len(order) \in Nat /\ DOMAIN order = 1 .. Len(order)
         /\ \A i \in 1 .. Len(order) : order[i] \in Streams
  BY DEF TableTypes
<1>4. order' \in Seq(Streams) /\ Len(order') = Len(order) + 1 /\ DOMAIN order' = 1 .. Len(order) + 1
        /\ order'[Len(order) + 1] = s /\ \A i \in 1 .. Len(order) : order'[i] = order[i]
  BY <1>2, <1>3 DEF TableTypes
<1>5. \A i \in 1 .. Len(order) : order[i] \in Nat /\ order[i] < s
  BY <1>3, StreamsAssumption, Zenon DEF TableOf, InTable
<1>6. \A i \in 1 .. Len(order') : \A j \in 1 .. Len(order') : i < j => order'[i] < order'[j]
  BY <1>3, <1>4, <1>5 DEF TableOf
<1>7. \A q \in Streams : InTable(q)' <=> InTable(q) \/ q = s
  BY <1>3, <1>4 DEF InTable
<1>8. \A q \in Streams : ended'[q] = IF q = s THEN (IF end THEN {"local"} ELSE {}) ELSE ended[q]
  BY <1>2 DEF TableTypes
<1>9. ended' \in [Streams -> SUBSET {"local", "remote"}]
  BY <1>2 DEF TableTypes
<1>10. TableTypes'
  BY <1>4, <1>9 DEF TableTypes
<1> QED
  BY <1>1, <1>6, <1>7, <1>8, <1>10 DEF TableOf

\* A step that opens, ends and resets no stream.
LEMMA TableFrame ==
  ASSUME Table, order' = order, ended' = ended, Opened(src', Noted') = Opened(src, Noted),
         Resets' = Resets, LocalEnds' = LocalEnds, RemoteEnds' = RemoteEnds
  PROVE  Table'
<1>1. \A s : InTable(s)' <=> InTable(s)
  BY DEF InTable
<1> QED
  BY <1>1 DEF Table, TableOf

-----------------------------------------------------------------------------
(***************************************************************************)
(* x/net writes a frame.                                                   *)
(***************************************************************************)
\* What x/net may write next.
LEMMA NextFrame ==
  ASSUME H2Types, NEW f \in XFrames
  PROVE  /\ f \in H2Frame
         /\ f.t \in {"HEADERS", "CONTINUATION", "DATA", "RST", "ACK"}
         /\ f.t = "CONTINUATION" <=> Unfinished(src, Len(src))
         /\ f.t = "CONTINUATION" => f.s = src[Len(src)].s
         /\ f.t = "HEADERS" => /\ f.s \in Streams \ Opened(src, Len(src))
                               /\ \A q \in Streams : q < f.s => q \in Opened(src, Len(src))
         /\ f.t \in {"DATA", "RST"} => f.s \in Opened(src, Len(src))
         /\ f.t = "ACK" => f.of \in 1 .. seen /\ answers[f.of].t = "SETTINGS"
<1> DEFINE n == Len(src)
           new == {s \in Streams \ Opened(src, n) : \A q \in Streams : q < s
              => q \in Opened(src, n)}
           live == {s \in Opened(src, n) : ~ResetIn(src, n, s) /\ ~ResetIn(answers, seen, s)}
           due == {k \in 1 .. seen : answers[k].t = "SETTINGS" /\ ~Acked(src, n, k)}
<1>0. Parent(0, 0) \in Choice
  BY DEF Parent, Choice
<1>1. CASE Unfinished(src, n)
  <2>1. PICK last \in BOOLEAN : f = Continuation(src[n].s, last, 1)
    BY <1>1 DEF XFrames
  <2>2. n \in 1 .. Len(src) /\ src[n] \in H2Frame /\ src[n].t \in {"HEADERS", "CONTINUATION"}
    BY <1>1 DEF Unfinished, GoesOn, H2Types
  <2>3. src[n].s \in Streams
    BY <2>2, Kinds
  <2>4. f \in H2Frame
    BY <1>0, <2>1, <2>3, Made
  <2> QED
    BY <1>1, <2>1, <2>4 DEF Continuation
<1>2. CASE ~Unfinished(src, n)
  <2>1. \/ \E s \in new, end \in BOOLEAN, last \in BOOLEAN :
              f = Headers(s, end, last, 1, Parent(0, 0))
        \/ \E s \in live : f = Data(s) \/ f = Reset(s)
        \/ \E k \in due : f = Ack(k)
    BY <1>2 DEF XFrames
  <2>2. ASSUME NEW s \in new, NEW end \in BOOLEAN, NEW last \in BOOLEAN,
               f = Headers(s, end, last, 1, Parent(0, 0))
        PROVE  f \in H2Frame /\ f.t = "HEADERS" /\ f.s = s
    BY <1>0, <2>2, Made DEF Headers
  <2>3. ASSUME NEW s \in live, f = Data(s) \/ f = Reset(s)
        PROVE  f \in H2Frame /\ f.t \in {"DATA", "RST"} /\ f.s = s
    <3>1. s \in Streams
      BY Zenon DEF Opened
    <3>2. f \in H2Frame
      BY <2>3, <3>1 DEF H2Frame, Data, Reset
    <3> QED
      BY <2>3, <3>2 DEF Data, Reset
  <2>4. ASSUME NEW k \in due, f = Ack(k)
        PROVE  f \in H2Frame /\ f.t = "ACK" /\ f.of = k
    <3>1. k \in Nat
      BY DEF H2Types
    <3>2. f \in H2Frame
      BY <2>4, <3>1 DEF H2Frame, Ack
    <3> QED
      BY <2>4, <3>2 DEF Ack
  <2> QED
    BY <1>2, <2>1, <2>2, <2>3, <2>4
<1> QED
  BY <1>1, <1>2

\* A further frame of x/net keeps the order of its streams.
LEMMA SourceKept ==
  ASSUME H2Types, Source, NEW f \in XFrames, src' = Append(src, f), UNCHANGED answers
  PROVE  Source'
<1> DEFINE n == Len(src)
<1>1. n \in Nat /\ Len(src') = n + 1 /\ src'[n + 1] = f /\ DOMAIN src = 1 .. n
         /\ DOMAIN src' = 1 .. (n + 1)
        /\ \A i \in 1 .. n : src'[i] = src[i] /\ src[i] \in H2Frame
  BY NextFrame DEF H2Types
<1>2. \A m \in 0 .. n : Opened(src', m) = Opened(src, m)
         /\ (Unfinished(src', m) <=> Unfinished(src, m))
  <2>1. ASSUME NEW m \in 0 .. n
        PROVE  Opened(src', m) = Opened(src, m) /\ (Unfinished(src', m) <=> Unfinished(src, m))
    <3>1. m \in Nat /\ \A k \in 1 .. m : src'[k] = src[k]
      BY <1>1
    <3> QED
      BY <3>1, CarryPrefix, Zenon
  <2> QED
    BY <2>1
<1>3. \A s : s \in Opened(src', n + 1) <=> s \in Opened(src, n)
         \/ (s \in Streams /\ f.t = "HEADERS" /\ f.s = s)
  <2>1. Opened(src', n) = Opened(src, n)
    BY <1>1, <1>2
  <2> QED
    <3>1. \A s : s \in Opened(src', n + 1) <=>
                   s \in Opened(src', n)
                      \/ (s \in Streams /\ src'[n + 1].t = "HEADERS" /\ src'[n + 1].s = s)
      BY <1>1, CarryNext, Zenon
    <3> QED
      BY <1>1, <2>1, <3>1
<1>4. WholeBlocks(src)'
  <2>1. \A i \in 1 .. n : IF Unfinished(src', i - 1) THEN src'[i].t = "CONTINUATION"
           /\ src'[i].s = src'[i - 1].s
                          ELSE Begins(src'[i])
    BY <1>1, <1>2 DEF Source, WholeBlocks, Unfinished
  <2>2. IF Unfinished(src', n) THEN f.t = "CONTINUATION" /\ f.s = src'[n].s ELSE Begins(f)
    <3>1. Unfinished(src', n) <=> Unfinished(src, n)
      BY <1>1, <1>2
    <3>2. ASSUME Unfinished(src, n) PROVE src'[n] = src[n]
      <4>1. n \in 1 .. n
        BY <1>1, <3>2 DEF Unfinished
      <4> QED
        BY <1>1, <4>1
    <3> QED
      BY <3>1, <3>2, NextFrame, Zenon DEF Begins
  <2>3. ASSUME NEW i \in DOMAIN src' PROVE i \in 1 .. n \/ (i = n + 1 /\ i - 1 = n)
    BY <1>1
  <2> QED
    BY <1>1, <2>1, <2>2, <2>3, Zenon DEF WholeBlocks
<1>5. \A i \in 1 .. n : src[i].t = "HEADERS" => src[i].s \in Opened(src, n)
  BY <1>1, Kinds DEF Opened, Carry
<1>6. ASSUME f.t = "HEADERS" PROVE \A q \in Opened(src, n) : q < f.s
  <2>1. ASSUME NEW q \in Opened(src, n), f.s < q PROVE FALSE
    BY <1>6, <2>1, NextFrame DEF Source
  <2>2. Opened(src, n) \subseteq Nat /\ f.s \in Nat /\ f.s \notin Opened(src, n)
    BY <1>6, NextFrame, StreamsAssumption, Zenon DEF Opened
  <2> QED
    BY <2>1, <2>2
<1>7. \A i \in 1 .. n + 1 : \A j \in 1 .. n + 1 :
        i < j /\ src'[i].t = "HEADERS" /\ src'[j].t = "HEADERS" => src'[i].s < src'[j].s
  BY <1>1, <1>5, <1>6 DEF Source
<1>8. \A q \in Opened(src', n + 1) : \A s \in Streams : s < q => s \in Opened(src', n + 1)
  BY <1>3, NextFrame DEF Source
<1>9. \A i \in 1 .. n + 1 :
       /\ src'[i].t \in {"DATA", "RST"} => src'[i].s \in Opened(src', i - 1)
       /\ src'[i].t = "ACK" => src'[i].of \in 1 .. Len(answers)
          /\ answers[src'[i].of].t = "SETTINGS"
       /\ src'[i].t = "SETTINGS" => src'[i] = Settings(initialSettings)
  <2>1. ASSUME NEW i \in 1 .. n
        PROVE  /\ src'[i].t \in {"DATA", "RST"} => src'[i].s \in Opened(src', i - 1)
               /\ src'[i].t = "ACK" => src'[i].of \in 1 .. Len(answers)
                  /\ answers[src'[i].of].t = "SETTINGS"
               /\ src'[i].t = "SETTINGS" => src'[i] = Settings(initialSettings)
    <3>1. src'[i] = src[i] /\ Opened(src', i - 1) = Opened(src, i - 1)
      BY <1>1, <1>2
    <3> QED
      BY <3>1 DEF Source
  <2>2. /\ f.t \in {"DATA", "RST"} => f.s \in Opened(src', n)
        /\ f.t = "ACK" => f.of \in 1 .. Len(answers) /\ answers[f.of].t = "SETTINGS"
        /\ f.t # "SETTINGS"
    <3>1. Opened(src', n) = Opened(src, n)
      BY <1>1, <1>2
    <3>2. \A k \in 1 .. seen : k \in 1 .. Len(answers)
      BY DEF H2Types
    <3> QED
      BY <3>1, <3>2, NextFrame
  <2>3. n + 1 - 1 = n
    BY <1>1
  <2> QED
    BY <1>1, <2>1, <2>2, <2>3
<1> QED
  BY <1>1, <1>4, <1>7, <1>8, <1>9 DEF Source

\* x/net writes one.
LEMMA XStep ==
  ASSUME H2Inv, XProduces
  PROVE  H2Inv'
<1>1. PICK f \in XFrames : src' = Append(src, f)
  BY DEF XProduces
<1>2. /\ wpc = "idle" /\ wpc' = wpc /\ done' = done /\ block' = block /\ output' = output
         /\ wire' = wire
      /\ writeErr' = writeErr /\ order' = order /\ ended' = ended /\ maxFrame' = maxFrame
      /\ answers' = answers /\ seen' = seen
  BY DEF XProduces, tVars, rVars
<1>3. Source'
  BY <1>1, <1>2, SourceKept DEF H2Inv
<1>4. /\ Len(src) \in Nat /\ Len(src') = Len(src) + 1 /\ DOMAIN src = 1 .. Len(src)
      /\ DOMAIN src' = 1 .. Len(src) + 1 /\ src' \in Seq(H2Frame)
      /\ \A i \in 1 .. Len(src) : src'[i] = src[i]
  BY <1>1, NextFrame DEF H2Inv, H2Types
<1>5. Noted = done /\ Noted' = done /\ done \in 0 .. Len(src) /\ done \in Nat
  BY <1>2, <1>4 DEF Noted, H2Inv, H2Types
<1>6. H2Types'
  BY <1>2, <1>4, <1>5 DEF H2Inv, H2Types
<1>7. \A i \in 1 .. done : src'[i] = src[i]
  BY <1>4, <1>5
<1>8. /\ Opened(src', done) = Opened(src, done)
      /\ \A s : ResetIn(src', done, s) <=> ResetIn(src, done, s)
      /\ \A s : EndedIn(src', done, s) <=> EndedIn(src, done, s)
      /\ Unfinished(src', done) <=> Unfinished(src, done)
  BY <1>5, <1>7, CarryPrefix, Zenon
<1>9. Pending' <=> Pending
  BY <1>2, <1>8 DEF Pending
<1>10. ASSUME NEW q \in 1 .. done PROVE InHand(q)' <=> InHand(q)
  <2>1. done \in 1 .. done
    BY <1>5
  <2> QED
    BY <1>5, <1>7, <1>9, <2>1 DEF InHand
<1>11. Peer'
  BY <1>2, <1>5, <1>8 DEF Peer, H2Inv
<1>12. Limit'
  BY <1>2, Zenon DEF Limit, H2Inv
<1>13. Table'
  <2>1. Resets' = Resets /\ LocalEnds' = LocalEnds /\ RemoteEnds' = RemoteEnds
    BY <1>2, <1>5, <1>8, Zenon DEF Resets, LocalEnds, RemoteEnds
  <2> QED
    BY <1>2, <1>5, <1>8, <2>1, TableFrame DEF H2Inv
<1>14. InBlock'
  <2>1. ASSUME NEW h \in 1 .. done, StartsAt(h), Pending PROVE StartsAt(h)'
    <3>1. done \in 1 .. done /\ \A k \in h + 1 .. done : k \in 1 .. done
      BY <1>5
    <3> QED
      BY <1>2, <1>5, <1>7, <2>1, <3>1 DEF StartsAt
  <2> QED
    BY <1>2, <1>5, <1>9, <2>1 DEF InBlock, H2Inv
<1>15. Out' = Out
  BY <1>2 DEF Out
<1>16. Mirror'
  <2>1. ASSUME NEW i \in 1 .. Len(Out), NEW p \in 1 .. done, StandsFor(Out, i, p)
        PROVE StandsFor(Out, i, p)'
    <3>1. \A q \in 1 .. p - 1 : q \in 1 .. done
      BY <1>5
    <3> QED
      BY <1>7, <1>15, <2>1, <3>1 DEF StandsFor
  <2>2. ASSUME NEW i \in 1 .. Len(Out), Completes(Out, i) PROVE Completes(Out, i)'
    BY <1>4, <1>15, <2>2 DEF Completes
  <2>3. WholeBlocks(Out)'
    BY <1>15 DEF Mirror, WholeBlocks, H2Inv
  <2>4. \A i \in 1 .. Len(Out)' :
          /\ Begins(Out[i])' => \E p \in 1 .. Noted' : StandsFor(Out, i, p)' /\ ~InHand(p)'
          /\ Completes(Out, i)'
    BY <1>5, <1>10, <1>15, <2>1, <2>2 DEF Mirror, H2Inv
  <2>5. (~writeErr => ~Unfinished(Out, Len(Out)))'
    BY <1>2, <1>15 DEF Mirror, H2Inv
  <2>6. (~writeErr => \A q \in 1 .. Noted :
                       Begins(src[q]) /\ ~InHand(q)
                          => \E k \in 1 .. Len(Out) : Same(Out[k], src[q]))'
    BY <1>2, <1>5, <1>7, <1>10, <1>15 DEF Mirror, H2Inv
  <2> QED
    BY <2>3, <2>4, <2>5, <2>6 DEF Mirror
<1>17. Sizes'
  BY <1>2, <1>15 DEF Sizes, Fits, H2Inv
<1>18. Parents'
  BY <1>2, <1>9, <1>15 DEF Parents, Youngest, Closed, H2Inv
<1> QED
  BY <1>3, <1>6, <1>11, <1>12, <1>13, <1>14, <1>16, <1>17, <1>18 DEF H2Inv

\* A step between two frames.
LEMMA QuietStep ==
  ASSUME H2Inv, H2Types', src' = src, done' = done, block' = block, wire' = wire, output' = output,
         writeErr' = writeErr, order' = order, ended' = ended, maxFrame' = maxFrame,
         answers' = answers,
         wpc' = wpc \/ (wpc \notin {"parent", "finish"} /\ wpc' \notin {"parent", "finish"})
  PROVE  H2Inv'
<1>1. Noted' = Noted /\ (Pending' <=> Pending) /\ Out' = Out
  BY DEF Noted, Pending, Out
<1>2. \A q : InHand(q)' <=> InHand(q)
  BY <1>1 DEF InHand
<1>3. Source' /\ Peer' /\ Limit'
  BY <1>1 DEF H2Inv, Source, Peer, Limit
<1>4. Table'
  <2>1. Resets' = Resets /\ LocalEnds' = LocalEnds /\ RemoteEnds' = RemoteEnds
    BY <1>1, Zenon DEF Resets, LocalEnds, RemoteEnds
  <2> QED
    BY <1>1, <2>1, TableFrame DEF H2Inv
<1>5. InBlock'
  BY <1>1 DEF H2Inv, InBlock, StartsAt
<1>6. Mirror'
  BY <1>1, <1>2 DEF H2Inv, Mirror, StandsFor, Completes, WholeBlocks
<1>7. Sizes' /\ Parents'
  BY <1>1 DEF H2Inv, Sizes, Fits, Parents, Youngest, Closed
<1> QED
  BY <1>3, <1>4, <1>5, <1>6, <1>7 DEF H2Inv

-----------------------------------------------------------------------------
(***************************************************************************)
(* Read.                                                                   *)
(***************************************************************************)
\* What was written comes before what waits in output.
LEMMA Joined ==
  ASSUME NEW S, NEW a \in Seq(S), NEW b \in Seq(S)
  PROVE  /\ a \o b \in Seq(S) /\ Len(a \o b) = Len(a) + Len(b) /\ DOMAIN (a \o b) = 1 .. Len(a \o b)
         /\ \A k \in 1 .. Len(a) : (a \o b)[k] = a[k]
         /\ \A k \in 1 .. Len(b) : (a \o b)[Len(a) + k] = b[k]
  OBVIOUS

\* as Append extends the second.
LEMMA JoinedMore ==
  ASSUME NEW S, NEW a \in Seq(S), NEW b \in Seq(S), NEW x \in S
  PROVE  a \o Append(b, x) = Append(a \o b, x)
  OBVIOUS

\* What has been written, and what the loop has put together.
LEMMA OutIs ==
  ASSUME H2Types
  PROVE  /\ Out \in Seq(H2Frame) /\ Len(Out) \in Nat /\ DOMAIN Out = 1 .. Len(Out)
         /\ Len(wire) \in Nat /\ Len(output) \in Nat /\ Len(Out) = Len(wire) + Len(output)
         /\ \A i \in 1 .. Len(wire) : Out[i] = wire[i]
         /\ \A i \in 1 .. Len(output) : Out[Len(wire) + i] = output[i]
  BY DEF H2Types, Out

\* A stream opened by what comes out was opened by x/net, and its block is no
\* longer in hand.
LEMMA OpenedOut ==
  ASSUME H2Types, Mirror, NEW s \in Opened(Out, Len(Out))
  PROVE  s \in Opened(src, Noted) /\ (Pending => s # src[Noted].s)
<1>1. PICK i \in 1 .. Len(Out) : Out[i].t = "HEADERS" /\ Out[i].s = s
  BY DEF Opened, Carry
<1>2. PICK p \in 1 .. Noted : StandsFor(Out, i, p) /\ ~InHand(p)
  BY <1>1 DEF Mirror, Begins
<1>3. src[p].t = "HEADERS" /\ src[p].s = s
  BY <1>1, <1>2 DEF StandsFor, Same
<1>4. s \in Opened(src, Noted)
  BY <1>3 DEF Opened, Carry
<1>5. Pending => s # src[Noted].s
  BY <1>2, <1>3 DEF InHand
<1> QED
  BY <1>4, <1>5

\* What the peer may send.
LEMMA PeerFrame ==
  ASSUME H2Inv, NEW f \in PeerFrames
  PROVE  /\ f \in H2Frame
         /\ f.t \in {"SETTINGS", "DATA", "RST"}
         /\ f.t = "SETTINGS" => f.size \in Nat \ {0}
         /\ f.t \in {"DATA", "RST"} => f.s \in Opened(src, Noted) /\ f.s \in Streams
<1>1. Opened(wire, Len(wire)) \subseteq Opened(src, Noted)
  <2>1. Opened(wire, Len(wire)) = Opened(Out, Len(wire))
    BY OutIs, CarryPrefix DEF H2Inv
  <2>2. Opened(Out, Len(wire)) \subseteq Opened(Out, Len(Out))
    <3>1. Len(wire) \in Nat /\ Len(Out) \in Nat /\ Len(wire) <= Len(Out)
      BY OutIs DEF H2Inv
    <3> QED
      BY <3>1, CarryMore
  <2> QED
    BY <2>1, <2>2, OpenedOut DEF H2Inv
<1>2. \/ \E v \in FrameSizes : f = PeerSettings(v)
      \/ \E s \in Opened(wire, Len(wire)) : f = Data(s) \/ f = Reset(s)
  BY DEF PeerFrames
<1>3. ASSUME NEW v \in FrameSizes, f = PeerSettings(v)
      PROVE f \in H2Frame /\ f.t = "SETTINGS" /\ f.size \in Nat \ {0}
  <2>1. v \in Nat \ {0}
    BY LengthsAssumption
  <2> QED
    BY <1>3, <2>1 DEF H2Frame, PeerSettings
<1>4. ASSUME NEW s \in Opened(wire, Len(wire)), f = Data(s) \/ f = Reset(s)
      PROVE  f \in H2Frame /\ f.t \in {"DATA", "RST"} /\ f.s = s /\ s \in Streams
  <2>1. s \in Streams
    BY DEF Opened
  <2> QED
    BY <1>4, <2>1 DEF H2Frame, Data, Reset
<1> QED
  BY <1>1, <1>2, <1>3, <1>4

\* observeRead sees it before x/net does.
LEMMA ReadStep ==
  ASSUME H2Inv, NEW f \in PeerFrames, ObserveRead(f)
  PROVE  H2Inv'
<1> DEFINE m == Len(answers)
<1>1. /\ wpc' = wpc /\ done' = done /\ block' = block /\ output' = output /\ wire' = wire
         /\ src' = src
      /\ writeErr' = writeErr /\ seen' = seen /\ answers' = Append(answers, f)
  BY DEF ObserveRead, wVars
<1>2. \/ f.t = "SETTINGS" /\ maxFrame' = f.size /\ UNCHANGED tVars
      \/ f.t = "DATA" /\ noteEnd(f.s, "remote") /\ UNCHANGED maxFrame
      \/ f.t = "RST" /\ removeStream(f.s) /\ UNCHANGED maxFrame
  BY PeerFrame, Zenon DEF ObserveRead
<1>3. /\ m \in Nat /\ Len(answers') = m + 1 /\ answers'[m + 1] = f /\ answers' \in Seq(H2Frame)
      /\ \A j \in 1 .. m : answers'[j] = answers[j]
  BY <1>1, PeerFrame DEF H2Inv, H2Types
<1>4. /\ \A s : ResetIn(answers', m + 1, s) <=> ResetIn(answers, m, s) \/ (f.t = "RST" /\ f.s = s)
      /\ \A s : EndedIn(answers', m + 1, s) <=> EndedIn(answers, m, s) \/ (f.t = "DATA" /\ f.s = s)
  <2>1. /\ \A s : ResetIn(answers', m, s) <=> ResetIn(answers, m, s)
        /\ \A s : EndedIn(answers', m, s) <=> EndedIn(answers, m, s)
    BY <1>3, CarryPrefix
  <2>2. /\ \A s : ResetIn(answers', m + 1, s) <=>
                    ResetIn(answers', m, s) \/ (answers'[m + 1].t = "RST" /\ answers'[m + 1].s = s)
        /\ \A s : EndedIn(answers', m + 1, s) <=>
                    \/ EndedIn(answers', m, s)
                    \/ answers'[m + 1].t = "DATA" /\ answers'[m + 1].s = s
                    \/ answers'[m + 1].t = "HEADERS" /\ answers'[m + 1].s = s /\ answers'[m + 1].end
    BY <1>3, CarryNext
  <2> QED
    BY <1>3, <2>1, <2>2, PeerFrame
<1>5. Noted' = Noted /\ (Pending' <=> Pending) /\ Out' = Out
  BY <1>1 DEF Noted, Pending, Out
<1>6. \A q : InHand(q)' <=> InHand(q)
  BY <1>1, <1>5 DEF InHand
<1>7. TableTypes' /\ Table'
  <2>1. TableTypes /\ TableOf(Opened(src, Noted), Resets, LocalEnds, RemoteEnds)
    BY DEF H2Inv, H2Types, TableTypes, Table
  <2>2. LocalEnds' = LocalEnds
    BY <1>1, <1>5 DEF LocalEnds
  <2>3. CASE f.t = "SETTINGS"
    <3>1. Resets' = Resets /\ RemoteEnds' = RemoteEnds
      BY <1>1, <1>3, <1>4, <1>5, <2>3 DEF Resets, RemoteEnds
    <3> QED
      BY <1>1, <1>2, <1>5, <2>1, <2>2, <2>3, <3>1, TableFrame DEF H2Inv, TableTypes, tVars
  <2>4. CASE f.t = "DATA"
    <3>1. Resets' = Resets /\ RemoteEnds' = RemoteEnds \cup {f.s}
      BY <1>1, <1>3, <1>4, <1>5, <2>4, PeerFrame DEF Resets, RemoteEnds
    <3>2. PICK s \in Streams : s = f.s
      BY <2>4, PeerFrame
    <3>3. noteEnd(s, "remote") /\ s \in Opened(src, Noted)
      BY <1>2, <2>4, <3>2, PeerFrame
    <3>4. PICK o, r, l, e : o = Opened(src, Noted) /\ r = Resets /\ l = LocalEnds /\ e = RemoteEnds
      OBVIOUS
    <3>5. TableTypes' /\ TableOf(o, r, l, e \cup {s})'
      BY <2>1, <3>3, <3>4, TableRemoteEnd
    <3> QED
      BY <1>1, <1>5, <2>2, <3>1, <3>2, <3>4, <3>5 DEF Table
  <2>5. CASE f.t = "RST"
    <3>1. Resets' = Resets \cup {f.s} /\ RemoteEnds' = RemoteEnds
      BY <1>1, <1>3, <1>4, <1>5, <2>5, PeerFrame DEF Resets, RemoteEnds
    <3>2. PICK s \in Streams : s = f.s
      BY <2>5, PeerFrame
    <3>3. removeStream(s)
      BY <1>2, <2>5, <3>2
    <3>4. PICK o, r, l, e : o = Opened(src, Noted) /\ r = Resets /\ l = LocalEnds /\ e = RemoteEnds
      OBVIOUS
    <3>5. TableTypes' /\ TableOf(o, r \cup {s}, l, e)'
      BY <2>1, <3>3, <3>4, TableReset
    <3> QED
      BY <1>1, <1>5, <2>2, <3>1, <3>2, <3>4, <3>5 DEF Table
  <2> QED
    BY <2>3, <2>4, <2>5, PeerFrame
<1>8. maxFrame' \in Nat \ {0}
  BY <1>2, PeerFrame DEF H2Inv, H2Types
<1>9. H2Types'
  BY <1>1, <1>3, <1>7, <1>8 DEF H2Inv, H2Types, TableTypes
<1>10. Source'
  BY <1>1, <1>3 DEF H2Inv, Source, WholeBlocks
<1>11. Peer'
  BY <1>1, <1>3, <1>5, PeerFrame DEF H2Inv, Peer
<1>12. Limit'
  <2>1. CASE f.t = "SETTINGS"
    <3>1. maxFrame' = answers'[m + 1].size /\ answers'[m + 1].t = "SETTINGS"
      BY <1>2, <1>3, <2>1
    <3> QED
      BY <1>3, <3>1 DEF Limit
  <2>2. CASE f.t # "SETTINGS"
    BY <1>2, <1>3, <2>2 DEF H2Inv, Limit
  <2> QED
    BY <2>1, <2>2
<1>13. InBlock'
  BY <1>1, <1>5 DEF H2Inv, InBlock, StartsAt
<1>14. Mirror'
  BY <1>1, <1>5, <1>6, Zenon DEF H2Inv, Mirror, StandsFor, Completes, WholeBlocks
<1>15. Sizes'
  <2>1. ASSUME NEW i \in 1 .. Len(Out), Fits(Out, i) PROVE Fits(Out, i)'
    BY <1>3, <1>5, <2>1 DEF Fits
  <2> QED
    BY <1>5, <2>1 DEF H2Inv, Sizes
<1>16. Parents'
  <2>0. ASSUME NEW a \in 0 .. m
        PROVE  /\ \A s : ResetIn(answers', a, s) <=> ResetIn(answers, a, s)
               /\ \A s : EndedIn(answers', a, s) <=> EndedIn(answers, a, s)
    <3>1. a \in Nat /\ \A k \in 1 .. a : answers'[k] = answers[k]
      BY <1>3
    <3> QED
      BY <3>1, CarryPrefix, Zenon
  <2>1. ASSUME NEW p, NEW frames, NEW n, Youngest(p, frames, n)
        PROVE  Youngest(p, frames, n)'
    <3>1. p.at \in 0 .. m
      BY <2>1, Zenon DEF Youngest
    <3>2. p.at \in 0 .. Len(answers')
      BY <1>3, <3>1
    <3>3. \A s : Closed(s, frames, n, p.at)' <=> Closed(s, frames, n, p.at)
      BY <2>0, <3>1, Zenon DEF Closed
    <3> QED
      BY <2>1, <3>2, <3>3, Zenon DEF Youngest
  <2>2. \A i \in 1 .. Len(Out) : Youngest(Out[i].parent, Out, i - 1)
           => Youngest(Out[i].parent, Out, i - 1)'
    BY <1>5, <2>1, Zenon DEF Youngest
  <2>3. Youngest(block.parent, Out, Len(Out)) => Youngest(block.parent, Out, Len(Out))'
    BY <1>1, <1>5, <2>1, Zenon DEF Youngest
  <2> QED
    BY <1>1, <1>5, <2>2, <2>3 DEF H2Inv, Parents
<1> QED
  BY <1>7, <1>9, <1>10, <1>11, <1>12, <1>13, <1>14, <1>15, <1>16 DEF H2Inv

-----------------------------------------------------------------------------
(***************************************************************************)
(* Write.                                                                  *)
(***************************************************************************)
\* The block around frames[i] is as it should be.
WholeAt(frames, i) ==
  IF Unfinished(frames, i - 1)
  THEN frames[i].t = "CONTINUATION" /\ frames[i].s = frames[i - 1].s
  ELSE Begins(frames[i])

\* What is said of a frame that came out depends on the frames before it alone.
LEMMA OutKept ==
  ASSUME H2Types, src' = src, answers' = answers,
         NEW n \in Nat, \A k \in 1 .. n : Out'[k] = Out[k],
         NEW i \in 1 .. n
  PROVE  /\ WholeAt(Out, i)' <=> WholeAt(Out, i)
         /\ \A p \in Nat : StandsFor(Out, i, p)' <=> StandsFor(Out, i, p)
         /\ Completes(Out, i)' <=> Completes(Out, i)
         /\ Fits(Out, i)' <=> Fits(Out, i)
         /\ \A p : Youngest(p, Out, i - 1)' <=> Youngest(p, Out, i - 1)
<1>1. i \in Nat /\ i - 1 \in Nat /\ Out'[i] = Out[i] /\ \A k \in 1 .. i - 1 : Out'[k] = Out[k]
  OBVIOUS
<1>2. WholeAt(Out, i)' <=> WholeAt(Out, i)
  <2>1. Unfinished(Out', i - 1) <=> Unfinished(Out, i - 1)
    BY <1>1, CarryPrefix
  <2>2. Unfinished(Out, i - 1) => Out'[i - 1] = Out[i - 1]
    BY <1>1 DEF Unfinished
  <2> QED
    BY <1>1, <2>1, <2>2 DEF WholeAt
<1>3. \A p \in Nat : StandsFor(Out, i, p)' <=> StandsFor(Out, i, p)
  BY <1>1 DEF StandsFor
<1>4. Completes(Out, i)' <=> Completes(Out, i)
  BY <1>1 DEF Completes
<1>5. Fits(Out, i)' <=> Fits(Out, i)
  BY <1>1 DEF Fits
<1>6. ASSUME NEW p PROVE Youngest(p, Out, i - 1)' <=> Youngest(p, Out, i - 1)
  <2>1. /\ Opened(Out', i - 1) = Opened(Out, i - 1)
        /\ \A s : ResetIn(Out', i - 1, s) <=> ResetIn(Out, i - 1, s)
        /\ \A s : EndedIn(Out', i - 1, s) <=> EndedIn(Out, i - 1, s)
    BY <1>1, CarryPrefix
  <2>2. \A q, a : Closed(q, Out, i - 1, a)' <=> Closed(q, Out, i - 1, a)
    BY <2>1, Zenon DEF Closed
  <2> QED
    BY <2>1, <2>2, Zenon DEF Youngest
<1> QED
  BY <1>2, <1>3, <1>4, <1>5, <1>6

\* WholeBlocks, frame by frame.
LEMMA WholeBlocksAt ==
  ASSUME H2Types
  PROVE  WholeBlocks(Out) <=> \A i \in 1 .. Len(Out) : WholeAt(Out, i)
  BY OutIs, Zenon DEF WholeBlocks, WholeAt

\* The next frame of writeBuf, of a kind that transformWriteFrame turns into one frame.
LEMMA OneFrame ==
  ASSUME H2Inv, H2Types', Table', NEW g \in H2Frame,
         wpc = "loop", wpc' = "loop", done < Len(src), done' = done + 1,
         output' = Append(output, g), Same(g, src[done + 1]),
         src[done + 1].t \in {"SETTINGS", "ACK", "DATA", "RST"},
         src' = src, block' = block, wire' = wire, writeErr' = writeErr, maxFrame' = maxFrame,
         answers' = answers
  PROVE  H2Inv'
<1>0. PICK N, d : N = Len(Out) /\ d = done + 1
  BY Zenon
<1>1. done \in Nat /\ Noted = done /\ Noted' = done + 1 /\ done + 1 \in 1 .. Len(src) /\ ~writeErr
  BY DEF Noted, H2Inv, H2Types
<1>2. Begins(src[done + 1]) /\ g.t = src[done + 1].t /\ Begins(g)
  BY DEF Begins, Same
<1>3. ~Unfinished(src, done) /\ ~Unfinished(src, done + 1)
  <2>1. ~Unfinished(src, (done + 1) - 1)
    <3>1. DOMAIN src = 1 .. Len(src)
      BY DEF H2Inv, H2Types
    <3> QED
      BY <1>1, <1>2, <3>1 DEF H2Inv, Source, WholeBlocks, Begins
  <2>2. (done + 1) - 1 = done
    BY <1>1
  <2> QED
    BY <2>1, <2>2 DEF Unfinished, GoesOn
<1>4. ~Pending /\ ~Pending'
  BY <1>3 DEF Pending
<1>5. \A q : ~InHand(q) /\ ~InHand(q)'
  BY <1>4 DEF InHand
<1>6. /\ N \in Nat /\ Out' = Append(Out, g) /\ Len(Out') = N + 1 /\ Out'[N + 1] = g
      /\ DOMAIN Out' = 1 .. Len(Out') /\ \A k \in 1 .. N : Out'[k] = Out[k]
  <2>1. wire \in Seq(H2Frame) /\ output \in Seq(H2Frame)
    BY DEF H2Inv, H2Types
  <2>2. wire \o Append(output, g) = Append(wire \o output, g)
    BY <2>1, JoinedMore
  <2>3. Out' = Append(Out, g)
    BY <2>2, Zenon DEF Out
  <2> QED
    BY <1>0, <2>3, OutIs DEF H2Inv
<1>7. Source' /\ Limit'
  BY DEF H2Inv, Source, Limit, WholeBlocks
<1>8. Peer'
  <2>1. Opened(src, done) \subseteq Opened(src, done + 1)
    <3>1. done + 1 \in Nat /\ done <= done + 1
      BY <1>1
    <3> QED
      BY <1>1, <3>1, CarryMore, Zenon
  <2> QED
    BY <1>1, <2>1 DEF H2Inv, Peer
<1>9. InBlock'
  BY <1>4 DEF InBlock
<1>10. ASSUME NEW i \in 1 .. N
       PROVE  /\ WholeAt(Out, i)' <=> WholeAt(Out, i)
              /\ \A p \in Nat : StandsFor(Out, i, p)' <=> StandsFor(Out, i, p)
              /\ Completes(Out, i)' <=> Completes(Out, i)
              /\ Fits(Out, i)' <=> Fits(Out, i)
              /\ \A p : Youngest(p, Out, i - 1)' <=> Youngest(p, Out, i - 1)
  BY <1>0, <1>6, OutKept, Zenon DEF H2Inv
<1>11. \A i \in 1 .. N + 1 : i \in 1 .. N \/ i = N + 1
  BY <1>6
<1>12. Mirror'
  <2>1. WholeAt(Out, N + 1)'
    <3>1. ~Unfinished(Out', (N + 1) - 1)
      <4>1. ~Unfinished(Out, N)
        BY <1>0, <1>1 DEF H2Inv, Mirror
      <4>2. Unfinished(Out', N) <=> Unfinished(Out, N)
        BY <1>6, CarryPrefix, Zenon
      <4>3. (N + 1) - 1 = N
        BY <1>6
      <4> QED
        BY <4>1, <4>2, <4>3
    <3> QED
      BY <1>2, <1>6, <3>1 DEF WholeAt
  <2>2. WholeBlocks(Out)'
    <3>1. \A i \in 1 .. N : WholeAt(Out, i)'
      BY <1>0, <1>10, WholeBlocksAt DEF H2Inv, Mirror
    <3>2. \A i \in 1 .. Len(Out') : WholeAt(Out, i)'
      BY <1>6, <1>11, <2>1, <3>1
    <3>3. WholeBlocks(Out)' <=> \A i \in 1 .. Len(Out') : WholeAt(Out, i)'
      BY <1>6 DEF WholeBlocks, WholeAt
    <3> QED
      BY <3>2, <3>3
  <2>3. StandsFor(Out', N + 1, d)
    <3>1. ASSUME NEW k \in 1 .. N, Begins(Out'[k])
          PROVE  \E q \in 1 .. done : Same(Out'[k], src[q])
      BY <1>0, <1>1, <1>6, <3>1 DEF H2Inv, Mirror, StandsFor
    <3>2. ASSUME NEW q \in 1 .. done, Begins(src[q])
          PROVE  \E k \in 1 .. N : Same(Out'[k], src[q])
      BY <1>0, <1>1, <1>5, <1>6, <3>2, Zenon DEF H2Inv, Mirror
    <3>3. (N + 1) - 1 = N /\ (d) - 1 = done
      BY <1>0, <1>1, <1>6
    <3> QED
      BY <1>0, <1>2, <1>6, <3>1, <3>2, <3>3 DEF StandsFor
  <2>4. StandsFor(Out, N + 1, d)'
    BY <2>3 DEF StandsFor
  <2>5. Completes(Out, N + 1)'
    BY <1>2, <1>6 DEF Completes
  <2>6. \A i \in 1 .. N : \E p \in 1 .. d : Begins(Out[i])' => StandsFor(Out, i, p)'
    <3>1. ASSUME NEW i \in 1 .. N, Begins(Out[i])' PROVE \E p \in 1 .. d : StandsFor(Out, i, p)'
      <4>1. Begins(Out[i])
        BY <1>6, <3>1
      <4>2. PICK p \in 1 .. done : StandsFor(Out, i, p)
        BY <1>0, <1>1, <4>1, Zenon DEF H2Inv, Mirror
      <4>3. p \in Nat /\ p \in 1 .. d
        BY <1>0, <1>1
      <4> QED
        BY <1>10, <4>2, <4>3
    <3> QED
      BY <1>0, <1>1, <3>1
  <2>7. \A i \in 1 .. N : Completes(Out, i)'
    BY <1>0, <1>10 DEF H2Inv, Mirror
  <2>8. \A i \in 1 .. N + 1 :
          /\ Begins(Out[i])' => \E p \in 1 .. d : StandsFor(Out, i, p)' /\ ~InHand(p)'
          /\ Completes(Out, i)'
    <3>1. d \in 1 .. d
      BY <1>0, <1>1
    <3> QED
      BY <1>5, <1>11, <2>4, <2>5, <2>6, <2>7, <3>1, Zenon
  <2>9. ~Unfinished(Out', N + 1)
    BY <1>2, <1>6 DEF Unfinished, GoesOn
  <2>10. \A q \in 1 .. d : Begins(src[q]) => \E k \in 1 .. N + 1 : Same(Out'[k], src[q])
    <3>1. ASSUME NEW q \in 1 .. done, Begins(src[q])
          PROVE \E k \in 1 .. N + 1 : Same(Out'[k], src[q])
      <4>1. PICK k \in 1 .. N : Same(Out[k], src[q])
        BY <1>0, <1>1, <1>5, <3>1 DEF H2Inv, Mirror
      <4> QED
        BY <1>6, <4>1
    <3>2. Same(Out'[N + 1], src[d]) /\ N + 1 \in 1 .. N + 1
      BY <1>0, <1>6
    <3> QED
      BY <1>0, <1>1, <3>1, <3>2
  <2> QED
    BY <1>0, <1>1, <1>6, <2>2, <2>8, <2>9, <2>10 DEF Mirror
<1>13. Sizes'
  BY <1>0, <1>2, <1>6, <1>10, <1>11, Zenon DEF H2Inv, Sizes
<1>14. Parents'
  BY <1>0, <1>2, <1>4, <1>6, <1>10, <1>11 DEF H2Inv, Parents
<1> QED
  BY <1>7, <1>8, <1>9, <1>12, <1>13, <1>14 DEF H2Inv

==============================================================================
