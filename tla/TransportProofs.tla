-------------------------- MODULE TransportProofs ---------------------------
(***************************************************************************)
(* The two carriers of a transportSet.                                     *)
(*                                                                         *)
(* The HTTP/2 connection, from the invariant of H2ConnProofs: the peer     *)
(* reads what x/net wrote, in frames it allows, with the parent of a       *)
(* browser.                                                                *)
(*                                                                         *)
(* The raw HTTP/1.1 pool for any number of concurrent calls: a pooled      *)
(* connection is idle, errors and repetitions are the request's own, and   *)
(* sendH1Request implements AtLeastOnce.  Its invariant says who may use a *)
(* connection (Held), what is on it (Carried) and where the answers of a   *)
(* request came from (Answers).                                            *)
(***************************************************************************)
EXTENDS Transport, H2WriteProofs

(***************************************************************************)
(* The invariant of the HTTP/2 connection, and what follows from it.       *)
(***************************************************************************)
\* writeAll writes what came out, or a part of it and then fails.
LEMMA FlushStep ==
  ASSUME H2Inv, Flush
  PROVE  H2Inv'
<1>1. PICK n \in 0 .. Len(output) : wire' = wire \o SubSeq(output, 1, n)
         /\ writeErr' = (n < Len(output))
  BY DEF Flush, writeAll
<1>2. PICK M : M = Len(wire) + n
  OBVIOUS
<1>3. /\ wpc = "loop" /\ wpc' = "idle" /\ output' = <<>> /\ src' = src /\ done' = done
         /\ block' = block
      /\ maxFrame' = maxFrame /\ answers' = answers /\ seen' = seen /\ order' = order
         /\ ended' = ended
  BY DEF Flush, tVars, rVars
<1>4. ~writeErr /\ Noted' = Noted /\ (Pending' <=> Pending) /\ Noted \in Nat
  BY <1>3 DEF H2Inv, H2Types, Noted, Pending
<1>5. \A q : InHand(q)' <=> InHand(q)
  BY <1>3, <1>4 DEF InHand
<1>6. /\ Len(wire) \in Nat /\ Len(output) \in Nat /\ wire' \in Seq(H2Frame) /\ Len(wire') = M
         /\ M \in Nat
      /\ M <= Len(Out) /\ Len(Out) = Len(wire) + Len(output) /\ Len(Out) \in Nat
      /\ (~writeErr' => M = Len(Out))
  <2>1. wire \in Seq(H2Frame) /\ output \in Seq(H2Frame)
    BY DEF H2Inv, H2Types
  <2>2. SubSeq(output, 1, n) \in Seq(H2Frame) /\ Len(SubSeq(output, 1, n)) = n
    BY <2>1
  <2>3. wire' \in Seq(H2Frame) /\ Len(wire') = M
    BY <1>1, <1>2, <2>1, <2>2, Joined
  <2>4. Len(wire) \in Nat /\ Len(output) \in Nat /\ Len(Out) = Len(wire) + Len(output)
           /\ Len(Out) \in Nat
    BY OutIs, Zenon DEF H2Inv
  <2>5. M \in Nat /\ M <= Len(Out)
    BY <1>2, <2>4
  <2>6. ASSUME ~writeErr' PROVE M = Len(Out)
    <3>1. ~(n < Len(output))
      BY <1>1, <2>6, Zenon
    <3> QED
      BY <1>2, <2>4, <3>1
  <2> QED
    BY <2>3, <2>4, <2>5, <2>6
<1>7. Out' = wire' /\ \A k \in 1 .. M : Out'[k] = Out[k]
  <2>1. wire \in Seq(H2Frame) /\ output \in Seq(H2Frame)
    BY DEF H2Inv, H2Types
  <2>2. Out' = wire'
    BY <1>3, <1>6 DEF Out
  <2>3. ASSUME NEW k \in 1 .. M PROVE wire'[k] = Out[k]
    <3>1. CASE k <= Len(wire)
      <4>1. k \in 1 .. Len(wire) /\ wire'[k] = wire[k]
        BY <1>1, <1>2, <1>6, <2>1, <3>1
      <4> QED
        BY <4>1, OutIs DEF H2Inv
    <3>2. CASE k > Len(wire)
      <4>1. k - Len(wire) \in 1 .. n /\ k - Len(wire) \in 1 .. Len(output)
               /\ k = Len(wire) + (k - Len(wire))
        BY <1>2, <1>6, <3>2
      <4>2. wire'[k] = SubSeq(output, 1, n)[k - Len(wire)]
        BY <1>1, <1>2, <1>6, <2>1, <3>2
      <4>3. SubSeq(output, 1, n)[k - Len(wire)] = output[k - Len(wire)]
        BY <2>1, <4>1
      <4>4. Out[k] = output[k - Len(wire)]
        BY <4>1, OutIs DEF H2Inv
      <4> QED
        BY <4>2, <4>3, <4>4, Zenon
    <3> QED
      BY <1>6, <3>1, <3>2
  <2> QED
    BY <2>2, <2>3
<1>8. Len(Out') = M /\ DOMAIN Out' = 1 .. M
  BY <1>6, <1>7
<1>9. H2Types'
  BY <1>1, <1>3, <1>6 DEF H2Inv, H2Types
<1>10. Source' /\ Peer' /\ Limit' /\ InBlock'
  <2>1. Source' /\ Peer' /\ Limit'
    BY <1>3, <1>4, Zenon DEF H2Inv, Source, Peer, Limit, WholeBlocks
  <2>2. ASSUME NEW h, StartsAt(h), Pending PROVE StartsAt(h)'
    BY <1>3, <1>4, <2>2, Zenon DEF StartsAt
  <2> QED
    BY <1>3, <1>4, <2>1, <2>2 DEF H2Inv, InBlock
<1>11. Table'
  <2>1. Resets' = Resets /\ LocalEnds' = LocalEnds /\ RemoteEnds' = RemoteEnds
    BY <1>3, <1>4, Zenon DEF Resets, LocalEnds, RemoteEnds
  <2> QED
    BY <1>3, <1>4, <2>1, TableFrame DEF H2Inv
<1>12. ASSUME NEW i \in 1 .. M
       PROVE  /\ i \in 1 .. Len(Out) /\ Out'[i] = Out[i]
              /\ WholeAt(Out, i)' <=> WholeAt(Out, i)
              /\ \A p \in Nat : StandsFor(Out, i, p)' <=> StandsFor(Out, i, p)
              /\ Completes(Out, i)' <=> Completes(Out, i)
              /\ Fits(Out, i)' <=> Fits(Out, i)
              /\ \A p : Youngest(p, Out, i - 1)' <=> Youngest(p, Out, i - 1)
  <2>1. i \in 1 .. Len(Out)
    BY <1>6
  <2> QED
    BY <1>3, <1>6, <1>7, <2>1, OutKept DEF H2Inv
<1>13. Mirror'
  <2>1. WholeBlocks(Out)'
    <3>1. \A i \in 1 .. M : WholeAt(Out, i)'
      BY <1>12, WholeBlocksAt, Zenon DEF H2Inv, Mirror
    <3>2. WholeBlocks(Out)' <=> \A i \in 1 .. M : WholeAt(Out, i)'
      BY <1>8 DEF WholeBlocks, WholeAt
    <3> QED
      BY <3>1, <3>2
  <2>2. ASSUME NEW i \in 1 .. M
        PROVE  /\ Begins(Out[i])' => \E p \in 1 .. Noted : StandsFor(Out, i, p)' /\ ~InHand(p)'
               /\ Completes(Out, i)'
    <3>1. Completes(Out, i)'
      BY <1>12, Zenon DEF H2Inv, Mirror
    <3>2. ASSUME Begins(Out[i])' PROVE \E p \in 1 .. Noted : StandsFor(Out, i, p)' /\ ~InHand(p)'
      <4>1. Begins(Out[i])
        BY <1>12, <3>2
      <4>2. PICK p \in 1 .. Noted : StandsFor(Out, i, p) /\ ~InHand(p)
        BY <1>12, <4>1, Zenon DEF H2Inv, Mirror
      <4>3. p \in Nat
        BY <1>4
      <4> QED
        BY <1>5, <1>12, <4>2, <4>3
    <3> QED
      BY <3>1, <3>2
  <2>3. ASSUME ~writeErr' PROVE ~Unfinished(Out', M)
    <3>1. ~Unfinished(Out, M)
      BY <1>4, <1>6, <2>3 DEF H2Inv, Mirror
    <3> QED
      BY <1>6, <1>7, <3>1, CarryPrefix, Zenon
  <2>4. ASSUME ~writeErr', NEW q \in 1 .. Noted, Begins(src[q]), ~InHand(q)
        PROVE  \E k \in 1 .. M : Same(Out'[k], src[q])
    <3>1. PICK k \in 1 .. Len(Out) : Same(Out[k], src[q])
      BY <1>4, <2>4, Zenon DEF H2Inv, Mirror
    <3> QED
      BY <1>6, <1>7, <2>4, <3>1
  <2> QED
    BY <1>3, <1>4, <1>5, <1>8, <2>1, <2>2, <2>3, <2>4, Zenon DEF Mirror
<1>14. Sizes'
  BY <1>8, <1>12, Zenon DEF H2Inv, Sizes
<1>15. Parents'
  <2>1. ASSUME NEW i \in 1 .. M, Out'[i].t = "HEADERS" PROVE Youngest(Out[i].parent, Out, i - 1)'
    BY <1>12, <2>1, Zenon DEF H2Inv, Parents
  <2>2. ASSUME Pending, ~writeErr' PROVE Youngest(block.parent, Out, Len(Out))'
    <3>1. Youngest(block.parent, Out, M)
      BY <1>3, <1>4, <1>6, <2>2 DEF H2Inv, Parents
    <3>2. /\ Opened(Out', M) = Opened(Out, M)
          /\ \A s : ResetIn(Out', M, s) <=> ResetIn(Out, M, s)
          /\ \A s : EndedIn(Out', M, s) <=> EndedIn(Out, M, s)
      <4>1. PICK O : O = Out'
        OBVIOUS
      <4>2. \A k \in 1 .. M : O[k] = Out[k]
        BY <1>7, <4>1
      <4>3. /\ Opened(O, M) = Opened(Out, M)
            /\ \A s : ResetIn(O, M, s) <=> ResetIn(Out, M, s)
            /\ \A s : EndedIn(O, M, s) <=> EndedIn(Out, M, s)
        BY <1>6, <4>2, CarryPrefix, Zenon
      <4> QED
        BY <4>1, <4>3
    <3>3. Youngest(block.parent, Out, M)'
      BY <1>3, <3>1, <3>2 DEF Youngest, Closed
    <3> QED
      BY <1>8, <3>3
  <2> QED
    BY <1>4, <1>8, <2>1, <2>2 DEF Parents
<1> QED
  BY <1>9, <1>10, <1>11, <1>13, <1>14, <1>15 DEF H2Inv

-----------------------------------------------------------------------------
(***************************************************************************)
(* Every step together.                                                    *)
(***************************************************************************)
\* It holds when the connection starts.
LEMMA H2Starts == H2Init => H2Inv
<1> SUFFICES ASSUME H2Init PROVE H2Inv
  OBVIOUS
<1>1. /\ src = <<Settings(initialSettings)>> /\ done = 0 /\ wpc = "idle" /\ output = <<>>
         /\ wire = <<>>
      /\ writeErr = FALSE /\ order = <<>> /\ ended = [s \in Streams |-> {}]
         /\ maxFrame = DefaultSize
      /\ answers = <<>> /\ seen = 0
  BY DEF H2Init
<1>2. Noted = 0 /\ Out = <<>> /\ Len(src) = 1 /\ src[1] = Settings(initialSettings)
         /\ Len(Out) = 0 /\ Len(answers) = 0
  BY <1>1 DEF Noted, Out
<1>3. src[1].t = "SETTINGS" /\ src[1] \in H2Frame
  BY <1>2 DEF Settings, initialSettings, H2Frame
<1>4. ~Pending /\ ~Unfinished(src, 0) /\ ~Unfinished(Out, 0)
  BY <1>1 DEF Pending, Unfinished
<1>5. H2Types
  <2>1. order \in Seq(Streams) /\ ended \in [Streams -> SUBSET {"local", "remote"}]
    BY <1>1
  <2>2. output \in Seq(H2Frame) /\ wire \in Seq(H2Frame) /\ answers \in Seq(H2Frame)
    BY <1>1
  <2>3. src \in Seq(H2Frame) /\ done \in 0 .. Len(src) /\ seen \in 0 .. Len(answers)
    BY <1>1, <1>2, <1>3
  <2> QED
    BY <1>1, <2>1, <2>2, <2>3, LengthsAssumption, Zenon DEF H2Types
<1>6. Opened(src, 0) = {} /\ (\A s : ~ResetIn(src, 0, s)) /\ \A s : ~EndedIn(src, 0, s)
  BY DEF Opened, ResetIn, EndedIn, Carry
<1>7. (\A s : ~ResetIn(answers, 0, s)) /\ \A s : ~EndedIn(answers, 0, s)
  BY DEF ResetIn, EndedIn, Carry
<1>8. Source
  <2>1. Opened(src, 1) = {}
    BY <1>3 DEF Opened, Carry
  <2>2. WholeBlocks(src)
    <3>1. DOMAIN src = {1} /\ 1 - 1 = 0
      BY <1>1
    <3> QED
      BY <1>3, <1>4, <3>1 DEF WholeBlocks, Begins
  <2> QED
    BY <1>2, <1>3, <2>1, <2>2 DEF Source
<1>9. Peer /\ Limit
  BY <1>1, <1>2 DEF Peer, Limit
<1>10. Table
  <2>1. Len(order) = 0 /\ DOMAIN order = {}
    BY <1>1
  <2>2. \A s : ~InTable(s)
    BY <2>1 DEF InTable
  <2>3. \A s \in Streams : ended[s] = {}
    BY <1>1
  <2> QED
    BY <1>2, <1>6, <2>1, <2>2, <2>3 DEF Table, TableOf
<1>11. InBlock
  BY <1>1, <1>4 DEF InBlock
<1>12. Mirror
  BY <1>1, <1>2, <1>4 DEF Mirror, WholeBlocks
<1>13. Sizes /\ Parents
  BY <1>2, <1>4 DEF Sizes, Parents
<1> QED
  BY <1>5, <1>8, <1>9, <1>10, <1>11, <1>12, <1>13 DEF H2Inv

\* Every step of the connection keeps the invariant.
LEMMA H2Kept ==
  ASSUME H2Inv, [H2Next]_h2Vars
  PROVE  H2Inv'
<1>1. CASE UNCHANGED h2Vars
  <2>1. /\ src' = src /\ done' = done /\ wpc' = wpc /\ block' = block /\ output' = output
           /\ wire' = wire
        /\ writeErr' = writeErr /\ order' = order /\ ended' = ended /\ maxFrame' = maxFrame
        /\ answers' = answers /\ seen' = seen
    BY <1>1 DEF h2Vars, wVars, tVars, rVars
  <2>2. H2Types'
    BY <2>1 DEF H2Inv, H2Types
  <2> QED
    BY <2>1, <2>2, QuietStep
<1>2. CASE Write
  <2>1. H2Types'
    BY <1>2 DEF Write, H2Inv, H2Types, tVars, rVars
  <2> QED
    BY <1>2, <2>1, QuietStep DEF Write, tVars, rVars
<1>3. CASE ReadReturns
  <2>1. H2Types'
    BY <1>3 DEF ReadReturns, H2Inv, H2Types, wVars, tVars
  <2> QED
    BY <1>3, <2>1, QuietStep DEF ReadReturns, wVars, tVars
<1> QED
  BY <1>1, <1>2, <1>3, XStep, ReadStep, SettingsStep, AckStep, DataStep, ResetStep, StartStep,
     ParentStep,
     ContinueStep, FinishStep, FlushStep DEF H2Next

\* What has been written is a prefix of what the loop has put together.
LEMMA WireIs ==
  ASSUME H2Types
  PROVE  /\ Len(wire) \in Nat /\ DOMAIN wire = 1 .. Len(wire) /\ Len(wire) <= Len(Out)
            /\ Len(Out) \in Nat
         /\ \A i \in 1 .. Len(wire) : i \in 1 .. Len(Out) /\ wire[i] = Out[i]
<1>1. DOMAIN wire = 1 .. Len(wire)
  BY DEF H2Types
<1> QED
  BY <1>1, OutIs

\* The invariant says what is on the wire.
LEMMA InvTransparent == H2Inv => Transparent
<1> SUFFICES ASSUME H2Inv PROVE Transparent
  OBVIOUS
<1>1. PICK M : M = Len(wire)
  BY Zenon
<1>2. /\ M \in Nat /\ DOMAIN wire = 1 .. M /\ M <= Len(Out) /\ Len(Out) \in Nat
      /\ \A i \in 1 .. M : i \in 1 .. Len(Out) /\ wire[i] = Out[i]
  BY <1>1, WireIs DEF H2Inv
<1>3. DOMAIN src = 1 .. Len(src) /\ Len(src) \in Nat /\ done \in 0 .. Len(src)
         /\ Noted \in 0 .. Len(src)
  BY DEF H2Inv, H2Types, Noted
<1>4. \A n \in 0 .. M : Unfinished(wire, n) <=> Unfinished(Out, n)
  <2>1. ASSUME NEW n \in 0 .. M PROVE Unfinished(wire, n) <=> Unfinished(Out, n)
    BY <1>2 DEF Unfinished
  <2> QED
    BY <2>1
<1>5. WholeBlocks(wire)
  <2>1. ASSUME NEW i \in 1 .. M PROVE WholeAt(wire, i)
    <3>1. WholeAt(Out, i)
      BY <1>2, WholeBlocksAt, Zenon DEF H2Inv, Mirror
    <3>2. i - 1 \in 0 .. M /\ (i - 1 # 0 => i - 1 \in 1 .. M)
      BY <1>2
    <3>3. i = 1 => ~Unfinished(wire, i - 1)
      BY DEF Unfinished
    <3> QED
      BY <1>2, <1>4, <3>1, <3>2, <3>3 DEF WholeAt
  <2> QED
    BY <1>2, <2>1 DEF WholeBlocks, WholeAt
<1>6. ASSUME NEW i \in 1 .. M
      PROVE  (Begins(wire[i]) => \E p \in DOMAIN src : StandsFor(wire, i, p)) /\ Completes(wire, i)
  <2>1. Completes(wire, i)
    BY <1>2 DEF H2Inv, Mirror, Completes
  <2>2. ASSUME Begins(wire[i]) PROVE \E p \in DOMAIN src : StandsFor(wire, i, p)
    <3>1. PICK p \in 1 .. Noted : StandsFor(Out, i, p)
      BY <1>2, <2>2 DEF H2Inv, Mirror
    <3>2. p \in DOMAIN src
      BY <1>3
    <3>3. \A k \in 1 .. i - 1 : k \in 1 .. M
      BY <1>2
    <3>4. StandsFor(wire, i, p)
      BY <1>2, <3>1, <3>3, Zenon DEF StandsFor
    <3> QED
      BY <3>2, <3>4
  <2> QED
    BY <2>1, <2>2
<1>7. ASSUME wpc = "idle", ~writeErr, ~Unfinished(src, done)
      PROVE  /\ \A q \in 1 .. done : Begins(src[q]) => \E k \in DOMAIN wire : Same(wire[k], src[q])
             /\ ~Unfinished(wire, Len(wire))
  <2>1. M = Len(Out)
    <3>1. Len(output) = 0
      BY <1>7 DEF H2Inv, H2Types
    <3>2. Len(Out) = Len(wire) + Len(output)
      BY OutIs, Zenon DEF H2Inv
    <3> QED
      BY <1>1, <1>2, <3>1, <3>2
  <2>2. Noted = done /\ \A q : ~InHand(q)
    BY <1>7 DEF Noted, InHand, Pending
  <2> QED
    BY <1>1, <1>2, <1>4, <1>7, <2>1, <2>2 DEF H2Inv, Mirror
<1> QED
  BY <1>2, <1>5, <1>6, <1>7, Zenon DEF Transparent

\* The frame sizes follow.
LEMMA InvFrameSize == H2Inv => FrameSizeHonoured
<1> SUFFICES ASSUME H2Inv, NEW i \in DOMAIN wire, wire[i].t \in {"HEADERS", "CONTINUATION"}
             PROVE  Fits(wire, i)
  BY DEF FrameSizeHonoured
<1>1. /\ Len(wire) \in Nat /\ i \in 1 .. Len(wire)
      /\ \A k \in 1 .. Len(wire) : k \in 1 .. Len(Out) /\ wire[k] = Out[k]
  BY WireIs DEF H2Inv
<1>2. Fits(Out, i)
  BY <1>1 DEF H2Inv, Sizes
<1>3. \A k \in 1 .. i - 1 : k \in 1 .. Len(wire)
  BY <1>1
<1> QED
  BY <1>1, <1>2, <1>3, Zenon DEF Fits

\* So does the table between two calls.
LEMMA InvTableExact == H2Inv => TableExact
<1> SUFFICES ASSUME H2Inv, wpc \in {"idle", "loop"}
             PROVE  /\ \A i, j \in DOMAIN order : i < j => order[i] < order[j]
                    /\ {order[i] : i \in DOMAIN order} =
                         {s \in Opened(src, done) : ~Closed(s, src, done, Len(answers))}
  BY DEF TableExact
<1>1. Noted = done
  BY DEF Noted
<1>2. DOMAIN order = 1 .. Len(order) /\ \A i \in DOMAIN order : order[i] \in Streams
  BY DEF H2Inv, H2Types
<1>3. \A i, j \in DOMAIN order : i < j => order[i] < order[j]
  BY <1>2 DEF H2Inv, Table, TableOf
<1>4. \A s \in Streams : InTable(s) <=> s \in Opened(src, done) \ Resets
         /\ s \notin LocalEnds \cap RemoteEnds
  BY <1>1, Zenon DEF H2Inv, Table, TableOf
<1>5. \A s \in Streams : InTable(s) <=> s \in Opened(src, done) /\ ~Closed(s, src, done, Len(answers))
  BY <1>1, <1>4 DEF Resets, LocalEnds, RemoteEnds, Closed
<1>6. \A s : s \in Opened(src, done) => s \in Streams
  BY DEF Opened
<1>7. \A s : s \in {order[i] : i \in DOMAIN order} <=> s \in Streams /\ InTable(s)
  BY <1>2 DEF InTable
<1>8. \A s : s \in {order[i] : i \in DOMAIN order}
         <=> s \in {q \in Opened(src, done) : ~Closed(q, src, done, Len(answers))}
  BY <1>5, <1>6, <1>7
<1> QED
  BY <1>3, <1>8

\* And the parents.
LEMMA InvParent == H2Inv => ParentIsOpen
<1> SUFFICES ASSUME H2Inv, NEW i \in DOMAIN wire, wire[i].t = "HEADERS"
             PROVE  Youngest(wire[i].parent, wire, i - 1)
  BY DEF ParentIsOpen
<1>1. /\ Len(wire) \in Nat /\ i \in 1 .. Len(wire)
      /\ \A k \in 1 .. Len(wire) : k \in 1 .. Len(Out) /\ wire[k] = Out[k]
  BY WireIs, Zenon DEF H2Inv
<1>2. Youngest(wire[i].parent, Out, i - 1)
  BY <1>1 DEF H2Inv, Parents
<1>3. i - 1 \in Nat /\ \A k \in 1 .. i - 1 : wire[k] = Out[k]
  BY <1>1
<1>4. /\ Opened(wire, i - 1) = Opened(Out, i - 1)
      /\ \A s : ResetIn(wire, i - 1, s) <=> ResetIn(Out, i - 1, s)
      /\ \A s : EndedIn(wire, i - 1, s) <=> EndedIn(Out, i - 1, s)
  BY <1>3, CarryPrefix, Zenon
<1> QED
  BY <1>2, <1>4, Zenon DEF Youngest, Closed

\* The inductive invariant of the rewriting connection.
THEOREM H2Invariant == H2Spec => []H2Inv
<1>1. H2Init => H2Inv
  BY H2Starts
<1>2. H2Inv /\ [H2Next]_h2Vars => H2Inv'
  BY H2Kept
<1> QED
  BY <1>1, <1>2, PTL DEF H2Spec

\* The peer reads what x/net wrote (chromiumH2Conn.Write, writeAll): nothing is
\* missing, added or moved up to where the connection was written, also after a
\* failed write, and the header blocks that buildHeaderFrames splits stay whole.
THEOREM RewritingIsTransparent == H2Spec => []Transparent
<1>1. H2Inv => Transparent
  BY InvTransparent
<1> QED
  BY <1>1, H2Invariant, PTL

\* buildHeaderFrames never exceeds the frame size the peer allows: observeRead sees
\* a SETTINGS before x/net can acknowledge it.
THEOREM FramesFit == H2Spec => []FrameSizeHonoured
<1>1. H2Inv => FrameSizeHonoured
  BY InvFrameSize
<1> QED
  BY <1>1, H2Invariant, PTL

\* The stream table of noteLocalHeaders, noteEnd and removeStream holds the open
\* streams, however the two directions interleave.
THEOREM TableIsExact == H2Spec => []TableExact
<1>1. H2Inv => TableExact
  BY InvTableExact
<1> QED
  BY <1>1, H2Invariant, PTL

\* The parent that parentStream gives to HEADERS is the youngest of the streams
\* opened before it that no frame sent or observed until then had closed.
THEOREM ParentsAreOpen == H2Spec => []ParentIsOpen
<1>1. H2Inv => ParentIsOpen
  BY InvParent
<1> QED
  BY <1>1, H2Invariant, PTL

-----------------------------------------------------------------------------
(***************************************************************************)
(* The raw HTTP/1.1 pool.                                                  *)
(***************************************************************************)
\* A connection is in the pool, held by one call, gone, or not yet dialled.
Held ==
  /\ \A r \in Reqs : hc[r] \in Reqs <=> pc[r] \in {"write", "read"}
  /\ \A r, s \in Reqs : hc[r] \in Reqs /\ hc[r] = hc[s] => r = s
  /\ \A r \in Reqs : hc[r] \in Reqs => hc[r] \notin pool /\ link[hc[r]] \in {"up", "broken"}
  /\ \A c \in pool : link[c] \in {"up", "broken"}
  /\ \A r \in Reqs : link[r] # "none" => hc[r] = r \/ pc[r] \in {"ok", "error"}
  /\ \A c \in Reqs : link[c] = "broken" => c \in cut

Idle(c) == unread[c] = 0 /\ in[c] = <<>> /\ out[c] = <<>>

\* The request r waits for its answer on c, where nothing else is under way.
Waiting(r, c) ==
  /\ unread[c] = 1
  /\ in[c] # <<>> => out[c] = <<>>
  /\ out[c] # <<>> => \E st \in Statuses : out[c] = <<<<r, st>>>> /\ <<c, st>> \in answered[r]

FreeIsIdle == \A c \in Reqs : link[c] = "none" \/ c \in pool => Idle(c)
WriterIsIdle == \A r \in Reqs : pc[r] = "write" => Idle(hc[r])
ReaderWaits == \A r \in Reqs : pc[r] = "read" => Waiting(r, hc[r])

\* The only request the peer still has of c is that of the call which holds c,
\* or of one that gave c up, and it has not been answered on c.
OneOnPeer ==
  \A c \in Reqs : in[c] # <<>> =>
    \E q \in Reqs : /\ in[c] = <<q>> /\ pc[q] # "idle"
                    /\ \/ pc[q] = "read" /\ hc[q] = c
                       \/ link[c] = "closed" /\ c \in cut
                    /\ \A st \in Statuses : <<c, st>> \notin answered[q]

Carried == FreeIsIdle /\ WriterIsIdle /\ ReaderWaits /\ OneOnPeer

\* A request was answered on the connection its call holds, on one the call
\* gave up, or before the call returned.
AnswerSource ==
  \A r \in Reqs : \A p \in answered[r] :
    /\ pc[r] # "idle"
    /\ \/ pc[r] = "read" /\ hc[r] = p[1]
       \/ link[p[1]] = "closed" /\ p[1] \in cut
       \/ pc[r] \in {"ok", "error"}

Answers == AnswerSource /\ ErrorIsOwn /\ RepeatIsForced

Inv == TypeOK /\ Held /\ Carried /\ Answers

-----------------------------------------------------------------------------
\* One-element sequences.
LEMMA Single ==
  ASSUME NEW x
  PROVE  /\ Append(<<>>, x) = <<x>> /\ Head(<<x>>) = x /\ Tail(<<x>>) = <<>> /\ <<x>> # <<>>
         /\ \A y : <<x>> = <<y>> => x = y
OBVIOUS

LEMMA InitInv ==
  ASSUME Init
  PROVE  Inv
BY NoneAssumption DEF Init, Inv, TypeOK, Held, Idle, Carried, FreeIsIdle, WriterIsIdle,
                       ReaderWaits, OneOnPeer, Answers, AnswerSource,
                       ErrorIsOwn, RepeatIsForced

LEMMA TypeStep ==
  ASSUME TypeOK, Held, Carried, [Next]_vars
  PROVE  TypeOK'
<1> USE NoneAssumption DEF TypeOK
<1>1. ASSUME NEW r \in Reqs, Start(r) PROVE TypeOK'
  BY <1>1 DEF Start, callVars, connVars, peerVars
<1>2. ASSUME NEW r \in Reqs, GetPooled(r) PROVE TypeOK'
  BY <1>2 DEF GetPooled, callVars, connVars, peerVars
<1>3. ASSUME NEW r \in Reqs, GetDialed(r) PROVE TypeOK'
  BY <1>3 DEF GetDialed, callVars, connVars, peerVars
<1>4. ASSUME NEW r \in Reqs, DialFails(r) PROVE TypeOK'
  BY <1>4 DEF DialFails, callVars, connVars, peerVars
<1>5. ASSUME NEW r \in Reqs, WriteRequest(r) PROVE TypeOK'
  <2>1. hc[r] \in Reqs
    BY <1>5 DEF WriteRequest, Held
  <2>2. in' \in [Reqs -> Seq(Reqs)]
    <3>1. Append(in[hc[r]], r) \in Seq(Reqs)
      BY <2>1
    <3> QED
      BY <1>5, <2>1, <3>1 DEF WriteRequest
  <2> QED
    BY <1>5, <2>1, <2>2 DEF WriteRequest, callVars, connVars, peerVars
<1>6. ASSUME NEW r \in Reqs, WriteFails(r) PROVE TypeOK'
  BY <1>6, Zenon DEF WriteFails, CloseAndRetry, callVars, connVars, peerVars
<1>7. ASSUME NEW r \in Reqs, ReadOK(r) PROVE TypeOK'
  <2>1. hc[r] \in Reqs
    BY <1>7 DEF ReadOK, Held
  <2>2. unread[hc[r]] = 1
    BY <1>7 DEF ReadOK, Carried, ReaderWaits, Waiting
  <2>3. Tail(out[hc[r]]) \in Seq(Reqs \X Statuses)
    BY <1>7, <2>1 DEF ReadOK
  <2> QED
    BY <1>7, <2>1, <2>2, <2>3, SMTT(30) DEF ReadOK, callVars, connVars, peerVars
<1>8. ASSUME NEW r \in Reqs, ReadRefused(r) PROVE TypeOK'
  <2>1. hc[r] \in Reqs
    BY <1>8 DEF ReadRefused, Held
  <2>2. Tail(out[hc[r]]) \in Seq(Reqs \X Statuses)
    BY <1>8, <2>1 DEF ReadRefused
  <2> QED
    BY <1>8, <2>1, <2>2, Zenon DEF ReadRefused, callVars, connVars, peerVars
<1>9. ASSUME NEW r \in Reqs, ReadFails(r) PROVE TypeOK'
  BY <1>9, Zenon DEF ReadFails, CloseAndRetry, callVars, connVars, peerVars
<1>10. ASSUME NEW c \in Reqs, PoolDrops(c) PROVE TypeOK'
  BY <1>10 DEF PoolDrops, callVars, connVars, peerVars
<1>11. ASSUME NEW c \in Reqs, PeerAnswers(c) PROVE TypeOK'
  <2>1. PICK st \in Statuses :
          /\ answered' = [answered EXCEPT ![Head(in[c])] = @ \cup {<<c, st>>}]
          /\ out' = IF link[c] = "up" THEN [out EXCEPT ![c] = Append(@, <<Head(in[c]), st>>)]
                    ELSE out
    BY <1>11, Zenon DEF PeerAnswers
  <2>2. Head(in[c]) \in Reqs /\ Tail(in[c]) \in Seq(Reqs)
    BY <1>11 DEF PeerAnswers
  <2>3. Append(out[c], <<Head(in[c]), st>>) \in Seq(Reqs \X Statuses)
    BY <2>2
  <2>4. out' \in [Reqs -> Seq(Reqs \X Statuses)]
    BY <2>1, <2>3
  <2>5. answered' \in [Reqs -> SUBSET (Reqs \X Statuses)]
    <3> DEFINE S == Reqs \X Statuses
    <3>1. <<c, st>> \in S /\ answered \in [Reqs -> SUBSET S]
      OBVIOUS
    <3> HIDE DEF S, TypeOK
    <3>2. answered' \in [Reqs -> SUBSET S]
      BY <2>1, <2>2, <3>1
    <3> QED
      BY <3>2 DEF S
  <2> QED
    BY <1>11, <2>2, <2>4, <2>5, Zenon DEF PeerAnswers, callVars, connVars, peerVars
<1>12. ASSUME NEW c \in Reqs, Break(c) PROVE TypeOK'
  <2>1. <<>> \in Seq(Reqs) /\ <<>> \in Seq(Reqs \X Statuses)
    OBVIOUS
  <2>2. in' \in [Reqs -> Seq(Reqs)]
    BY <1>12, <2>1, Zenon DEF Break
  <2>3. out' \in [Reqs -> Seq(Reqs \X Statuses)]
    BY <1>12, <2>1, ZenonT(40) DEF Break
  <2> QED
    BY <1>12, <2>2, <2>3, Zenon DEF Break, callVars, connVars, peerVars
<1>13. CASE UNCHANGED vars
  BY <1>13 DEF vars, callVars, connVars, peerVars
<1> QED
  BY <1>1, <1>2, <1>3, <1>4, <1>5, <1>6, <1>7, <1>8, <1>9, <1>10, <1>11, <1>12, <1>13, Zenon DEF
       Next, Send

LEMMA HeldStep ==
  ASSUME TypeOK, Held, [Next]_vars
  PROVE  Held'
<1>0. /\ pc \in [Reqs -> {"idle", "get", "write", "read", "ok", "error"}]
      /\ hc \in [Reqs -> Reqs \cup {None}] /\ pool \subseteq Reqs
      /\ link \in [Reqs -> {"none", "up", "broken", "closed"}]
  BY DEF TypeOK
<1> USE NoneAssumption, <1>0 DEF Held
<1>1. ASSUME NEW r \in Reqs, Start(r) PROVE Held'
  BY <1>1 DEF Start, callVars, connVars, peerVars
<1>2. ASSUME NEW r \in Reqs, GetPooled(r) PROVE Held'
  BY <1>2 DEF GetPooled, callVars, connVars, peerVars
<1>3. ASSUME NEW r \in Reqs, GetDialed(r) PROVE Held'
  BY <1>3 DEF GetDialed, callVars, connVars, peerVars
<1>4. ASSUME NEW r \in Reqs, DialFails(r) PROVE Held'
  BY <1>4 DEF DialFails, callVars, connVars, peerVars
<1>5. ASSUME NEW r \in Reqs, WriteRequest(r) PROVE Held'
  BY <1>5 DEF WriteRequest, callVars, connVars, peerVars
<1>6. ASSUME NEW r \in Reqs, WriteFails(r) PROVE Held'
  BY <1>6 DEF WriteFails, CloseAndRetry, callVars, connVars, peerVars
<1>7. ASSUME NEW r \in Reqs, ReadOK(r) PROVE Held'
  BY <1>7 DEF ReadOK, callVars, connVars, peerVars
<1>8. ASSUME NEW r \in Reqs, ReadRefused(r) PROVE Held'
  BY <1>8 DEF ReadRefused, callVars, connVars, peerVars
<1>9. ASSUME NEW r \in Reqs, ReadFails(r) PROVE Held'
  BY <1>9 DEF ReadFails, CloseAndRetry, callVars, connVars, peerVars
<1>10. ASSUME NEW c \in Reqs, PoolDrops(c) PROVE Held'
  BY <1>10 DEF PoolDrops, callVars, connVars, peerVars
<1>11. ASSUME NEW c \in Reqs, PeerAnswers(c) PROVE Held'
  BY <1>11 DEF PeerAnswers, callVars, connVars, peerVars
<1>12. ASSUME NEW c \in Reqs, Break(c) PROVE Held'
  BY <1>12 DEF Break, callVars, connVars, peerVars
<1>13. CASE UNCHANGED vars
  BY <1>13 DEF vars, callVars, connVars, peerVars
<1> QED
  BY <1>1, <1>2, <1>3, <1>4, <1>5, <1>6, <1>7, <1>8, <1>9, <1>10, <1>11, <1>12, <1>13, Zenon DEF
       Next, Send

LEMMA CarriedStep ==
  ASSUME TypeOK, Held, Carried, Answers, [Next]_vars
  PROVE  Carried'
<1>0. /\ pc \in [Reqs -> {"idle", "get", "write", "read", "ok", "error"}]
      /\ hc \in [Reqs -> Reqs \cup {None}] /\ pool \subseteq Reqs /\ cut \subseteq Reqs
      /\ link \in [Reqs -> {"none", "up", "broken", "closed"}]
      /\ unread \in [Reqs -> Nat] /\ DOMAIN in = Reqs /\ DOMAIN out = Reqs /\ DOMAIN answered = Reqs
      /\ in = [c \in Reqs |-> in[c]] /\ out = [c \in Reqs |-> out[c]]
      /\ answered = [r \in Reqs |-> answered[r]]
  BY DEF TypeOK
<1> USE NoneAssumption, <1>0
<1>1. ASSUME NEW r \in Reqs, Start(r) PROVE Carried'
  BY <1>1, Single, Zenon DEF Start, callVars, connVars, peerVars, Held, Carried, FreeIsIdle,
       WriterIsIdle, ReaderWaits, OneOnPeer, Idle, Waiting
<1>2. ASSUME NEW r \in Reqs, GetPooled(r) PROVE Carried'
  <2>1. PICK c \in pool : pool' = pool \ {c} /\ hc' = [hc EXCEPT ![r] = c]
    BY <1>2, Zenon DEF GetPooled
  <2>2. FreeIsIdle'
    BY <1>2, <2>1 DEF GetPooled, callVars, connVars, peerVars, Held, Carried,
                   FreeIsIdle, WriterIsIdle, ReaderWaits, OneOnPeer, Idle, Waiting
  <2>3. WriterIsIdle'
    BY <1>2, <2>1, Zenon DEF GetPooled, callVars, connVars, peerVars, Held, Carried,
                   FreeIsIdle, WriterIsIdle, ReaderWaits, OneOnPeer, Idle, Waiting
  <2>4. ReaderWaits'
    BY <1>2, <2>1, Zenon DEF GetPooled, callVars, connVars, peerVars, Held, Carried,
                   FreeIsIdle, WriterIsIdle, ReaderWaits, OneOnPeer, Idle, Waiting
  <2>5. OneOnPeer'
    BY <1>2, <2>1 DEF GetPooled, callVars, connVars, peerVars, Held, Carried,
                   FreeIsIdle, WriterIsIdle, ReaderWaits, OneOnPeer, Idle, Waiting
  <2> QED
    BY <2>2, <2>3, <2>4, <2>5 DEF Carried
<1>3. ASSUME NEW r \in Reqs, GetDialed(r) PROVE Carried'
  <2>1. link[r] = "none" /\ UNCHANGED <<unread, in, out, answered, cut, pool>>
    BY <1>3 DEF GetDialed, Held, peerVars
  <2>2. FreeIsIdle'
    BY <1>3, <2>1 DEF GetDialed, Carried, FreeIsIdle, Idle
  <2>3. ASSUME NEW s \in Reqs, pc'[s] = "write" PROVE Idle(hc[s])'
    <3>1. CASE s = r
      BY <1>3, <2>1, <3>1 DEF GetDialed, Carried, FreeIsIdle, Idle
    <3>2. CASE s # r
      BY <1>3, <2>1, <2>3, <3>2, Zenon DEF GetDialed, Carried, WriterIsIdle, Idle
    <3> QED
      BY <3>1, <3>2
  <2>4. ReaderWaits'
    BY <1>3, <2>1, Zenon DEF GetDialed, Carried, ReaderWaits, Waiting
  <2>5. OneOnPeer'
    BY <1>3, <2>1 DEF GetDialed, Carried, OneOnPeer
  <2> QED
    BY <2>2, <2>3, <2>4, <2>5 DEF Carried, WriterIsIdle
<1>4. ASSUME NEW r \in Reqs, DialFails(r) PROVE Carried'
  BY <1>4, Single, Zenon DEF DialFails, callVars, connVars, peerVars, Held, Carried, FreeIsIdle,
       WriterIsIdle, ReaderWaits, OneOnPeer, Idle, Waiting
<1>5. ASSUME NEW r \in Reqs, WriteRequest(r) PROVE Carried'
  <2> DEFINE c == hc[r]
  <2>1. /\ c \in Reqs /\ c \notin pool /\ link[c] \in {"up", "broken"} /\ Idle(c)
        /\ \A s \in Reqs \ {r} : hc[s] # c
    BY <1>5 DEF WriteRequest, Held, Carried, WriterIsIdle
  <2>2. unread'[c] = 1 /\ out'[c] = <<>> /\ in'[c] \in {<<>>, <<r>>}
    BY <1>5, <2>1, Single DEF WriteRequest, Idle
  <2>3. \A d \in Reqs \ {c} : unread'[d] = unread[d] /\ in'[d] = in[d] /\ out'[d] = out[d]
    BY <1>5, <2>1 DEF WriteRequest
  <2>4. UNCHANGED <<hc, pool, link, answered, cut>> /\ pc' = [pc EXCEPT ![r] = "read"]
    BY <1>5 DEF WriteRequest
  <2> HIDE DEF c
  <2>5. FreeIsIdle'
    BY <2>1, <2>3, <2>4 DEF Carried, FreeIsIdle, Idle
  <2>6. ASSUME NEW s \in Reqs, pc'[s] = "write" PROVE Idle(hc[s])'
    <3>1. s # r /\ pc[s] = "write" /\ hc[s] \in Reqs \ {c}
      BY <2>1, <2>4, <2>6 DEF Held
    <3> QED
      BY <2>3, <2>4, <3>1, Zenon DEF Carried, WriterIsIdle, Idle
  <2>7. ASSUME NEW s \in Reqs, pc'[s] = "read" PROVE Waiting(s, hc[s])'
    <3>1. CASE s = r
      BY <2>2, <2>4, <3>1 DEF Waiting, c
    <3>2. CASE s # r
      <4>1. pc[s] = "read" /\ hc[s] \in Reqs \ {c}
        BY <2>1, <2>4, <2>7, <3>2 DEF Held
      <4> QED
        BY <2>3, <2>4, <4>1, Zenon DEF Carried, ReaderWaits, Waiting
    <3> QED
      BY <3>1, <3>2
  <2>8. \A st \in Statuses : <<c, st>> \notin answered[r]
    <3> SUFFICES ASSUME NEW st \in Statuses, <<c, st>> \in answered[r] PROVE FALSE
      OBVIOUS
    <3> DEFINE p == <<c, st>>
    <3>1. p[1] = c /\ p \in answered[r]
      OBVIOUS
    <3> HIDE DEF p
    <3> QED
      BY <1>5, <2>1, <3>1 DEF WriteRequest, Answers, AnswerSource, c
  <2>9. OneOnPeer'
    <3> SUFFICES ASSUME NEW d \in Reqs, in'[d] # <<>>
                 PROVE  \E q \in Reqs : /\ in'[d] = <<q>> /\ pc'[q] # "idle"
                                        /\ \/ pc'[q] = "read" /\ hc'[q] = d
                                           \/ link'[d] = "closed" /\ d \in cut'
                                        /\ \A st \in Statuses : <<d, st>> \notin answered'[q]
      BY DEF OneOnPeer
    <3>1. CASE d = c
      BY <2>2, <2>4, <2>8, <3>1 DEF c
    <3>2. CASE d # c
      BY <2>3, <2>4, <3>2 DEF Carried, OneOnPeer
    <3> QED
      BY <3>1, <3>2
  <2> QED
    BY <2>5, <2>6, <2>7, <2>9 DEF Carried, WriterIsIdle, ReaderWaits
<1>6. ASSUME NEW r \in Reqs, WriteFails(r) PROVE Carried'
  BY <1>6, Single, ZenonT(40) DEF WriteFails, CloseAndRetry, callVars, connVars, peerVars, Held,
       Carried, FreeIsIdle,
       WriterIsIdle, ReaderWaits, OneOnPeer, Idle, Waiting
<1>7. ASSUME NEW r \in Reqs, ReadOK(r) PROVE Carried'
  <2> DEFINE c == hc[r]
  <2>1. /\ c \in Reqs /\ c \notin pool /\ link[c] \in {"up", "broken"} /\ Waiting(r, c)
        /\ \A s \in Reqs \ {r} : hc[s] # c
    BY <1>7 DEF ReadOK, Held, Carried, ReaderWaits
  <2>2. in[c] = <<>> /\ out'[c] = <<>> /\ in' = in /\ unread'[c] = 0
    <3>1. PICK st \in Statuses : out[c] = <<<<r, st>>>>
      BY <1>7, <2>1, Zenon DEF ReadOK, Waiting
    <3>2. out'[c] = <<>>
      BY <1>7, <2>1, <3>1, Single, Zenon DEF ReadOK
    <3> QED
      BY <1>7, <2>1, <3>2 DEF ReadOK, Waiting
  <2>3. \A d \in Reqs \ {c} : unread'[d] = unread[d] /\ out'[d] = out[d]
    BY <1>7, <2>1 DEF ReadOK
  <2>4. /\ UNCHANGED <<answered, cut>> /\ hc' = [hc EXCEPT ![r] = None]
        /\ pc' = [pc EXCEPT ![r] = "ok"] /\ pool' = pool \cup {c} /\ UNCHANGED link
    BY <1>7 DEF ReadOK
  <2> HIDE DEF c
  <2>5. FreeIsIdle'
    BY <2>1, <2>2, <2>3, <2>4 DEF Carried, FreeIsIdle, Idle
  <2>6. ASSUME NEW s \in Reqs, pc'[s] \in {"write", "read"}
        PROVE  s # r /\ pc[s] = pc'[s] /\ hc'[s] = hc[s] /\ hc[s] \in Reqs \ {c}
    BY <2>1, <2>4, <2>6 DEF Held
  <2>7. ASSUME NEW s \in Reqs, pc'[s] = "write" PROVE Idle(hc[s])'
    <3>1. pc[s] = "write" /\ hc'[s] = hc[s] /\ hc[s] \in Reqs \ {c}
      BY <2>6, <2>7
    <3> QED
      BY <2>2, <2>3, <3>1, Zenon DEF Carried, WriterIsIdle, Idle
  <2>8. ASSUME NEW s \in Reqs, pc'[s] = "read" PROVE Waiting(s, hc[s])'
    <3>1. pc[s] = "read" /\ hc'[s] = hc[s] /\ hc[s] \in Reqs \ {c}
      BY <2>6, <2>8
    <3> QED
      BY <2>2, <2>3, <2>4, <3>1, Zenon DEF Carried, ReaderWaits, Waiting
  <2>9. ASSUME NEW d \in Reqs, in'[d] # <<>>
        PROVE  \E q \in Reqs : /\ in'[d] = <<q>> /\ pc'[q] # "idle"
                               /\ \/ pc'[q] = "read" /\ hc'[q] = d
                                  \/ link'[d] = "closed" /\ d \in cut'
                               /\ \A st \in Statuses : <<d, st>> \notin answered'[q]
    <3>1. PICK q \in Reqs : /\ in[d] = <<q>> /\ pc[q] # "idle"
                            /\ \/ pc[q] = "read" /\ hc[q] = d
                               \/ link[d] = "closed" /\ d \in cut
                            /\ \A st \in Statuses : <<d, st>> \notin answered[q]
      BY <2>2, <2>9 DEF Carried, OneOnPeer
    <3>2. d # c
      BY <2>2, <2>9
    <3>3. pc[q] = "read" /\ hc[q] = d => q # r
      BY <3>2 DEF c
    <3> QED
      BY <2>2, <2>4, <3>1, <3>2, <3>3
  <2> QED
    BY <2>5, <2>7, <2>8, <2>9 DEF Carried, WriterIsIdle, ReaderWaits, OneOnPeer
<1>8. ASSUME NEW r \in Reqs, ReadRefused(r) PROVE Carried'
  <2> DEFINE c == hc[r]
  <2>1. /\ c \in Reqs /\ c \notin pool /\ link[c] \in {"up", "broken"} /\ Waiting(r, c)
        /\ \A s \in Reqs \ {r} : hc[s] # c
    BY <1>8 DEF ReadRefused, Held, Carried, ReaderWaits
  <2>2. in[c] = <<>> /\ out'[c] = <<>> /\ in' = in
    <3>1. PICK st \in Statuses : out[c] = <<<<r, st>>>>
      BY <1>8, <2>1, Zenon DEF ReadRefused, Waiting
    <3>2. out'[c] = <<>>
      BY <1>8, <2>1, <3>1, Single, Zenon DEF ReadRefused
    <3> QED
      BY <1>8, <2>1, <3>2 DEF ReadRefused, Waiting
  <2>3. \A d \in Reqs \ {c} : unread'[d] = unread[d] /\ out'[d] = out[d]
    BY <1>8, <2>1 DEF ReadRefused
  <2>4. /\ UNCHANGED <<answered, cut>> /\ hc' = [hc EXCEPT ![r] = None]
        /\ pc' = [pc EXCEPT ![r] = "error"]
        /\ link' = [link EXCEPT ![c] = "closed"] /\ UNCHANGED pool
    BY <1>8 DEF ReadRefused
  <2> HIDE DEF c
  <2>5. FreeIsIdle'
    BY <2>1, <2>2, <2>3, <2>4 DEF Carried, FreeIsIdle, Idle
  <2>6. ASSUME NEW s \in Reqs, pc'[s] \in {"write", "read"}
        PROVE  s # r /\ pc[s] = pc'[s] /\ hc'[s] = hc[s] /\ hc[s] \in Reqs \ {c}
    BY <2>1, <2>4, <2>6 DEF Held
  <2>7. ASSUME NEW s \in Reqs, pc'[s] = "write" PROVE Idle(hc[s])'
    <3>1. pc[s] = "write" /\ hc'[s] = hc[s] /\ hc[s] \in Reqs \ {c}
      BY <2>6, <2>7
    <3> QED
      BY <2>2, <2>3, <3>1, Zenon DEF Carried, WriterIsIdle, Idle
  <2>8. ASSUME NEW s \in Reqs, pc'[s] = "read" PROVE Waiting(s, hc[s])'
    <3>1. pc[s] = "read" /\ hc'[s] = hc[s] /\ hc[s] \in Reqs \ {c}
      BY <2>6, <2>8
    <3> QED
      BY <2>2, <2>3, <2>4, <3>1, Zenon DEF Carried, ReaderWaits, Waiting
  <2>9. ASSUME NEW d \in Reqs, in'[d] # <<>>
        PROVE  \E q \in Reqs : /\ in'[d] = <<q>> /\ pc'[q] # "idle"
                               /\ \/ pc'[q] = "read" /\ hc'[q] = d
                                  \/ link'[d] = "closed" /\ d \in cut'
                               /\ \A st \in Statuses : <<d, st>> \notin answered'[q]
    <3>1. PICK q \in Reqs : /\ in[d] = <<q>> /\ pc[q] # "idle"
                            /\ \/ pc[q] = "read" /\ hc[q] = d
                               \/ link[d] = "closed" /\ d \in cut
                            /\ \A st \in Statuses : <<d, st>> \notin answered[q]
      BY <2>2, <2>9 DEF Carried, OneOnPeer
    <3>2. d # c
      BY <2>2, <2>9
    <3>3. pc[q] = "read" /\ hc[q] = d => q # r
      BY <3>2 DEF c
    <3> QED
      BY <2>2, <2>4, <3>1, <3>2, <3>3
  <2> QED
    BY <2>5, <2>7, <2>8, <2>9 DEF Carried, WriterIsIdle, ReaderWaits, OneOnPeer
<1>9. ASSUME NEW r \in Reqs, ReadFails(r) PROVE Carried'
  <2> DEFINE c == hc[r]
  <2>1. /\ c \in Reqs /\ link[c] = "broken" /\ c \in cut
        /\ \A s \in Reqs \ {r} : hc[s] # c
    BY <1>9 DEF ReadFails, Held
  <2>2. /\ UNCHANGED <<unread, in, out, answered, cut, pool>> /\ hc' = [hc EXCEPT ![r] = None]
        /\ link' = [link EXCEPT ![c] = "closed"]
        /\ \A s \in Reqs \ {r} : pc'[s] = pc[s]
        /\ pc'[r] \in {"get", "error"}
    BY <1>9 DEF ReadFails, CloseAndRetry, peerVars
  <2> HIDE DEF c
  <2>3. FreeIsIdle'
    BY <2>1, <2>2 DEF Carried, FreeIsIdle, Idle
  <2>4. \A s \in Reqs : pc'[s] \in {"write", "read"} => pc[s] = pc'[s] /\ hc'[s] = hc[s]
    BY <2>2
  <2>5. WriterIsIdle'
    BY <2>2, <2>4, Zenon DEF Carried, WriterIsIdle, Idle
  <2>6. ReaderWaits'
    BY <2>2, <2>4, Zenon DEF Carried, ReaderWaits, Waiting
  <2>7. ASSUME NEW d \in Reqs, in[d] # <<>>
        PROVE  \E q \in Reqs : /\ in[d] = <<q>> /\ pc'[q] # "idle"
                               /\ \/ pc'[q] = "read" /\ hc'[q] = d
                                  \/ link'[d] = "closed" /\ d \in cut
                               /\ \A st \in Statuses : <<d, st>> \notin answered[q]
    <3>1. PICK q \in Reqs : /\ in[d] = <<q>> /\ pc[q] # "idle"
                            /\ \/ pc[q] = "read" /\ hc[q] = d
                               \/ link[d] = "closed" /\ d \in cut
                            /\ \A st \in Statuses : <<d, st>> \notin answered[q]
      BY <2>7 DEF Carried, OneOnPeer
    <3>2. CASE q = r
      BY <2>1, <2>2, <3>1, <3>2 DEF c
    <3>3. CASE q # r
      BY <2>1, <2>2, <3>1, <3>3
    <3> QED
      BY <3>2, <3>3
  <2> QED
    BY <2>2, <2>3, <2>5, <2>6, <2>7 DEF Carried, OneOnPeer
<1>10. ASSUME NEW c \in Reqs, PoolDrops(c) PROVE Carried'
  BY <1>10, Single, Zenon DEF PoolDrops, callVars, connVars, peerVars, Held, Carried, FreeIsIdle,
       WriterIsIdle, ReaderWaits, OneOnPeer, Idle, Waiting
<1>11. ASSUME NEW c \in Reqs, PeerAnswers(c) PROVE Carried'
  <2>1. PICK st \in Statuses :
          /\ answered' = [answered EXCEPT ![Head(in[c])] = @ \cup {<<c, st>>}]
          /\ out' = IF link[c] = "up" THEN [out EXCEPT ![c] = Append(@, <<Head(in[c]), st>>)]
                    ELSE out
    BY <1>11, Zenon DEF PeerAnswers
  <2>2. PICK q \in Reqs :
          /\ in[c] = <<q>> /\ pc[q] # "idle"
          /\ (pc[q] = "read" /\ hc[q] = c) \/ (link[c] = "closed" /\ c \in cut)
    BY <1>11 DEF PeerAnswers, Carried, OneOnPeer
  <2>3. Head(in[c]) = q /\ Tail(in[c]) = <<>>
    BY <2>2, Single, Zenon
  <2>4. /\ in' = [in EXCEPT ![c] = <<>>]
        /\ answered' = [answered EXCEPT ![q] = @ \cup {<<c, st>>}]
        /\ UNCHANGED <<pc, hc, pool, unread, link, cut>>
    BY <1>11, <2>1, <2>3, Zenon DEF PeerAnswers, callVars, connVars
  <2>5. link[c] = "up" => pc[q] = "read" /\ hc[q] = c /\ Waiting(q, c) /\ out[c] = <<>>
    BY <2>2, Single, Zenon DEF Carried, ReaderWaits, Waiting
  <2>6. out' = IF link[c] = "up" THEN [out EXCEPT ![c] = <<<<q, st>>>>] ELSE out
    BY <2>1, <2>3, <2>5, Single, Zenon
  <2>7. link[c] # "none" /\ c \notin pool /\ \A s \in Reqs : hc[s] = c => pc[s] = "read" /\ s = q
    BY <2>2 DEF Held
  <2>8. FreeIsIdle'
    BY <2>4, <2>6, <2>7, Zenon DEF Carried, FreeIsIdle, Idle
  <2>9. WriterIsIdle'
    BY <2>4, <2>6, <2>7, Zenon DEF Carried, WriterIsIdle, Idle, Held
  <2>10. ASSUME NEW s \in Reqs, pc[s] = "read" PROVE Waiting(s, hc[s])'
    <3>1. hc[s] \in Reqs /\ Waiting(s, hc[s])
      BY <2>10 DEF Carried, ReaderWaits, Held
    <3>2. CASE hc[s] = c /\ link[c] = "up"
      BY <2>4, <2>6, <2>7, <3>1, <3>2 DEF Waiting
    <3>3. CASE ~ (hc[s] = c /\ link[c] = "up")
      <4>1. /\ unread'[hc[s]] = 1 /\ out'[hc[s]] = out[hc[s]]
            /\ in'[hc[s]] # <<>> => in[hc[s]] # <<>>
            /\ \A p : p \in answered[s] => p \in answered'[s]
        BY <2>4, <2>6, <3>1, <3>3, Zenon DEF Waiting
      <4> QED
        BY <2>4, <3>1, <4>1, Zenon DEF Waiting
    <3> QED
      BY <3>2, <3>3
  <2>11. ASSUME NEW d \in Reqs, in'[d] # <<>>
         PROVE  \E s \in Reqs : /\ in'[d] = <<s>> /\ pc[s] # "idle"
                                /\ \/ pc[s] = "read" /\ hc[s] = d
                                   \/ link[d] = "closed" /\ d \in cut
                                /\ \A u \in Statuses : <<d, u>> \notin answered'[s]
    <3>1. d # c /\ in'[d] = in[d]
      BY <2>4, <2>11
    <3>2. PICK s \in Reqs : /\ in[d] = <<s>> /\ pc[s] # "idle"
                            /\ \/ pc[s] = "read" /\ hc[s] = d
                               \/ link[d] = "closed" /\ d \in cut
                            /\ \A u \in Statuses : <<d, u>> \notin answered[s]
      BY <2>11, <3>1 DEF Carried, OneOnPeer
    <3>3. \A u \in Statuses : <<d, u>> \notin answered'[s]
      BY <2>4, <3>1, <3>2
    <3> QED
      BY <3>1, <3>2, <3>3
  <2> QED
    BY <2>4, <2>8, <2>9, <2>10, <2>11, Zenon DEF Carried, ReaderWaits, OneOnPeer
<1>12. ASSUME NEW c \in Reqs, Break(c) PROVE Carried'
  <2>1. /\ link' = [link EXCEPT ![c] = "broken"] /\ cut' = cut \cup {c}
        /\ in'[c] \in {in[c], <<>>} /\ out'[c] \in {out[c], <<>>}
        /\ \A d \in Reqs \ {c} : in'[d] = in[d] /\ out'[d] = out[d]
        /\ UNCHANGED <<pc, hc, pool, unread, answered>> /\ link[c] = "up"
    BY <1>12 DEF Break, callVars
  <2>2. FreeIsIdle'
    BY <2>1 DEF Carried, FreeIsIdle, Idle
  <2>3. ASSUME NEW s \in Reqs, pc[s] = "write" PROVE Idle(hc[s])'
    <3>1. hc[s] \in Reqs /\ Idle(hc[s])
      BY <2>3 DEF Carried, WriterIsIdle, Held
    <3> QED
      BY <2>1, <3>1 DEF Idle
  <2>4. ASSUME NEW s \in Reqs, pc[s] = "read" PROVE Waiting(s, hc[s])'
    <3>1. hc[s] \in Reqs /\ Waiting(s, hc[s])
      BY <2>4 DEF Carried, ReaderWaits, Held
    <3> QED
      BY <2>1, <3>1, Zenon DEF Waiting
  <2>5. OneOnPeer'
    BY <2>1 DEF Carried, OneOnPeer
  <2> QED
    BY <2>1, <2>2, <2>3, <2>4, <2>5 DEF Carried, WriterIsIdle, ReaderWaits
<1>13. CASE UNCHANGED vars
  BY <1>13, Zenon DEF vars, callVars, connVars, peerVars, Carried, FreeIsIdle, WriterIsIdle,
       ReaderWaits, OneOnPeer, Idle, Waiting
<1> QED
  BY <1>1, <1>2, <1>3, <1>4, <1>5, <1>6, <1>7, <1>8, <1>9, <1>10, <1>11, <1>12, <1>13 DEF
       Next, Send

LEMMA AnswersStep ==
  ASSUME TypeOK, Held, Carried, Answers, [Next]_vars
  PROVE  Answers'
<1>0. /\ pc \in [Reqs -> {"idle", "get", "write", "read", "ok", "error"}]
      /\ hc \in [Reqs -> Reqs \cup {None}] /\ pool \subseteq Reqs /\ cut \subseteq Reqs
      /\ link \in [Reqs -> {"none", "up", "broken", "closed"}]
      /\ DOMAIN in = Reqs /\ DOMAIN out = Reqs /\ DOMAIN answered = Reqs
      /\ in = [c \in Reqs |-> in[c]] /\ out = [c \in Reqs |-> out[c]]
      /\ answered = [r \in Reqs |-> answered[r]]
  BY DEF TypeOK
<1> USE NoneAssumption, <1>0
<1>1. ASSUME NEW r \in Reqs, Start(r) PROVE Answers'
  BY <1>1 DEF Start, callVars, connVars, peerVars, Held, Answers, AnswerSource,
       ErrorIsOwn, RepeatIsForced
<1>2. ASSUME NEW r \in Reqs, GetPooled(r) PROVE Answers'
  BY <1>2 DEF GetPooled, callVars, connVars, peerVars, Held, Answers, AnswerSource,
       ErrorIsOwn, RepeatIsForced
<1>3. ASSUME NEW r \in Reqs, GetDialed(r) PROVE Answers'
  BY <1>3 DEF GetDialed, callVars, connVars, peerVars, Held, Answers, AnswerSource,
       ErrorIsOwn, RepeatIsForced
<1>4. ASSUME NEW r \in Reqs, DialFails(r) PROVE Answers'
  BY <1>4 DEF DialFails, callVars, connVars, peerVars, Held, Answers, AnswerSource,
       ErrorIsOwn, RepeatIsForced
<1>5. ASSUME NEW r \in Reqs, WriteRequest(r) PROVE Answers'
  BY <1>5 DEF WriteRequest, callVars, connVars, peerVars, Held, Answers, AnswerSource,
       ErrorIsOwn, RepeatIsForced
<1>6. ASSUME NEW r \in Reqs, WriteFails(r) PROVE Answers'
  <2> DEFINE c == hc[r]
  <2>1. /\ c \in Reqs /\ link[c] = "broken" /\ c \in cut
    BY <1>6 DEF WriteFails, Held
  <2>2. /\ hc' = [hc EXCEPT ![r] = None] /\ link' = [link EXCEPT ![c] = "closed"]
        /\ pc' = [pc EXCEPT ![r] = IF c = r THEN "error" ELSE "get"]
        /\ UNCHANGED <<answered, cut>>
    BY <1>6 DEF WriteFails, CloseAndRetry, peerVars
  <2> HIDE DEF c
  <2>3. pc[r] \in {"write", "read"} /\ hc[r] = c
    BY <1>6 DEF WriteFails, c
  <2>4. AnswerSource'
    BY <2>1, <2>2, <2>3 DEF Answers, AnswerSource
  <2>5. ErrorIsOwn'
    BY <2>1, <2>2 DEF Answers, ErrorIsOwn
  <2> QED
    BY <2>2, <2>4, <2>5 DEF Answers, RepeatIsForced
<1>7. ASSUME NEW r \in Reqs, ReadOK(r) PROVE Answers'
  <2>1. /\ pc' = [pc EXCEPT ![r] = "ok"] /\ hc' = [hc EXCEPT ![r] = None]
        /\ UNCHANGED <<link, answered, cut>>
    BY <1>7 DEF ReadOK
  <2> QED
    BY <2>1 DEF Answers, AnswerSource, ErrorIsOwn, RepeatIsForced
<1>8. ASSUME NEW r \in Reqs, ReadRefused(r) PROVE Answers'
  <2> DEFINE c == hc[r]
  <2>1. /\ pc' = [pc EXCEPT ![r] = "error"] /\ hc' = [hc EXCEPT ![r] = None]
        /\ link' = [link EXCEPT ![c] = "closed"] /\ UNCHANGED <<answered, cut>>
    BY <1>8 DEF ReadRefused
  <2>2. c \in Reqs /\ Waiting(r, c)
    BY <1>8 DEF ReadRefused, Held, Carried, ReaderWaits
  <2>3. PICK st \in Statuses : out[c] = <<<<r, st>>>> /\ <<c, st>> \in answered[r]
    BY <1>8, <2>2, Zenon DEF ReadRefused, Waiting
  <2>4. Head(out[c])[2] = st
    BY <2>3, Single
  <2>5. \E p \in answered[r] : p[2] # OK
    BY <1>8, <2>3, <2>4 DEF ReadRefused
  <2>6. AnswerSource'
    BY <2>1, <2>2 DEF Answers, AnswerSource
  <2>7. ErrorIsOwn'
    BY <2>1, <2>5 DEF Answers, ErrorIsOwn
  <2> QED
    BY <2>1, <2>6, <2>7 DEF Answers, RepeatIsForced
<1>9. ASSUME NEW r \in Reqs, ReadFails(r) PROVE Answers'
  <2> DEFINE c == hc[r]
  <2>1. /\ c \in Reqs /\ link[c] = "broken" /\ c \in cut
    BY <1>9 DEF ReadFails, Held
  <2>2. /\ hc' = [hc EXCEPT ![r] = None] /\ link' = [link EXCEPT ![c] = "closed"]
        /\ pc' = [pc EXCEPT ![r] = IF c = r THEN "error" ELSE "get"]
        /\ UNCHANGED <<answered, cut>>
    BY <1>9 DEF ReadFails, CloseAndRetry, peerVars
  <2> HIDE DEF c
  <2>3. pc[r] \in {"write", "read"} /\ hc[r] = c
    BY <1>9 DEF ReadFails, c
  <2>4. AnswerSource'
    BY <2>1, <2>2, <2>3 DEF Answers, AnswerSource
  <2>5. ErrorIsOwn'
    BY <2>1, <2>2 DEF Answers, ErrorIsOwn
  <2> QED
    BY <2>2, <2>4, <2>5 DEF Answers, RepeatIsForced
<1>10. ASSUME NEW c \in Reqs, PoolDrops(c) PROVE Answers'
  <2>1. /\ link' = [link EXCEPT ![c] = "closed"] /\ UNCHANGED <<pc, hc, answered, cut>>
    BY <1>10 DEF PoolDrops, callVars, peerVars
  <2> QED
    BY <2>1 DEF Answers, AnswerSource, ErrorIsOwn, RepeatIsForced
<1>11. ASSUME NEW c \in Reqs, PeerAnswers(c) PROVE Answers'
  <2>1. PICK st \in Statuses :
          answered' = [answered EXCEPT ![Head(in[c])] = @ \cup {<<c, st>>}]
    BY <1>11, Zenon DEF PeerAnswers
  <2>2. PICK q \in Reqs :
          /\ in[c] = <<q>> /\ pc[q] # "idle"
          /\ (pc[q] = "read" /\ hc[q] = c) \/ (link[c] = "closed" /\ c \in cut)
          /\ \A u \in Statuses : <<c, u>> \notin answered[q]
    BY <1>11 DEF PeerAnswers, Carried, OneOnPeer
  <2> DEFINE new == <<c, st>>
  <2>3. /\ answered' = [answered EXCEPT ![q] = @ \cup {new}] /\ new[1] = c
        /\ UNCHANGED <<pc, hc, link, cut>>
    BY <1>11, <2>1, <2>2, Single, Zenon DEF PeerAnswers, callVars, connVars
  <2>4. \A p \in answered[q] : p[1] # c
    <3> SUFFICES ASSUME NEW p \in answered[q], p[1] = c PROVE FALSE
      OBVIOUS
    <3>1. p[2] \in Statuses /\ p = <<c, p[2]>>
      BY DEF TypeOK
    <3> QED
      BY <2>2, <3>1
  <2> HIDE DEF new
  <2>5. AnswerSource'
    BY <2>2, <2>3 DEF Answers, AnswerSource
  <2>6. ErrorIsOwn'
    BY <2>3 DEF Answers, ErrorIsOwn
  <2>7. ASSUME NEW s \in Reqs, NEW p \in answered'[s], NEW o \in answered'[s], p # o
        PROVE  p[1] # o[1] /\ (p[1] \in cut \/ o[1] \in cut)
    <3>1. CASE p \in answered[s] /\ o \in answered[s]
      BY <2>7, <3>1 DEF Answers, RepeatIsForced
    <3>2. ASSUME s = q, NEW u \in answered[q] PROVE u[1] # c /\ (u[1] \in cut \/ c \in cut)
      BY <2>2, <2>4, <3>2 DEF Answers, AnswerSource
    <3> QED
      BY <2>3, <2>7, <3>1, <3>2
  <2> QED
    BY <2>3, <2>5, <2>6, <2>7 DEF Answers, RepeatIsForced
<1>12. ASSUME NEW c \in Reqs, Break(c) PROVE Answers'
  BY <1>12 DEF Break, callVars, connVars, peerVars, Held, Answers, AnswerSource,
       ErrorIsOwn, RepeatIsForced
<1>13. CASE UNCHANGED vars
  BY <1>13 DEF vars, callVars, connVars, peerVars, Held, Answers, AnswerSource,
       ErrorIsOwn, RepeatIsForced
<1> QED
  BY <1>1, <1>2, <1>3, <1>4, <1>5, <1>6, <1>7, <1>8, <1>9, <1>10, <1>11, <1>12, <1>13 DEF
       Next, Send

LEMMA Invariance == Spec => []Inv
<1>1. Inv /\ [Next]_vars => Inv'
  BY TypeStep, HeldStep, CarriedStep, AnswersStep DEF Inv
<1> QED
  BY InitInv, <1>1, PTL DEF Spec

-----------------------------------------------------------------------------
(***************************************************************************)
(* Theorems                                                                *)
(***************************************************************************)
\* UnreadedResponsesCount is 0 whenever a connection is in the pool, and nothing
\* of an earlier request is under way on it: sendH1Request never has a stale
\* response to drain.
THEOREM PooledAreIdle == Spec => []PooledIsIdle
<1>1. Inv => PooledIsIdle
  BY Zenon DEF Inv, TypeOK, Carried, FreeIsIdle, Idle, PooledIsIdle
<1> QED
  BY <1>1, Invariance, PTL

\* sendH1Request never reports the death of a connection that came from the pool.
THEOREM ErrorsAreOwn == Spec => []ErrorIsOwn
<1>1. Inv => ErrorIsOwn
  BY DEF Inv, Answers
<1> QED
  BY <1>1, Invariance, PTL

\* The retry loop of sendH1Request has the peer handle a request twice only
\* when a connection broke under it.
THEOREM RepeatsAreForced == Spec => []RepeatIsForced
<1>1. Inv => RepeatIsForced
  BY DEF Inv, Answers
<1> QED
  BY <1>1, Invariance, PTL

-----------------------------------------------------------------------------
result == [r \in Reqs |-> IF pc[r] \in {"get", "write", "read"} THEN "pending" ELSE pc[r]]
replies == [r \in Reqs |-> {p[2] : p \in answered[r]}]

LEMMA StepImplements ==
  ASSUME Inv, [Next]_vars
  PROVE  [Exchange!Next]_<<result, replies>>
<1>0. /\ pc \in [Reqs -> {"idle", "get", "write", "read", "ok", "error"}]
      /\ answered \in [Reqs -> SUBSET (Reqs \X Statuses)]
  BY DEF Inv, TypeOK
<1>1. ASSUME NEW r \in Reqs, Start(r) PROVE Exchange!Call(r)
  BY <1>0, <1>1, Zenon DEF Start, Exchange!Call, peerVars
<1>2. ASSUME NEW r \in Reqs,
             GetPooled(r) \/ GetDialed(r) \/ WriteRequest(r)
      PROVE  UNCHANGED <<result, replies>>
  BY <1>0, <1>2 DEF GetPooled, GetDialed, WriteRequest, peerVars, result, replies
<1>3. ASSUME NEW r \in Reqs, DialFails(r) PROVE Exchange!Fail(r)
  BY <1>0, <1>3, Zenon DEF DialFails, Exchange!Fail, peerVars
<1>4. ASSUME NEW r \in Reqs, WriteFails(r) \/ ReadFails(r)
      PROVE  Exchange!Fail(r) \/ UNCHANGED <<result, replies>>
  BY <1>0, <1>4, Zenon DEF WriteFails, ReadFails, CloseAndRetry, Exchange!Fail, peerVars, result,
       replies
<1>5. ASSUME NEW r \in Reqs, ReadOK(r) PROVE Exchange!Succeed(r)
  <2> DEFINE c == hc[r]
  <2>1. Waiting(r, c)
    BY <1>5 DEF ReadOK, Inv, Carried, ReaderWaits
  <2>2. PICK st \in Statuses : out[c] = <<<<r, st>>>> /\ <<c, st>> \in answered[r]
    BY <1>5, <2>1 DEF ReadOK, Waiting
  <2>3. st = OK
    BY <1>5, <2>2, Single DEF ReadOK
  <2>4. OK \in {p[2] : p \in answered[r]}
    BY <2>2, <2>3
  <2> QED
    BY <1>0, <1>5, <2>4, Zenon DEF ReadOK, Exchange!Succeed
<1>6. ASSUME NEW r \in Reqs, ReadRefused(r) PROVE Exchange!Fail(r)
  BY <1>0, <1>6, Zenon DEF ReadRefused, Exchange!Fail
<1>7. ASSUME NEW c \in Reqs, PeerAnswers(c)
      PROVE  \E q \in Reqs, st \in Statuses : Exchange!Answer(q, st)
  <2>1. PICK st \in Statuses :
          answered' = [answered EXCEPT ![Head(in[c])] = @ \cup {<<c, st>>}]
    BY <1>7, Zenon DEF PeerAnswers
  <2>2. PICK q \in Reqs : in[c] = <<q>> /\ pc[q] # "idle"
    BY <1>7 DEF PeerAnswers, Inv, Carried, OneOnPeer
  <2>3. answered' = [answered EXCEPT ![q] = @ \cup {<<c, st>>}]
    BY <2>1, <2>2, Single
  <2>4. UNCHANGED pc
    BY <1>7 DEF PeerAnswers, callVars
  <2>5. \A r \in Reqs :
          {p[2] : p \in answered'[r]}
            = IF r = q THEN {p[2] : p \in answered[r]} \cup {st} ELSE {p[2] : p \in answered[r]}
    <3>1. {p[2] : p \in answered[q] \cup {<<c, st>>}} = {p[2] : p \in answered[q]} \cup {st}
      <4> DEFINE new == <<c, st>>
      <4>1. new[2] = st
        OBVIOUS
      <4> HIDE DEF new
      <4>2. {p[2] : p \in answered[q] \cup {new}} = {p[2] : p \in answered[q]} \cup {new[2]}
        BY Zenon
      <4> QED
        BY <4>1, <4>2, Zenon DEF new
    <3>2. answered'[q] = answered[q] \cup {<<c, st>>}
      BY <1>0, <2>3
    <3>3. \A r \in Reqs \ {q} : answered'[r] = answered[r]
      BY <1>0, <2>3
    <3> QED
      BY <3>1, <3>2, <3>3, Zenon
  <2>6. Exchange!Answer(q, st)
    BY <1>0, <2>2, <2>4, <2>5, Zenon DEF Exchange!Answer
  <2> QED
    BY <2>6
<1>8. ASSUME NEW c \in Reqs, PoolDrops(c) \/ Break(c) PROVE UNCHANGED <<result, replies>>
  BY <1>8 DEF PoolDrops, Break, callVars, peerVars, result, replies
<1>9. CASE UNCHANGED vars
  BY <1>9 DEF vars, callVars, peerVars, result, replies
<1> QED
  BY <1>1, <1>2, <1>3, <1>4, <1>5, <1>6, <1>7, <1>8, <1>9 DEF Next, Send, Exchange!Next

\* sendH1Request implements AtLeastOnce, for any number of calls that share the
\* pool: nil means that the peer answered 200 to this very request.
THEOREM AnswersAreOwn == Spec => AnswerIsOwn
<1>1. Init => Exchange!Init
  BY DEF Init, Exchange!Init
<1>2. Inv /\ [Next]_vars => [Exchange!Next]_<<result, replies>>
  BY StepImplements
<1> QED
  BY <1>1, <1>2, Invariance, PTL DEF Spec, AnswerIsOwn, Exchange!Spec, result, replies

-----------------------------------------------------------------------------
(***************************************************************************)
(* A transportSet.                                                         *)
(***************************************************************************)
\* Only the carrier of the version that decideHTTPVersion chose moves.
LEMMA OneCarrier ==
  ASSUME [TransportNext]_transportVars
  PROVE  [Next]_vars /\ [H2Next]_h2Vars
  BY Zenon DEF TransportNext, transportVars

\* A carrier in a transportSet behaves as it does alone.
LEMMA Carriers == TransportSpec => Spec /\ H2Spec
<1>1. TransportInit => Init /\ H2Init
  BY Zenon DEF TransportInit
<1>2. [TransportNext]_transportVars => [Next]_vars /\ [H2Next]_h2Vars
  BY OneCarrier
<1> QED
  BY <1>1, <1>2, PTL DEF TransportSpec, Spec, H2Spec

\* Whatever the TLS configuration, what was proved of sendH1Request and of
\* chromiumH2Conn holds of every transportSet.
THEOREM TransportIsSafe ==
  TransportSpec => /\ AnswerIsOwn
                   /\ [](PooledIsIdle /\ ErrorIsOwn /\ RepeatIsForced)
                   /\ [](Transparent /\ FrameSizeHonoured /\ TableExact /\ ParentIsOpen)
  BY Carriers, AnswersAreOwn, PooledAreIdle, ErrorsAreOwn, RepeatsAreForced,
     RewritingIsTransparent, FramesFit, TableIsExact, ParentsAreOpen, PTL
=============================================================================
