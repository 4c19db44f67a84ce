---------------------------- MODULE H2WriteProofs ----------------------------
(***************************************************************************)
(* Every step of Write on a frame keeps the invariant of H2ConnProofs: the *)
(* frames it passes on, the header block it takes in hand, the parent it   *)
(* gives it, and the frames that come out of it.                           *)
(***************************************************************************)
EXTENDS H2ConnProofs

\* What the next frame of x/net adds to the streams opened, reset and ended.
LEMMA NotedNext ==
  ASSUME H2Types, NEW n \in Nat, Noted = n, Noted' = n + 1, src' = src, answers' = answers,
         src[n + 1].t # "HEADERS"
  PROVE  /\ Opened(src', Noted') = Opened(src, Noted)
         /\ src[n + 1].t # "RST" => Resets' = Resets
         /\ src[n + 1].t = "RST" /\ src[n + 1].s \in Streams => Resets' = Resets \cup {src[n + 1].s}
         /\ src[n + 1].t # "DATA" => LocalEnds' = LocalEnds
         /\ src[n + 1].t = "DATA" /\ src[n + 1].s \in Streams
            => LocalEnds' = LocalEnds \cup {src[n + 1].s}
         /\ RemoteEnds' = RemoteEnds
<1>1. /\ \A s : s \in Opened(src, n + 1) <=> s \in Opened(src, n)
      /\ \A s : ResetIn(src, n + 1, s) <=> ResetIn(src, n, s)
         \/ (src[n + 1].t = "RST" /\ src[n + 1].s = s)
      /\ \A s : EndedIn(src, n + 1, s) <=> EndedIn(src, n, s)
         \/ (src[n + 1].t = "DATA" /\ src[n + 1].s = s)
  BY CarryNext
<1>2. Opened(src', Noted') = Opened(src, Noted)
  <2>1. Opened(src, n + 1) = Opened(src, n)
    BY <1>1, Zenon DEF Opened
  <2> QED
    BY <2>1
<1>3. RemoteEnds' = RemoteEnds
  BY DEF RemoteEnds
<1>4. Resets' = {s \in Streams : ResetIn(src, n + 1, s) \/ ResetIn(answers, Len(answers), s)}
  BY DEF Resets
<1>5. LocalEnds' = {s \in Streams : EndedIn(src, n + 1, s)}
  BY DEF LocalEnds
<1>6. src[n + 1].t = "RST" /\ src[n + 1].s \in Streams => Resets' = Resets \cup {src[n + 1].s}
  BY <1>1, <1>4 DEF Resets
<1>7. src[n + 1].t # "RST" => Resets' = Resets
  BY <1>1, <1>4 DEF Resets
<1>8. src[n + 1].t = "DATA" /\ src[n + 1].s \in Streams
         => LocalEnds' = LocalEnds \cup {src[n + 1].s}
  BY <1>1, <1>5 DEF LocalEnds
<1>9. src[n + 1].t # "DATA" => LocalEnds' = LocalEnds
  BY <1>1, <1>5 DEF LocalEnds
<1> QED
  BY <1>2, <1>3, <1>6, <1>7, <1>8, <1>9

\* What is common to the actions that take the next frame.
LEMMA FrameFacts ==
  ASSUME H2Inv, NEW t, Frame(t)
  PROVE  /\ wpc = "loop" /\ done < Len(src) /\ done \in Nat /\ Noted = done
            /\ done + 1 \in 1 .. Len(src)
         /\ src[done + 1] \in H2Frame /\ src[done + 1].t = t
         /\ done + 1 \in 0 .. Len(src) /\ ~writeErr
<1>1. wpc = "loop" /\ done < Len(src) /\ src[done + 1].t = t
  BY DEF Frame
<1>2. done \in Nat /\ Len(src) \in Nat /\ ~writeErr /\ \A i \in 1 .. Len(src) : src[i] \in H2Frame
  BY <1>1 DEF H2Inv, H2Types
<1>3. done + 1 \in 1 .. Len(src) /\ done + 1 \in 0 .. Len(src)
  BY <1>1, <1>2
<1> QED
  BY <1>1, <1>2, <1>3 DEF Noted

\* The rewritten SETTINGS.
LEMMA SettingsStep ==
  ASSUME H2Inv, WriteSettings
  PROVE  H2Inv'
<1> DEFINE g == Settings(chromiumInitialSettings(src[done + 1].ids))
<1>1. /\ Frame("SETTINGS") /\ output' = Append(output, g) /\ done' = done + 1
      /\ src' = src /\ wpc' = wpc /\ block' = block /\ wire' = wire /\ writeErr' = writeErr
      /\ order' = order /\ ended' = ended /\ maxFrame' = maxFrame /\ answers' = answers
         /\ seen' = seen
  BY DEF WriteSettings, tVars, rVars
<1>2. src[done + 1] = Settings(initialSettings)
  BY <1>1, FrameFacts DEF H2Inv, Source
<1>3. src[done + 1].ids = <<2, 4, 5, 6, 1>>
  BY <1>2 DEF Settings, initialSettings
<1>4. {<<2, 4, 5, 6, 1>>[i] : i \in DOMAIN <<2, 4, 5, 6, 1>>} = {1, 2, 4, 5, 6}
  BY DOMAIN <<2, 4, 5, 6, 1>> = 1 .. 5
<1>5. {<<1, 2, 4, 6>>[i] : i \in DOMAIN <<1, 2, 4, 6>>} = {1, 2, 4, 6}
  BY DOMAIN <<1, 2, 4, 6>> = 1 .. 4
<1>6. g.ids = <<1, 2, 4, 6>> /\ g.t = "SETTINGS"
  BY <1>3, <1>4, <1>5 DEF chromiumInitialSettings, want, Settings
<1>7. Same(g, src[done + 1])
  BY <1>2, <1>3, <1>4, <1>5, <1>6 DEF Same, Settings
<1>8. g \in H2Frame
  BY <1>3, <1>4, <1>5 DEF chromiumInitialSettings, want, Settings, H2Frame
<1>9. H2Types'
  BY <1>1, <1>8, FrameFacts DEF H2Inv, H2Types
<1>10. Table'
  <2>1. Noted' = done + 1
    BY <1>1, FrameFacts DEF Noted
  <2>2. done \in Nat /\ Noted = done /\ src[done + 1].t = "SETTINGS"
    BY <1>1, FrameFacts
  <2>3. Opened(src', Noted') = Opened(src, Noted) /\ Resets' = Resets
           /\ LocalEnds' = LocalEnds /\ RemoteEnds' = RemoteEnds
    BY <1>1, <2>1, <2>2, NotedNext DEF H2Inv
  <2> QED
    BY <1>1, <2>3, TableFrame DEF H2Inv
<1> QED
  BY <1>1, <1>7, <1>8, <1>9, <1>10, FrameFacts, OneFrame

\* A SETTINGS acknowledgement passes through: maxFrame is the size of that SETTINGS
\* or of a later one.
LEMMA AckStep ==
  ASSUME H2Inv, WriteAck
  PROVE  H2Inv'
<1>1. /\ Frame("ACK") /\ output' = Append(output, src[done + 1]) /\ done' = done + 1
      /\ src' = src /\ wpc' = wpc /\ block' = block /\ wire' = wire /\ writeErr' = writeErr
      /\ order' = order /\ ended' = ended /\ maxFrame' = maxFrame /\ answers' = answers
         /\ seen' = seen
  BY DEF WriteAck, tVars, rVars
<1>2. Same(src[done + 1], src[done + 1])
  BY <1>1, FrameFacts DEF Same
<1>3. H2Types'
  BY <1>1, FrameFacts DEF H2Inv, H2Types
<1>4. Table'
  <2>1. Noted' = done + 1
    BY <1>1, FrameFacts DEF Noted
  <2>2. done \in Nat /\ Noted = done /\ src[done + 1].t = "ACK"
    BY <1>1, FrameFacts
  <2>3. Opened(src', Noted') = Opened(src, Noted) /\ Resets' = Resets
           /\ LocalEnds' = LocalEnds /\ RemoteEnds' = RemoteEnds
    BY <1>1, <2>1, <2>2, NotedNext DEF H2Inv
  <2> QED
    BY <1>1, <2>3, TableFrame DEF H2Inv
<1> QED
  BY <1>1, <1>2, <1>3, <1>4, FrameFacts, OneFrame

\* DATA that ends the stream.
LEMMA DataStep ==
  ASSUME H2Inv, WriteData
  PROVE  H2Inv'
<1>1. /\ Frame("DATA") /\ output' = Append(output, src[done + 1]) /\ done' = done + 1
      /\ src' = src /\ wpc' = wpc /\ block' = block /\ wire' = wire /\ writeErr' = writeErr
      /\ maxFrame' = maxFrame /\ answers' = answers /\ seen' = seen
         /\ noteEnd(src[done + 1].s, "local")
  BY DEF WriteData, rVars
<1>2. Same(src[done + 1], src[done + 1])
  BY <1>1, FrameFacts DEF Same
<1>3. done \in Nat /\ Noted = done /\ src[done + 1].t = "DATA" /\ src[done + 1].s \in Streams
         /\ Noted' = done + 1
  BY <1>1, FrameFacts, Kinds DEF Noted
<1>4. src[done + 1].s \in Opened(src, done)
  <2>1. (done + 1) - 1 = done
    BY <1>3
  <2> QED
    BY <1>1, <1>3, <2>1, FrameFacts, Zenon DEF H2Inv, Source
<1>5. TableTypes' /\ Table'
  <2>1. /\ Opened(src', Noted') = Opened(src, Noted) /\ Resets' = Resets
        /\ LocalEnds' = LocalEnds \cup {src[done + 1].s} /\ RemoteEnds' = RemoteEnds
    BY <1>1, <1>3, NotedNext DEF H2Inv
  <2>2. PICK s, o, r, l, e : /\ s = src[done + 1].s /\ o = Opened(src, Noted) /\ r = Resets
                             /\ l = LocalEnds /\ e = RemoteEnds
    OBVIOUS
  <2>3. TableTypes /\ TableOf(o, r, l, e)
    BY <2>2 DEF H2Inv, H2Types, TableTypes, Table
  <2>4. s \in Streams /\ s \in o /\ noteEnd(s, "local")
    BY <1>1, <1>3, <1>4, <2>2
  <2>5. TableTypes' /\ TableOf(o, r, l \cup {s}, e)'
    BY <2>3, <2>4, TableLocalEnd
  <2> QED
    BY <2>1, <2>2, <2>5 DEF Table
<1>6. H2Types'
  BY <1>1, <1>5, FrameFacts DEF H2Inv, H2Types, TableTypes
<1> QED
  BY <1>1, <1>2, <1>5, <1>6, FrameFacts, OneFrame

\* RST_STREAM.
LEMMA ResetStep ==
  ASSUME H2Inv, WriteReset
  PROVE  H2Inv'
<1>1. /\ Frame("RST") /\ output' = Append(output, src[done + 1]) /\ done' = done + 1
      /\ src' = src /\ wpc' = wpc /\ block' = block /\ wire' = wire /\ writeErr' = writeErr
      /\ maxFrame' = maxFrame /\ answers' = answers /\ seen' = seen /\ removeStream(src[done + 1].s)
  BY DEF WriteReset, rVars
<1>2. Same(src[done + 1], src[done + 1])
  BY <1>1, FrameFacts DEF Same
<1>3. done \in Nat /\ Noted = done /\ src[done + 1].t = "RST" /\ src[done + 1].s \in Streams
         /\ Noted' = done + 1
  BY <1>1, FrameFacts, Kinds DEF Noted
<1>4. TableTypes' /\ Table'
  <2>1. /\ Opened(src', Noted') = Opened(src, Noted) /\ Resets' = Resets \cup {src[done + 1].s}
        /\ LocalEnds' = LocalEnds /\ RemoteEnds' = RemoteEnds
    BY <1>1, <1>3, NotedNext DEF H2Inv
  <2>2. PICK s, o, r, l, e : /\ s = src[done + 1].s /\ o = Opened(src, Noted) /\ r = Resets
                             /\ l = LocalEnds /\ e = RemoteEnds
    OBVIOUS
  <2>3. TableTypes /\ TableOf(o, r, l, e)
    BY <2>2 DEF H2Inv, H2Types, TableTypes, Table
  <2>4. s \in Streams /\ removeStream(s)
    BY <1>1, <1>3, <2>2
  <2>5. TableTypes' /\ TableOf(o, r \cup {s}, l, e)'
    BY <2>3, <2>4, TableReset
  <2> QED
    BY <2>1, <2>2, <2>5 DEF Table
<1>5. H2Types'
  BY <1>1, <1>4, FrameFacts DEF H2Inv, H2Types, TableTypes
<1> QED
  BY <1>1, <1>2, <1>4, <1>5, FrameFacts, OneFrame

\* A stream that x/net is about to open is younger than the others, and nothing has
\* been said of it.
LEMMA NewStream ==
  ASSUME H2Inv, Frame("HEADERS"), NEW s, s = src[done + 1].s
  PROVE  /\ s \in Streams /\ \A q \in Opened(src, done) : q < s
         /\ s \notin Resets /\ s \notin LocalEnds /\ s \notin RemoteEnds
<1>1. done \in Nat /\ Noted = done /\ done + 1 \in 1 .. Len(src) /\ Len(src) \in Nat
         /\ s \in Streams /\ s \in Nat
        /\ src[done + 1].t = "HEADERS"
  BY FrameFacts, Kinds DEF H2Inv, H2Types
<1>2. \A q \in Opened(src, done) : q < s
  <2>1. ASSUME NEW i \in 1 .. done, src[i].t = "HEADERS" PROVE src[i].s < s
    BY <1>1, <2>1 DEF H2Inv, Source
  <2> QED
    BY <2>1 DEF Opened, Carry
<1>3. s \notin Opened(src, done)
  BY <1>1, <1>2
<1>4. ASSUME NEW i \in 1 .. done, src[i].t \in {"DATA", "RST"} PROVE src[i].s # s
  <2>1. i \in 1 .. Len(src) /\ i - 1 \in Nat /\ i - 1 <= done
    BY <1>1
  <2>2. src[i].s \in Opened(src, i - 1)
    BY <1>4, <2>1 DEF H2Inv, Source
  <2>3. src[i].s \in Opened(src, done)
    BY <1>1, <2>1, <2>2, CarryMore
  <2> QED
    BY <1>3, <2>3
<1>5. ASSUME NEW i \in 1 .. done, src[i].t = "HEADERS" PROVE src[i].s # s
  BY <1>1, <1>3, <1>5 DEF Opened, Carry
<1>6. ASSUME NEW j \in 1 .. Len(answers)
      PROVE answers[j].t \in {"SETTINGS", "DATA", "RST"}
               /\ (answers[j].t # "SETTINGS" => answers[j].s # s)
  BY <1>1, <1>3 DEF H2Inv, Peer
<1>7. s \notin Resets
  BY <1>1, <1>4, <1>6 DEF Resets, ResetIn, Carry
<1>8. s \notin LocalEnds
  BY <1>1, <1>4, <1>5 DEF LocalEnds, EndedIn, Carry
<1>9. s \notin RemoteEnds
  BY <1>6 DEF RemoteEnds, EndedIn, Carry
<1> QED
  BY <1>1, <1>2, <1>7, <1>8, <1>9

\* startHeaderBlock takes the next frame, the HEADERS of a stream, and keeps it in hand.
LEMMA StartFacts ==
  ASSUME H2Inv, StartHeaderBlock, NEW d, NEW s, NEW end,
         d = done + 1 /\ s = src[d].s /\ end = src[d].end
  PROVE  /\ Frame("HEADERS") /\ wpc' = "parent" /\ done' = done /\ output' = output
         /\ src' = src /\ block' = block /\ wire' = wire /\ writeErr' = writeErr
         /\ maxFrame' = maxFrame /\ answers' = answers /\ seen' = seen
         /\ noteLocalHeaders(src[done + 1].s, src[done + 1].end)
         /\ wpc = "loop" /\ done \in Nat /\ d \in Nat /\ done < d /\ Noted = done /\ Noted' = d
            /\ d \in 1 .. Len(src)
         /\ src[d].t = "HEADERS" /\ s \in Streams /\ end \in BOOLEAN /\ ~writeErr /\ done < Len(src)
         /\ Len(src) \in Nat /\ s \in Nat /\ Out' = Out
         /\ ~Unfinished(src, done) /\ ~Pending /\ Pending'
         /\ (\A q : ~InHand(q)) /\ InHand(d)' /\ \A q \in 1 .. done : ~InHand(q)'
<1>1. /\ Frame("HEADERS") /\ wpc' = "parent" /\ done' = done /\ output' = output
      /\ src' = src /\ block' = block /\ wire' = wire /\ writeErr' = writeErr
      /\ maxFrame' = maxFrame /\ answers' = answers /\ seen' = seen
      /\ noteLocalHeaders(src[done + 1].s, src[done + 1].end)
  BY DEF StartHeaderBlock, rVars
<1>2. d = done + 1 /\ s = src[d].s /\ end = src[d].end
  OBVIOUS
<1>3. /\ wpc = "loop" /\ done \in Nat /\ d \in Nat /\ done < d /\ Noted = done /\ Noted' = d
         /\ d \in 1 .. Len(src)
      /\ src[d].t = "HEADERS" /\ s \in Streams /\ end \in BOOLEAN /\ ~writeErr /\ done < Len(src)
      /\ Len(src) \in Nat /\ s \in Nat /\ Out' = Out
  <2>1. src[d] \in H2Frame /\ src[d].t = "HEADERS"
    BY <1>1, <1>2, FrameFacts
  <2>2. s \in Streams /\ s \in Nat /\ end \in BOOLEAN
    BY <1>2, <2>1, Kinds
  <2>3. Noted' = d /\ Out' = Out
    BY <1>1, <1>2 DEF Noted, Out
  <2> QED
    BY <1>1, <1>2, <2>1, <2>2, <2>3, FrameFacts DEF H2Inv, H2Types
<1>4. ~Unfinished(src, done)
  <2>1. DOMAIN src = 1 .. Len(src) /\ d - 1 = done
    BY <1>2, <1>3 DEF H2Inv, H2Types
  <2> QED
    BY <1>3, <2>1, Zenon DEF H2Inv, Source, WholeBlocks
<1>5. ~Pending /\ Pending'
  BY <1>1, <1>3, <1>4 DEF Pending
<1>6. (\A q : ~InHand(q)) /\ InHand(d)' /\ \A q \in 1 .. done : ~InHand(q)'
  <2>1. ASSUME NEW q \in 1 .. done, src[q].t = "HEADERS" PROVE src[q].s # s
    BY <1>3, <2>1, <1>2 DEF H2Inv, Source
  <2> QED
    BY <1>1, <1>2, <1>3, <1>5, <2>1 DEF InHand
<1> QED
  BY <1>1, <1>3, <1>4, <1>5, <1>6, Zenon

\* It notes the stream before the block is rewritten.
LEMMA StartTable ==
  ASSUME H2Inv, StartHeaderBlock
  PROVE  TableTypes' /\ Table'
<1>1. /\ Frame("HEADERS") /\ wpc' = "parent" /\ done' = done /\ output' = output
      /\ src' = src /\ block' = block /\ wire' = wire /\ writeErr' = writeErr
      /\ maxFrame' = maxFrame /\ answers' = answers /\ seen' = seen
      /\ noteLocalHeaders(src[done + 1].s, src[done + 1].end)
  BY DEF StartHeaderBlock, rVars
<1>2. PICK d, s, end : d = done + 1 /\ s = src[d].s /\ end = src[d].end
  OBVIOUS
<1>3. /\ wpc = "loop" /\ done \in Nat /\ d \in Nat /\ done < d /\ Noted = done /\ Noted' = d
         /\ d \in 1 .. Len(src)
      /\ src[d].t = "HEADERS" /\ s \in Streams /\ end \in BOOLEAN /\ ~writeErr /\ done < Len(src)
      /\ Len(src) \in Nat /\ s \in Nat /\ Out' = Out
  BY <1>2, StartFacts, Zenon
<1>4. /\ \A q \in Opened(src, done) : q < s
      /\ s \notin Resets /\ s \notin LocalEnds /\ s \notin RemoteEnds
  BY <1>1, <1>2, NewStream
<1>5. /\ \A q : q \in Opened(src, d) <=> q \in Opened(src, done) \/ q = s
      /\ \A q : ResetIn(src, d, q) <=> ResetIn(src, done, q)
      /\ \A q : EndedIn(src, d, q) <=> EndedIn(src, done, q) \/ (q = s /\ end)
  <2>1. /\ \A q : q \in Opened(src, done + 1) <=>
                   q \in Opened(src, done)
                     \/ (q \in Streams /\ src[done + 1].t = "HEADERS" /\ src[done + 1].s = q)
        /\ \A q : ResetIn(src, done + 1, q) <=>
                   ResetIn(src, done, q) \/ (src[done + 1].t = "RST" /\ src[done + 1].s = q)
        /\ \A q : EndedIn(src, done + 1, q) <=>
                   EndedIn(src, done, q)
                     \/ (src[done + 1].t = "DATA" /\ src[done + 1].s = q)
                     \/ (src[done + 1].t = "HEADERS" /\ src[done + 1].s = q /\ src[done + 1].end)
    BY <1>3, CarryNext, Zenon
  <2> QED
    BY <1>2, <1>3, <2>1
<1>6. /\ Opened(src', Noted') = Opened(src, Noted) \cup {s}
      /\ Resets' = Resets /\ RemoteEnds' = RemoteEnds
      /\ LocalEnds' = IF end THEN LocalEnds \cup {s} ELSE LocalEnds
  <2>1. Opened(src', Noted') = Opened(src, Noted) \cup {s}
    BY <1>1, <1>3, <1>5
  <2>2. Resets' = Resets /\ RemoteEnds' = RemoteEnds
    BY <1>1, <1>3, <1>5 DEF Resets, RemoteEnds
  <2>3. LocalEnds' = IF end THEN LocalEnds \cup {s} ELSE LocalEnds
    BY <1>1, <1>3, <1>5 DEF LocalEnds
  <2> QED
    BY <2>1, <2>2, <2>3, Zenon
<1>7. PICK o, r, l, e : o = Opened(src, Noted) /\ r = Resets /\ l = LocalEnds /\ e = RemoteEnds
  OBVIOUS
<1>8. TableTypes /\ TableOf(o, r, l, e) /\ o \subseteq Streams
  BY <1>7 DEF H2Inv, H2Types, TableTypes, Table, Opened
<1>9. noteLocalHeaders(s, end)
  BY <1>1, <1>2
<1>10. (\A q \in o : q < s) /\ s \notin r /\ s \notin l /\ s \notin e
  BY <1>3, <1>4, <1>7
<1>11. TableTypes' /\ TableOf(o \cup {s}, r, IF end THEN l \cup {s} ELSE l, e)'
  BY <1>3, <1>8, <1>9, <1>10, TableHeaders, Zenon
<1> QED
  BY <1>6, <1>7, <1>11 DEF Table

\* Nothing comes out yet.
LEMMA StartMirror ==
  ASSUME H2Inv, StartHeaderBlock
  PROVE  Mirror'
<1>1. /\ Frame("HEADERS") /\ wpc' = "parent" /\ done' = done /\ output' = output
      /\ src' = src /\ block' = block /\ wire' = wire /\ writeErr' = writeErr
      /\ maxFrame' = maxFrame /\ answers' = answers /\ seen' = seen
      /\ noteLocalHeaders(src[done + 1].s, src[done + 1].end)
  BY DEF StartHeaderBlock, rVars
<1>2. PICK d, s, end : d = done + 1 /\ s = src[d].s /\ end = src[d].end
  OBVIOUS
<1>3. /\ wpc = "loop" /\ done \in Nat /\ d \in Nat /\ done < d /\ Noted = done /\ Noted' = d
         /\ d \in 1 .. Len(src)
      /\ src[d].t = "HEADERS" /\ s \in Streams /\ end \in BOOLEAN /\ ~writeErr /\ done < Len(src)
      /\ Len(src) \in Nat /\ s \in Nat /\ Out' = Out
  BY <1>2, StartFacts, Zenon
<1>4. (\A q : ~InHand(q)) /\ InHand(d)' /\ \A q \in 1 .. done : ~InHand(q)'
  BY <1>2, StartFacts, Zenon
<1>5. ASSUME NEW i \in 1 .. Len(Out), Begins(Out[i])
      PROVE  \E p \in 1 .. d : StandsFor(Out, i, p)' /\ ~InHand(p)'
  <2>1. PICK p \in 1 .. done : StandsFor(Out, i, p)
    BY <1>3, <1>5, Zenon DEF H2Inv, Mirror
  <2>2. StandsFor(Out, i, p)'
    BY <1>1, <1>3, <2>1 DEF StandsFor
  <2> QED
    BY <1>3, <1>4, <2>2
<1>6. ASSUME NEW i \in 1 .. Len(Out) PROVE Completes(Out, i)'
  BY <1>1, <1>3 DEF H2Inv, Mirror, Completes
<1>7. WholeBlocks(Out)'
  BY <1>3 DEF H2Inv, Mirror, WholeBlocks
<1>8. ASSUME NEW q \in 1 .. d, Begins(src[q]), ~InHand(q)'
      PROVE \E k \in 1 .. Len(Out) : Same(Out[k], src[q])
  <2>1. q \in 1 .. done
    BY <1>2, <1>3, <1>4, <1>8
  <2> QED
    BY <1>3, <1>4, <1>8, <2>1 DEF H2Inv, Mirror
<1>9. ~Unfinished(Out, Len(Out))
  BY <1>3, Zenon DEF H2Inv, Mirror
<1> QED
  BY <1>1, <1>3, <1>5, <1>6, <1>7, <1>8, <1>9, Zenon DEF Mirror

\* The step keeps the invariant.
LEMMA StartStep ==
  ASSUME H2Inv, StartHeaderBlock
  PROVE  H2Inv'
<1>1. /\ Frame("HEADERS") /\ wpc' = "parent" /\ done' = done /\ output' = output
      /\ src' = src /\ block' = block /\ wire' = wire /\ writeErr' = writeErr
      /\ maxFrame' = maxFrame /\ answers' = answers /\ seen' = seen
      /\ noteLocalHeaders(src[done + 1].s, src[done + 1].end)
  BY DEF StartHeaderBlock, rVars
<1>2. PICK d, s, end : d = done + 1 /\ s = src[d].s /\ end = src[d].end
  OBVIOUS
<1>3. /\ wpc = "loop" /\ done \in Nat /\ d \in Nat /\ done < d /\ Noted = done /\ Noted' = d
         /\ d \in 1 .. Len(src)
      /\ src[d].t = "HEADERS" /\ s \in Streams /\ end \in BOOLEAN /\ ~writeErr /\ done < Len(src)
      /\ Len(src) \in Nat /\ s \in Nat /\ Out' = Out
  BY <1>2, StartFacts, Zenon
<1>4. H2Types'
  BY <1>1, <1>3, StartTable DEF H2Inv, H2Types, TableTypes
<1>5. Source' /\ Limit'
  BY <1>1, Zenon DEF H2Inv, Source, Limit, WholeBlocks
<1>6. Peer'
  <2>1. Opened(src, done) \subseteq Opened(src, d)
    <3>1. done <= d
      BY <1>3
    <3> QED
      BY <1>3, <3>1, CarryMore, Zenon
  <2> QED
    BY <1>1, <1>3, <2>1 DEF H2Inv, Peer
<1>7. InBlock'
  <2>1. StartsAt(d)'
    BY <1>1, <1>2, <1>3 DEF StartsAt
  <2> QED
    BY <1>1, <1>3, <2>1 DEF InBlock
<1>8. Sizes'
  BY <1>1, <1>3 DEF H2Inv, Sizes, Fits
<1>9. Parents'
  BY <1>1, <1>3 DEF H2Inv, Parents, Youngest, Closed
<1> QED
  BY StartTable, StartMirror, <1>4, <1>5, <1>6, <1>7, <1>8, <1>9 DEF H2Inv

\* What x/net has said of a stream, its block no longer in hand, has come out.
LEMMA ComesOut ==
  ASSUME H2Inv, ~writeErr, NEW s \in Streams, Pending => s # src[Noted].s
  PROVE  /\ s \in Opened(src, Noted) => s \in Opened(Out, Len(Out))
         /\ \A m : Closed(s, src, Noted, m) => Closed(s, Out, Len(Out), m)
<1>1. ASSUME NEW q \in 1 .. Noted, src[q].t \in {"HEADERS", "DATA", "RST"}, src[q].s = s
      PROVE  \E k \in 1 .. Len(Out) : /\ Out[k].t = src[q].t /\ Out[k].s = s
                                      /\ src[q].t = "HEADERS" => Out[k].end = src[q].end
  <2>1. Begins(src[q]) /\ ~InHand(q)
    BY <1>1 DEF Begins, InHand
  <2>2. PICK k \in 1 .. Len(Out) : Same(Out[k], src[q])
    BY <2>1 DEF H2Inv, Mirror
  <2> QED
    BY <1>1, <2>2 DEF Same
<1>2. s \in Opened(src, Noted) => s \in Opened(Out, Len(Out))
  BY <1>1 DEF Opened, Carry
<1>3. ResetIn(src, Noted, s) => ResetIn(Out, Len(Out), s)
  BY <1>1 DEF ResetIn, Carry
<1>4. EndedIn(src, Noted, s) => EndedIn(Out, Len(Out), s)
  BY <1>1 DEF EndedIn, Carry
<1> QED
  BY <1>2, <1>3, <1>4 DEF Closed

\* And nothing else has.
LEMMA ComesFrom ==
  ASSUME H2Inv, NEW s
  PROVE  \A m : Closed(s, Out, Len(Out), m) => Closed(s, src, Noted, m)
<1>1. ASSUME NEW k \in 1 .. Len(Out), NEW t \in {"HEADERS", "DATA", "RST"},
             Out[k].t = t, Out[k].s = s
      PROVE  \E p \in 1 .. Noted :
               src[p].t = t /\ src[p].s = s /\ (t = "HEADERS" => src[p].end = Out[k].end)
  <2>1. Begins(Out[k])
    BY <1>1 DEF Begins
  <2>2. PICK p \in 1 .. Noted : StandsFor(Out, k, p)
    BY <2>1, Zenon DEF H2Inv, Mirror
  <2>3. src[p].t = t /\ src[p].s = s /\ (t = "HEADERS" => src[p].end = Out[k].end)
    BY <1>1, <2>2 DEF StandsFor, Same
  <2> QED
    BY <2>3, Zenon
<1>2. \A t \in {"HEADERS", "DATA", "RST"} : Carry(Out, Len(Out), t, s) => Carry(src, Noted, t, s)
  <2>1. SUFFICES ASSUME NEW t \in {"HEADERS", "DATA", "RST"}, NEW k \in 1 .. Len(Out),
                        Out[k].t = t, Out[k].s = s
                 PROVE  Carry(src, Noted, t, s)
    BY Zenon DEF Carry
  <2>2. PICK p \in 1 .. Noted : src[p].t = t /\ src[p].s = s
    BY <1>1, <2>1, Zenon
  <2> QED
    BY <2>2, Zenon DEF Carry
<1>3. ASSUME NEW k \in 1 .. Len(Out), Out[k].t = "HEADERS", Out[k].s = s, Out[k].end
      PROVE  \E p \in 1 .. Noted : src[p].t = "HEADERS" /\ src[p].s = s /\ src[p].end
  <2>1. PICK t \in {"HEADERS", "DATA", "RST"} : t = "HEADERS"
    OBVIOUS
  <2>2. Out[k].t = t
    BY <1>3, <2>1
  <2>3. PICK p \in 1 .. Noted : src[p].t = t /\ src[p].s = s /\ src[p].end = Out[k].end
    BY <1>1, <1>3, <2>1, <2>2, Zenon
  <2> QED
    BY <1>3, <2>1, <2>3, Zenon
<1>4. ResetIn(Out, Len(Out), s) => ResetIn(src, Noted, s)
  BY <1>2 DEF ResetIn
<1>5. EndedIn(Out, Len(Out), s) => EndedIn(src, Noted, s)
  <2>1. Carry(Out, Len(Out), "DATA", s) => Carry(src, Noted, "DATA", s)
    BY <1>2
  <2> QED
    BY <1>3, <2>1, Zenon DEF EndedIn
<1> QED
  BY <1>4, <1>5, Zenon DEF Closed

\* parentStream finds the youngest of the streams that are open.
LEMMA ParentFound ==
  ASSUME H2Inv, wpc = "parent", NEW s, s = src[Noted].s
  PROVE  /\ Parent(parentStream(s), Len(answers)) \in Choice
         /\ Youngest(Parent(parentStream(s), Len(answers)), Out, Len(Out))
<1>0. /\ Len(answers) \in Nat /\ Len(answers) \in 0 .. Len(answers)
      /\ \A q : Parent(q, Len(answers)).s = q /\ Parent(q, Len(answers)).at = Len(answers)
      /\ \A q \in Nat : Parent(q, Len(answers)) \in Choice
  <2>1. Len(answers) \in Nat
    BY DEF H2Inv, H2Types
  <2> QED
    BY <2>1 DEF Parent, Choice
<1>1. Pending /\ ~writeErr /\ Len(order) \in Nat /\ DOMAIN order = 1 .. Len(order)
        /\ \A i \in 1 .. Len(order) : order[i] \in Streams /\ order[i] \in Nat
  <2>1. Pending /\ ~writeErr /\ order \in Seq(Streams)
    BY DEF Pending, H2Inv, H2Types
  <2>2. \A q \in Streams : q \in Nat
    BY StreamsAssumption
  <2>3. Len(order) \in Nat /\ DOMAIN order = 1 .. Len(order)
           /\ \A i \in 1 .. Len(order) : order[i] \in Streams
    BY <2>1
  <2> QED
    BY <2>1, <2>2, <2>3
<1>2. \A i \in 1 .. Len(order) : \A j \in 1 .. Len(order) : i < j => order[i] < order[j]
  BY DEF H2Inv, Table, TableOf
<1>3. ASSUME NEW q \in Opened(Out, Len(Out)), ~InTable(q)
      PROVE Closed(q, Out, Len(Out), Len(answers))
  <2>1. q \in Opened(src, Noted) /\ q # s /\ q \in Streams
    BY <1>1, OpenedOut DEF H2Inv, Opened
  <2>2. q \in Resets \/ q \in LocalEnds \cap RemoteEnds
    BY <1>3, <2>1 DEF H2Inv, Table, TableOf
  <2>3. Closed(q, src, Noted, Len(answers))
    BY <2>2 DEF Closed, Resets, LocalEnds, RemoteEnds
  <2> QED
    BY <1>1, <2>1, <2>3, ComesOut
<1> DEFINE others == {i \in DOMAIN order : order[i] # s}
           Top(m) == m \in others /\ \A j \in others : j <= m
<1>4. ASSUME NEW q \in Opened(Out, Len(Out)), InTable(q) PROVE \E i \in others : order[i] = q
  <2>1. q # s
    BY <1>1, OpenedOut DEF H2Inv
  <2> QED
    BY <1>4, <2>1 DEF InTable
<1>5. CASE others = {}
  <2>1. parentStream(s) = 0
    BY <1>5 DEF parentStream
  <2>2. \A q \in Opened(Out, Len(Out)) : Closed(q, Out, Len(Out), Len(answers))
    BY <1>3, <1>4, <1>5, Zenon
  <2>3. PICK p : p = Parent(parentStream(s), Len(answers))
    OBVIOUS
  <2>4. p.s = 0 /\ p.at = Len(answers) /\ p \in Choice
    BY <1>0, <2>1, <2>3
  <2>5. Youngest(p, Out, Len(Out))
    BY <1>0, <2>2, <2>4, Zenon DEF Youngest
  <2> QED
    BY <2>3, <2>4, <2>5, Zenon
<1>6. CASE others # {}
  <2>1. \E m : Top(m)
    <3>1. PICK i \in 1 .. Len(order) : order[i] # s
      BY <1>1, <1>6
    <3>2. CASE order[Len(order)] # s
      <4>1. Top(Len(order))
        BY <1>1, <3>1, <3>2
      <4> QED
        BY <4>1
    <3>3. CASE order[Len(order)] = s
      <4>1. i < Len(order)
        BY <1>1, <3>1, <3>3
      <4>2. Len(order) - 1 \in 1 .. Len(order) /\ order[Len(order) - 1] # s
        BY <1>1, <1>2, <3>3, <4>1
      <4>3. Top(Len(order) - 1)
        BY <1>1, <3>3, <4>2
      <4> QED
        BY <4>3
    <3> QED
      BY <3>2, <3>3
  <2>2. PICK m : Top(m) /\ m = CHOOSE i \in others : \A j \in others : j <= i
    BY <2>1
  <2>3. parentStream(s) = order[m]
    BY <1>6, <2>2 DEF parentStream
  <2>4. m \in 1 .. Len(order) /\ order[m] \in Streams /\ order[m] \in Nat /\ order[m] # s
    BY <1>1, <2>2
  <2>5. order[m] \in Opened(Out, Len(Out))
    <3>1. InTable(order[m])
      BY <1>1, <2>4 DEF InTable
    <3>2. order[m] \in Opened(src, Noted)
      BY <2>4, <3>1 DEF H2Inv, Table, TableOf
    <3> QED
      BY <1>1, <2>4, <3>2, ComesOut
  <2>7. ~Closed(order[m], Out, Len(Out), Len(answers))
    <3>1. InTable(order[m])
      BY <1>1, <2>4 DEF InTable
    <3>2. order[m] \notin Resets /\ order[m] \notin LocalEnds \cap RemoteEnds
      BY <2>4, <3>1, Zenon DEF H2Inv, Table, TableOf
    <3>3. ~Closed(order[m], src, Noted, Len(answers))
      BY <2>4, <3>2, Zenon DEF Closed, Resets, LocalEnds, RemoteEnds
    <3> QED
      BY <3>3, ComesFrom, Zenon
  <2>6. ASSUME NEW q \in Opened(Out, Len(Out)), q > order[m] PROVE ~InTable(q)
    <3>1. SUFFICES ASSUME NEW i \in others, order[i] = q PROVE FALSE
      BY <1>4
    <3>2. i \in 1 .. Len(order) /\ i <= m
      BY <1>1, <2>2
    <3> QED
      BY <1>1, <1>2, <2>4, <2>6, <3>1, <3>2
  <2> QED
    BY <1>0, <1>3, <2>3, <2>4, <2>5, <2>6, <2>7, Zenon DEF Youngest
<1> QED
  BY <1>5, <1>6

\* Then it asks for the parent.
LEMMA ParentStep ==
  ASSUME H2Inv, SetParent
  PROVE  H2Inv'
<1>1. PICK d, f : d = done + 1 /\ f = src[d]
  OBVIOUS
<1>2. /\ wpc = "parent" /\ block' = [s |-> f.s, end |-> f.end, parent |-> Parent(parentStream(f.s), Len(answers))]
      /\ \/ f.last /\ wpc' = "finish" /\ done' = done
         \/ ~f.last /\ wpc' = "loop" /\ done' = d
      /\ output' = output /\ src' = src /\ wire' = wire /\ writeErr' = writeErr
      /\ maxFrame' = maxFrame /\ answers' = answers /\ seen' = seen /\ order' = order
         /\ ended' = ended
  BY <1>1 DEF SetParent, rVars, tVars
<1>3. /\ done \in Nat /\ d \in Nat /\ Noted = d /\ Noted' = d /\ d \in 1 .. Len(src) /\ ~writeErr
      /\ f.t = "HEADERS" /\ f \in H2Frame /\ Out' = Out
  BY <1>1, <1>2 DEF H2Inv, H2Types, Noted, InBlock, Out
<1>4. Pending /\ Pending'
  BY <1>1, <1>2, <1>3 DEF Pending, Unfinished, GoesOn
<1>5. \A q : InHand(q)' <=> InHand(q)
  BY <1>2, <1>3, <1>4 DEF InHand
<1>6. /\ block'.s = f.s /\ block'.end = f.end
      /\ block'.parent = Parent(parentStream(f.s), Len(answers))
  BY <1>2
<1>7. H2Types'
  BY <1>1, <1>2, <1>3 DEF H2Inv, H2Types
<1>8. Source' /\ Peer' /\ Limit'
  BY <1>2, <1>3, Zenon DEF H2Inv, Source, Peer, Limit, WholeBlocks
<1>9. Table'
  <2>1. Resets' = Resets /\ LocalEnds' = LocalEnds /\ RemoteEnds' = RemoteEnds
    BY <1>2, <1>3, Zenon DEF Resets, LocalEnds, RemoteEnds
  <2> QED
    BY <1>2, <1>3, <2>1, TableFrame DEF H2Inv
<1>10. InBlock'
  <2>1. StartsAt(d)'
    <3>1. block'.parent \in Choice
      BY <1>1, <1>2, <1>3, <1>6, ParentFound
    <3> QED
      <4>1. src'[d].t = "HEADERS" /\ src'[d].s = f.s /\ Noted' = d
        BY <1>1, <1>2, <1>3, Zenon
      <4>2. \A k \in d + 1 .. Noted' : src'[k].t = "CONTINUATION"
        BY <1>3
      <4>3. block'.s = src'[d].s /\ block'.end = src'[d].end /\ src'[d].s = src'[Noted'].s
        BY <1>1, <1>2, <1>3, <1>6, Zenon
      <4> QED
        BY <3>1, <4>1, <4>2, <4>3, Zenon DEF StartsAt
  <2>2. d \in 1 .. Noted'
    BY <1>1, <1>2, <1>3
  <2>3. (\E h \in 1 .. Noted : StartsAt(h))' /\ wpc' # "parent"
    BY <1>2, <1>3, <2>1, <2>2
  <2>4. wpc' = "finish" => src'[Noted'].t \in {"HEADERS", "CONTINUATION"} /\ src'[Noted'].last
    BY <1>1, <1>2, <1>3
  <2> QED
    BY <2>3, <2>4, Zenon DEF InBlock
<1>11. Mirror'
  <2>1. /\ \A i, p : StandsFor(Out, i, p)' <=> StandsFor(Out, i, p)
        /\ \A i : Completes(Out, i)' <=> Completes(Out, i)
        /\ WholeBlocks(Out)' <=> WholeBlocks(Out)
    BY <1>2, <1>3, Zenon DEF StandsFor, Completes, WholeBlocks
  <2> QED
    BY <1>2, <1>3, <1>5, <2>1, Zenon DEF H2Inv, Mirror
<1>12. Sizes'
  BY <1>2, <1>3 DEF H2Inv, Sizes, Fits
<1>13. Parents'
  <2>1. Youngest(block'.parent, Out, Len(Out))
    BY <1>1, <1>2, <1>3, <1>6, ParentFound, Zenon
  <2> QED
    BY <1>2, <1>3, <2>1, Zenon DEF H2Inv, Parents, Youngest, Closed
<1> QED
  BY <1>7, <1>8, <1>9, <1>10, <1>11, <1>12, <1>13 DEF H2Inv

\* A CONTINUATION goes to the block in hand.
LEMMA ContinueStep ==
  ASSUME H2Inv, ContinueHeaderBlock
  PROVE  H2Inv'
<1>1. PICK d, f : d = done + 1 /\ f = src[d]
  OBVIOUS
<1>2. /\ Frame("CONTINUATION")
      /\ \/ f.last /\ wpc' = "finish" /\ done' = done
         \/ ~f.last /\ wpc' = "loop" /\ done' = d
      /\ output' = output /\ src' = src /\ wire' = wire /\ writeErr' = writeErr /\ block' = block
      /\ maxFrame' = maxFrame /\ answers' = answers /\ seen' = seen /\ order' = order
         /\ ended' = ended
  BY <1>1 DEF ContinueHeaderBlock, rVars, tVars, Frame
<1>3. /\ wpc = "loop" /\ done \in Nat /\ d \in Nat /\ Noted = done /\ Noted' = d
         /\ d \in 1 .. Len(src) /\ ~writeErr
      /\ f.t = "CONTINUATION" /\ f \in H2Frame /\ Out' = Out /\ done < Len(src)
  BY <1>1, <1>2, FrameFacts DEF Noted, Out
<1>4. Unfinished(src, done) /\ src[d].s = src[done].s
  <2>1. DOMAIN src = 1 .. Len(src) /\ d - 1 = done
    BY <1>1, <1>3 DEF H2Inv, H2Types
  <2> QED
    BY <1>1, <1>3, <2>1 DEF H2Inv, Source, WholeBlocks, Begins
<1>5. Pending /\ Pending'
  BY <1>1, <1>2, <1>3, <1>4 DEF Pending, Unfinished, GoesOn
<1>6. \A q : InHand(q)' <=> InHand(q)
  BY <1>2, <1>3, <1>4, <1>5 DEF InHand
<1>7. H2Types'
  BY <1>1, <1>2, <1>3 DEF H2Inv, H2Types
<1>8. Source' /\ Limit'
  BY <1>2, Zenon DEF H2Inv, Source, Limit, WholeBlocks
<1>9. /\ Opened(src', Noted') = Opened(src, Noted) /\ Resets' = Resets
      /\ LocalEnds' = LocalEnds /\ RemoteEnds' = RemoteEnds
  BY <1>1, <1>2, <1>3, NotedNext, Zenon DEF H2Inv
<1>10. Table' /\ Peer'
  BY <1>2, <1>9, TableFrame, Zenon DEF H2Inv, Peer
<1>11. InBlock'
  <2>1. PICK h \in 1 .. done : StartsAt(h)
    BY <1>3, <1>5 DEF H2Inv, InBlock
  <2>2. h \in 1 .. d /\ \A k \in h + 1 .. d : k \in h + 1 .. done \/ k = d
    BY <1>1, <1>3
  <2>3. StartsAt(h)'
    BY <1>1, <1>2, <1>3, <1>4, <2>1, <2>2 DEF StartsAt
  <2> QED
    BY <1>1, <1>2, <1>3, <2>2, <2>3 DEF InBlock
<1>12. Mirror'
  <2>1. ASSUME NEW i \in 1 .. Len(Out), Begins(Out[i])
        PROVE  \E p \in 1 .. d : StandsFor(Out, i, p)' /\ ~InHand(p)'
    <3>1. PICK p \in 1 .. done : StandsFor(Out, i, p) /\ ~InHand(p)
      BY <1>3, <2>1, Zenon DEF H2Inv, Mirror
    <3>2. StandsFor(Out, i, p)'
      BY <1>2, <1>3, <3>1 DEF StandsFor
    <3>3. p \in 1 .. d
      BY <1>1, <1>3
    <3> QED
      BY <1>6, <3>1, <3>2, <3>3
  <2>2. ASSUME NEW i \in 1 .. Len(Out) PROVE Completes(Out, i)'
    BY <1>2, <1>3 DEF H2Inv, Mirror, Completes
  <2>3. WholeBlocks(Out)'
    BY <1>3, Zenon DEF H2Inv, Mirror, WholeBlocks
  <2>4. ASSUME NEW q \in 1 .. d, Begins(src[q]), ~InHand(q)'
        PROVE \E k \in 1 .. Len(Out) : Same(Out[k], src[q])
    <3>1. q \in 1 .. done
      BY <1>1, <1>3, <2>4 DEF Begins
    <3> QED
      BY <1>3, <1>6, <2>4, <3>1, Zenon DEF H2Inv, Mirror
  <2>5. ~Unfinished(Out, Len(Out))
    BY <1>3 DEF H2Inv, Mirror
  <2> QED
    BY <1>2, <1>3, <2>1, <2>2, <2>3, <2>4, <2>5, Zenon DEF Mirror
<1>13. Sizes'
  BY <1>2, <1>3, Zenon DEF H2Inv, Sizes, Fits
<1>14. Parents'
  <2>1. Youngest(block.parent, Out, Len(Out))
    BY <1>3, <1>5 DEF H2Inv, Parents
  <2> QED
    BY <1>2, <1>3, <2>1 DEF H2Inv, Parents, Youngest, Closed
<1> QED
  BY <1>7, <1>8, <1>10, <1>11, <1>12, <1>13, <1>14 DEF H2Inv

-----------------------------------------------------------------------------
(***************************************************************************)
(* The header block that comes out.                                        *)
(***************************************************************************)
\* buildHeaderFrames: HEADERS and as many CONTINUATIONs as it takes, none larger than
\* max, the last with END_HEADERS.
LEMMA Built ==
  ASSUME NEW b, b.s \in Streams, b.end \in BOOLEAN, b.parent \in Choice,
         NEW n \in Nat, NEW max \in Nat \ {0}, NEW B, B = buildHeaderFrames(b, n, max)
  PROVE  /\ B \in Seq(H2Frame) /\ Len(B) \in Nat \ {0}
         /\ B[1].t = "HEADERS" /\ B[1].end = b.end /\ B[1].parent = b.parent
         /\ \A i \in 2 .. Len(B) : B[i].t = "CONTINUATION"
         /\ \A i \in 1 .. Len(B) : B[i].s = b.s /\ B[i].n <= max /\ (B[i].last <=> i = Len(B))
<1>1. PICK first : first = IF n <= max - 1 THEN n ELSE max - 1
  OBVIOUS
<1>2. PICK rest : rest = n - first
  OBVIOUS
<1>3. PICK c : c = (rest + max - 1) \div max
  OBVIOUS
<1>4. first \in Nat /\ 1 + first \in Nat /\ 1 + first <= max /\ rest \in Nat
  BY <1>1, <1>2
<1>5. c \in Nat /\ rest <= c * max /\ c * max < rest + max /\ (c = 0 <=> rest = 0)
  BY <1>3, <1>4, Division, Zenon
<1>6. PICK T : T = [i \in 1 .. c |->
                      Continuation(b.s, i = c, IF i < c THEN max ELSE rest - (c - 1) * max)]
  BY Zenon
<1>7. PICK H : H = Headers(b.s, b.end, rest = 0, 1 + first, b.parent)
  OBVIOUS
<1>8. B = <<H>> \o T
  BY <1>1, <1>2, <1>3, <1>6, <1>7 DEF buildHeaderFrames
<1>9. (c - 1) * max = c * max - max
  BY <1>5
<1>10. c > 0 => rest - (c - 1) * max \in Nat /\ rest - (c - 1) * max <= max
  BY <1>4, <1>5, <1>9
<1>11. ASSUME NEW i \in 1 .. c
       PROVE  /\ T[i] \in H2Frame /\ T[i].t = "CONTINUATION" /\ T[i].s = b.s /\ T[i].n <= max
              /\ T[i].last <=> i = c
  <2>1. PICK z : z = IF i < c THEN max ELSE rest - (c - 1) * max
    OBVIOUS
  <2>2. z \in Nat /\ z <= max
    BY <1>5, <1>10, <2>1
  <2>3. T[i] = Continuation(b.s, i = c, z)
    BY <1>6, <2>1
  <2>4. (i = c) \in BOOLEAN
    OBVIOUS
  <2>5. T[i] \in H2Frame
    BY <2>2, <2>3, <2>4, Made, Zenon
  <2>6. T[i].t = "CONTINUATION" /\ T[i].s = b.s /\ T[i].n = z
    BY <2>3 DEF Continuation
  <2>7. T[i].last = (i = c)
    BY <2>3 DEF Continuation
  <2> QED
    BY <2>2, <2>5, <2>6, <2>7, Zenon
<1>12. /\ H \in H2Frame /\ H.t = "HEADERS" /\ H.end = b.end /\ H.parent = b.parent /\ H.s = b.s
       /\ H.n <= max /\ (H.last <=> c = 0)
  <2>1. (rest = 0) \in BOOLEAN
    OBVIOUS
  <2>2. H \in H2Frame
    BY <1>4, <1>7, <2>1, Made, Zenon
  <2> QED
    BY <1>4, <1>5, <1>7, <2>2, Zenon DEF Headers
<1>13. T \in Seq(H2Frame) /\ Len(T) = c
  <2>1. T \in [1 .. c -> H2Frame]
    BY <1>6, <1>11
  <2> QED
    BY <1>5, <2>1
<1>14. B \in Seq(H2Frame) /\ Len(B) = c + 1 /\ B[1] = H
  <2>1. H \in H2Frame
    BY <1>12
  <2>2. <<H>> \in Seq(H2Frame) /\ Len(<<H>>) = 1 /\ <<H>>[1] = H
    BY <2>1
  <2> QED
    BY <1>8, <1>13, <1>5, <2>2
<1>15. ASSUME NEW i \in 2 .. c + 1 PROVE i - 1 \in 1 .. c /\ B[i] = T[i - 1]
  BY <1>5, <1>8, <1>12, <1>13
<1>16. \A i \in 1 .. c + 1 : i = 1 \/ i \in 2 .. c + 1
  BY <1>5
<1>17. ASSUME NEW i \in 2 .. c + 1
       PROVE  B[i].t = "CONTINUATION" /\ B[i].s = b.s /\ B[i].n <= max /\ (B[i].last <=> i = c + 1)
  <2>1. i - 1 \in 1 .. c /\ B[i] = T[i - 1] /\ (i - 1 = c <=> i = c + 1)
    BY <1>5, <1>15
  <2> QED
    BY <1>11, <2>1
<1>18. B[1].s = b.s /\ B[1].n <= max /\ (B[1].last <=> 1 = c + 1)
  BY <1>5, <1>12, <1>14
<1> QED
  BY <1>5, <1>12, <1>14, <1>16, <1>17, <1>18

\* The complete block comes out.
LEMMA FinishStep ==
  ASSUME H2Inv, FinishHeaderBlock
  PROVE  H2Inv'
<1>1. PICK n \in Blocks : output' = output \o buildHeaderFrames(block, n, maxFrame)
  BY DEF FinishHeaderBlock
<1>2. PICK N, d, b, B : N = Len(Out) /\ d = done + 1 /\ b = block
         /\ B = buildHeaderFrames(b, n, maxFrame)
  BY Zenon
<1>3. /\ wpc = "finish" /\ wpc' = "loop" /\ done' = d /\ src' = src /\ wire' = wire
         /\ writeErr' = writeErr
      /\ maxFrame' = maxFrame /\ answers' = answers /\ seen' = seen /\ order' = order
         /\ ended' = ended
      /\ output' = output \o B
  BY <1>1, <1>2 DEF FinishHeaderBlock, tVars, rVars
<1>4. /\ done \in Nat /\ d \in Nat /\ Noted = d /\ Noted' = d /\ d \in 1 .. Len(src)
         /\ Len(src) \in Nat
      /\ ~writeErr /\ src[d].t \in {"HEADERS", "CONTINUATION"} /\ src[d].last
         /\ maxFrame \in Nat \ {0}
      /\ \A i \in 1 .. Len(src) : src[i] \in H2Frame
  BY <1>2, <1>3 DEF H2Inv, H2Types, Noted, InBlock
<1>5. Pending /\ ~Pending' /\ \A q : ~InHand(q)'
  BY <1>2, <1>3, <1>4 DEF Pending, Unfinished, GoesOn, InHand
<1>6. PICK h \in 1 .. d : StartsAt(h)
  BY <1>4, <1>5 DEF H2Inv, InBlock
<1>7. /\ h \in 1 .. Len(src) /\ src[h].t = "HEADERS"
         /\ \A k \in h + 1 .. d : src[k].t = "CONTINUATION"
      /\ src[h].s = src[d].s /\ b.s = src[h].s /\ b.end = src[h].end /\ b.parent \in Choice
  BY <1>2, <1>3, <1>4, <1>6 DEF StartsAt
<1>8. b.s \in Streams /\ b.end \in BOOLEAN /\ n \in Nat
  BY <1>4, <1>7, Kinds, LengthsAssumption
<1>9. /\ B \in Seq(H2Frame) /\ Len(B) \in Nat \ {0}
      /\ B[1].t = "HEADERS" /\ B[1].end = b.end /\ B[1].parent = b.parent
      /\ \A i \in 2 .. Len(B) : B[i].t = "CONTINUATION"
      /\ \A i \in 1 .. Len(B) : B[i].s = b.s /\ B[i].n <= maxFrame /\ (B[i].last <=> i = Len(B))
  <2>1. /\ b.s \in Streams /\ b.end \in BOOLEAN /\ b.parent \in Choice /\ n \in Nat
        /\ maxFrame \in Nat \ {0} /\ B = buildHeaderFrames(b, n, maxFrame)
    BY <1>2, <1>4, <1>7, <1>8, Zenon
  <2> QED
    BY <2>1, Built
<1>10. H2Types'
  <2>1. output \in Seq(H2Frame)
    BY DEF H2Inv, H2Types
  <2>2. output' \in Seq(H2Frame)
    BY <1>3, <1>9, <2>1
  <2>3. done' \in 0 .. Len(src)
    BY <1>2, <1>3, <1>4 DEF H2Inv, H2Types
  <2> QED
    BY <1>2, <1>3, <1>4, <2>2, <2>3 DEF H2Inv, H2Types
<1>11. /\ N \in Nat /\ Len(Out') = N + Len(B) /\ DOMAIN Out' = 1 .. Len(Out')
       /\ \A k \in 1 .. N : Out'[k] = Out[k]
       /\ \A k \in 1 .. Len(B) : Out'[N + k] = B[k]
  <2>1. wire \in Seq(H2Frame) /\ output \in Seq(H2Frame)
    BY DEF H2Inv, H2Types
  <2>2. /\ output' \in Seq(H2Frame) /\ Len(output') = Len(output) + Len(B)
        /\ \A k \in 1 .. Len(output) : output'[k] = output[k]
        /\ \A k \in 1 .. Len(B) : output'[Len(output) + k] = B[k]
    BY <1>3, <1>9, <2>1
  <2>3. Out' = wire \o output' /\ Out = wire \o output
    BY <1>3 DEF Out
  <2>4. /\ Len(Out') = Len(wire) + Len(output') /\ DOMAIN Out' = 1 .. Len(Out')
        /\ \A k \in 1 .. Len(wire) : Out'[k] = wire[k]
        /\ \A k \in 1 .. Len(output') : Out'[Len(wire) + k] = output'[k]
    <3>1. PICK o : o = output'
      OBVIOUS
    <3>2. o \in Seq(H2Frame) /\ Out' = wire \o o
      BY <2>2, <2>3, <3>1
    <3>3. /\ Len(wire \o o) = Len(wire) + Len(o) /\ DOMAIN (wire \o o) = 1 .. Len(wire \o o)
          /\ \A k \in 1 .. Len(wire) : (wire \o o)[k] = wire[k]
          /\ \A k \in 1 .. Len(o) : (wire \o o)[Len(wire) + k] = o[k]
      BY <2>1, <3>2, Joined
    <3> QED
      BY <3>1, <3>2, <3>3
  <2>5. /\ N = Len(wire) + Len(output) /\ Len(wire) \in Nat /\ Len(output) \in Nat
        /\ \A k \in 1 .. Len(wire) : Out[k] = wire[k]
        /\ \A k \in 1 .. Len(output) : Out[Len(wire) + k] = output[k]
    BY <1>2, OutIs DEF H2Inv
  <2>6. ASSUME NEW k \in 1 .. N PROVE Out'[k] = Out[k]
    <3>1. CASE k <= Len(wire)
      BY <2>4, <2>5, <3>1
    <3>2. CASE k > Len(wire)
      <4>1. PICK i \in 1 .. Len(output) : k = Len(wire) + i
        <5>1. k - Len(wire) \in 1 .. Len(output) /\ k = Len(wire) + (k - Len(wire))
          BY <2>5, <3>2
        <5> QED
          BY <5>1, Zenon
      <4>2. i \in 1 .. Len(output')
        BY <1>9, <2>2, <2>5
      <4> QED
        BY <2>2, <2>4, <2>5, <4>1, <4>2
    <3> QED
      BY <2>5, <3>1, <3>2
  <2>7. ASSUME NEW k \in 1 .. Len(B) PROVE Out'[N + k] = B[k]
    <3>1. Len(output) + k \in 1 .. Len(output') /\ N + k = Len(wire) + (Len(output) + k)
      BY <1>9, <2>2, <2>5
    <3> QED
      BY <2>2, <2>4, <3>1
  <2>8. N \in Nat
    BY <2>5
  <2>9. Len(Out') = N + Len(B)
    BY <1>9, <2>2, <2>4, <2>5
  <2> QED
    BY <2>4, <2>6, <2>7, <2>8, <2>9, Zenon
<1>12. \A i \in 1 .. Len(Out') : i \in 1 .. N \/ \E k \in 1 .. Len(B) : i = N + k
  <2>1. ASSUME NEW i \in 1 .. Len(Out'), i > N PROVE i - N \in 1 .. Len(B) /\ i = N + (i - N)
    BY <1>9, <1>11, <2>1
  <2> QED
    BY <1>9, <1>11, <2>1
<1>13. ASSUME NEW i \in 1 .. N
       PROVE  /\ WholeAt(Out, i)' <=> WholeAt(Out, i)
              /\ \A p \in Nat : StandsFor(Out, i, p)' <=> StandsFor(Out, i, p)
              /\ Completes(Out, i)' <=> Completes(Out, i)
              /\ Fits(Out, i)' <=> Fits(Out, i)
              /\ \A p : Youngest(p, Out, i - 1)' <=> Youngest(p, Out, i - 1)
  BY <1>2, <1>3, <1>11, OutKept, Zenon DEF H2Inv
<1>14. Source' /\ Peer' /\ Limit' /\ InBlock'
  BY <1>3, <1>4, <1>5, Zenon DEF H2Inv, Source, Peer, Limit, WholeBlocks, InBlock
<1>15. Table'
  <2>1. Resets' = Resets /\ LocalEnds' = LocalEnds /\ RemoteEnds' = RemoteEnds
    BY <1>3, <1>4, Zenon DEF Resets, LocalEnds, RemoteEnds
  <2> QED
    BY <1>3, <1>4, <2>1, TableFrame, Zenon DEF H2Inv
<1>16. Mirror'
  <2>1. ASSUME NEW k \in 1 .. Len(B) PROVE WholeAt(Out, N + k)'
    <3>1. CASE k = 1
      <4>1. ~Unfinished(Out, N)
        BY <1>2, <1>4 DEF H2Inv, Mirror
      <4>2. Unfinished(Out', N) <=> Unfinished(Out, N)
        BY <1>11, CarryPrefix, Zenon
      <4>3. (N + k) - 1 = N /\ Out'[N + k] = B[1]
        BY <1>11, <3>1
      <4> QED
        BY <1>9, <4>1, <4>2, <4>3 DEF WholeAt, Begins
    <3>2. CASE k # 1
      <4>1. k - 1 \in 1 .. Len(B) /\ k \in 2 .. Len(B) /\ k - 1 # Len(B)
               /\ (N + k) - 1 = N + (k - 1) /\ (N + k) - 1 > 0
        BY <1>9, <1>11, <3>2
      <4>2. Out'[N + k] = B[k] /\ Out'[(N + k) - 1] = B[k - 1]
        BY <1>11, <4>1, Zenon
      <4>3. B[k - 1].t \in {"HEADERS", "CONTINUATION"} /\ ~B[k - 1].last
               /\ B[k].t = "CONTINUATION" /\ B[k].s = B[k - 1].s
        <5>1. k - 1 = 1 \/ k - 1 \in 2 .. Len(B)
          BY <1>9, <4>1
        <5> QED
          BY <1>9, <4>1, <5>1
      <4>4. Unfinished(Out', (N + k) - 1)
        BY <4>1, <4>2, <4>3 DEF Unfinished, GoesOn
      <4> QED
        BY <4>2, <4>3, <4>4 DEF WholeAt
    <3> QED
      BY <3>1, <3>2
  <2>2. WholeBlocks(Out)'
    <3>1. \A i \in 1 .. N : WholeAt(Out, i)'
      BY <1>2, <1>13, WholeBlocksAt, Zenon DEF H2Inv, Mirror
    <3>2. \A i \in 1 .. Len(Out') : WholeAt(Out, i)'
      BY <1>12, <2>1, <3>1
    <3>3. WholeBlocks(Out)' <=> \A i \in 1 .. Len(Out') : WholeAt(Out, i)'
      BY <1>11 DEF WholeBlocks, WholeAt
    <3> QED
      BY <3>2, <3>3
  <2>3. ASSUME NEW q \in 1 .. d, Begins(src[q]), ~InHand(q) PROVE q \in 1 .. h - 1
    <3>1. q # h
      BY <1>4, <1>5, <1>7, <2>3 DEF InHand
    <3>2. ~(q > h)
      BY <1>4, <1>7, <2>3 DEF Begins
    <3> QED
      BY <1>4, <3>1, <3>2
  <2>4. ASSUME NEW q \in 1 .. h - 1 PROVE q \in 1 .. d /\ ~InHand(q)
    <3>1. q \in 1 .. d /\ q \in 1 .. Len(src) /\ q < h
      BY <1>4
    <3>2. src[q].t = "HEADERS" => src[q].s # src[h].s
      <4>1. ASSUME src[q].t = "HEADERS"
            PROVE src[q].s < src[h].s /\ src[q].s \in Nat /\ src[h].s \in Nat
        BY <1>4, <1>7, <3>1, <4>1, Kinds DEF H2Inv, Source
      <4> QED
        BY <4>1
    <3> QED
      BY <1>4, <1>7, <3>1, <3>2 DEF InHand
  <2>5. StandsFor(Out', N + 1, h)
    <3>1. Out'[N + 1] = B[1]
      BY <1>9, <1>11
    <3>2. Begins(src[h]) /\ Same(Out'[N + 1], src[h])
      BY <1>7, <1>9, <3>1 DEF Begins, Same
    <3>3. ASSUME NEW k \in 1 .. N, Begins(Out'[k])
          PROVE  \E q \in 1 .. h - 1 : Same(Out'[k], src[q])
      <4>1. Begins(Out[k]) /\ Out'[k] = Out[k]
        BY <1>11, <3>3
      <4>2. PICK p \in 1 .. d : StandsFor(Out, k, p) /\ ~InHand(p)
        BY <1>2, <1>4, <4>1 DEF H2Inv, Mirror
      <4>3. Begins(src[p]) /\ Same(Out[k], src[p])
        BY <4>2 DEF StandsFor
      <4>4. p \in 1 .. h - 1
        BY <2>3, <4>2, <4>3
      <4> QED
        BY <4>1, <4>3, <4>4
    <3>4. ASSUME NEW q \in 1 .. h - 1, Begins(src[q])
          PROVE  \E k \in 1 .. N : Same(Out'[k], src[q])
      <4>1. q \in 1 .. d /\ ~InHand(q)
        BY <2>4
      <4>2. PICK k \in 1 .. N : Same(Out[k], src[q])
        BY <1>2, <1>4, <3>4, <4>1 DEF H2Inv, Mirror
      <4> QED
        BY <1>11, <4>2
    <3>5. (N + 1) - 1 = N
      BY <1>11
    <3> QED
      BY <3>2, <3>3, <3>4, <3>5 DEF StandsFor
  <2>6. StandsFor(Out, N + 1, h)'
    BY <1>3, <2>5 DEF StandsFor
  <2>7. ASSUME NEW k \in 1 .. Len(B) PROVE /\ Begins(Out[N + k])' => StandsFor(Out, N + k, h)'
                                           /\ Completes(Out, N + k)'
    <3>1. Out'[N + k] = B[k] /\ (k = 1 \/ k \in 2 .. Len(B))
      <4>1. Out'[N + k] = B[k]
        BY <1>11, Zenon
      <4>2. Len(B) \in Nat
        BY <1>9
      <4>3. k = 1 \/ k \in 2 .. Len(B)
        BY <4>2
      <4> QED
        BY <4>1, <4>3
    <3>2. Begins(Out[N + k])' => k = 1
      BY <1>9, <3>1 DEF Begins
    <3>3. Completes(Out, N + k)'
      <4>1. DOMAIN src = 1 .. Len(src)
        BY DEF H2Inv, H2Types
      <4>2. B[k].s = b.s
        BY <1>9, Zenon
      <4>3. Out'[N + k].s = src[d].s
        BY <1>7, <3>1, <4>2, Zenon
      <4>4. d \in DOMAIN src' /\ src'[d].t \in {"HEADERS", "CONTINUATION"} /\ src'[d].last
              /\ src'[d].s = Out'[N + k].s
        BY <1>3, <1>4, <4>1, <4>3, Zenon
      <4> QED
        BY <4>4, Zenon DEF Completes
    <3> QED
      BY <2>6, <3>2, <3>3
  <2>8. ASSUME NEW i \in 1 .. N
        PROVE  /\ Begins(Out[i])' => \E p \in 1 .. d : StandsFor(Out, i, p)'
               /\ Completes(Out, i)'
    <3>1. Completes(Out, i)'
      BY <1>2, <1>13, Zenon DEF H2Inv, Mirror
    <3>2. ASSUME Begins(Out[i])' PROVE \E p \in 1 .. d : StandsFor(Out, i, p)'
      <4>1. Begins(Out[i])
        BY <1>11, <3>2
      <4>2. PICK p \in 1 .. d : StandsFor(Out, i, p)
        BY <1>2, <1>4, <4>1 DEF H2Inv, Mirror
      <4>3. p \in Nat
        BY <1>4
      <4> QED
        BY <1>13, <4>2, <4>3
    <3> QED
      BY <3>1, <3>2
  <2>9. \A i \in 1 .. Len(Out') :
          /\ Begins(Out[i])' => \E p \in 1 .. d : StandsFor(Out, i, p)' /\ ~InHand(p)'
          /\ Completes(Out, i)'
    BY <1>5, <1>12, <2>7, <2>8, Zenon
  <2>10. ~Unfinished(Out', Len(Out'))
    BY <1>9, <1>11 DEF Unfinished, GoesOn
  <2>11. ASSUME NEW q \in 1 .. d, Begins(src[q])
         PROVE \E k \in 1 .. Len(Out') : Same(Out'[k], src[q])
    <3>1. CASE InHand(q)
      <4>1. src[q].t = "HEADERS" /\ src[q].s = src[h].s
        BY <1>4, <1>7, <3>1 DEF InHand
      <4>2. ~(q < h) /\ ~(q > h)
        BY <1>4, <1>7, <2>4, <3>1, <4>1
      <4>3. q = h
        BY <1>4, <4>2
      <4>4. N + 1 \in 1 .. Len(Out') /\ Same(Out'[N + 1], src[h])
        BY <1>9, <1>11, <2>5 DEF StandsFor
      <4> QED
        BY <4>3, <4>4
    <3>2. CASE ~InHand(q)
      <4>1. PICK k \in 1 .. N : Same(Out[k], src[q])
        BY <1>2, <1>4, <2>11, <3>2 DEF H2Inv, Mirror
      <4> QED
        BY <1>9, <1>11, <4>1
    <3> QED
      BY <3>1, <3>2
  <2> QED
    BY <1>3, <1>4, <2>2, <2>9, <2>10, <2>11, Zenon DEF Mirror
<1>17. Sizes'
  <2>1. PICK j \in 0 .. Len(answers) :
          /\ j > 0 => answers[j].t = "SETTINGS"
          /\ \A k \in j + 1 .. Len(answers) : answers[k].t # "SETTINGS"
          /\ maxFrame = IF j = 0 THEN DefaultSize ELSE answers[j].size
    BY DEF H2Inv, Limit
  <2>2. ASSUME NEW k \in 1 .. N, Out[k].t = "ACK" PROVE Out[k].of <= j
    <3>1. PICK p \in 1 .. d : StandsFor(Out, k, p)
      BY <1>2, <1>4, <2>2 DEF H2Inv, Mirror, Begins
    <3>2. src[p].t = "ACK" /\ Out[k].of = src[p].of /\ p \in 1 .. Len(src)
      BY <1>4, <2>2, <3>1 DEF StandsFor, Same
    <3>3. Out[k].of \in 1 .. Len(answers) /\ answers[Out[k].of].t = "SETTINGS"
      BY <3>2 DEF H2Inv, Source
    <3>4. PICK a : a = Out[k].of
      OBVIOUS
    <3>5. a \in 1 .. Len(answers) /\ a \notin j + 1 .. Len(answers)
      BY <2>1, <3>3, <3>4, Zenon
    <3>6. Len(answers) \in Nat
      BY DEF H2Inv, H2Types
    <3>7. a <= j
      BY <3>5, <3>6
    <3> QED
      BY <3>4, <3>7, Zenon
  <2>3. ASSUME NEW m \in 1 .. Len(B) PROVE Fits(Out, N + m)'
    <3>1. ASSUME NEW k \in 1 .. (N + m) - 1, Out'[k].t = "ACK" PROVE Out'[k].of <= j
      <4>1. k \in 1 .. Len(Out')
        <5>1. Len(B) \in Nat /\ N \in Nat /\ Len(Out') = N + Len(B)
          BY <1>9, <1>11, Zenon
        <5> QED
          BY <5>1
      <4>2. CASE k \in 1 .. N
        BY <1>11, <2>2, <3>1, <4>2
      <4>3. CASE \E i \in 1 .. Len(B) : k = N + i
        <5>1. PICK i \in 1 .. Len(B) : k = N + i
          BY <4>3
        <5>2. i = 1 \/ i \in 2 .. Len(B)
          BY <1>9
        <5> QED
          BY <1>9, <1>11, <3>1, <5>1, <5>2
      <4> QED
        BY <1>12, <4>1, <4>2, <4>3
    <3>2. Out'[N + m].n <= maxFrame
      BY <1>9, <1>11
    <3> QED
      BY <1>3, <2>1, <3>1, <3>2, Zenon DEF Fits
  <2>4. \A i \in 1 .. N : Out'[i].t \in {"HEADERS", "CONTINUATION"} => Fits(Out, i)'
    BY <1>2, <1>11, <1>13, Zenon DEF H2Inv, Sizes
  <2> QED
    BY <1>12, <2>3, <2>4 DEF Sizes
<1>18. Parents'
  <2>1. ASSUME NEW m \in 1 .. Len(B), Out'[N + m].t = "HEADERS"
        PROVE Youngest(Out[N + m].parent, Out, (N + m) - 1)'
    <3>1. m = 1 /\ Out'[N + m].parent = b.parent /\ (N + m) - 1 = N
      <4>1. m = 1 \/ m \in 2 .. Len(B)
        BY <1>9
      <4> QED
        BY <1>9, <1>11, <2>1, <4>1
    <3>2. Youngest(b.parent, Out, N)
      BY <1>2, <1>3, <1>4, <1>5 DEF H2Inv, Parents
    <3>3. /\ Opened(Out', N) = Opened(Out, N)
          /\ \A s : ResetIn(Out', N, s) <=> ResetIn(Out, N, s)
          /\ \A s : EndedIn(Out', N, s) <=> EndedIn(Out, N, s)
      BY <1>11, CarryPrefix, Zenon
    <3>4. Youngest(b.parent, Out, N)'
      BY <1>3, <3>2, <3>3 DEF Youngest, Closed
    <3> QED
      BY <3>1, <3>4
  <2>2. \A i \in 1 .. N : Out'[i].t = "HEADERS" => Youngest(Out[i].parent, Out, i - 1)'
    BY <1>2, <1>11, <1>13, Zenon DEF H2Inv, Parents
  <2> QED
    BY <1>5, <1>12, <2>1, <2>2 DEF Parents
<1> QED
  BY <1>10, <1>14, <1>15, <1>16, <1>17, <1>18 DEF H2Inv

==============================================================================
