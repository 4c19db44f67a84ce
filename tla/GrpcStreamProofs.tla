-------------------------- MODULE GrpcStreamProofs --------------------------
(***************************************************************************)
(* The gRPC framing for any number of writers and any sizes of writes,     *)
(* chunks and buffers.                                                     *)
(*                                                                         *)
(* InOrder does not say what the body still holds.  Framed does: from the  *)
(* reader's place on, the body is a row of whole messages that carry the   *)
(* next bytes of sent, up to its end, to a malformed header or to a        *)
(* message that was cut.  Bounds is the set of the places where a message  *)
(* begins, and pre[p] how many bytes were sent before place p.             *)
(***************************************************************************)
EXTENDS GrpcStream, TLAPS

-----------------------------------------------------------------------------
(***************************************************************************)
(* Facts about sequences.  They are those of SequenceTheorems, stated here *)
(* because the provers take ten times as long with that module in their    *)
(* context.                                                                *)
(***************************************************************************)
\* A sequence is a function on 1 .. Len.
LEMMA LenProperties ==
  ASSUME NEW S, NEW s \in Seq(S)
  PROVE  Len(s) \in Nat /\ DOMAIN s = 1 .. Len(s) /\ s \in [1 .. Len(s) -> S]
OBVIOUS

\* Only the empty sequence has no elements.
LEMMA EmptySeq ==
  ASSUME NEW S
  PROVE  /\ <<>> \in Seq(S) /\ Len(<<>>) = 0
         /\ \A s \in Seq(S) : s # <<>> => Len(s) \in Nat \ {0}
OBVIOUS

\* The elements of s \o t.
LEMMA ConcatProperties ==
  ASSUME NEW S, NEW s \in Seq(S), NEW t \in Seq(S)
  PROVE  /\ s \o t \in Seq(S) /\ Len(s \o t) = Len(s) + Len(t)
         /\ \A i \in 1 .. Len(s) + Len(t) :
              (s \o t)[i] = IF i <= Len(s) THEN s[i] ELSE t[i - Len(s)]
OBVIOUS

\* The empty sequence adds nothing.
LEMMA ConcatEmptySeq ==
  ASSUME NEW S, NEW s \in Seq(S)
  PROVE  s \o <<>> = s /\ <<>> \o s = s
OBVIOUS

\* The elements of a part of s.
LEMMA SubSeqProperties ==
  ASSUME NEW S, NEW s \in Seq(S), NEW m \in 1 .. Len(s) + 1, NEW n \in m - 1 .. Len(s)
  PROVE  /\ SubSeq(s, m, n) \in Seq(S) /\ Len(SubSeq(s, m, n)) = n - m + 1
         /\ \A i \in 1 .. n - m + 1 : SubSeq(s, m, n)[i] = s[m + i - 1]
OBVIOUS

\* Sequences with the same elements are equal.
LEMMA SeqEqual ==
  ASSUME NEW S, NEW s \in Seq(S), NEW t \in Seq(S),
         Len(s) = Len(t), \A i \in 1 .. Len(s) : s[i] = t[i]
  PROVE  s = t
OBVIOUS

-----------------------------------------------------------------------------
Byte == Writers \X Nat
Token == [t : {"flag"}] \cup [t : {"size"}, n : Nat] \cup [t : {"byte"}, b : Byte]

\* Of the m tokens B the first g are whole messages with bytes of the l bytes S.
Whole(B, m, S, l, g, Bounds, pre) ==
  /\ g <= m /\ g + 1 \in Bounds
  /\ \A p \in Bounds : 1 <= p /\ p <= g + 1 /\ pre[p] <= l
  /\ \A p \in Bounds : p <= g =>
       /\ p + 1 <= g /\ B[p + 1].n \in 0 .. Chunk
       /\ p + 2 + B[p + 1].n \in Bounds
       /\ pre[p + 2 + B[p + 1].n] = pre[p] + B[p + 1].n
       /\ \A i \in 1 .. B[p + 1].n : B[p + 1 + i].b = S[pre[p] + i]

\* The reader, who has the first k bytes, is d bytes before a message.
Continues(B, d, S, k) == \A i \in 1 .. d : B[i].b = S[k + i]
Place(B, S, Bounds, pre, k, d) ==
  /\ d + 1 \in Bounds /\ pre[d + 1] = k + d /\ Continues(B, d, S, k)

\* What follows the whole messages: nothing, a malformed header, a cut message.
Nothing(m, l, g, pre) == g = m /\ pre[g + 1] = l
BadHeader(B, m, g) == g + 2 <= m /\ B[g + 2].n \in Nat /\ B[g + 2].n > Chunk
CutMessage(B, m, g) ==
  /\ g < m
  /\ g + 2 <= m => B[g + 2].n \in Nat /\ B[g + 2].n > m - g - 2

\* The three shapes of a body whose reader has k bytes and is d bytes before a
\* message.
Complete(B, m, S, l, k, d) ==
  \E g \in Nat, Bounds \in SUBSET Nat, pre \in [Nat -> Nat] :
    /\ Whole(B, m, S, l, g, Bounds, pre) /\ Place(B, S, Bounds, pre, k, d)
    /\ Nothing(m, l, g, pre)
Spoilt(B, m, S, l, k, d) ==
  \E g \in Nat, Bounds \in SUBSET Nat, pre \in [Nat -> Nat] :
    /\ Whole(B, m, S, l, g, Bounds, pre) /\ Place(B, S, Bounds, pre, k, d)
    /\ BadHeader(B, m, g)
Cut(B, m, S, l, k, d) ==
  \E g \in Nat, Bounds \in SUBSET Nat, pre \in [Nat -> Nat] :
    /\ Whole(B, m, S, l, g, Bounds, pre) /\ Place(B, S, Bounds, pre, k, d)
    /\ CutMessage(B, m, g)

\* After m tokens comes a message with the n bytes that follow l sent ones.
Carries(B, m, S, l, n) ==
  B[m + 2].n = n /\ \A i \in 1 .. n : B[m + 2 + i].b = S[l + i]

\* The first m elements of a are those of b.
Agree(a, m, b) == \A i \in 1 .. m : b[i] = a[i]

\* c is the m elements of a, then the n elements of b.
IsJoin(c, a, m, b, n) == Agree(a, m, c) /\ \A i \in 1 .. n : c[m + i] = b[i]

\* b is a without its first q elements; n are left.
Behind(a, q, b, n) == \A i \in 1 .. n : b[i] = a[q + i]

\* The body after q tokens of B were read: the same messages, q places nearer,
\* and the same thing after them.
Nearer(B, m, S, l, g, Bounds, pre, q, B2, m2, g2, Bounds2, pre2) ==
  /\ Whole(B2, m2, S, l, g2, Bounds2, pre2)
  /\ \A p \in Nat : p >= 1 /\ p + q \in Bounds => p \in Bounds2 /\ pre2[p] = pre[p + q]
  /\ Nothing(m, l, g, pre) => Nothing(m2, l, g2, pre2)
  /\ BadHeader(B, m, g) => BadHeader(B2, m2, g2)
  /\ CutMessage(B, m, g) => CutMessage(B2, m2, g2)

-----------------------------------------------------------------------------
(***************************************************************************)
(* Sequences.                                                              *)
(***************************************************************************)
\* The sizes are numbers, and a chunk is not empty.
LEMMA ChunkType == Chunk \in Nat /\ Chunk >= 1 /\ Bytes \in Nat
  BY SizesAssumption

\* Concatenation, without its index arithmetic.
LEMMA Joined ==
  ASSUME NEW T, NEW a \in Seq(T), NEW b \in Seq(T)
  PROVE  /\ a \o b \in Seq(T) /\ Len(a \o b) = Len(a) + Len(b)
         /\ IsJoin(a \o b, a, Len(a), b, Len(b))
<1> DEFINE m == Len(a)
           n == Len(b)
           ab == a \o b
<1>1. m \in Nat /\ n \in Nat
  OBVIOUS
<1>2. /\ ab \in Seq(T) /\ Len(ab) = m + n
      /\ \A i \in 1 .. m + n : ab[i] = IF i <= m THEN a[i] ELSE b[i - m]
  BY ConcatProperties, Zenon
<1> HIDE DEF m, n, ab
<1>3. ASSUME NEW i \in 1 .. m PROVE ab[i] = a[i]
  BY <1>1, <1>2
<1>4. ASSUME NEW i \in 1 .. n PROVE ab[m + i] = b[i]
  <2>1. m + i \in 1 .. m + n /\ ~(m + i <= m) /\ (m + i) - m = i
    BY <1>1
  <2> QED
    BY <1>2, <2>1
<1>5. IsJoin(ab, a, m, b, n)
  BY <1>3, <1>4, Zenon DEF IsJoin, Agree
<1> QED
  BY <1>2, <1>5, Zenon DEF m, n, ab

\* A stretch of a sequence.
LEMMA Part ==
  ASSUME NEW T, NEW s \in Seq(T), NEW m \in Nat, NEW n \in Nat,
         1 <= m, m <= n + 1, n <= Len(s)
  PROVE  /\ SubSeq(s, m, n) \in Seq(T)
         /\ Len(SubSeq(s, m, n)) = n + 1 - m
         /\ \A i \in 1 .. n + 1 - m : SubSeq(s, m, n)[i] = s[m - 1 + i]
<1>1. \A i \in m .. n : s[i] \in T
  OBVIOUS
<1>2. m \in Int /\ n \in Int
  OBVIOUS
<1> DEFINE r == SubSeq(s, m, n)
<1>3. /\ r \in Seq(T)
      /\ Len(r) = IF m <= n THEN n - m + 1 ELSE 0
      /\ \A i \in 1 .. n - m + 1 : r[i] = s[m + i - 1]
  BY <1>1, <1>2, SubSeqProperties
<1> HIDE DEF r
<1>4. Len(r) = n + 1 - m
  BY <1>3
<1>5. ASSUME NEW i \in 1 .. n + 1 - m PROVE r[i] = s[m - 1 + i]
  <2>1. i \in 1 .. n - m + 1 /\ m + i - 1 = m - 1 + i
    OBVIOUS
  <2> QED
    BY <1>3, <2>1
<1> QED
  BY <1>3, <1>4, <1>5 DEF r

\* The first n elements.
LEMMA First ==
  ASSUME NEW T, NEW s \in Seq(T), NEW n \in Nat, n <= Len(s)
  PROVE  /\ SubSeq(s, 1, n) \in Seq(T) /\ Len(SubSeq(s, 1, n)) = n
         /\ Agree(s, n, SubSeq(s, 1, n))
<1> DEFINE r == SubSeq(s, 1, n)
<1>1. r \in Seq(T) /\ Len(r) = n + 1 - 1 /\ \A i \in 1 .. n + 1 - 1 : r[i] = s[1 - 1 + i]
  <2>1. 1 \in Nat /\ 1 <= 1 /\ 1 <= n + 1
    OBVIOUS
  <2> QED
    BY <2>1, Part
<1> HIDE DEF r
<1>2. n + 1 - 1 = n /\ \A i \in 1 .. n : 1 - 1 + i = i
  OBVIOUS
<1>3. Len(r) = n /\ \A i \in 1 .. n : r[i] = s[i]
  BY <1>1, <1>2, Zenon
<1> QED
  BY <1>1, <1>3, Zenon DEF r, Agree

\* All but the first q elements.
LEMMA Dropped ==
  ASSUME NEW T, NEW s \in Seq(T), NEW q \in Nat, q <= Len(s)
  PROVE  /\ SubSeq(s, q + 1, Len(s)) \in Seq(T)
         /\ Len(SubSeq(s, q + 1, Len(s))) = Len(s) - q
         /\ \A i \in 1 .. Len(s) - q : SubSeq(s, q + 1, Len(s))[i] = s[q + i]
<1> DEFINE m == q + 1
           n == Len(s)
           r == SubSeq(s, m, n)
<1>1. m \in Nat /\ n \in Nat /\ 1 <= m /\ m <= n + 1 /\ n + 1 - m = n - q /\ m - 1 = q
  OBVIOUS
<1> HIDE DEF m
<1>2. /\ r \in Seq(T) /\ Len(r) = n + 1 - m
      /\ \A i \in 1 .. n + 1 - m : r[i] = s[m - 1 + i]
  BY <1>1, Part
<1> HIDE DEF r, n
<1>3. Len(r) = n - q /\ \A i \in 1 .. n - q : r[i] = s[q + i]
  BY <1>1, <1>2, Zenon
<1> QED
  BY <1>2, <1>3, Zenon DEF r, n, m

\* The tokens of a message.
LEMMA MessageTokens ==
  ASSUME NEW u \in Seq(Byte)
  PROVE  /\ Message(u) \in Seq(Token) /\ Len(Message(u)) = 2 + Len(u)
         /\ Message(u)[2].n = Len(u)
         /\ \A i \in 1 .. Len(u) : Message(u)[2 + i].b = u[i]
<1> DEFINE h == <<[t |-> "flag"], [t |-> "size", n |-> Len(u)]>>
           r == [i \in 1 .. Len(u) |-> [t |-> "byte", b |-> u[i]]]
<1>1. Len(u) \in Nat /\ \A i \in 1 .. Len(u) : u[i] \in Byte
  OBVIOUS
<1>2. h \in Seq(Token) /\ Len(h) = 2 /\ h[2].n = Len(u)
  <2>1. [t |-> "flag"] \in Token /\ [t |-> "size", n |-> Len(u)] \in Token
    BY <1>1 DEF Token
  <2> HIDE DEF Token
  <2> QED
    BY <2>1
<1>3. r \in Seq(Token) /\ Len(r) = Len(u) /\ \A i \in 1 .. Len(u) : r[i].b = u[i]
  <2>1. \A i \in 1 .. Len(u) : [t |-> "byte", b |-> u[i]] \in Token
    BY <1>1 DEF Token
  <2> QED
    BY <1>1, <2>1
<1>4. Message(u) = h \o r
  BY Zenon DEF Message
<1> HIDE DEF h, r
<1>5. /\ h \o r \in Seq(Token) /\ Len(h \o r) = Len(h) + Len(r)
      /\ IsJoin(h \o r, h, Len(h), r, Len(r))
  BY <1>2, <1>3, Joined, Zenon
<1>6. /\ (h \o r)[2] = h[2]
      /\ \A i \in 1 .. Len(u) : (h \o r)[2 + i] = r[i]
  <2>1. 2 \in 1 .. 2
    OBVIOUS
  <2> QED
    BY <1>2, <1>3, <1>5, <2>1, Zenon DEF IsJoin, Agree
<1> QED
  BY <1>2, <1>3, <1>4, <1>5, <1>6, Zenon

-----------------------------------------------------------------------------
(***************************************************************************)
(* What reading and writing do to the row of messages.                     *)
(***************************************************************************)
\* Tokens after the whole messages and bytes after those sent change nothing.
LEMMA Grows ==
  ASSUME NEW B, NEW m \in Nat, NEW S, NEW l \in Nat, NEW g \in Nat,
         NEW Bounds \in SUBSET Nat, NEW pre \in [Nat -> Nat],
         Whole(B, m, S, l, g, Bounds, pre),
         NEW B2, NEW m2 \in Nat, NEW S2, NEW l2 \in Nat,
         m <= m2, Agree(B, m, B2), l <= l2, Agree(S, l, S2)
  PROVE  /\ Whole(B2, m2, S2, l2, g, Bounds, pre)
         /\ \A k \in Nat, d \in Nat :
              Place(B, S, Bounds, pre, k, d) => Place(B2, S2, Bounds, pre, k, d)
<1>2. /\ g <= m /\ g + 1 \in Bounds
      /\ \A p \in Bounds : 1 <= p /\ p <= g + 1 /\ pre[p] <= l
  BY Zenon DEF Whole
<1>3. (\A i \in 1 .. m : B2[i] = B[i]) /\ (\A i \in 1 .. l : S2[i] = S[i])
  BY Zenon DEF Agree
<1>4. ASSUME NEW p \in Bounds, p <= g
      PROVE  /\ p + 1 <= g /\ B2[p + 1].n \in 0 .. Chunk
             /\ p + 2 + B2[p + 1].n \in Bounds
             /\ pre[p + 2 + B2[p + 1].n] = pre[p] + B2[p + 1].n
             /\ \A i \in 1 .. B2[p + 1].n : B2[p + 1 + i].b = S2[pre[p] + i]
  <2> DEFINE n == B[p + 1].n
  <2>1. /\ p + 1 <= g /\ n \in 0 .. Chunk /\ p + 2 + n \in Bounds
        /\ pre[p + 2 + n] = pre[p] + n
        /\ \A i \in 1 .. n : B[p + 1 + i].b = S[pre[p] + i]
    BY <1>4, Zenon DEF Whole
  <2>2. p + 1 \in 1 .. m /\ p \in Nat /\ pre[p] \in Nat
    BY <1>2, <2>1
  <2>3. B2[p + 1].n = n
    BY <1>3, <2>2, Zenon
  <2> HIDE DEF n
  <2>4. n \in Nat
    BY <2>1, ChunkType
  <2>5. ASSUME NEW i \in 1 .. n PROVE B2[p + 1 + i].b = S2[pre[p] + i]
    <3>1. p + 2 + n <= g + 1 /\ pre[p] + n <= l
      BY <1>2, <2>1, Zenon
    <3>2. p + 1 + i \in 1 .. m /\ pre[p] + i \in 1 .. l
      BY <1>2, <2>2, <2>4, <3>1
    <3> QED
      BY <1>3, <2>1, <3>2, Zenon
  <2> QED
    BY <2>1, <2>3, <2>5, Zenon
<1>5. Whole(B2, m2, S2, l2, g, Bounds, pre)
  <2>1. g <= m2 /\ \A p \in Bounds : pre[p] <= l2
    BY <1>2
  <2> QED
    BY <1>2, <1>4, <2>1, Zenon DEF Whole
<1>6. ASSUME NEW k \in Nat, NEW d \in Nat, Place(B, S, Bounds, pre, k, d)
      PROVE  Place(B2, S2, Bounds, pre, k, d)
  <2>1. /\ d + 1 \in Bounds /\ pre[d + 1] = k + d
        /\ \A i \in 1 .. d : B[i].b = S[k + i]
    BY <1>6, Zenon DEF Place, Continues
  <2>2. d + 1 <= g + 1 /\ k + d <= l
    BY <1>2, <2>1, Zenon
  <2>3. \A i \in 1 .. d : i \in 1 .. m /\ k + i \in 1 .. l
    BY <1>2, <2>2
  <2> QED
    BY <1>3, <2>1, <2>3, Zenon DEF Place, Continues
<1> QED
  BY <1>5, <1>6, Zenon

\* A message of n bytes after whole messages makes one more.
LEMMA MessageAppended ==
  ASSUME NEW B, NEW S, NEW l \in Nat, NEW g \in Nat,
         NEW Bounds \in SUBSET Nat, NEW pre \in [Nat -> Nat],
         Whole(B, g, S, l, g, Bounds, pre), pre[g + 1] = l,
         NEW n \in Nat, n <= Chunk, NEW B2, NEW S2,
         Agree(B, g, B2), Agree(S, l, S2),
         Carries(B2, g, S2, l, n),
         NEW g2 \in Nat, g2 = g + 2 + n, NEW l2 \in Nat, l2 = l + n,
         NEW k \in Nat, NEW d \in Nat, Place(B, S, Bounds, pre, k, d)
  PROVE  Complete(B2, g2, S2, l2, k, d)
<1> DEFINE e == g2 + 1
           Bounds2 == Bounds \cup {e}
           pre2 == [pre EXCEPT ![e] = l2]
<1>1. /\ Whole(B2, g2, S2, l2, g, Bounds, pre)
      /\ Place(B2, S2, Bounds, pre, k, d)
  <2>1. g <= g2 /\ l <= l2
    OBVIOUS
  <2> QED
    BY <2>1, Grows
<1>2. /\ g + 1 \in Bounds
      /\ \A p \in Bounds : 1 <= p /\ p <= g + 1 /\ pre[p] <= l2
  BY <1>1, Zenon DEF Whole
<1>3. /\ e \in Nat /\ e = g + n + 3 /\ e > g + 1
      /\ pre2 \in [Nat -> Nat] /\ Bounds2 \in SUBSET Nat /\ pre2[e] = l2
      /\ \A p \in Nat : p # e => pre2[p] = pre[p]
  OBVIOUS
<1> HIDE DEF e, pre2
<1>4. ASSUME NEW p \in Bounds2
      PROVE  1 <= p /\ p <= g2 + 1 /\ pre2[p] <= l2
  <2>1. CASE p = e
    BY <1>3, <2>1 DEF e
  <2>2. CASE p \in Bounds
    <3>1. p \in Nat /\ p # e
      BY <1>2, <1>3, <2>2
    <3>2. pre2[p] = pre[p] /\ 1 <= p /\ p <= g + 1 /\ pre[p] <= l2
      BY <1>2, <1>3, <2>2, <3>1, Zenon
    <3> QED
      BY <3>1, <3>2
  <2> QED
    BY <2>1, <2>2
<1>5. ASSUME NEW p \in Bounds2, p <= g2
      PROVE  /\ p + 1 <= g2 /\ B2[p + 1].n \in 0 .. Chunk
             /\ p + 2 + B2[p + 1].n \in Bounds2
             /\ pre2[p + 2 + B2[p + 1].n] = pre2[p] + B2[p + 1].n
             /\ \A i \in 1 .. B2[p + 1].n : B2[p + 1 + i].b = S2[pre2[p] + i]
  <2>1. p \in Bounds /\ p \in Nat /\ p <= g + 1
    <3>1. p # e
      BY <1>3, <1>5 DEF e
    <3> QED
      BY <1>2, <3>1
  <2>2. CASE p = g + 1
    <3>1. p + 1 = g + 2 /\ p + 2 + n = e /\ p # e /\ n \in 0 .. Chunk /\ p + 1 <= g2
      BY <1>3, <2>2, ChunkType
    <3>2. pre2[p] = l
      BY <1>3, <2>1, <2>2, <3>1, Zenon
    <3>3. B2[g + 2].n = n /\ \A i \in 1 .. n : B2[g + 2 + i].b = S2[l + i]
      BY Zenon DEF Carries
    <3> QED
      BY <1>3, <3>1, <3>2, <3>3, Zenon
  <2>3. CASE p # g + 1
    <3> DEFINE x == B2[p + 1].n
    <3>1. p <= g
      BY <2>1, <2>3
    <3>2. /\ p + 1 <= g /\ x \in 0 .. Chunk /\ p + 2 + x \in Bounds
          /\ pre[p + 2 + x] = pre[p] + x
          /\ \A i \in 1 .. x : B2[p + 1 + i].b = S2[pre[p] + i]
      BY <1>1, <2>1, <3>1, Zenon DEF Whole
    <3> HIDE DEF x
    <3>3. p + 2 + x <= g + 1 /\ p + 2 + x \in Nat
      BY <1>2, <3>2
    <3>4. p # e /\ p + 2 + x # e /\ p + 1 <= g2
      BY <1>3, <2>1, <3>2, <3>3
    <3>5. pre2[p] = pre[p] /\ pre2[p + 2 + x] = pre[p + 2 + x]
      BY <1>3, <2>1, <3>3, <3>4, Zenon
    <3>6. /\ p + 2 + x \in Bounds2 /\ pre2[p + 2 + x] = pre2[p] + x
          /\ \A i \in 1 .. x : B2[p + 1 + i].b = S2[pre2[p] + i]
      BY <3>2, <3>5, Zenon
    <3> QED
      BY <3>2, <3>4, <3>6, Zenon DEF x
  <2> QED
    BY <2>2, <2>3
<1>6. Whole(B2, g2, S2, l2, g2, Bounds2, pre2)
  <2>1. g2 <= g2 /\ g2 + 1 \in Bounds2
    BY DEF e
  <2> QED
    BY <1>4, <1>5, <2>1, Zenon DEF Whole
<1>7. Nothing(g2, l2, g2, pre2)
  BY <1>3, Zenon DEF Nothing, e
<1>8. Place(B2, S2, Bounds2, pre2, k, d)
  <2>1. d + 1 \in Bounds /\ d + 1 \in Nat /\ d + 1 # e
    <3>1. d + 1 \in Bounds
      BY <1>1, Zenon DEF Place, Continues
    <3> QED
      BY <1>2, <1>3, <3>1
  <2> QED
    BY <1>1, <1>3, <2>1, Zenon DEF Place, Continues
<1> QED
  BY <1>3, <1>6, <1>7, <1>8, Zenon DEF Complete

\* Reading q tokens of the whole messages moves everything q places.
LEMMA Moved ==
  ASSUME NEW B, NEW m \in Nat, NEW S, NEW l \in Nat, NEW g \in Nat,
         NEW Bounds \in SUBSET Nat, NEW pre \in [Nat -> Nat],
         Whole(B, m, S, l, g, Bounds, pre),
         NEW q \in Nat, q <= g, NEW m2 \in Nat, m = m2 + q,
         NEW B2, Behind(B, q, B2, m2)
  PROVE  \E g2 \in Nat, Bounds2 \in SUBSET Nat, pre2 \in [Nat -> Nat] :
           Nearer(B, m, S, l, g, Bounds, pre, q, B2, m2, g2, Bounds2, pre2)
<1> DEFINE g2 == g - q
           Bounds2 == {p \in Nat : p >= 1 /\ p + q \in Bounds}
           pre2 == [p \in Nat |-> pre[p + q]]
<1>0. \A i \in 1 .. m2 : B2[i] = B[q + i]
  BY Zenon DEF Behind
<1>1. /\ g <= m /\ g + 1 \in Bounds
      /\ \A p \in Bounds : 1 <= p /\ p <= g + 1 /\ pre[p] <= l
  BY Zenon DEF Whole
<1>2. /\ g2 \in Nat /\ g2 + q = g /\ g2 <= m2
      /\ Bounds2 \in SUBSET Nat /\ pre2 \in [Nat -> Nat]
      /\ \A p \in Nat : pre2[p] = pre[p + q]
      /\ \A p \in Bounds2 : p \in Nat /\ p >= 1 /\ p + q \in Bounds
      /\ \A p \in Nat : p >= 1 /\ p + q \in Bounds => p \in Bounds2
  BY <1>1
<1> HIDE DEF g2, Bounds2, pre2
<1>3. \A p \in Bounds2 : 1 <= p /\ p <= g2 + 1 /\ pre2[p] <= l
  <2> TAKE p \in Bounds2
  <2>1. p \in Nat /\ p >= 1 /\ p + q \in Bounds /\ pre2[p] = pre[p + q]
    BY <1>2, Zenon
  <2>2. p + q <= g + 1 /\ pre[p + q] <= l
    BY <1>1, <2>1, Zenon
  <2> QED
    BY <1>2, <2>1, <2>2
<1>4. ASSUME NEW p \in Bounds2, p <= g2
      PROVE  /\ p + 1 <= g2 /\ B2[p + 1].n \in 0 .. Chunk
             /\ p + 2 + B2[p + 1].n \in Bounds2
             /\ pre2[p + 2 + B2[p + 1].n] = pre2[p] + B2[p + 1].n
             /\ \A i \in 1 .. B2[p + 1].n : B2[p + 1 + i].b = S[pre2[p] + i]
  <2> DEFINE r == p + q
             x == B[r + 1].n
  <2>1. p \in Nat /\ p >= 1 /\ r \in Bounds /\ pre2[p] = pre[r] /\ r \in Nat /\ r <= g
    <3>1. p \in Nat /\ p >= 1 /\ r \in Bounds /\ pre2[p] = pre[r]
      BY <1>2, Zenon
    <3> QED
      BY <1>2, <1>4, <3>1
  <2>2. r = p + q
    OBVIOUS
  <2> HIDE DEF r
  <2>3. /\ r + 1 <= g /\ x \in 0 .. Chunk /\ r + 2 + x \in Bounds
        /\ pre[r + 2 + x] = pre[r] + x
        /\ \A i \in 1 .. x : B[r + 1 + i].b = S[pre[r] + i]
    BY <2>1, Zenon DEF Whole
  <2>4. p + 1 \in 1 .. m2 /\ q + (p + 1) = r + 1
    BY <1>1, <1>2, <2>1, <2>2, <2>3
  <2>5. B2[p + 1].n = x
    BY <1>0, <2>4, Zenon
  <2> HIDE DEF x
  <2>6. x \in Nat /\ (p + 2 + x) + q = r + 2 + x /\ p + 2 + x \in Nat /\ p + 2 + x >= 1
        /\ p + 1 <= g2
    BY <1>2, <2>1, <2>2, <2>3, ChunkType
  <2>7. p + 2 + x \in Bounds2 /\ pre2[p + 2 + x] = pre2[p] + x
    BY <1>2, <2>1, <2>3, <2>6, Zenon
  <2>8. ASSUME NEW i \in 1 .. x PROVE B2[p + 1 + i].b = S[pre2[p] + i]
    <3>1. r + 2 + x <= g + 1
      BY <1>1, <2>3, Zenon
    <3>2. p + 1 + i \in 1 .. m2 /\ q + (p + 1 + i) = r + 1 + i
      BY <1>1, <1>2, <2>1, <2>2, <2>6, <3>1
    <3>3. B2[p + 1 + i] = B[r + 1 + i]
      BY <1>0, <3>2
    <3> QED
      BY <2>1, <2>3, <3>3, Zenon
  <2> QED
    BY <2>3, <2>5, <2>6, <2>7, <2>8, Zenon
<1>5. Whole(B2, m2, S, l, g2, Bounds2, pre2)
  <2>1. g2 + 1 \in Nat /\ g2 + 1 >= 1 /\ (g2 + 1) + q = g + 1
    BY <1>2
  <2>2. g2 + 1 \in Bounds2
    BY <1>1, <1>2, <2>1, Zenon
  <2> QED
    BY <1>2, <1>3, <1>4, <2>2, Zenon DEF Whole
<1>6. ASSUME Nothing(m, l, g, pre) PROVE Nothing(m2, l, g2, pre2)
  <2>1. g2 + 1 \in Nat /\ (g2 + 1) + q = g + 1
    BY <1>2
  <2>2. g2 = m2
    BY <1>2, <1>6 DEF Nothing
  <2>3. pre2[g2 + 1] = l
    <3>1. pre2[g2 + 1] = pre[(g2 + 1) + q] /\ pre[g + 1] = l
      BY <1>2, <1>6, <2>1, Zenon DEF Nothing
    <3> QED
      BY <2>1, <3>1
  <2> QED
    BY <2>2, <2>3, Zenon DEF Nothing
<1>7. ASSUME g + 2 <= m PROVE g2 + 2 <= m2 /\ B2[g2 + 2] = B[g + 2]
  <2>1. g2 + 2 \in 1 .. m2 /\ q + (g2 + 2) = g + 2 /\ g2 + 2 <= m2
    BY <1>2, <1>7
  <2> QED
    BY <1>0, <2>1
<1>8. BadHeader(B, m, g) => BadHeader(B2, m2, g2)
  BY <1>7, Zenon DEF BadHeader
<1>9. ASSUME CutMessage(B, m, g) PROVE CutMessage(B2, m2, g2)
  <2>1. g2 < m2 /\ (g2 + 2 <= m2 => g + 2 <= m) /\ m2 - g2 - 2 = m - g - 2
    BY <1>2, <1>9 DEF CutMessage
  <2> QED
    BY <1>7, <1>9, <2>1, Zenon DEF CutMessage
<1>10. \A p \in Nat : p >= 1 /\ p + q \in Bounds => p \in Bounds2 /\ pre2[p] = pre[p + q]
  BY <1>2, Zenon
<1>11. Nearer(B, m, S, l, g, Bounds, pre, q, B2, m2, g2, Bounds2, pre2)
  BY <1>5, <1>6, <1>8, <1>9, <1>10, Zenon DEF Nearer
<1> QED
  BY <1>2, <1>11, Zenon

\* The reader's place is within the whole messages.
LEMMA PlaceBytes ==
  ASSUME NEW B, NEW m \in Nat, NEW S, NEW l \in Nat, NEW g \in Nat,
         NEW Bounds \in SUBSET Nat, NEW pre \in [Nat -> Nat],
         NEW k \in Nat, NEW d \in Nat,
         Whole(B, m, S, l, g, Bounds, pre), Place(B, S, Bounds, pre, k, d)
  PROVE  d <= g /\ k + d <= l /\ Continues(B, d, S, k)
<1>1. \A p \in Bounds : 1 <= p /\ p <= g + 1 /\ pre[p] <= l
  BY Zenon DEF Whole
<1>2. d + 1 \in Bounds /\ pre[d + 1] = k + d /\ Continues(B, d, S, k)
  BY Zenon DEF Place
<1>3. d + 1 <= g + 1 /\ k + d <= l
  BY <1>1, <1>2, Zenon
<1> QED
  BY <1>2, <1>3

\* The two tokens of a header, read at the start of a whole message.
LEMMA HeaderRead ==
  ASSUME NEW B, NEW m \in Nat, NEW S, NEW l \in Nat, NEW g \in Nat,
         NEW Bounds \in SUBSET Nat, NEW pre \in [Nat -> Nat],
         NEW k \in Nat, Whole(B, m, S, l, g, Bounds, pre),
         Place(B, S, Bounds, pre, k, 0), g # 0,
         NEW m2 \in Nat, m = m2 + 2,
         NEW B2, Behind(B, 2, B2, m2)
  PROVE  /\ B[2].n \in Nat
         /\ \E g2 \in Nat, Bounds2 \in SUBSET Nat, pre2 \in [Nat -> Nat] :
              /\ Whole(B2, m2, S, l, g2, Bounds2, pre2)
              /\ Place(B2, S, Bounds2, pre2, k, B[2].n)
              /\ Nothing(m, l, g, pre) => Nothing(m2, l, g2, pre2)
              /\ BadHeader(B, m, g) => BadHeader(B2, m2, g2)
              /\ CutMessage(B, m, g) => CutMessage(B2, m2, g2)
<1> DEFINE n == B[2].n
<1>1. /\ g <= m /\ g + 1 \in Bounds
      /\ \A p \in Bounds : 1 <= p /\ p <= g + 1 /\ pre[p] <= l
  BY Zenon DEF Whole
<1>2. 1 \in Bounds /\ pre[1] = k
  <2>1. 0 + 1 \in Bounds /\ pre[0 + 1] = k + 0
    BY Zenon DEF Place, Continues
  <2> QED
    BY <2>1
<1>3. /\ 2 <= g /\ n \in 0 .. Chunk /\ 3 + n \in Bounds /\ pre[3 + n] = k + n
      /\ \A i \in 1 .. n : B[2 + i].b = S[k + i]
  <2>1. 1 <= g /\ 1 + 1 = 2 /\ 1 + 2 = 3
    OBVIOUS
  <2>2. /\ 1 + 1 <= g /\ B[1 + 1].n \in 0 .. Chunk
        /\ 1 + 2 + B[1 + 1].n \in Bounds
        /\ pre[1 + 2 + B[1 + 1].n] = pre[1] + B[1 + 1].n
        /\ \A i \in 1 .. B[1 + 1].n : B[1 + 1 + i].b = S[pre[1] + i]
    BY <1>2, <2>1, Zenon DEF Whole
  <2>3. /\ 2 <= g /\ n \in 0 .. Chunk /\ 3 + n \in Bounds
        /\ pre[3 + n] = pre[1] + n
        /\ \A i \in 1 .. n : B[2 + i].b = S[pre[1] + i]
    BY <2>1, <2>2
  <2> QED
    BY <1>2, <2>3, Zenon
<1> HIDE DEF n
<1>4. n \in Nat /\ n + 1 \in Nat /\ n + 1 >= 1 /\ (n + 1) + 2 = 3 + n
      /\ 3 + n <= g + 1
  BY <1>1, <1>3, ChunkType
<1>5. PICK g2 \in Nat, Bounds2 \in SUBSET Nat, pre2 \in [Nat -> Nat] :
        Nearer(B, m, S, l, g, Bounds, pre, 2, B2, m2, g2, Bounds2, pre2)
  <2>1. 2 \in Nat /\ 2 <= g
    BY <1>3
  <2> QED
    BY <2>1, Moved, Zenon
<1>6. n + 1 \in Bounds2 /\ pre2[n + 1] = k + n
  <2>1. (n + 1) + 2 \in Bounds
    BY <1>3, <1>4, Zenon
  <2>2. n + 1 \in Bounds2 /\ pre2[n + 1] = pre[(n + 1) + 2]
    BY <1>4, <1>5, <2>1, Zenon DEF Nearer
  <2> QED
    BY <1>3, <1>4, <2>2, Zenon
<1>7. \A i \in 1 .. n : B2[i].b = S[k + i]
  <2>1. \A i \in 1 .. n : i \in 1 .. m2
    BY <1>1, <1>4
  <2> QED
    BY <1>3, <2>1, Zenon DEF Behind
<1>8. Place(B2, S, Bounds2, pre2, k, n)
  BY <1>6, <1>7, Zenon DEF Place, Continues
<1> QED
  BY <1>4, <1>5, <1>8, Zenon DEF n, Nearer

\* The d bytes of a payload, read.
LEMMA PayloadRead ==
  ASSUME NEW B, NEW m \in Nat, NEW S, NEW l \in Nat, NEW g \in Nat,
         NEW Bounds \in SUBSET Nat, NEW pre \in [Nat -> Nat],
         NEW k \in Nat, NEW d \in Nat, Whole(B, m, S, l, g, Bounds, pre),
         Place(B, S, Bounds, pre, k, d), NEW k2 \in Nat, k2 = k + d,
         NEW m2 \in Nat, m = m2 + d,
         NEW B2, Behind(B, d, B2, m2)
  PROVE  /\ Nothing(m, l, g, pre) => Complete(B2, m2, S, l, k2, 0)
         /\ BadHeader(B, m, g) => Spoilt(B2, m2, S, l, k2, 0)
         /\ CutMessage(B, m, g) => Cut(B2, m2, S, l, k2, 0)
<1>1. d <= g
  BY PlaceBytes, Zenon
<1>2. PICK g2 \in Nat, Bounds2 \in SUBSET Nat, pre2 \in [Nat -> Nat] :
        Nearer(B, m, S, l, g, Bounds, pre, d, B2, m2, g2, Bounds2, pre2)
  BY <1>1, Moved, Zenon
<1>3. d + 1 \in Bounds /\ pre[d + 1] = k2
  BY Zenon DEF Place, Continues
<1>4. 1 \in Nat /\ 1 >= 1 /\ 1 + d = d + 1 /\ 0 + 1 = 1 /\ k2 + 0 = k2
  OBVIOUS
<1>5. 1 \in Bounds2 /\ pre2[1] = k2
  BY <1>2, <1>3, <1>4, Zenon DEF Nearer
<1>6. Place(B2, S, Bounds2, pre2, k2, 0)
  <2>1. \A i \in 1 .. 0 : B2[i].b = S[k2 + i]
    OBVIOUS
  <2>2. 0 + 1 \in Bounds2 /\ pre2[0 + 1] = k2 + 0
    BY <1>4, <1>5
  <2> QED
    BY <2>1, <2>2, Zenon DEF Place, Continues
<1> QED
  BY <1>2, <1>6, Zenon DEF Nearer, Complete, Spoilt, Cut

\* A header was read: the reader is as many bytes before the next message as
\* the header says, unless the message was cut.
LEMMA HeaderMoves ==
  ASSUME NEW B, NEW m \in Nat, NEW S, NEW l \in Nat, NEW k \in Nat,
         NEW m2 \in Nat, m = m2 + 2, NEW B2, Behind(B, 2, B2, m2)
  PROVE  /\ Complete(B, m, S, l, k, 0) =>
              B[2].n \in Nat /\ Complete(B2, m2, S, l, k, B[2].n)
         /\ Spoilt(B, m, S, l, k, 0) /\ B[2].n <= Chunk =>
              B[2].n \in Nat /\ Spoilt(B2, m2, S, l, k, B[2].n)
         /\ Cut(B, m, S, l, k, 0) =>
              B[2].n \in Nat /\ (Cut(B2, m2, S, l, k, B[2].n) \/ B[2].n > m2)
<1>1. ASSUME Complete(B, m, S, l, k, 0)
      PROVE  B[2].n \in Nat /\ Complete(B2, m2, S, l, k, B[2].n)
  <2>1. PICK g \in Nat, Bounds \in SUBSET Nat, pre \in [Nat -> Nat] :
          /\ Whole(B, m, S, l, g, Bounds, pre) /\ Place(B, S, Bounds, pre, k, 0)
          /\ Nothing(m, l, g, pre)
    BY <1>1, Zenon DEF Complete
  <2>2. g # 0
    BY <2>1 DEF Nothing
  <2> QED
    BY <2>1, <2>2, HeaderRead, Zenon DEF Complete
<1>2. ASSUME Spoilt(B, m, S, l, k, 0), B[2].n <= Chunk
      PROVE  B[2].n \in Nat /\ Spoilt(B2, m2, S, l, k, B[2].n)
  <2>1. PICK g \in Nat, Bounds \in SUBSET Nat, pre \in [Nat -> Nat] :
          /\ Whole(B, m, S, l, g, Bounds, pre) /\ Place(B, S, Bounds, pre, k, 0)
          /\ BadHeader(B, m, g)
    BY <1>2, Zenon DEF Spoilt
  <2>2. g # 0
    <3>1. g = 0 => g + 2 = 2
      OBVIOUS
    <3>2. B[g + 2].n \in Nat /\ B[g + 2].n > Chunk
      BY <2>1, Zenon DEF BadHeader
    <3> QED
      BY <1>2, <3>1, <3>2, ChunkType
  <2> QED
    BY <2>1, <2>2, HeaderRead, Zenon DEF Spoilt
<1>3. ASSUME Cut(B, m, S, l, k, 0)
      PROVE  B[2].n \in Nat /\ (Cut(B2, m2, S, l, k, B[2].n) \/ B[2].n > m2)
  <2>1. PICK g \in Nat, Bounds \in SUBSET Nat, pre \in [Nat -> Nat] :
          /\ Whole(B, m, S, l, g, Bounds, pre) /\ Place(B, S, Bounds, pre, k, 0)
          /\ CutMessage(B, m, g)
    BY <1>3, Zenon DEF Cut
  <2>2. CASE g # 0
    BY <2>1, <2>2, HeaderRead, Zenon DEF Cut
  <2>3. CASE g = 0
    <3>1. g + 2 = 2 /\ g + 2 <= m /\ m - g - 2 = m2
      BY <2>3
    <3>2. B[g + 2].n \in Nat /\ B[g + 2].n > m - g - 2
      BY <2>1, <3>1, Zenon DEF CutMessage
    <3> QED
      BY <3>1, <3>2
  <2> QED
    BY <2>2, <2>3
<1> QED
  BY <1>1, <1>2, <1>3, Zenon

\* A payload of d bytes was read: the next bytes of those sent.
LEMMA PayloadMoves ==
  ASSUME NEW B, NEW m \in Nat, NEW S, NEW l \in Nat, NEW k \in Nat, NEW d \in Nat,
         NEW k2 \in Nat, k2 = k + d, NEW m2 \in Nat, m = m2 + d,
         NEW B2, Behind(B, d, B2, m2)
  PROVE  /\ Complete(B, m, S, l, k, d) => Complete(B2, m2, S, l, k2, 0)
         /\ Spoilt(B, m, S, l, k, d) => Spoilt(B2, m2, S, l, k2, 0)
         /\ Cut(B, m, S, l, k, d) => Cut(B2, m2, S, l, k2, 0)
<1>1. ASSUME Complete(B, m, S, l, k, d) PROVE Complete(B2, m2, S, l, k2, 0)
  <2>1. PICK g \in Nat, Bounds \in SUBSET Nat, pre \in [Nat -> Nat] :
          /\ Whole(B, m, S, l, g, Bounds, pre) /\ Place(B, S, Bounds, pre, k, d)
          /\ Nothing(m, l, g, pre)
    BY <1>1, Zenon DEF Complete
  <2> QED
    BY <2>1, PayloadRead, Zenon
<1>2. ASSUME Spoilt(B, m, S, l, k, d) PROVE Spoilt(B2, m2, S, l, k2, 0)
  <2>1. PICK g \in Nat, Bounds \in SUBSET Nat, pre \in [Nat -> Nat] :
          /\ Whole(B, m, S, l, g, Bounds, pre) /\ Place(B, S, Bounds, pre, k, d)
          /\ BadHeader(B, m, g)
    BY <1>2, Zenon DEF Spoilt
  <2> QED
    BY <2>1, PayloadRead, Zenon
<1>3. ASSUME Cut(B, m, S, l, k, d) PROVE Cut(B2, m2, S, l, k2, 0)
  <2>1. PICK g \in Nat, Bounds \in SUBSET Nat, pre \in [Nat -> Nat] :
          /\ Whole(B, m, S, l, g, Bounds, pre) /\ Place(B, S, Bounds, pre, k, d)
          /\ CutMessage(B, m, g)
    BY <1>3, Zenon DEF Cut
  <2> QED
    BY <2>1, PayloadRead, Zenon
<1> QED
  BY <1>1, <1>2, <1>3, Zenon

\* Whatever the shape, the d bytes before the next message are the next of those
\* sent.
LEMMA NextBytes ==
  ASSUME NEW B, NEW m \in Nat, NEW S, NEW l \in Nat, NEW k \in Nat, NEW d \in Nat,
         \/ Complete(B, m, S, l, k, d) \/ Spoilt(B, m, S, l, k, d)
         \/ Cut(B, m, S, l, k, d)
  PROVE  k + d <= l /\ Continues(B, d, S, k)
<1>1. PICK g \in Nat, Bounds \in SUBSET Nat, pre \in [Nat -> Nat] :
        Whole(B, m, S, l, g, Bounds, pre) /\ Place(B, S, Bounds, pre, k, d)
  BY Zenon DEF Complete, Spoilt, Cut
<1> QED
  BY <1>1, PlaceBytes, Zenon

\* An empty body before the reader: nothing is spoilt or cut, and all was read.
LEMMA EmptyBody ==
  ASSUME NEW B, NEW S, NEW l \in Nat, NEW k \in Nat
  PROVE  /\ Complete(B, 0, S, l, k, 0) => k = l
         /\ ~Spoilt(B, 0, S, l, k, 0) /\ ~Cut(B, 0, S, l, k, 0)
<1>1. ASSUME Complete(B, 0, S, l, k, 0) PROVE k = l
  <2>1. PICK g \in Nat, Bounds \in SUBSET Nat, pre \in [Nat -> Nat] :
          Place(B, S, Bounds, pre, k, 0) /\ Nothing(0, l, g, pre)
    BY <1>1, Zenon DEF Complete
  <2>2. g = 0 /\ pre[g + 1] = l /\ pre[0 + 1] = k + 0
    BY <2>1, Zenon DEF Nothing, Place
  <2> QED
    BY <2>2
<1>2. ASSUME NEW g \in Nat PROVE ~BadHeader(B, 0, g) /\ ~CutMessage(B, 0, g)
  <2>1. ~(g + 2 <= 0) /\ ~(g < 0)
    OBVIOUS
  <2> QED
    BY <2>1, Zenon DEF BadHeader, CutMessage
<1> QED
  BY <1>1, <1>2, Zenon DEF Spoilt, Cut

\* A message written to a complete body leaves it complete.
LEMMA CompleteGrows ==
  ASSUME NEW B, NEW m \in Nat, NEW S, NEW l \in Nat, NEW k \in Nat, NEW d \in Nat,
         Complete(B, m, S, l, k, d),
         NEW n \in Nat, n <= Chunk, NEW B2, NEW S2, Agree(B, m, B2), Agree(S, l, S2),
         NEW m2 \in Nat, m2 = m + 2 + n, NEW l2 \in Nat, l2 = l + n,
         Carries(B2, m, S2, l, n)
  PROVE  Complete(B2, m2, S2, l2, k, d)
<1>1. PICK g \in Nat, Bounds \in SUBSET Nat, pre \in [Nat -> Nat] :
        /\ Whole(B, m, S, l, g, Bounds, pre) /\ Place(B, S, Bounds, pre, k, d)
        /\ Nothing(m, l, g, pre)
  BY Zenon DEF Complete
<1>2. g = m /\ pre[m + 1] = l /\ Whole(B, m, S, l, m, Bounds, pre)
  BY <1>1, Zenon DEF Nothing
<1> QED
  BY <1>1, <1>2, MessageAppended, Zenon

\* More tokens, or more bytes, behind what the reader will refuse.
LEMMA SpoiltGrows ==
  ASSUME NEW B, NEW m \in Nat, NEW S, NEW l \in Nat, NEW k \in Nat, NEW d \in Nat,
         Spoilt(B, m, S, l, k, d),
         NEW B2, NEW m2 \in Nat, NEW S2, NEW l2 \in Nat,
         m <= m2, Agree(B, m, B2), l <= l2, Agree(S, l, S2)
  PROVE  Spoilt(B2, m2, S2, l2, k, d)
<1>1. PICK g \in Nat, Bounds \in SUBSET Nat, pre \in [Nat -> Nat] :
        /\ Whole(B, m, S, l, g, Bounds, pre) /\ Place(B, S, Bounds, pre, k, d)
        /\ BadHeader(B, m, g)
  BY Zenon DEF Spoilt
<1>2. /\ Whole(B2, m2, S2, l2, g, Bounds, pre)
      /\ \A a \in Nat, e \in Nat :
           Place(B, S, Bounds, pre, a, e) => Place(B2, S2, Bounds, pre, a, e)
  BY <1>1, Grows
<1>3. g + 2 <= m2 /\ g + 2 \in 1 .. m
  BY <1>1 DEF BadHeader
<1>4. BadHeader(B2, m2, g)
  BY <1>1, <1>3, Zenon DEF BadHeader, Agree
<1> QED
  BY <1>1, <1>2, <1>4, Zenon DEF Spoilt

\* What a refused header, or the first tokens of a message, make of a body.
LEMMA CompleteEnds ==
  ASSUME NEW B, NEW m \in Nat, NEW S, NEW l \in Nat, NEW k \in Nat, NEW d \in Nat,
         Complete(B, m, S, l, k, d),
         NEW B2, NEW m2 \in Nat, m <= m2, Agree(B, m, B2)
  PROVE  /\ BadHeader(B2, m2, m) => Spoilt(B2, m2, S, l, k, d)
         /\ CutMessage(B2, m2, m) => Cut(B2, m2, S, l, k, d)
<1>1. PICK g \in Nat, Bounds \in SUBSET Nat, pre \in [Nat -> Nat] :
        /\ Whole(B, m, S, l, g, Bounds, pre) /\ Place(B, S, Bounds, pre, k, d)
        /\ Nothing(m, l, g, pre)
  BY Zenon DEF Complete
<1>2. Agree(S, l, S) /\ l <= l
  BY DEF Agree
<1>3. /\ Whole(B2, m2, S, l, g, Bounds, pre)
      /\ \A a \in Nat, e \in Nat :
           Place(B, S, Bounds, pre, a, e) => Place(B2, S, Bounds, pre, a, e)
  BY <1>1, <1>2, Grows
<1>4. g = m
  BY <1>1, Zenon DEF Nothing
<1> QED
  BY <1>1, <1>3, <1>4, Zenon DEF Spoilt, Cut

-----------------------------------------------------------------------------
(***************************************************************************)
(* The invariant.                                                          *)
(***************************************************************************)
WriterType ==
  /\ wpc \in [Writers -> {"new", "write", "done"}]
  /\ left \in [Writers -> 0 .. Bytes]
StreamType ==
  /\ body \in Seq(Token) /\ sent \in Seq(Byte)
  /\ got \in Seq(Byte) /\ cache \in Seq(Byte)
  /\ rpc \in {"idle", "header", "payload", "copy"} /\ need \in Nat
Type == WriterType /\ StreamType

\* One Write at a time has mu.
Held == \A w \in Writers : wpc[w] = "write" => wmu = w

\* What Read has returned, and then the cache, begin what was sent.
Received ==
  /\ Len(got) + Len(cache) <= Len(sent)
  /\ IsJoin(sent, got, Len(got), cache, Len(cache))

\* Read stops at its first error, and reads on only when the cache is empty.
Reader ==
  /\ rerr # "none" => rpc = "idle"
  /\ rpc \in {"header", "payload"} => cache = <<>>

\* No Write will append to the body.
Dead == werr /\ \A w \in Writers : wpc[w] # "write"

Due == IF rpc = "payload" THEN need ELSE 0

Framed ==
  \/ ~torn /\ Complete(body, Len(body), sent, Len(sent), Len(got) + Len(cache), Due)
  \/ torn /\ Spoilt(body, Len(body), sent, Len(sent), Len(got) + Len(cache), Due)
  \/ torn /\ Dead /\ Cut(body, Len(body), sent, Len(sent), Len(got) + Len(cache), Due)

\* Read will not look at the body again, or waits for the rest of a cut message.
Stopped == rpc = "idle" /\ (rerr # "none" \/ rclose \in {"finish", "done"})
Stuck == torn /\ Dead /\ rpc = "payload" /\ need > Len(body)

Stream == Stopped \/ Stuck \/ Framed

Flow == StreamType /\ Received /\ Reader /\ Stream

StreamInv == WriterType /\ Held /\ Flow

-----------------------------------------------------------------------------
(***************************************************************************)
(* Writing.                                                                *)
(***************************************************************************)
\* The next chunk of w is bytes of w.
LEMMA ChunkBytes ==
  ASSUME Type, NEW w \in Writers
  PROVE  /\ NextChunk(w) \in Seq(Byte) /\ Len(NextChunk(w)) <= Chunk
         /\ Len(NextChunk(w)) <= left[w]
         /\ \A i \in 1 .. Len(NextChunk(w)) : NextChunk(w)[i][1] = w
<1> DEFINE from == Bytes - left[w]
           size == IF left[w] < Chunk THEN left[w] ELSE Chunk
<1>1. left[w] \in 0 .. Bytes
  BY DEF Type, WriterType, StreamType
<1>2. from \in Nat /\ size \in Nat /\ size <= Chunk /\ size <= left[w]
  BY <1>1, ChunkType
<1>3. NextChunk(w) = [i \in 1 .. size |-> <<w, from + i>>]
  BY Zenon DEF NextChunk
<1> HIDE DEF from, size
<1>4. \A i \in 1 .. size : <<w, from + i>> \in Byte
  BY <1>2 DEF Byte
<1> DEFINE c == [i \in 1 .. size |-> <<w, from + i>>]
<1>5. c \in [1 .. size -> Byte] /\ \A i \in 1 .. size : c[i] = <<w, from + i>>
  BY <1>4, Zenon
<1>6. \A i \in 1 .. size : c[i][1] = w
  BY <1>5
<1> HIDE DEF c
<1>7. c \in Seq(Byte) /\ Len(c) = size
  BY <1>2, <1>5
<1> QED
  BY <1>2, <1>3, <1>6, <1>7, Zenon DEF c

\* What a message of bytes u after body B, and u after the sent bytes S, make.
LEMMA Written ==
  ASSUME NEW B \in Seq(Token), NEW S \in Seq(Byte), NEW u \in Seq(Byte)
  PROVE  /\ B \o Message(u) \in Seq(Token) /\ S \o u \in Seq(Byte)
         /\ Len(B \o Message(u)) = Len(B) + 2 + Len(u) /\ Len(S \o u) = Len(S) + Len(u)
         /\ Agree(B, Len(B), B \o Message(u)) /\ Agree(S, Len(S), S \o u)
         /\ Carries(B \o Message(u), Len(B), S \o u, Len(S), Len(u))
<1> DEFINE M == Message(u)
           n == Len(u)
           m == Len(B)
           l == Len(S)
           B2 == B \o M
           S2 == S \o u
<1>1. /\ M \in Seq(Token) /\ Len(M) = 2 + n /\ M[2].n = n
      /\ \A i \in 1 .. n : M[2 + i].b = u[i]
  BY MessageTokens, Zenon
<1>2. n \in Nat /\ m \in Nat /\ l \in Nat
  BY LenProperties, Zenon
<1> HIDE DEF M
<1>3. B2 \in Seq(Token) /\ Len(B2) = m + Len(M) /\ IsJoin(B2, B, m, M, Len(M))
  BY <1>1, Joined, Zenon
<1>4. S2 \in Seq(Byte) /\ Len(S2) = l + n /\ IsJoin(S2, S, l, u, n)
  BY Joined, Zenon
<1> HIDE DEF n, m, l, B2, S2
<1>5. Agree(B, m, B2) /\ Agree(S, l, S2)
  BY <1>3, <1>4, Zenon DEF IsJoin
<1>6. (\A i \in 1 .. 2 + n : B2[m + i] = M[i]) /\ (\A i \in 1 .. n : S2[l + i] = u[i])
  BY <1>1, <1>3, <1>4, Zenon DEF IsJoin
<1>7. Len(B2) = m + 2 + n /\ 2 \in 1 .. 2 + n
  BY <1>1, <1>2, <1>3
<1>8. ASSUME NEW i \in 1 .. n PROVE B2[m + 2 + i].b = S2[l + i]
  <2>1. 2 + i \in 1 .. 2 + n /\ m + (2 + i) = m + 2 + i
    BY <1>2
  <2>2. B2[m + (2 + i)] = M[2 + i]
    BY <1>6, <2>1, Zenon
  <2>3. M[2 + i].b = S2[l + i]
    BY <1>1, <1>6, Zenon
  <2> QED
    BY <2>1, <2>2, <2>3
<1>9. B2[m + 2].n = n
  BY <1>1, <1>6, <1>7, Zenon
<1>10. Carries(B2, m, S2, l, n)
  BY <1>8, <1>9, Zenon DEF Carries
<1> QED
  BY <1>3, <1>4, <1>5, <1>7, <1>10, Zenon DEF M, n, m, l, B2, S2

\* A writer that has mu is the only one.
LEMMA OneHolder ==
  ASSUME Held, NEW w \in Writers, wpc[w] = "write"
  PROVE  \A v \in Writers : wpc[v] = "write" => v = w
  BY Zenon DEF Held

\* Every step keeps what is known of the writers.
LEMMA WritersKept ==
  ASSUME Type, Held, [Next]_vars
  PROVE  /\ wpc' \in [Writers -> {"new", "write", "done"}]
         /\ left' \in [Writers -> 0 .. Bytes]
         /\ Held'
<1>0. wpc \in [Writers -> {"new", "write", "done"}] /\ left \in [Writers -> 0 .. Bytes]
  BY DEF Type, WriterType, StreamType
<1>1. ASSUME NEW w \in Writers, WriteLock(w)
      PROVE  wpc' \in [Writers -> {"new", "write", "done"}] /\ left' = left /\ Held'
  <2>1. wmu = "free" /\ left' = left
        /\ \/ wpc' = [wpc EXCEPT ![w] = "done"]
           \/ wpc' = [wpc EXCEPT ![w] = "write"] /\ wmu' = w
    BY <1>1, Zenon DEF WriteLock
  <2>2. \A v \in Writers : wpc[v] # "write"
    BY <2>1, WriterAssumption, Zenon DEF Held
  <2> QED
    BY <1>0, <2>1, <2>2 DEF Held
<1>2. ASSUME NEW w \in Writers, WriteMessage(w)
      PROVE  /\ wpc' \in [Writers -> {"new", "write", "done"}]
             /\ left' \in [Writers -> 0 .. Bytes] /\ Held'
  <2>1. /\ wpc[w] = "write"
        /\ left' = [left EXCEPT ![w] = left[w] - Len(NextChunk(w))]
        /\ \/ wpc' = [wpc EXCEPT ![w] = "done"]
           \/ wpc' = wpc /\ wmu' = wmu
    BY <1>2, Zenon DEF WriteMessage
  <2>2. left[w] - Len(NextChunk(w)) \in 0 .. Bytes
    <3>1. Len(NextChunk(w)) \in Nat /\ Len(NextChunk(w)) <= left[w]
      BY ChunkBytes, LenProperties, Zenon
    <3>2. left[w] \in 0 .. Bytes
      BY <1>0, Zenon
    <3> QED
      BY <3>1, <3>2, ChunkType
  <2>3. left' \in [Writers -> 0 .. Bytes]
    BY <1>0, <2>1, <2>2, Zenon
  <2>4. \A v \in Writers : wpc[v] = "write" => v = w /\ wmu = v
    BY <2>1, OneHolder, Zenon DEF Held
  <2>5. wpc' \in [Writers -> {"new", "write", "done"}] /\ Held'
    BY <1>0, <2>1, <2>4 DEF Held
  <2> QED
    BY <2>3, <2>5
<1>3. ASSUME NEW w \in Writers, NEW k \in 0 .. Chunk + 1, WriteFails(w, k)
      PROVE  wpc' \in [Writers -> {"new", "write", "done"}] /\ left' = left /\ Held'
  <2>1. wpc[w] = "write" /\ wpc' = [wpc EXCEPT ![w] = "done"] /\ left' = left
    BY <1>3, Zenon DEF WriteFails
  <2>2. \A v \in Writers : wpc[v] = "write" => v = w
    BY <2>1, OneHolder, Zenon
  <2> QED
    BY <1>0, <2>1, <2>2 DEF Held
<1>4. CASE UNCHANGED <<wpc, left, wmu>>
  BY <1>0, <1>4, Zenon DEF Held
<1>5. \/ UNCHANGED <<wpc, left, wmu>>
      \/ \E w \in Writers : \/ WriteLock(w) \/ WriteMessage(w)
                            \/ \E k \in 0 .. Chunk + 1 : WriteFails(w, k)
  BY Zenon DEF Next, vars, wvars, WriteBody, WriterClose, WriterCloseBody, Heartbeat,
               Malformed, Broken, ReadBegin, ReadHeader, ReadPayload, ReadMalformed, ReadFails, ReadCopy,
               ReaderClose, ReaderCloseBody, ReaderCloseClear, finish
<1> QED
  BY <1>0, <1>1, <1>2, <1>3, <1>4, <1>5, Zenon

\* What is appended to c does not change where a and b are in it.
LEMMA JoinGrows ==
  ASSUME NEW a, NEW m \in Nat, NEW b, NEW n \in Nat, NEW c, NEW l \in Nat, m + n <= l,
         NEW c2, IsJoin(c, a, m, b, n), Agree(c, l, c2)
  PROVE  IsJoin(c2, a, m, b, n)
<1>1. /\ \A i \in 1 .. m : i \in 1 .. l
      /\ \A i \in 1 .. n : m + i \in 1 .. l
  OBVIOUS
<1> QED
  BY <1>1, Zenon DEF IsJoin, Agree

\* The lengths of the sequences, and where the reader is.
LEMMA Lengths ==
  ASSUME Type
  PROVE  /\ Len(body) \in Nat /\ Len(sent) \in Nat /\ Len(got) \in Nat /\ Len(cache) \in Nat
         /\ Len(got) + Len(cache) \in Nat /\ Due \in Nat
<1>1. /\ body \in Seq(Token) /\ sent \in Seq(Byte) /\ got \in Seq(Byte) /\ cache \in Seq(Byte)
      /\ need \in Nat
  BY DEF Type, WriterType, StreamType
<1>2. /\ Len(body) \in Nat /\ Len(sent) \in Nat /\ Len(got) \in Nat /\ Len(cache) \in Nat
  BY <1>1, LenProperties, Zenon
<1>3. Due \in Nat
  BY <1>1 DEF Due
<1> QED
  BY <1>2, <1>3

\* A whole message of bytes u: WriteMessage, and with none Heartbeat.
LEMMA MessageKeeps ==
  ASSUME StreamInv, NEW u \in Seq(Byte), Len(u) <= Chunk,
         body' = body \o Message(u), sent' = sent \o u,
         torn' = torn, ~Dead \/ ~torn,
         UNCHANGED <<rvars, rclose, got>>
  PROVE  Flow'
<1> DEFINE m == Len(body)
           l == Len(sent)
           n == Len(u)
           k == Len(got) + Len(cache)
           m2 == Len(body')
           l2 == Len(sent')
<1>1. Type /\ StreamType /\ Received /\ Reader /\ Stream
  BY DEF StreamInv, Flow, Type
<1>2. m \in Nat /\ l \in Nat /\ k \in Nat /\ Due \in Nat /\ n \in Nat
      /\ Len(got) \in Nat /\ Len(cache) \in Nat /\ n <= Chunk
  BY <1>1, Lengths, LenProperties, Zenon
<1>3. UNCHANGED <<rpc, need, cache, rerr, rclose, got>>
  BY Zenon DEF rvars
<1>4. Due' = Due /\ (Len(got) + Len(cache))' = k
  BY <1>3, Zenon DEF Due
<1>5. /\ body' \in Seq(Token) /\ sent' \in Seq(Byte)
      /\ m2 = m + 2 + n /\ l2 = l + n
      /\ Agree(body, m, body') /\ Agree(sent, l, sent')
      /\ Carries(body', m, sent', l, n)
  <2>1. body \in Seq(Token) /\ sent \in Seq(Byte)
    BY <1>1, Zenon DEF Type, WriterType, StreamType
  <2> QED
    BY <2>1, Written, Zenon
<1> HIDE DEF m, l, n, m2, l2
<1>6. m2 \in Nat /\ l2 \in Nat /\ m <= m2 /\ l <= l2
  BY <1>2, <1>5
<1>7. Received'
  <2>1. k <= l2
    BY <1>1, <1>2, <1>6 DEF Received, l
  <2>2. IsJoin(sent, got, Len(got), cache, Len(cache)) /\ Len(got) + Len(cache) <= l
    BY <1>1, Zenon DEF Received, l
  <2>3. IsJoin(sent', got, Len(got), cache, Len(cache))
    BY <1>2, <1>5, <2>2, JoinGrows, Zenon
  <2> QED
    BY <1>3, <2>1, <2>3, Zenon DEF Received, l2
<1>8. ASSUME Stopped PROVE Stream'
  BY <1>3, <1>8, Zenon DEF Stream, Stopped
<1>9. ASSUME Framed PROVE Stream'
  <2>1. ASSUME ~torn, Complete(body, m, sent, l, k, Due) PROVE Framed'
    <3>1. Complete(body', m2, sent', l2, k, Due)
      BY <1>2, <1>5, <1>6, <2>1, CompleteGrows, Zenon
    <3> QED
      BY <1>4, <2>1, <3>1, Zenon DEF Framed, m2, l2
  <2>2. ASSUME torn, Spoilt(body, m, sent, l, k, Due) PROVE Framed'
    <3>1. Spoilt(body', m2, sent', l2, k, Due)
      BY <1>2, <1>5, <1>6, <2>2, SpoiltGrows, Zenon
    <3> QED
      BY <1>4, <2>2, <3>1, Zenon DEF Framed, m2, l2
  <2> QED
    BY <1>9, <2>1, <2>2, Zenon DEF Stream, Framed, m, l
<1>10. StreamType' /\ Reader'
  BY <1>1, <1>3, <1>5, Zenon DEF StreamType, Reader
<1> QED
  BY <1>1, <1>7, <1>8, <1>9, <1>10, Zenon DEF Stream, Stuck, Flow

\* The lengths and the shape of the body for a reader who goes on.
LEMMA Shape ==
  ASSUME Framed
  PROVE  \/ Complete(body, Len(body), sent, Len(sent), Len(got) + Len(cache), Due)
         \/ Spoilt(body, Len(body), sent, Len(sent), Len(got) + Len(cache), Due)
         \/ Cut(body, Len(body), sent, Len(sent), Len(got) + Len(cache), Due)
  BY Zenon DEF Framed

\* Steps that leave body, cache and Read alone: taking mu, the parts of Close,
\* the end of the body, a Write that fails before its first token.
LEMMA QuietKeeps ==
  ASSUME StreamInv, UNCHANGED <<body, sent, rvars, got>>, torn' <=> torn,
         Dead => Dead', Stopped => Stopped'
  PROVE  Flow'
<1>1. UNCHANGED <<body, sent, got, rpc, need, cache, rerr>>
  BY Zenon DEF rvars
<1>2. StreamType /\ Received /\ Reader /\ Stream
  BY Zenon DEF StreamInv, Flow
<1>3. StreamType' /\ Received' /\ Reader'
  BY <1>1, <1>2, Zenon DEF StreamType, Received, Reader
<1>4. Stuck => Stuck'
  <2>1. Stuck => torn /\ Dead /\ rpc = "payload" /\ need > Len(body)
    BY Zenon DEF Stuck
  <2>2. torn' /\ Dead' /\ rpc' = "payload" /\ need' > Len(body') => Stuck'
    BY Zenon DEF Stuck
  <2> QED
    BY <1>1, <2>1, <2>2
<1>5. Due' = Due
  BY <1>1, Zenon DEF Due
<1>6. Framed => Framed'
  BY <1>1, <1>5, Zenon DEF Framed
<1> QED
  BY <1>2, <1>3, <1>4, <1>6, Zenon DEF Stream, Flow

\* Tokens r that the reader will refuse: a malformed header, or the beginning of
\* a message whose Write failed.
LEMMA TailKeeps ==
  ASSUME StreamInv, NEW r \in Seq(Token), body' = body \o r, sent' = sent, torn',
         UNCHANGED <<rvars, rclose, got>>, ~(torn /\ Dead),
         \/ BadHeader(body', Len(body'), Len(body))
         \/ Dead' /\ CutMessage(body', Len(body'), Len(body))
  PROVE  Flow'
<1> DEFINE m == Len(body)
           l == Len(sent)
           k == Len(got) + Len(cache)
           m2 == Len(body')
<1>1. UNCHANGED <<sent, rpc, need, cache, rerr, rclose, got>>
  BY Zenon DEF rvars
<1>2. Type /\ StreamType /\ Received /\ Reader /\ Stream
  BY Zenon DEF StreamInv, Flow, Type
<1>3. m \in Nat /\ l \in Nat /\ k \in Nat /\ Due \in Nat /\ Len(r) \in Nat
  BY <1>2, Lengths, LenProperties, Zenon
<1>4. body' \in Seq(Token) /\ m2 = m + Len(r) /\ Agree(body, m, body')
  <2>1. body \in Seq(Token)
    BY <1>2, Zenon DEF StreamType
  <2> QED
    BY <2>1, Joined, Zenon DEF IsJoin
<1>5. StreamType' /\ Received' /\ Reader'
  BY <1>1, <1>2, <1>4, Zenon DEF StreamType, Received, Reader
<1>6. Due' = Due /\ (Len(got) + Len(cache))' = k
  BY <1>1, Zenon DEF Due
<1>7. Stopped => Stream'
  BY <1>1, Zenon DEF Stopped, Stream
<1>8. ASSUME Framed PROVE Framed'
  <2>0. BadHeader(body', m2, m) \/ (Dead' /\ CutMessage(body', m2, m))
    OBVIOUS
  <2> HIDE DEF m, l, k, m2
  <2>1. m2 \in Nat /\ m <= m2 /\ l <= l /\ Agree(sent, l, sent)
    BY <1>3, <1>4 DEF Agree
  <2>2. ASSUME Complete(body, m, sent, l, k, Due)
        PROVE  Spoilt(body', m2, sent, l, k, Due) \/ (Dead' /\ Cut(body', m2, sent, l, k, Due))
    BY <1>3, <1>4, <2>0, <2>1, <2>2, CompleteEnds, Zenon
  <2>3. ASSUME Spoilt(body, m, sent, l, k, Due)
        PROVE  Spoilt(body', m2, sent, l, k, Due)
    BY <1>3, <1>4, <2>1, <2>3, SpoiltGrows, Zenon
  <2>4. Complete(body, m, sent, l, k, Due) \/ Spoilt(body, m, sent, l, k, Due)
    BY <1>8, Zenon DEF Framed, m, l, k
  <2>5. Spoilt(body', m2, sent', l, k, Due') \/ (Dead' /\ Cut(body', m2, sent', l, k, Due'))
    BY <1>1, <1>6, <2>2, <2>3, <2>4, Zenon
  <2>6. l = Len(sent') /\ k = (Len(got) + Len(cache))'
    BY <1>1, <1>6, Zenon DEF l
  <2> QED
    BY <2>5, <2>6, Zenon DEF Framed, m2
<1> QED
  BY <1>2, <1>5, <1>7, <1>8, Zenon DEF Stream, Stuck, Flow

-----------------------------------------------------------------------------
(***************************************************************************)
(* The steps of the writer's side.                                         *)
(***************************************************************************)
\* WriteLock: after a failed Write no other begins.
LEMMA LockFlow ==
  ASSUME StreamInv, NEW w \in Writers, WriteLock(w)
  PROVE  Flow'
<1>1. UNCHANGED <<body, sent, torn, rvars, got, rclose, werr>>
  BY Zenon DEF WriteLock, ghost
<1>2. ASSUME Dead PROVE Dead'
  <2>1. werr /\ \A v \in Writers : wpc[v] # "write"
    BY <1>2, Zenon DEF Dead
  <2>2. wpc' = [wpc EXCEPT ![w] = "done"]
    BY <2>1, Zenon DEF WriteLock
  <2>3. wpc \in [Writers -> {"new", "write", "done"}]
    BY Zenon DEF StreamInv, WriterType
  <2>4. \A v \in Writers : wpc'[v] # "write"
    BY <2>1, <2>2, <2>3
  <2> QED
    BY <1>1, <2>1, <2>4 DEF Dead
<1>3. Stopped => Stopped'
  BY <1>1, Zenon DEF Stopped, rvars
<1> QED
  BY <1>1, <1>2, <1>3, QuietKeeps

\* WriteMessage: a chunk is at most Chunk long, and its writer has mu.
LEMMA MessageFlow ==
  ASSUME StreamInv, NEW w \in Writers, WriteMessage(w)
  PROVE  Flow'
<1>1. Type
  BY Zenon DEF StreamInv, Flow, Type
<1>2. NextChunk(w) \in Seq(Byte) /\ Len(NextChunk(w)) <= Chunk
  BY <1>1, ChunkBytes, Zenon
<1>3. /\ wpc[w] = "write" /\ body' = body \o Message(NextChunk(w))
      /\ sent' = sent \o NextChunk(w) /\ torn' = torn
      /\ UNCHANGED <<rvars, rclose, got>>
  BY Zenon DEF WriteMessage
<1>4. ~Dead
  BY <1>3, Zenon DEF Dead
<1> QED
  BY <1>2, <1>3, <1>4, MessageKeeps, Zenon

\* Heartbeat: a message without bytes.
LEMMA BeatFlow ==
  ASSUME StreamInv, Heartbeat
  PROVE  Flow'
<1>1. sent \in Seq(Byte)
  BY Zenon DEF StreamInv, Flow, StreamType
<1>2. <<>> \in Seq(Byte) /\ Len(<<>>) = 0
  BY EmptySeq, Zenon
<1>3. Len(<<>>) <= Chunk
  BY <1>2, ChunkType
<1>4. sent \o <<>> = sent
  BY <1>1, ConcatEmptySeq, Zenon
<1>5. /\ body' = body \o Message(<<>>) /\ sent' = sent \o <<>> /\ torn' = torn
      /\ ~torn /\ UNCHANGED <<rvars, rclose, got>>
  BY <1>4, Zenon DEF Heartbeat, ghost
<1> QED
  BY <1>2, <1>3, <1>5, MessageKeeps, Zenon

\* Malformed: its header says more than Chunk.
LEMMA MalformedFlow ==
  ASSUME StreamInv, Malformed
  PROVE  Flow'
<1> DEFINE r == <<[t |-> "flag"], [t |-> "size", n |-> Chunk + 1]>>
<1>1. body \in Seq(Token) /\ Len(body) \in Nat
  BY LenProperties, Zenon DEF StreamInv, Flow, StreamType
<1>2. r \in Seq(Token) /\ Len(r) = 2 /\ r[2].n = Chunk + 1
  <2>1. [t |-> "flag"] \in Token /\ [t |-> "size", n |-> Chunk + 1] \in Token
    BY ChunkType DEF Token
  <2> HIDE DEF Token
  <2> QED
    BY <2>1
<1>3. /\ body' = body \o r /\ sent' = sent /\ torn' /\ ~torn
      /\ UNCHANGED <<rvars, rclose, got>>
  BY Zenon DEF Malformed
<1> HIDE DEF r
<1>4. Len(body') = Len(body) + 2 /\ IsJoin(body', body, Len(body), r, 2)
  BY <1>1, <1>2, <1>3, Joined, Zenon
<1>5. body'[Len(body) + 2] = r[2]
  <2>1. 2 \in 1 .. 2
    OBVIOUS
  <2> QED
    BY <1>4, <2>1, Zenon DEF IsJoin
<1>6. BadHeader(body', Len(body'), Len(body))
  <2> DEFINE m == Len(body)
             m2 == Len(body')
             B2 == body'
  <2>1. m \in Nat /\ m2 = m + 2 /\ B2[m + 2].n = Chunk + 1
    BY <1>1, <1>2, <1>4, <1>5, Zenon
  <2> HIDE DEF m, m2, B2
  <2>2. BadHeader(B2, m2, m)
    BY <2>1, ChunkType DEF BadHeader
  <2> QED
    BY <2>2, Zenon DEF m, m2, B2
<1> QED
  BY <1>2, <1>3, <1>6, TailKeeps, Zenon

\* WriteFails: at k = 0 nothing was written, later a message is cut and no
\* Write follows.
LEMMA FailFlow ==
  ASSUME StreamInv, NEW w \in Writers, NEW k \in 0 .. Chunk + 1, WriteFails(w, k)
  PROVE  Flow'
<1> DEFINE M == Message(NextChunk(w))
           n == Len(NextChunk(w))
           r == SubSeq(M, 1, k)
<1>1. Type /\ Held /\ wpc \in [Writers -> {"new", "write", "done"}] /\ body \in Seq(Token)
  BY Zenon DEF StreamInv, Flow, Type, StreamType, WriterType
<1>2. /\ wpc[w] = "write" /\ wpc' = [wpc EXCEPT ![w] = "done"] /\ werr' = TRUE
      /\ body' = body \o r /\ sent' = sent /\ torn' = (torn \/ k > 0) /\ k < Len(M)
      /\ UNCHANGED <<rvars, rclose, got>>
  BY Zenon DEF WriteFails
<1>3. NextChunk(w) \in Seq(Byte) /\ n \in Nat
  BY <1>1, ChunkBytes, LenProperties, Zenon
<1>4. M \in Seq(Token) /\ Len(M) = 2 + n /\ M[2].n = n
  BY <1>3, MessageTokens, Zenon
<1>5. k \in Nat /\ 1 <= k + 1 /\ k <= Len(M) /\ k + 1 - 1 = k /\ 1 \in Nat /\ 1 <= 1
  BY <1>2, <1>3, <1>4, ChunkType
<1> HIDE DEF M, n
<1>6. r \in Seq(Token) /\ Len(r) = k /\ \A i \in 1 .. k : r[i] = M[1 - 1 + i]
  BY <1>4, <1>5, Part
<1> HIDE DEF r
<1>7. ~Dead /\ Dead'
  <2>1. \A v \in Writers : wpc[v] = "write" => v = w
    BY <1>1, <1>2, OneHolder, Zenon
  <2>2. \A v \in Writers : wpc'[v] # "write"
    BY <1>1, <1>2, <2>1
  <2> QED
    BY <1>2, <2>2, Zenon DEF Dead
<1>8. CASE k = 0
  <2>1. r = <<>>
    BY <1>6, <1>8
  <2>2. body' = body
    BY <1>1, <1>2, <2>1, ConcatEmptySeq, Zenon
  <2>3. Stopped => Stopped'
    BY <1>2, Zenon DEF Stopped, rvars
  <2>4. torn' <=> torn
    <3>1. ~(k > 0)
      BY <1>8
    <3> QED
      BY <1>2, <3>1, Zenon
  <2> QED
    BY <1>2, <1>7, <2>2, <2>3, <2>4, QuietKeeps, Zenon
<1>9. CASE k # 0
  <2>1. Len(body') = Len(body) + k /\ IsJoin(body', body, Len(body), r, k)
    BY <1>1, <1>2, <1>6, Joined, Zenon
  <2>2. k > 0 /\ torn' /\ Len(body) \in Nat
    <3>1. k > 0 /\ Len(body) \in Nat
      BY <1>1, <1>5, <1>9
    <3> QED
      BY <1>2, <3>1, Zenon
  <2> DEFINE m == Len(body)
             m2 == Len(body')
             B2 == body'
  <2>3. CutMessage(B2, m2, m)
    <3>1. m \in Nat /\ m2 = m + k /\ \A i \in 1 .. k : B2[m + i] = r[i]
      BY <2>1, <2>2, Zenon DEF IsJoin
    <3> HIDE DEF m, m2, B2
    <3>2. ASSUME m + 2 <= m2
          PROVE  B2[m + 2].n \in Nat /\ B2[m + 2].n > m2 - m - 2
      <4>1. 2 \in 1 .. k /\ 1 - 1 + 2 = 2
        BY <1>5, <3>1, <3>2
      <4>2. B2[m + 2] = r[2] /\ r[2] = M[1 - 1 + 2]
        BY <1>6, <3>1, <4>1, Zenon
      <4>3. B2[m + 2].n = n
        BY <1>4, <4>1, <4>2
      <4> QED
        BY <1>2, <1>3, <1>4, <1>5, <3>1, <4>3
    <3> QED
      BY <1>5, <2>2, <3>1, <3>2 DEF CutMessage
  <2> QED
    BY <1>2, <1>6, <1>7, <2>2, <2>3, TailKeeps, Zenon
<1> QED
  BY <1>8, <1>9

-----------------------------------------------------------------------------
(***************************************************************************)
(* The steps of the reader.                                                *)
(***************************************************************************)
\* ReadBegin: the cache first, the body when it is empty.
LEMMA BeginFlow ==
  ASSUME StreamInv, ReadBegin
  PROVE  Flow'
<1>1. /\ rpc = "idle" /\ rclose = "no" /\ rerr = "none"
      /\ rpc' = IF cache = <<>> THEN "header" ELSE "copy"
      /\ UNCHANGED <<body, sent, torn, got, need, cache, rerr, wpc, werr>>
  BY Zenon DEF ReadBegin, ghost, wvars
<1>2. StreamType /\ Received /\ Reader /\ Stream
  BY Zenon DEF StreamInv, Flow
<1>3. Framed
  <2>1. ~Stopped /\ ~Stuck
    BY <1>1 DEF Stopped, Stuck
  <2> QED
    BY <1>2, <2>1, Zenon DEF Stream
<1>4. rpc' \in {"header", "copy"} /\ (rpc' = "header" => cache = <<>>)
  BY <1>1
<1>5. Due' = Due
  BY <1>1, <1>4 DEF Due
<1>6. StreamType' /\ Reader'
  BY <1>1, <1>2, <1>4 DEF StreamType, Reader
<1>7. Received'
  BY <1>1, <1>2, Zenon DEF Received
<1>8. Framed'
  <2>1. (torn' <=> torn) /\ (Dead' <=> Dead)
    BY <1>1 DEF Dead
  <2> QED
    BY <1>1, <1>3, <1>5, <2>1, Zenon DEF Framed
<1> QED
  BY <1>6, <1>7, <1>8, Zenon DEF Flow, Stream

\* ReadHeader: a whole message follows, or one that will never be complete.
LEMMA HeaderFlow ==
  ASSUME StreamInv, ReadHeader
  PROVE  Flow'
<1> DEFINE m == Len(body)
           l == Len(sent)
           k == Len(got) + Len(cache)
           B2 == SubSeq(body, 3, Len(body))
           m2 == Len(B2)
<1>1. /\ rpc = "header" /\ m >= 2 /\ body[2].n <= Chunk
      /\ rpc' = "payload" /\ need' = body[2].n /\ body' = B2
      /\ UNCHANGED <<sent, torn, got, cache, rerr, rclose, wpc, werr>>
  BY Zenon DEF ReadHeader, ghost, wvars
<1>2. Type /\ StreamType /\ Received /\ Reader /\ Stream
  BY Zenon DEF StreamInv, Flow, Type
<1>3. Framed /\ Due = 0
  <2>1. ~Stopped /\ ~Stuck /\ Due = 0
    BY <1>1 DEF Stopped, Stuck, Due
  <2> QED
    BY <1>2, <2>1, Zenon DEF Stream
<1>4. m \in Nat /\ l \in Nat /\ k \in Nat
  BY <1>2, Lengths, Zenon
<1>5. B2 \in Seq(Token) /\ m2 = m - 2 /\ Behind(body, 2, B2, m2)
  <2>1. body \in Seq(Token) /\ 2 \in Nat /\ 2 <= Len(body) /\ 2 + 1 = 3
    BY <1>1, <1>2 DEF StreamType
  <2>2. /\ SubSeq(body, 2 + 1, Len(body)) \in Seq(Token)
        /\ Len(SubSeq(body, 2 + 1, Len(body))) = Len(body) - 2
        /\ \A i \in 1 .. Len(body) - 2 : SubSeq(body, 2 + 1, Len(body))[i] = body[2 + i]
    BY <2>1, Dropped, Zenon
  <2>3. B2 \in Seq(Token) /\ m2 = m - 2 /\ \A i \in 1 .. m - 2 : B2[i] = body[2 + i]
    BY <2>1, <2>2, Zenon
  <2> QED
    BY <2>3, Zenon DEF Behind
<1> HIDE DEF m, l, k, B2, m2
<1>6. m2 \in Nat /\ m = m2 + 2
  BY <1>1, <1>4, <1>5
<1>7. /\ Complete(body, m, sent, l, k, 0) =>
           body[2].n \in Nat /\ Complete(B2, m2, sent, l, k, body[2].n)
      /\ Spoilt(body, m, sent, l, k, 0) /\ body[2].n <= Chunk =>
           body[2].n \in Nat /\ Spoilt(B2, m2, sent, l, k, body[2].n)
      /\ Cut(body, m, sent, l, k, 0) =>
           body[2].n \in Nat /\ (Cut(B2, m2, sent, l, k, body[2].n) \/ body[2].n > m2)
  BY <1>4, <1>5, <1>6, HeaderMoves, Zenon
<1>8. \/ ~torn /\ Complete(body, m, sent, l, k, 0)
      \/ torn /\ Spoilt(body, m, sent, l, k, 0)
      \/ torn /\ Dead /\ Cut(body, m, sent, l, k, 0)
  BY <1>3, Zenon DEF Framed, m, l, k
<1>9. need' \in Nat
  BY <1>1, <1>7, <1>8, Zenon
<1>10. /\ Due' = body[2].n /\ Len(body') = m2
       /\ Len(sent') = l /\ (Len(got) + Len(cache))' = k
  BY <1>1, Zenon DEF Due, m2, l, k
<1>11. (torn' <=> torn) /\ (Dead' <=> Dead)
  BY <1>1 DEF Dead
<1>12. Stream'
  <2>1. \/ ~torn' /\ Complete(body', m2, sent', l, k, Due')
        \/ torn' /\ Spoilt(body', m2, sent', l, k, Due')
        \/ torn' /\ Dead' /\ (Cut(body', m2, sent', l, k, Due') \/ need' > m2)
    BY <1>1, <1>7, <1>8, <1>10, <1>11, Zenon
  <2> QED
    BY <1>1, <1>10, <2>1, Zenon DEF Stream, Framed, Stuck
<1>13. StreamType' /\ Reader'
  BY <1>1, <1>2, <1>5, <1>9 DEF StreamType, Reader
<1>14. Received'
  BY <1>1, <1>2, Zenon DEF Received
<1> QED
  BY <1>12, <1>13, <1>14, Zenon DEF Flow

\* Read gives up, or Close drops the cache: the body does not matter any more.
LEMMA StopFlow ==
  ASSUME StreamInv, ReadMalformed \/ ReadFails
  PROVE  Flow'
<1>1. /\ rpc' = "idle" /\ rerr' # "none"
      /\ UNCHANGED <<sent, got, cache, need>>
      /\ rpc \in {"header", "payload"}
  <2>1. EndOfBody # "none"
    BY DEF EndOfBody
  <2> QED
    BY <2>1 DEF ReadMalformed, ReadFails, ghost
<1>2. StreamType /\ Received
  BY Zenon DEF StreamInv, Flow
<1>3. body' \in Seq(Token)
  <2>1. body \in Seq(Token)
    BY <1>2, Zenon DEF StreamType
  <2>2. ASSUME ReadMalformed PROVE body' \in Seq(Token)
    <3>1. Len(body) >= 2 /\ body' = SubSeq(body, 3, Len(body))
      BY <2>2, Zenon DEF ReadMalformed
    <3> QED
      BY <2>1, <3>1
  <2>3. ReadFails => body' = body
    BY Zenon DEF ReadFails
  <2> QED
    BY <2>1, <2>2, <2>3, Zenon
<1>4. StreamType' /\ Reader'
  BY <1>1, <1>2, <1>3 DEF StreamType, Reader
<1>5. Received'
  BY <1>1, <1>2, Zenon DEF Received
<1>6. Stopped'
  BY <1>1, Zenon DEF Stopped
<1> QED
  BY <1>4, <1>5, <1>6, Zenon DEF Flow, Stream

\* ReaderCloseClear: what is left of the cache is dropped for good.
LEMMA ClearFlow ==
  ASSUME StreamInv, ReaderCloseClear
  PROVE  Flow'
<1>1. /\ rpc = "idle" /\ rclose' = "finish" /\ cache' = <<>>
      /\ UNCHANGED <<sent, got, body, need, rpc, rerr>>
  BY Zenon DEF ReaderCloseClear, ghost
<1>2. Type /\ StreamType /\ Received
  BY Zenon DEF StreamInv, Flow, Type
<1>3. <<>> \in Seq(Byte) /\ Len(<<>>) = 0
  BY EmptySeq, Zenon
<1>4. StreamType' /\ Reader'
  BY <1>1, <1>2, <1>3 DEF StreamType, Reader
<1>5. Received'
  <2> DEFINE g == Len(got)
             l == Len(sent)
  <2>1. g \in Nat /\ l \in Nat /\ Len(cache) \in Nat
    BY <1>2, Lengths, Zenon
  <2>2. g + Len(cache) <= l /\ Agree(got, g, sent)
    BY <1>2, Zenon DEF Received, IsJoin
  <2> HIDE DEF g, l
  <2>3. g + 0 <= l /\ \A i \in 1 .. 0 : sent[g + i] = <<>>[i]
    BY <2>1, <2>2
  <2> QED
    BY <1>1, <1>3, <2>2, <2>3, Zenon DEF Received, IsJoin, g, l
<1>6. Stopped'
  BY <1>1, Zenon DEF Stopped
<1> QED
  BY <1>4, <1>5, <1>6, Zenon DEF Flow, Stream

\* ReadPayload: the payload is the next need bytes of those sent.
LEMMA PayloadFlow ==
  ASSUME StreamInv, ReadPayload
  PROVE  Flow'
<1> DEFINE m == Len(body)
           l == Len(sent)
           g == Len(got)
           B2 == SubSeq(body, need + 1, Len(body))
           m2 == Len(B2)
           c == [i \in 1 .. need |-> body[i].b]
<1>1. /\ rpc = "payload" /\ m >= need /\ cache' = c /\ body' = B2
      /\ rpc' = (IF need = 0 THEN "header" ELSE "copy")
      /\ UNCHANGED <<sent, torn, got, need, rerr, rclose, wpc, werr>>
  BY Zenon DEF ReadPayload, ghost, wvars
<1>2. Type /\ StreamType /\ Reader /\ Stream /\ need \in Nat
  BY Zenon DEF StreamInv, Flow, Type, StreamType
<1>3. m \in Nat /\ l \in Nat /\ g \in Nat /\ Len(cache) = 0
  <2>1. cache = <<>>
    BY <1>1, <1>2 DEF Reader
  <2> QED
    BY <1>2, <2>1, Lengths, EmptySeq, Zenon
<1>4. Framed /\ Due = need
  <2>1. ~Stopped
    BY <1>1 DEF Stopped
  <2>2. ~Stuck
    BY <1>1, <1>2, <1>3 DEF Stuck
  <2>3. Due = need
    BY <1>1 DEF Due
  <2> QED
    BY <1>2, <2>1, <2>2, <2>3, Zenon DEF Stream
<1>5. B2 \in Seq(Token) /\ m2 = m - need /\ Behind(body, need, B2, m2)
  <2>1. body \in Seq(Token) /\ need <= Len(body)
    BY <1>1, <1>2, <1>3 DEF StreamType
  <2>2. /\ B2 \in Seq(Token) /\ m2 = m - need
        /\ \A i \in 1 .. m - need : B2[i] = body[need + i]
    BY <1>2, <2>1, Dropped, Zenon
  <2> HIDE DEF B2, m2, m
  <2> QED
    BY <2>2, Zenon DEF Behind
<1>6. c \in [1 .. need -> {body[i].b : i \in 1 .. need}] /\ \A i \in 1 .. need : c[i] = body[i].b
  BY Zenon
<1>7. g + Len(cache) = g
  BY <1>3
<1>8. \/ ~torn /\ Complete(body, m, sent, l, g, need)
      \/ torn /\ Spoilt(body, m, sent, l, g, need)
      \/ torn /\ Dead /\ Cut(body, m, sent, l, g, need)
  BY <1>4, <1>7, Zenon DEF Framed
<1>9. sent \in [1 .. l -> Byte] /\ got \in Seq(Byte) /\ sent \in Seq(Byte)
  BY <1>2, LenProperties, Zenon DEF StreamType
<1>10. IsJoin(sent, got, g, cache, Len(cache))
  BY Zenon DEF StreamInv, Flow, Received
<1> HIDE DEF m, l, g, B2, m2, c
<1>11. g + need <= l /\ Continues(body, need, sent, g)
  BY <1>2, <1>3, <1>8, NextBytes, Zenon
<1>12. \A i \in 1 .. need : c[i] = sent[g + i] /\ c[i] \in Byte
  <2> TAKE i \in 1 .. need
  <2>1. g + i \in 1 .. l
    BY <1>2, <1>3, <1>11
  <2>2. c[i] = sent[g + i]
    BY <1>6, <1>11, Zenon DEF Continues
  <2> QED
    BY <1>9, <2>1, <2>2, Zenon
<1>13. c \in Seq(Byte) /\ Len(c) = need
  <2>1. c \in [1 .. need -> Byte]
    BY <1>12, Zenon DEF c
  <2> HIDE DEF Byte
  <2> QED
    BY <1>2, <2>1
<1>14. g + need \in Nat /\ m2 \in Nat /\ m = m2 + need
  BY <1>1, <1>2, <1>3, <1>5
<1>15. /\ Complete(body, m, sent, l, g, need) => Complete(B2, m2, sent, l, g + need, 0)
       /\ Spoilt(body, m, sent, l, g, need) => Spoilt(B2, m2, sent, l, g + need, 0)
       /\ Cut(body, m, sent, l, g, need) => Cut(B2, m2, sent, l, g + need, 0)
  BY <1>2, <1>3, <1>5, <1>14, PayloadMoves, Zenon
<1>16. rpc' \in {"header", "copy"} /\ (rpc' = "header" => need = 0)
  BY <1>1
<1>17. /\ Due' = 0 /\ Len(body') = m2 /\ Len(sent') = l
       /\ (Len(got) + Len(cache))' = g + need
  <2>1. Due' = 0
    BY <1>16 DEF Due
  <2> QED
    BY <1>1, <1>13, <2>1, Zenon DEF m2, l, g
<1>18. Framed'
  <2>1. (torn' <=> torn) /\ (Dead' <=> Dead)
    BY <1>1 DEF Dead
  <2>2. \/ ~torn' /\ Complete(body', m2, sent', l, g + need, Due')
        \/ torn' /\ Spoilt(body', m2, sent', l, g + need, Due')
        \/ torn' /\ Dead' /\ Cut(body', m2, sent', l, g + need, Due')
    BY <1>1, <1>8, <1>15, <1>17, <2>1, Zenon
  <2> QED
    BY <1>17, <2>2, Zenon DEF Framed
<1>19. Received'
  <2>1. IsJoin(sent, got, g, c, need)
    BY <1>10, <1>12, Zenon DEF IsJoin
  <2> QED
    BY <1>1, <1>11, <1>13, <2>1, Zenon DEF Received, l, g
<1>20. StreamType'
  BY <1>1, <1>2, <1>5, <1>13, <1>16 DEF StreamType
<1>21. Reader'
  <2>1. need = 0 => c = <<>>
    BY <1>13
  <2>2. rerr = "none"
    BY <1>1, <1>2 DEF Reader
  <2> QED
    BY <1>1, <1>16, <2>1, <2>2 DEF Reader
<1> QED
  BY <1>18, <1>19, <1>20, <1>21, Zenon DEF Flow, Stream

\* Bytes that move from the cache to the caller's buffer keep their places.
LEMMA JoinSplit ==
  ASSUME NEW S, NEW a, NEW m \in Nat, NEW b, NEW n \in Nat, IsJoin(S, a, m, b, n),
         NEW k \in Nat, NEW n2 \in Nat, n = k + n2,
         NEW b1, \A i \in 1 .. k : b1[i] = b[i], NEW b2, Behind(b, k, b2, n2),
         NEW a2, IsJoin(a2, a, m, b1, k), NEW m2 \in Nat, m2 = m + k
  PROVE  IsJoin(S, a2, m2, b2, n2)
<1>1. /\ \A i \in 1 .. m : S[i] = a[i] /\ a2[i] = a[i]
      /\ \A i \in 1 .. n : S[m + i] = b[i]
      /\ \A i \in 1 .. k : a2[m + i] = b1[i]
      /\ \A i \in 1 .. n2 : b2[i] = b[k + i]
  BY Zenon DEF IsJoin, Agree, Behind
<1>2. ASSUME NEW i \in 1 .. m2 PROVE S[i] = a2[i]
  <2>1. CASE i <= m
    <3>1. i \in 1 .. m
      BY <2>1
    <3> QED
      BY <1>1, <3>1, Zenon
  <2>2. CASE ~(i <= m)
    <3> DEFINE j == i - m
    <3>1. j \in 1 .. k /\ j \in 1 .. n /\ m + j = i
      BY <2>2
    <3> HIDE DEF j
    <3>2. S[m + j] = b[j] /\ a2[m + j] = b[j]
      BY <1>1, <3>1, Zenon
    <3> QED
      BY <3>1, <3>2
  <2> QED
    BY <2>1, <2>2
<1>3. ASSUME NEW i \in 1 .. n2 PROVE S[m2 + i] = b2[i]
  <2>1. k + i \in 1 .. n /\ m + (k + i) = m2 + i
    OBVIOUS
  <2>2. S[m + (k + i)] = b[k + i] /\ b2[i] = b[k + i]
    BY <1>1, <2>1, Zenon
  <2> QED
    BY <2>1, <2>2
<1> QED
  BY <1>2, <1>3, Zenon DEF IsJoin, Agree

\* ReadCopy: the bytes leave the cache from its front.
LEMMA CopyFlow ==
  ASSUME StreamInv, NEW n \in ReadSizes, ReadCopy(n)
  PROVE  Flow'
<1> DEFINE g == Len(got)
           c == Len(cache)
           l == Len(sent)
           k == IF n < Len(cache) THEN n ELSE Len(cache)
           b1 == SubSeq(cache, 1, k)
           b2 == SubSeq(cache, k + 1, Len(cache))
<1>1. /\ rpc = "copy" /\ rpc' = "idle" /\ got' = got \o b1 /\ cache' = b2
      /\ UNCHANGED <<body, sent, torn, need, rerr, rclose, wpc, werr>>
  BY Zenon DEF ReadCopy, ghost, wvars
<1>2. Type /\ StreamType /\ Received /\ Reader /\ Stream
  BY Zenon DEF StreamInv, Flow, Type
<1>3. g \in Nat /\ c \in Nat /\ l \in Nat /\ got \in Seq(Byte) /\ cache \in Seq(Byte)
  BY <1>2, Lengths, Zenon DEF StreamType
<1>4. k \in Nat /\ k <= c /\ 1 <= k + 1 /\ 1 \in Nat /\ 1 <= 1 /\ k + 1 - 1 = k
      /\ \A i \in 1 .. k : 1 - 1 + i = i
  <2>1. n \in Nat
    BY SizesAssumption
  <2> QED
    BY <1>3, <2>1
<1> HIDE DEF k
<1>5. b1 \in Seq(Byte) /\ Len(b1) = k /\ \A i \in 1 .. k : b1[i] = cache[i]
  <2>1. /\ b1 \in Seq(Byte) /\ Len(b1) = k + 1 - 1
        /\ \A i \in 1 .. k + 1 - 1 : b1[i] = cache[1 - 1 + i]
    BY <1>3, <1>4, Part
  <2> HIDE DEF b1
  <2> QED
    BY <1>4, <2>1, Zenon
<1>6. b2 \in Seq(Byte) /\ Len(b2) = c - k /\ Behind(cache, k, b2, c - k)
  BY <1>3, <1>4, Dropped, Zenon DEF Behind
<1>7. got' \in Seq(Byte) /\ Len(got') = g + k /\ IsJoin(got', got, g, b1, k)
  BY <1>1, <1>3, <1>5, Joined, Zenon
<1>8. g + c <= l /\ IsJoin(sent, got, g, cache, c)
  BY <1>2, Zenon DEF Received
<1> HIDE DEF g, c, l, b1, b2
<1>9. c - k \in Nat /\ c = k + (c - k) /\ g + k \in Nat /\ (g + k) + (c - k) = g + c
  BY <1>3, <1>4
<1>10. IsJoin(sent, got', g + k, b2, c - k)
  BY <1>3, <1>4, <1>5, <1>6, <1>7, <1>8, <1>9, JoinSplit, Zenon
<1>11. (Len(got) + Len(cache))' = g + c
  BY <1>1, <1>6, <1>7, <1>9, Zenon
<1>12. Received'
  <2>1. Len(cache') = c - k /\ Len(sent') = l /\ (Len(got) + Len(cache))' <= l
    BY <1>1, <1>6, <1>8, <1>11, Zenon DEF l
  <2> QED
    BY <1>1, <1>7, <1>10, <2>1, Zenon DEF Received
<1>13. StreamType' /\ Reader'
  BY <1>1, <1>2, <1>6, <1>7 DEF StreamType, Reader
<1>14. Framed
  <2>1. ~Stopped /\ ~Stuck
    BY <1>1 DEF Stopped, Stuck
  <2> QED
    BY <1>2, <2>1, Zenon DEF Stream
<1>15. Framed'
  <2>1. (torn' <=> torn) /\ (Dead' <=> Dead) /\ Due = 0 /\ Due' = 0
    BY <1>1 DEF Dead, Due
  <2>2. (Len(got) + Len(cache))' = Len(got) + Len(cache)
    BY <1>11, Zenon DEF g, c
  <2> QED
    BY <1>1, <1>14, <2>1, <2>2, Zenon DEF Framed
<1> QED
  BY <1>12, <1>13, <1>15, Zenon DEF Flow, Stream

\* Every step keeps the stream, by the lemma of its action.
LEMMA FlowKept ==
  ASSUME StreamInv, [Next]_vars
  PROVE  Flow'
<1>1. ASSUME UNCHANGED <<body, wpc, werr, rvars, ghost, got>>, rclose' # rclose => rclose # "done",
             rclose' # rclose /\ rclose = "finish" => rclose' = "done"
      PROVE  Flow'
  <2>1. UNCHANGED <<body, sent, torn, rvars, got, wpc, werr, rpc, rerr>>
    BY <1>1, Zenon DEF ghost, rvars
  <2>2. (torn' <=> torn) /\ (Dead => Dead')
    BY <2>1 DEF Dead
  <2>3. Stopped => Stopped'
    BY <1>1, <2>1 DEF Stopped
  <2> QED
    BY <2>1, <2>2, <2>3, QuietKeeps, Zenon
<1>2. CASE \/ WriterClose \/ WriterCloseBody \/ Broken \/ ReaderClose \/ ReaderCloseBody
           \/ finish \/ UNCHANGED vars \/ \E w \in Writers : WriteBody(w)
  <2>1. /\ UNCHANGED <<body, wpc, werr, rvars, ghost, got>>
        /\ \/ rclose' = rclose
           \/ rclose \in {"no", "body"}
           \/ rclose = "finish" /\ rclose' = "done"
    BY <1>2 DEF WriteBody, WriterClose, WriterCloseBody, Broken, ReaderClose, ReaderCloseBody,
                finish, vars, wvars
  <2>2. /\ rclose' # rclose => rclose # "done"
        /\ rclose' # rclose /\ rclose = "finish" => rclose' = "done"
    BY <2>1
  <2> QED
    BY <1>1, <2>1, <2>2, Zenon
<1> QED
  BY <1>2, LockFlow, MessageFlow, FailFlow, BeatFlow, MalformedFlow, BeginFlow, HeaderFlow,
     PayloadFlow, StopFlow, CopyFlow, ClearFlow, Zenon DEF Next

\* At the start nothing was sent, and the body is an empty row of messages.
LEMMA StreamStarts ==
  ASSUME Init
  PROVE  StreamInv
<1>1. /\ wpc = [w \in Writers |-> "new"] /\ left = [w \in Writers |-> Bytes]
      /\ body = <<>> /\ sent = <<>> /\ got = <<>> /\ cache = <<>>
      /\ rpc = "idle" /\ need = 0 /\ rerr = "none" /\ torn = FALSE
  BY Zenon DEF Init
<1>2. WriterType /\ Held
  <2>1. Bytes \in 0 .. Bytes
    BY ChunkType
  <2> QED
    BY <1>1, <2>1 DEF WriterType, Held
<1>3. StreamType /\ Reader
  BY <1>1 DEF StreamType, Reader
<1>4. Len(<<>>) = 0
  OBVIOUS
<1>5. Received
  <2>1. /\ 0 + 0 <= 0 /\ \A i \in 1 .. 0 : sent[i] = got[i]
        /\ \A i \in 1 .. 0 : sent[0 + i] = cache[i]
    OBVIOUS
  <2>2. IsJoin(sent, got, 0, cache, 0)
    BY <2>1, Zenon DEF IsJoin, Agree
  <2> QED
    BY <1>1, <1>4, <2>1, <2>2, Zenon DEF Received
<1>6. Complete(body, 0, sent, 0, 0, 0)
  <2> DEFINE Bounds == {1}
             pre == [p \in Nat |-> 0]
  <2>1. /\ Bounds \in SUBSET Nat /\ pre \in [Nat -> Nat] /\ 0 \in Nat
        /\ 0 + 1 = 1 /\ 0 <= 0 /\ 0 + 1 \in Bounds /\ pre[0 + 1] = 0 /\ pre[0 + 1] = 0 + 0
        /\ \A p \in Bounds : 1 <= p /\ p <= 0 + 1 /\ pre[p] <= 0
        /\ \A p \in Bounds : ~(p <= 0)
        /\ \A i \in 1 .. 0 : body[i].b = sent[0 + i]
    OBVIOUS
  <2> HIDE DEF Bounds, pre
  <2>2. Whole(body, 0, sent, 0, 0, Bounds, pre)
    BY <2>1, Zenon DEF Whole
  <2>3. Place(body, sent, Bounds, pre, 0, 0) /\ Nothing(0, 0, 0, pre)
    BY <2>1, Zenon DEF Place, Continues, Nothing
  <2> QED
    BY <2>1, <2>2, <2>3, Zenon DEF Complete
<1>7. Framed
  <2>1. Len(body) = 0 /\ Len(sent) = 0 /\ Len(got) + Len(cache) = 0 /\ Due = 0
    BY <1>1 DEF Due
  <2>2. ~torn
    BY <1>1
  <2> QED
    BY <1>6, <2>1, <2>2, Zenon DEF Framed
<1> QED
  BY <1>2, <1>3, <1>5, <1>7, Zenon DEF StreamInv, Flow, Stream

\* StreamInv is inductive.
LEMMA StreamKept ==
  ASSUME StreamInv, [Next]_vars
  PROVE  StreamInv'
<1>1. Type /\ Held
  BY Zenon DEF StreamInv, Flow, Type
<1>2. WriterType' /\ Held'
  BY <1>1, WritersKept, Zenon DEF WriterType
<1> QED
  BY <1>2, FlowKept, Zenon DEF StreamInv

-----------------------------------------------------------------------------
(***************************************************************************)
(* The writes stay apart.                                                  *)
(***************************************************************************)
\* In the l bytes S no writer's bytes have another's among them.
Apart(S, l) ==
  \A i, j, k \in 1 .. l : i < j /\ j < k /\ S[i][1] = S[k][1] => S[j][1] = S[i][1]

\* The bytes of w are the last ones.
LastRun(S, l, w) == \A i, j \in 1 .. l : i < j /\ S[i][1] = w => S[j][1] = w

\* A Write that has not begun has no bytes, and the bytes of the Write that has
\* mu come last.
Runs ==
  /\ \A i \in 1 .. Len(sent) : wpc[sent[i][1]] # "new"
  /\ \A w \in Writers : wpc[w] = "write" => LastRun(sent, Len(sent), w)
  /\ Apart(sent, Len(sent))

\* More bytes of the writer whose bytes come last.
LEMMA RunGrows ==
  ASSUME NEW S, NEW l \in Nat, NEW w, Apart(S, l), LastRun(S, l, w),
         NEW S2, NEW n \in Nat, NEW l2 \in Nat, l2 = l + n,
         Agree(S, l, S2), \A i \in 1 .. n : S2[l + i][1] = w
  PROVE  Apart(S2, l2) /\ LastRun(S2, l2, w)
<1>1. ASSUME NEW i \in 1 .. l2, i <= l PROVE i \in 1 .. l /\ S2[i] = S[i]
  <2>1. i \in 1 .. l
    BY <1>1
  <2> QED
    BY <2>1, Zenon DEF Agree
<1>2. ASSUME NEW i \in 1 .. l2, ~(i <= l) PROVE S2[i][1] = w
  <2>1. i - l \in 1 .. n /\ l + (i - l) = i
    BY <1>2
  <2>2. S2[l + (i - l)][1] = w
    BY <2>1, Zenon
  <2> QED
    BY <2>1, <2>2
<1>3. ASSUME NEW i \in 1 .. l2, NEW j \in 1 .. l2, i < j, S2[i][1] = w
      PROVE  S2[j][1] = w
  <2>1. CASE j <= l
    <3>1. i <= l
      BY <1>3, <2>1
    <3>2. i \in 1 .. l /\ j \in 1 .. l /\ S2[i] = S[i] /\ S2[j] = S[j]
      BY <1>1, <2>1, <3>1, Zenon
    <3>3. S[i][1] = w
      BY <1>3, <3>2, Zenon
    <3>4. S[j][1] = w
      BY <1>3, <3>2, <3>3, Zenon DEF LastRun
    <3> QED
      BY <3>2, <3>4, Zenon
  <2> QED
    BY <1>2, <2>1, Zenon
<1>4. ASSUME NEW i \in 1 .. l2, NEW j \in 1 .. l2, NEW k \in 1 .. l2,
             i < j, j < k, S2[i][1] = S2[k][1]
      PROVE  S2[j][1] = S2[i][1]
  <2>1. CASE k <= l
    <3>1. i <= l /\ j <= l
      BY <1>4, <2>1
    <3>2. /\ i \in 1 .. l /\ j \in 1 .. l /\ k \in 1 .. l
          /\ S2[i] = S[i] /\ S2[j] = S[j] /\ S2[k] = S[k]
      BY <1>1, <2>1, <3>1, Zenon
    <3>3. S[i][1] = S[k][1]
      BY <1>4, <3>2, Zenon
    <3>4. S[j][1] = S[i][1]
      BY <1>4, <3>2, <3>3, Zenon DEF Apart
    <3> QED
      BY <3>2, <3>4, Zenon
  <2>2. CASE ~(k <= l)
    BY <1>2, <1>3, <1>4, <2>2, Zenon
  <2> QED
    BY <2>1, <2>2, Zenon
<1>5. LastRun(S2, l2, w)
  BY <1>3, Zenon DEF LastRun
<1>6. Apart(S2, l2)
  BY <1>4, Zenon DEF Apart
<1> QED
  BY <1>5, <1>6

\* Write holds mu for all its messages, so its bytes stay together.
LEMMA RunsKept ==
  ASSUME StreamInv, Runs, [Next]_vars
  PROVE  Runs'
<1>1. /\ Type /\ Held /\ wpc \in [Writers -> {"new", "write", "done"}]
      /\ sent \in Seq(Byte) /\ Len(sent) \in Nat
  BY LenProperties, Zenon DEF StreamInv, Flow, Type, WriterType, StreamType
<1>2. /\ \A i \in 1 .. Len(sent) : wpc[sent[i][1]] # "new"
      /\ \A w \in Writers : wpc[w] = "write" => LastRun(sent, Len(sent), w)
      /\ Apart(sent, Len(sent))
  BY Zenon DEF Runs
<1>3. \A i \in 1 .. Len(sent) : sent[i][1] \in Writers
  <2>1. \A i \in 1 .. Len(sent) : sent[i] \in Byte
    BY <1>1
  <2> QED
    BY <2>1 DEF Byte
<1>4. ASSUME NEW w \in Writers, WriteLock(w) PROVE Runs'
  <2>1. /\ wpc[w] = "new" /\ sent' = sent
        /\ wpc' = [wpc EXCEPT ![w] = "done"] \/ wpc' = [wpc EXCEPT ![w] = "write"]
    BY <1>4, Zenon DEF WriteLock, ghost
  <2>2. \A i \in 1 .. Len(sent) : sent[i][1] # w
    BY <1>2, <2>1, Zenon
  <2>3. LastRun(sent, Len(sent), w)
    BY <2>2, Zenon DEF LastRun
  <2>4. /\ \A v \in Writers : v # w => wpc'[v] = wpc[v]
        /\ wpc'[w] # "new"
    BY <1>1, <2>1
  <2>5. \A i \in 1 .. Len(sent) : wpc'[sent[i][1]] # "new"
    BY <1>2, <1>3, <2>2, <2>4, Zenon
  <2>6. \A v \in Writers : wpc'[v] = "write" => LastRun(sent, Len(sent), v)
    BY <1>2, <2>3, <2>4, Zenon
  <2> QED
    BY <1>2, <2>1, <2>5, <2>6, Zenon DEF Runs
<1>5. ASSUME NEW w \in Writers, WriteMessage(w) PROVE Runs'
  <2> DEFINE u == NextChunk(w)
             l == Len(sent)
             n == Len(u)
             l2 == Len(sent')
  <2>1. /\ wpc[w] = "write" /\ sent' = sent \o u
        /\ wpc' = [wpc EXCEPT ![w] = "done"] \/ wpc' = wpc
    BY <1>5, Zenon DEF WriteMessage
  <2>2. u \in Seq(Byte) /\ n \in Nat /\ \A i \in 1 .. n : u[i][1] = w
    BY <1>1, ChunkBytes, LenProperties, Zenon
  <2> HIDE DEF u
  <2>3. l2 = l + n /\ IsJoin(sent', sent, l, u, n)
    BY <1>1, <2>1, <2>2, Joined, Zenon
  <2>4. Agree(sent, l, sent') /\ \A i \in 1 .. n : sent'[l + i][1] = w
    BY <2>2, <2>3, Zenon DEF IsJoin
  <2>5. l \in Nat /\ LastRun(sent, l, w) /\ Apart(sent, l)
    BY <1>1, <1>2, <2>1, Zenon
  <2>6. \A v \in Writers : wpc[v] = "write" => v = w
    BY <1>1, <2>1, OneHolder, Zenon
  <2>7. /\ \A v \in Writers : wpc'[v] = "write" => v = w
        /\ wpc'[w] # "new" /\ \A v \in Writers : v # w => wpc'[v] = wpc[v]
    BY <1>1, <2>1, <2>6
  <2>8. \A i \in 1 .. l : wpc[sent[i][1]] # "new" /\ sent[i][1] \in Writers
    BY <1>2, <1>3, Zenon
  <2> DEFINE S2 == sent'
  <2> HIDE DEF l, n, l2, S2
  <2>9. l2 \in Nat
    BY <2>2, <2>3, <2>5
  <2>10. Apart(S2, l2) /\ LastRun(S2, l2, w)
    BY <2>2, <2>3, <2>4, <2>5, <2>9, RunGrows, Zenon DEF S2
  <2>11. ASSUME NEW i \in 1 .. l2 PROVE wpc'[S2[i][1]] # "new"
    <3>1. CASE i <= l
      <4>1. i \in 1 .. l
        BY <2>5, <3>1
      <4>2. S2[i] = sent[i]
        BY <2>4, <4>1, Zenon DEF Agree, S2
      <4>3. wpc[sent[i][1]] # "new" /\ sent[i][1] \in Writers
        BY <2>8, <4>1, Zenon
      <4> QED
        BY <2>7, <4>2, <4>3, Zenon
    <3>2. CASE ~(i <= l)
      <4>1. i - l \in 1 .. n /\ l + (i - l) = i
        BY <2>2, <2>3, <2>5, <3>2
      <4>2. S2[l + (i - l)][1] = w
        BY <2>4, <4>1, Zenon DEF S2
      <4>3. S2[i][1] = w
        BY <4>1, <4>2
      <4> QED
        BY <2>7, <4>3, Zenon
    <3> QED
      BY <3>1, <3>2, Zenon
  <2> QED
    BY <2>7, <2>10, <2>11, Zenon DEF Runs, S2, l2
<1>6. ASSUME NEW w \in Writers, NEW k \in 0 .. Chunk + 1, WriteFails(w, k) PROVE Runs'
  <2>1. wpc' = [wpc EXCEPT ![w] = "done"] /\ sent' = sent
    BY <1>6, Zenon DEF WriteFails
  <2>2. \A v \in Writers : wpc'[v] = wpc[v] \/ wpc'[v] = "done"
    BY <1>1, <2>1
  <2>3. \A i \in 1 .. Len(sent) : wpc'[sent[i][1]] # "new"
    <3> TAKE i \in 1 .. Len(sent)
    <3>1. sent[i][1] \in Writers /\ wpc[sent[i][1]] # "new"
      BY <1>2, <1>3, Zenon
    <3> QED
      BY <2>2, <3>1
  <2>4. \A v \in Writers : wpc'[v] = "write" => LastRun(sent, Len(sent), v)
    <3> TAKE v \in Writers
    <3>1. wpc'[v] = "write" => wpc[v] = "write"
      BY <2>2
    <3> QED
      BY <1>2, <3>1, Zenon
  <2> QED
    BY <1>2, <2>1, <2>3, <2>4, Zenon DEF Runs
<1>7. CASE wpc' = wpc /\ sent' = sent
  BY <1>2, <1>7, Zenon DEF Runs
<1>8. \/ wpc' = wpc /\ sent' = sent
      \/ \E w \in Writers : \/ WriteLock(w) \/ WriteMessage(w)
                            \/ \E k \in 0 .. Chunk + 1 : WriteFails(w, k)
  BY Zenon DEF Next, vars, wvars, ghost, WriteBody, WriterClose, WriterCloseBody, Heartbeat, Malformed,
               Broken, ReadBegin, ReadHeader, ReadPayload, ReadMalformed, ReadFails, ReadCopy,
               ReaderClose, ReaderCloseBody, ReaderCloseClear, finish
<1> QED
  BY <1>4, <1>5, <1>6, <1>7, <1>8, Zenon

-----------------------------------------------------------------------------
(***************************************************************************)
(* Theorems                                                                *)
(***************************************************************************)
\* Two sequences that are both a then b are the same up to there.
LEMMA JoinsAgree ==
  ASSUME NEW S, NEW T, NEW a, NEW m \in Nat, NEW b, NEW n \in Nat,
         IsJoin(S, a, m, b, n), IsJoin(T, a, m, b, n)
  PROVE  Agree(S, m + n, T)
<1>1. ASSUME NEW i \in 1 .. m + n PROVE T[i] = S[i]
  <2>1. CASE i <= m
    <3>1. i \in 1 .. m
      BY <2>1
    <3> QED
      BY <3>1, Zenon DEF IsJoin, Agree
  <2>2. CASE ~(i <= m)
    <3> DEFINE j == i - m
    <3>1. j \in 1 .. n /\ m + j = i
      BY <2>2
    <3> HIDE DEF j
    <3>2. S[m + j] = b[j] /\ T[m + j] = b[j]
      BY <3>1, Zenon DEF IsJoin
    <3> QED
      BY <3>1, <3>2
  <2> QED
    BY <2>1, <2>2
<1> QED
  BY <1>1, Zenon DEF Agree

\* InOrder from the invariant.
LEMMA InOrderFollows ==
  ASSUME StreamInv, Runs
  PROVE  InOrder
<1> DEFINE s == got \o cache
           n == Len(got) + Len(cache)
           q == SubSeq(sent, 1, n)
<1>1. /\ got \in Seq(Byte) /\ cache \in Seq(Byte) /\ sent \in Seq(Byte)
      /\ Len(got) \in Nat /\ Len(cache) \in Nat /\ Len(sent) \in Nat /\ n \in Nat
      /\ DOMAIN sent = 1 .. Len(sent)
  BY Lengths, LenProperties, Zenon DEF StreamInv, Flow, StreamType, Type
<1>2. n <= Len(sent) /\ IsJoin(sent, got, Len(got), cache, Len(cache))
  BY Zenon DEF StreamInv, Flow, Received
<1>3. s \in Seq(Byte) /\ Len(s) = n /\ IsJoin(s, got, Len(got), cache, Len(cache))
  BY <1>1, Joined, Zenon
<1>4. Agree(s, n, sent)
  BY <1>1, <1>2, <1>3, JoinsAgree, Zenon
<1>5. \E m \in 0 .. Len(sent) : s = SubSeq(sent, 1, m)
  <2> HIDE DEF s, n
  <2>1. n \in 0 .. Len(sent)
    BY <1>1, <1>2
  <2>2. q \in Seq(Byte) /\ Len(q) = n /\ Agree(sent, n, q)
    BY <1>1, <1>2, First, Zenon
  <2> HIDE DEF q
  <2>3. Len(s) = Len(q) /\ \A i \in 1 .. Len(s) : s[i] = q[i]
    BY <1>3, <1>4, <2>2, Zenon DEF Agree
  <2>4. s = q
    BY <1>3, <2>2, <2>3, SeqEqual, Zenon
  <2> QED
    BY <2>1, <2>4, Zenon DEF q
<1>6. Apart(sent, Len(sent))
  BY Zenon DEF Runs
<1> QED
  BY <1>1, <1>5, <1>6, Zenon DEF InOrder, Apart

\* grpcReader returns the bytes of the writes in order, and no write's bytes
\* are among another's: for any writers, write, chunk and buffer sizes, with
\* heartbeats, failing writes and a broken or closed body.
THEOREM StreamInOrder == Spec => []InOrder
<1>1. Init => StreamInv /\ Runs
  <2>1. ASSUME Init PROVE Runs
    <3>1. wpc = [w \in Writers |-> "new"] /\ Len(sent) = 0
      BY <2>1 DEF Init
    <3>2. /\ \A i \in 1 .. 0 : wpc[sent[i][1]] # "new"
          /\ \A w \in Writers : wpc[w] # "write"
          /\ 1 .. 0 = {}
      BY <3>1
    <3> QED
      BY <3>1, <3>2, Zenon DEF Runs, Apart
  <2> QED
    BY <2>1, StreamStarts, Zenon
<1>2. StreamInv /\ Runs /\ [Next]_vars => (StreamInv /\ Runs)'
  BY StreamKept, RunsKept, Zenon
<1>3. StreamInv /\ Runs => InOrder
  BY InOrderFollows, Zenon
<1> QED
  BY <1>1, <1>2, <1>3, PTL DEF Spec

\* After io.EOF the body has ended, so that what CleanEnd says stays true.
Ended == CleanEnd /\ (rerr = "EOF" => end # "open")

\* A reader between two messages of an exhausted body has everything.
LEMMA AllRead ==
  ASSUME StreamInv, rpc = "header", body = <<>>
  PROVE  got = sent /\ ~torn
<1> DEFINE l == Len(sent)
           g == Len(got)
<1>1. /\ Type /\ Reader /\ Stream /\ Received
      /\ got \in Seq(Byte) /\ sent \in Seq(Byte)
  BY Zenon DEF StreamInv, Flow, Type, StreamType
<1>2. Framed /\ Due = 0
  <2>1. ~Stopped /\ ~Stuck /\ Due = 0
    BY DEF Stopped, Stuck, Due
  <2> QED
    BY <1>1, <2>1, Zenon DEF Stream
<1>3. Len(body) = 0 /\ Len(cache) = 0
  <2>1. cache = <<>>
    BY <1>1 DEF Reader
  <2> QED
    BY <2>1
<1>4. l \in Nat /\ g \in Nat /\ g + Len(cache) = g
  <2>1. l \in Nat /\ g \in Nat
    BY <1>1, Lengths, Zenon
  <2> QED
    BY <1>3, <2>1
<1>5. \/ ~torn /\ Complete(body, 0, sent, l, g, 0)
      \/ Spoilt(body, 0, sent, l, g, 0) \/ Cut(body, 0, sent, l, g, 0)
  BY <1>2, <1>3, <1>4, Zenon DEF Framed
<1>6. ~torn /\ g = l
  BY <1>4, <1>5, EmptyBody, Zenon
<1>7. \A i \in 1 .. g : got[i] = sent[i]
  BY <1>1, Zenon DEF Received, IsJoin, Agree
<1>8. got = sent
  BY <1>1, <1>6, <1>7, SeqEqual, Zenon
<1> QED
  BY <1>6, <1>8

\* Nothing is read, sent or spoilt after io.EOF.
LEMMA EndedKept ==
  ASSUME StreamInv, Ended, [Next]_vars
  PROVE  Ended'
<1>1. ASSUME ReadFails PROVE Ended'
  <2>1. /\ rerr' = EndOfBody /\ UNCHANGED <<response, got, sent, torn, end, trailer>>
        /\ BodyClosed \/ end # "open"
    BY <1>1, Zenon DEF ReadFails, ghost
  <2>2. ASSUME rerr' = "EOF"
        PROVE  /\ ~BodyClosed /\ rpc = "header" /\ body = <<>>
               /\ ~(response /\ trailer # "0")
    BY <2>1, <2>2 DEF EndOfBody
  <2>3. ASSUME rerr' = "EOF" PROVE got = sent /\ ~torn
    BY <2>2, <2>3, AllRead, Zenon
  <2> QED
    BY <2>1, <2>2, <2>3 DEF Ended, CleanEnd
<1>2. ASSUME rerr' = "EOF", rerr = "EOF",
             UNCHANGED <<response, got, sent, end, trailer>>, torn => torn', torn' => torn
      PROVE  Ended'
  BY <1>2 DEF Ended, CleanEnd
<1>3. ASSUME rerr' # "EOF" PROVE Ended'
  BY <1>3, Zenon DEF Ended, CleanEnd
<1>4. ASSUME ~ReadFails, rerr' = "EOF"
      PROVE  /\ rerr = "EOF" /\ UNCHANGED <<response, got, sent, end, trailer>>
             /\ (torn => torn') /\ (torn' => torn)
  <2>1. rerr = "EOF"
    BY <1>4, Zenon DEF Next, vars, rvars, WriteLock, WriteBody, WriteMessage, WriteFails,
       WriterClose, WriterCloseBody, Heartbeat, Malformed, Broken, ReadBegin, ReadHeader, ReadPayload,
       ReadMalformed, ReadCopy, ReaderClose, ReaderCloseBody, ReaderCloseClear, finish
  <2>2. end # "open" /\ rpc = "idle"
    BY <2>1 DEF Ended, StreamInv, Flow, Reader
  <2>3. ASSUME NEW w \in Writers, NEW k \in 0 .. Chunk + 1, WriteFails(w, k)
        PROVE  /\ UNCHANGED <<response, got, sent, end, trailer>>
               /\ (torn => torn') /\ (torn' => torn)
    <3>1. k = 0 /\ torn' = (torn \/ k > 0)
      BY <2>2, <2>3, Zenon DEF WriteFails
    <3>2. ~(k > 0)
      BY <3>1
    <3> QED
      BY <2>3, <3>1, <3>2, Zenon DEF WriteFails
  <2>4. ASSUME ~\E w \in Writers : \E k \in 0 .. Chunk + 1 : WriteFails(w, k)
        PROVE  UNCHANGED <<response, got, sent, torn, end, trailer>>
    BY <1>4, <2>2, <2>4, Zenon DEF Next, vars, ghost, WriteLock, WriteBody, WriteMessage,
       WriterClose, WriterCloseBody, Heartbeat, Malformed, Broken, ReadBegin, ReadHeader, ReadPayload,
       ReadMalformed, ReadCopy, ReaderClose, ReaderCloseBody, ReaderCloseClear, finish
  <2>5. ASSUME ~\E w \in Writers : \E k \in 0 .. Chunk + 1 : WriteFails(w, k)
        PROVE  (torn => torn') /\ (torn' => torn)
    BY <2>4, <2>5
  <2> QED
    BY <2>1, <2>3, <2>4, <2>5, Zenon
<1> QED
  BY <1>1, <1>2, <1>3, <1>4, Zenon

\* io.EOF is the end of a whole stream: never a body cut in a header or in a
\* message, and never a response without Grpc-Status 0.
THEOREM EndIsClean == Spec => []CleanEnd
<1>1. Init => StreamInv /\ Ended
  <2>1. Init => Ended
    BY DEF Init, Ended, CleanEnd
  <2> QED
    BY <2>1, StreamStarts, Zenon
<1>2. StreamInv /\ Ended /\ [Next]_vars => (StreamInv /\ Ended)'
  BY StreamKept, EndedKept, Zenon
<1>3. Ended => CleanEnd
  BY Zenon DEF Ended
<1> QED
  BY <1>1, <1>2, <1>3, PTL DEF Spec

\* finish comes after the Close that waited for the Read in flight.
Published ==
  /\ StatusHonest
  /\ status # "none" => rclose = "done"
  /\ rclose \in {"finish", "done"} => rpc = "idle"

\* The status finish publishes is that of everything the reader met: no Read is
\* in flight whose error it could miss.
THEOREM StatusIsHonest == Spec => []StatusHonest
<1>1. Init => Published
  BY DEF Init, Published, StatusHonest
<1>2. ASSUME Published, [Next]_vars PROVE Published'
  <2>1. CASE \E w \in Writers : \/ WriteLock(w) \/ WriteBody(w) \/ WriteMessage(w)
                                \/ \E k \in 0 .. Chunk + 1 : WriteFails(w, k)
    <3>1. UNCHANGED <<status, rclose, rerr, rpc>>
      BY <2>1, Zenon DEF WriteLock, WriteBody, WriteMessage, WriteFails, rvars
    <3> QED
      BY <1>2, <3>1 DEF Published, StatusHonest
  <2>2. CASE \/ WriterClose \/ WriterCloseBody \/ Heartbeat \/ Malformed \/ Broken
             \/ UNCHANGED vars
    <3>1. UNCHANGED <<status, rclose, rerr, rpc>>
      BY <2>2, Zenon DEF WriterClose, WriterCloseBody, Heartbeat, Malformed, Broken, rvars, vars
    <3> QED
      BY <1>2, <3>1 DEF Published, StatusHonest
  <2>3. CASE \/ ReadHeader \/ ReadPayload \/ ReadMalformed \/ ReadFails
             \/ \E n \in ReadSizes : ReadCopy(n)
    <3>1. rpc # "idle" /\ UNCHANGED <<status, rclose>>
      BY <2>3, Zenon DEF ReadHeader, ReadPayload, ReadMalformed, ReadFails, ReadCopy
    <3> QED
      BY <1>2, <3>1 DEF Published, StatusHonest
  <2>4. CASE ReadBegin
    BY <1>2, <2>4 DEF ReadBegin, Published, StatusHonest
  <2>5. CASE ReaderClose \/ ReaderCloseBody \/ ReaderCloseClear
    BY <1>2, <2>5 DEF ReaderClose, ReaderCloseBody, ReaderCloseClear, rvars, Published,
                      StatusHonest
  <2>6. CASE finish
    BY <1>2, <2>6 DEF finish, rvars, Published, StatusHonest
  <2> QED
    BY <1>2, <2>1, <2>2, <2>3, <2>4, <2>5, <2>6, Zenon DEF Next
<1>3. Published => StatusHonest
  BY Zenon DEF Published
<1> QED
  BY <1>1, <1>2, <1>3, PTL DEF Spec
=============================================================================
