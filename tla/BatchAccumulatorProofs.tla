----------------------- MODULE BatchAccumulatorProofs -----------------------
(***************************************************************************)
(* Proofs about BatchAccumulator, for every number of writers, every batch *)
(* size and every length of a Write.                                       *)
(*                                                                         *)
(* Fifo and NoLostWakeup are inductive once the types are known.  Bounded  *)
(* needs Sized: the slice a woken writer appends is as long as when it     *)
(* called Write.                                                           *)
(***************************************************************************)
EXTENDS BatchAccumulator, TLAPS

Sized == \A w \in Writers : writePC[w] # "idle" => writeLen[w] \in WriteSizes

IInv == TypeOK /\ Fifo /\ Sized /\ Bounded /\ NoLostWakeup

-----------------------------------------------------------------------------
\* newBatchAccumulator never works with an empty batch.
LEMMA MaxBatchType == maxBatch \in Nat /\ maxBatch >= 1
  BY BatchAssumption DEF maxBatch

\* The elements of two sequences in a row.
LEMMA ConcatProperties ==
  ASSUME NEW S, NEW s \in Seq(S), NEW t \in Seq(S)
  PROVE  /\ s \o t \in Seq(S) /\ Len(s \o t) = Len(s) + Len(t)
         /\ \A i \in 1 .. Len(s) + Len(t) :
              (s \o t)[i] = IF i <= Len(s) THEN s[i] ELSE t[i - Len(s)]
OBVIOUS

\* The bytes d + 1, d + 2... in a row: what the buffer holds after d have left.
From(d, s) == \A i \in 1 .. Len(s) : s[i] = d + i

\* Two runs of bytes, the second beginning where the first ends, make one.
LEMMA JoinedRuns ==
  ASSUME NEW s \in Seq(Nat), NEW u \in Seq(Nat), NEW d \in Nat,
         From(d, s), From(d + Len(s), u)
  PROVE  s \o u \in Seq(Nat) /\ Len(s \o u) = Len(s) + Len(u) /\ From(d, s \o u)
<1> DEFINE t == s \o u
           m == Len(s)
           n == Len(u)
<1>1. m \in Nat /\ n \in Nat
  OBVIOUS
<1>2. /\ t \in Seq(Nat) /\ Len(t) = m + n
      /\ \A i \in 1 .. m + n : t[i] = IF i <= m THEN s[i] ELSE u[i - m]
  BY ConcatProperties, Zenon
<1>3. (\A i \in 1 .. m : s[i] = d + i) /\ (\A i \in 1 .. n : u[i] = (d + m) + i)
  BY DEF From
<1> HIDE DEF t, m, n
<1>4. ASSUME NEW i \in 1 .. m + n PROVE t[i] = d + i
  <2>1. CASE i <= m
    <3>1. i \in 1 .. m
      BY <1>1, <2>1
    <3> QED
      BY <1>2, <1>3, <2>1, <3>1, Zenon
  <2>2. CASE ~(i <= m)
    <3>1. i - m \in 1 .. n /\ (d + m) + (i - m) = d + i
      BY <1>1, <2>2
    <3>2. t[i] = u[i - m]
      BY <1>2, <2>2
    <3> QED
      BY <1>3, <3>1, <3>2
  <2> QED
    BY <2>1, <2>2
<1>5. From(d, t)
  BY <1>2, <1>4 DEF From
<1> QED
  BY <1>2, <1>5 DEF t, m, n

\* What Write appends is a run of n bytes.
LEMMA WrittenRun ==
  ASSUME NEW k \in Nat, NEW n \in Nat
  PROVE  LET u == [i \in 1 .. n |-> k + i]
         IN  u \in Seq(Nat) /\ Len(u) = n /\ From(k, u)
  BY DEF From

\* The part of a sequence SubSeq(s, m, n) copies, for the two uses of Drain.
LEMMA Part ==
  ASSUME NEW s \in Seq(Nat), NEW m \in Nat, NEW n \in Nat, 1 <= m, m <= n + 1, n <= Len(s)
  PROVE  /\ SubSeq(s, m, n) \in Seq(Nat)
         /\ Len(SubSeq(s, m, n)) = n + 1 - m
         /\ \A i \in 1 .. n + 1 - m : SubSeq(s, m, n)[i] = s[m - 1 + i]
<1>1. \A i \in m .. n : s[i] \in Nat
  OBVIOUS
<1>2. m \in Int /\ n \in Int
  OBVIOUS
<1> DEFINE t == SubSeq(s, m, n)
<1>3. /\ t \in Seq(Nat)
      /\ Len(t) = IF m <= n THEN n - m + 1 ELSE 0
      /\ \A i \in 1 .. n - m + 1 : t[i] = s[m + i - 1]
  BY <1>1, <1>2
<1> HIDE DEF t
<1>4. Len(t) = n + 1 - m
  BY <1>3
<1>5. ASSUME NEW i \in 1 .. n + 1 - m PROVE t[i] = s[m - 1 + i]
  <2>1. i \in 1 .. n - m + 1 /\ m + i - 1 = m - 1 + i
    OBVIOUS
  <2> QED
    BY <1>3, <2>1
<1> QED
  BY <1>3, <1>4, <1>5 DEF t

\* Drain's cut of a run: the chunk, and the rest it shifts forward.
LEMMA CutRun ==
  ASSUME NEW s \in Seq(Nat), NEW d \in Nat, NEW n \in 0 .. Len(s), From(d, s)
  PROVE  /\ SubSeq(s, 1, n) \in Seq(Nat) /\ Len(SubSeq(s, 1, n)) = n
         /\ From(d, SubSeq(s, 1, n))
         /\ SubSeq(s, n + 1, Len(s)) \in Seq(Nat)
         /\ Len(SubSeq(s, n + 1, Len(s))) = Len(s) - n
         /\ From(d + n, SubSeq(s, n + 1, Len(s)))
<1> DEFINE m == Len(s)
           k == n + 1
           a == SubSeq(s, 1, n)
           b == SubSeq(s, k, m)
<1>1. /\ m \in Nat /\ n \in Nat /\ n <= m
      /\ k \in Nat /\ 1 <= k /\ k <= m + 1 /\ k = n + 1
  OBVIOUS
<1>2. a \in Seq(Nat) /\ Len(a) = n + 1 - 1 /\ \A i \in 1 .. n + 1 - 1 : a[i] = s[1 - 1 + i]
  BY <1>1, Part
<1> HIDE DEF k
<1>3. b \in Seq(Nat) /\ Len(b) = m + 1 - k /\ \A i \in 1 .. m + 1 - k : b[i] = s[k - 1 + i]
  BY <1>1, Part
<1>4. \A i \in 1 .. m : s[i] = d + i
  BY DEF From
<1> HIDE DEF m, a, b
<1>5. Len(a) = n /\ From(d, a)
  <2>1. Len(a) = n
    BY <1>1, <1>2
  <2>2. ASSUME NEW i \in 1 .. n PROVE a[i] = d + i
    <3>1. i \in 1 .. n + 1 - 1 /\ 1 - 1 + i = i /\ i \in 1 .. m
      BY <1>1
    <3> QED
      BY <1>2, <1>4, <3>1, Zenon
  <2> QED
    BY <2>1, <2>2 DEF From
<1>6. Len(b) = m - n
  BY <1>1, <1>3
<1>7. ASSUME NEW i \in 1 .. m - n PROVE b[i] = (d + n) + i
  <2>1. i \in 1 .. m + 1 - k /\ k - 1 + i = n + i /\ n + i \in 1 .. m
    BY <1>1
  <2>2. b[i] = s[n + i]
    BY <1>3, <2>1
  <2>3. s[n + i] = d + (n + i)
    BY <1>4, <2>1
  <2> QED
    BY <1>1, <2>2, <2>3
<1>8. From(d + n, b)
  BY <1>6, <1>7 DEF From
<1> QED
  BY <1>2, <1>3, <1>5, <1>6, <1>8 DEF m, a, b, k

\* What Fifo says of the two sequences, said with From.
LEMMA FifoIsRuns ==
  ASSUME NEW q \in Seq(Nat), NEW s \in Seq(Nat)
  PROVE  /\ (\A i \in DOMAIN q : q[i] = i) <=> From(0, q)
         /\ (\A i \in DOMAIN s : s[i] = Len(q) + i) <=> From(Len(q), s)
<1>1. DOMAIN s = 1 .. Len(s) /\ DOMAIN q = 1 .. Len(q)
  OBVIOUS
<1>2. \A i \in 1 .. Len(q) : 0 + i = i
  OBVIOUS
<1> QED
  BY <1>1, <1>2, Zenon DEF From

\* The passes through the monitor, by what they do to the buffer: a writer
\* goes to sleep, is refused, or appends.
TrySleep(w) ==
  /\ Len(data) >= maxBatch
  /\ ~closed
  /\ writePC' = [writePC EXCEPT ![w] = "wait"]
  /\ UNCHANGED <<data, drainPC, accepted, returned>>

TryRefused(w) ==
  /\ closed
  /\ writePC' = [writePC EXCEPT ![w] = "idle"]
  /\ returned' = returned \cup {IF writeErr # "nil" THEN writeErr ELSE "ErrClosedPipe"}
  /\ UNCHANGED <<data, drainPC, accepted>>

TryAppend(w, n) ==
  /\ Len(data) < maxBatch
  /\ ~closed
  /\ data' = data \o [i \in 1 .. n |-> accepted + i]
  /\ accepted' = accepted + n
  /\ BroadcastAndLeave(w)
  /\ UNCHANGED returned

LEMMA TryWriteCases ==
  ASSUME NEW w, NEW n, TryWrite(w, n)
  PROVE  TrySleep(w) \/ TryRefused(w) \/ TryAppend(w, n)
  BY Zenon DEF TryWrite, TrySleep, TryRefused, TryAppend

\* One pass of a writer keeps the invariant, whether it has just called Write
\* or was woken.
LEMMA TryWriteKeeps ==
  ASSUME IInv,
         NEW w \in Writers, NEW n \in WriteSizes,
         TryWrite(w, n),
         writeLen' \in [Writers -> Nat],
         writeLen'[w] = n,
         \A v \in Writers : v # w => writeLen'[v] = writeLen[v],
         budget' \in Nat,
         UNCHANGED <<closed, writeErr, chunk, drained>>
  PROVE  IInv'
<1> USE MaxBatchType
<1>0. n \in Nat /\ data \in Seq(Nat) /\ accepted \in Nat /\ drained \in Seq(Nat)
      /\ writePC \in [Writers -> PC] /\ drainPC \in PC
  BY SizesAssumption DEF IInv, TypeOK
<1>1. CASE TrySleep(w)
  <2>1. TypeOK'
    BY <1>0, <1>1 DEF IInv, TypeOK, TrySleep, PC
  <2>2. Fifo' /\ Bounded'
    BY <1>1 DEF IInv, Fifo, Bounded, TrySleep
  <2>3. Sized'
    BY <1>0, <1>1 DEF IInv, Sized, TrySleep
  <2>4. NoLostWakeup'
    BY <1>0, <1>1 DEF IInv, NoLostWakeup, TrySleep
  <2> QED
    BY <2>1, <2>2, <2>3, <2>4 DEF IInv
<1>2. CASE TryRefused(w)
  <2>1. TypeOK'
    BY <1>0, <1>2 DEF IInv, TypeOK, TryRefused, PC
  <2>2. Fifo' /\ Bounded'
    BY <1>2 DEF IInv, Fifo, Bounded, TryRefused
  <2>3. Sized'
    <3>1. \A v \in Writers : writePC'[v] # "idle" => v # w /\ writePC'[v] = writePC[v]
      BY <1>0, <1>2 DEF TryRefused
    <3> QED
      BY <3>1, Zenon DEF IInv, Sized
  <2>4. NoLostWakeup'
    BY <1>0, <1>2 DEF IInv, NoLostWakeup, TryRefused
  <2> QED
    BY <2>1, <2>2, <2>3, <2>4 DEF IInv
<1>3. CASE TryAppend(w, n)
  <2>1. /\ From(0, drained) /\ From(Len(drained), data)
        /\ accepted = Len(drained) + Len(data) /\ Len(drained) \in Nat
    BY <1>0, FifoIsRuns DEF IInv, Fifo
  <2> DEFINE u == [i \in 1 .. n |-> accepted + i]
  <2>2. u \in Seq(Nat) /\ Len(u) = n /\ From(accepted, u)
    BY <1>0, WrittenRun
  <2> HIDE DEF u
  <2>3. data' = data \o u /\ accepted' = accepted + n
    BY <1>3 DEF TryAppend, u
  <2>4. /\ data' \in Seq(Nat) /\ Len(data') = Len(data) + n
        /\ From(Len(drained), data')
    BY <1>0, <2>1, <2>2, <2>3, JoinedRuns, Zenon
  <2>5. /\ writePC' = [v \in Writers |-> IF v = w THEN "idle" ELSE Awake(writePC[v])]
        /\ drainPC' = Awake(drainPC)
    BY <1>3 DEF TryAppend, BroadcastAndLeave
  <2>6. TypeOK'
    BY <1>0, <1>3, <2>5, <2>3, <2>4 DEF IInv, TypeOK, TryAppend, Awake, PC
  <2>7. Fifo'
    <3>1. Len(data) \in Nat /\ accepted' = Len(drained) + Len(data')
      BY <1>0, <2>1, <2>3, <2>4
    <3>2. drained' \in Seq(Nat) /\ From(0, drained') /\ From(Len(drained'), data')
      BY <1>0, <2>1, <2>4
    <3>3. accepted' = Len(drained') + Len(data')
      BY <3>1
    <3> QED
      BY <2>4, <3>2, <3>3, FifoIsRuns, Zenon DEF Fifo
  <2>8. Sized'
    BY <1>0, <2>5 DEF IInv, Sized, Awake
  <2>9. Bounded'
    BY <1>0, <1>3, <2>4 DEF IInv, Bounded, TryAppend
  <2>10. NoLostWakeup'
    BY <1>0, <2>5 DEF NoLostWakeup, Awake
  <2> QED
    BY <2>6, <2>7, <2>8, <2>9, <2>10 DEF IInv
<1> QED
  BY <1>1, <1>2, <1>3, TryWriteCases

\* The size of the chunk Drain takes.
Take == IF Len(data) > maxBatch THEN maxBatch ELSE Len(data)

\* Drain goes to sleep, or cuts a chunk off the buffer.
LEMMA DrainKeeps ==
  ASSUME IInv, Drain
  PROVE  IInv'
<1> USE MaxBatchType
<1>0. /\ data \in Seq(Nat) /\ drained \in Seq(Nat) /\ accepted \in Nat
      /\ writePC \in [Writers -> PC] /\ Len(data) \in Nat /\ Len(drained) \in Nat
  BY DEF IInv, TypeOK
<1>1. UNCHANGED <<closed, writeErr, writeLen, accepted, returned, budget>>
  BY DEF Drain
<1>2. CASE data = <<>> /\ ~closed
  <2>1. drainPC' = "wait" /\ UNCHANGED <<data, chunk, drained, writePC>>
    BY <1>2 DEF Drain
  <2>2. TypeOK'
    BY <1>1, <2>1 DEF IInv, TypeOK, PC
  <2>3. Fifo' /\ Sized' /\ Bounded'
    BY <1>1, <2>1 DEF IInv, Fifo, Sized, Bounded
  <2>4. NoLostWakeup'
    BY <1>1, <1>2, <2>1 DEF IInv, NoLostWakeup
  <2> QED
    BY <2>2, <2>3, <2>4 DEF IInv
<1>3. CASE ~(data = <<>> /\ ~closed)
  <2>1. /\ chunk' = SubSeq(data, 1, Take)
        /\ data' = SubSeq(data, Take + 1, Len(data))
        /\ drained' = drained \o chunk'
        /\ drainPC' = "idle"
        /\ writePC' = IF Take = 0 THEN writePC ELSE [w \in Writers |-> Awake(writePC[w])]
    BY <1>3, Zenon DEF Drain, TakeChunk, Take
  <2>2. Take \in 0 .. Len(data) /\ Take <= maxBatch /\ (Take = 0 => Len(data) = 0)
    BY <1>0 DEF Take
  <2> HIDE DEF Take
  <2>3. /\ From(0, drained) /\ From(Len(drained), data)
        /\ accepted = Len(drained) + Len(data)
    BY <1>0, FifoIsRuns DEF IInv, Fifo
  <2>4. /\ chunk' \in Seq(Nat) /\ Len(chunk') = Take /\ From(Len(drained), chunk')
        /\ data' \in Seq(Nat) /\ Len(data') = Len(data) - Take
        /\ From(Len(drained) + Take, data')
    BY <1>0, <2>1, <2>2, <2>3, CutRun
  <2>5. /\ drained' \in Seq(Nat) /\ Len(drained') = Len(drained) + Take
        /\ From(0, drained')
    <3>1. From(0 + Len(drained), chunk')
      BY <1>0, <2>4
    <3>2. 0 \in Nat
      OBVIOUS
    <3> QED
      BY <1>0, <2>1, <2>3, <2>4, <3>1, <3>2, JoinedRuns, Zenon
  <2>6. TypeOK'
    <3>1. writePC' \in [Writers -> PC]
      BY <1>0, <2>1 DEF Awake, PC
    <3> QED
      BY <1>1, <2>1, <2>4, <2>5, <3>1, Zenon DEF IInv, TypeOK, PC
  <2>7. Fifo'
    <3>1. accepted' = Len(drained') + Len(data')
      BY <1>0, <1>1, <2>2, <2>3, <2>4, <2>5
    <3>2. From(Len(drained'), data')
      BY <2>4, <2>5
    <3> QED
      BY <2>4, <2>5, <3>1, <3>2, FifoIsRuns, Zenon DEF Fifo
  <2>8. Sized'
    BY <1>0, <1>1, <2>1 DEF IInv, Sized, Awake
  <2>9. Bounded'
    <3>1. Len(data') \in Nat /\ Len(data') <= Len(data) /\ Len(chunk') <= maxBatch
      BY <1>0, <2>2, <2>4
    <3>2. CASE Len(data) < maxBatch
      BY <1>0, <3>1, <3>2 DEF Bounded
    <3>3. CASE \E n \in WriteSizes : Len(data) < maxBatch + n
      <4>1. PICK n \in WriteSizes : Len(data) < maxBatch + n
        BY <3>3
      <4>2. Len(data') < maxBatch + n
        BY <1>0, <3>1, <4>1, SizesAssumption
      <4> QED
        BY <3>1, <4>2 DEF Bounded
    <3> QED
      BY <3>2, <3>3 DEF IInv, Bounded
  <2>10. NoLostWakeup'
    <3>1. CASE Take = 0
      <4>1. data = <<>> /\ closed
        BY <1>0, <1>3, <2>2, <3>1
      <4> QED
        BY <1>1, <2>1, <3>1, <4>1 DEF IInv, NoLostWakeup
    <3>2. CASE Take # 0
      BY <1>0, <2>1, <3>2 DEF NoLostWakeup, Awake
    <3> QED
      BY <3>1, <3>2
  <2> QED
    BY <2>6, <2>7, <2>8, <2>9, <2>10 DEF IInv
<1> QED
  BY <1>2, <1>3

\* CloseWithError wakes everyone the first time and does nothing later.
LEMMA CloseKeeps ==
  ASSUME IInv, NEW err \in Errors \cup {"nil"}, CloseWithError(err)
  PROVE  IInv'
<1>0. writePC \in [Writers -> PC] /\ drainPC \in PC
  BY DEF IInv, TypeOK
<1>1. UNCHANGED <<data, writeLen, chunk, drained, accepted, returned, budget>>
  BY DEF CloseWithError
<1>2. CASE closed
  <2>1. UNCHANGED <<closed, writeErr, writePC, drainPC>>
    BY <1>2 DEF CloseWithError
  <2> QED
    BY <1>1, <2>1 DEF IInv, TypeOK, Fifo, Sized, Bounded, NoLostWakeup
<1>3. CASE ~closed
  <2>1. /\ closed' = TRUE /\ writeErr' = err
        /\ writePC' = [w \in Writers |-> Awake(writePC[w])]
        /\ drainPC' = Awake(drainPC)
    BY <1>3 DEF CloseWithError
  <2>2. TypeOK'
    BY <1>0, <1>1, <2>1 DEF IInv, TypeOK, Awake, PC
  <2>3. Fifo' /\ Bounded'
    BY <1>1 DEF IInv, Fifo, Bounded
  <2>4. Sized'
    BY <1>0, <1>1, <2>1 DEF IInv, Sized, Awake
  <2>5. NoLostWakeup'
    BY <1>0, <2>1 DEF NoLostWakeup, Awake
  <2> QED
    BY <2>2, <2>3, <2>4, <2>5 DEF IInv
<1> QED
  BY <1>2, <1>3

-----------------------------------------------------------------------------
\* The invariant holds in every reachable state of the monitor.
LEMMA Invariance == Spec => []IInv
<1>1. Init => IInv
  <2> SUFFICES ASSUME Init PROVE IInv
    OBVIOUS
  <2>1. TypeOK
    <3>1. /\ data \in Seq(Nat) /\ chunk \in Seq(Nat) /\ drained \in Seq(Nat)
          /\ accepted \in Nat /\ budget \in Nat
      BY BudgetAssumption DEF Init
    <3>2. writePC \in [Writers -> PC] /\ writeLen \in [Writers -> Nat] /\ drainPC \in PC
      BY DEF Init, PC
    <3> QED
      BY <3>1, <3>2, Zenon DEF Init, TypeOK
  <2>2. Fifo /\ Sized /\ NoLostWakeup
    BY DEF Init, Fifo, Sized, NoLostWakeup
  <2>3. Bounded
    BY MaxBatchType DEF Init, Bounded
  <2> QED
    BY <2>1, <2>2, <2>3 DEF IInv
<1>2. IInv /\ [Next]_vars => IInv'
  <2> SUFFICES ASSUME IInv, [Next]_vars PROVE IInv'
    OBVIOUS
  <2>0. /\ writeLen \in [Writers -> Nat] /\ budget \in Nat
        /\ \A w \in Writers : writePC[w] = "woken" => writeLen[w] \in WriteSizes
    BY DEF IInv, TypeOK, Sized
  <2>1. ASSUME NEW w \in Writers, NEW n \in WriteSizes, WriteCall(w, n) PROVE IInv'
    <3>1. /\ writeLen' = [writeLen EXCEPT ![w] = n] /\ budget' = budget - 1 /\ budget > 0
          /\ TryWrite(w, n) /\ UNCHANGED <<closed, writeErr, chunk, drained>>
      BY <2>1 DEF WriteCall
    <3>2. /\ writeLen' \in [Writers -> Nat] /\ writeLen'[w] = n
          /\ \A v \in Writers : v # w => writeLen'[v] = writeLen[v]
      BY <2>0, <3>1, SizesAssumption
    <3>3. budget' \in Nat
      BY <2>0, <3>1
    <3> QED
      BY <3>1, <3>2, <3>3, TryWriteKeeps, Zenon
  <2>2. ASSUME NEW w \in Writers, WriteResume(w) PROVE IInv'
    <3>1. /\ writePC[w] = "woken" /\ writeLen' = writeLen /\ budget' = budget
          /\ TryWrite(w, writeLen[w]) /\ UNCHANGED <<closed, writeErr, chunk, drained>>
      BY <2>2 DEF WriteResume
    <3>2. writeLen[w] \in WriteSizes
      BY <2>0, <3>1
    <3> QED
      BY <2>0, <3>1, <3>2, TryWriteKeeps, Zenon
  <2>3. CASE Drain
    BY <2>3, DrainKeeps
  <2>4. ASSUME NEW err \in Errors \cup {"nil"}, CloseWithError(err) PROVE IInv'
    BY <2>4, CloseKeeps
  <2>5. CASE UNCHANGED vars
    BY <2>5 DEF IInv, TypeOK, Fifo, Sized, Bounded, NoLostWakeup, vars, callVars
  <2> QED
    BY <2>1, <2>2, <2>3, <2>4, <2>5, Zenon DEF Next
<1> QED
  BY <1>1, <1>2, PTL DEF Spec

\* Every byte Write has accepted is in the buffer or has left it, in the order
\* accepted, whatever Drain's cuts and whoever closes (batch.go:46-117).
THEOREM BytesInOrder == Spec => []Fifo
  BY Invariance, PTL DEF IInv

\* A chunk never exceeds the batch size, and the buffer exceeds it by less than
\* one Write, however many writers were waiting (batch.go:46-95).
THEOREM BufferIsBounded == Spec => []Bounded
  BY Invariance, PTL DEF IInv

\* No broadcast is missed: a writer sleeps only while the buffer is full, the
\* drainer only while it is empty, and neither once it is closed (batch.go:53-63,
\* 75-93, 107-117).
THEOREM NoWakeupIsLost == Spec => []NoLostWakeup
  BY Invariance, PTL DEF IInv
=============================================================================
