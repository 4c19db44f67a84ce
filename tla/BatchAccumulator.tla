-------------------------- MODULE BatchAccumulator --------------------------
(***************************************************************************)
(* The client's write buffer in packet-up mode (xhttp/batch.go): a monitor *)
(* whose Write blocks while the buffer is full, whose Drain blocks while   *)
(* it is empty, and whose single condition variable is broadcast by every  *)
(* change.                                                                 *)
(*                                                                         *)
(* Everything between Lock and Unlock or cond.Wait is one step.  A caller  *)
(* in cond.Wait is "wait"; Broadcast makes it "woken", after which it      *)
(* competes for the lock and tests its condition again.  Bytes are named   *)
(* by the order in which Write accepted them: 1, 2, 3...                   *)
(***************************************************************************)
EXTENDS Integers, Sequences

CONSTANTS
  Writers,     \* goroutines calling conn.Write
  Batch,       \* the argument of newBatchAccumulator
  WriteSizes,  \* the lengths of the slices written
  Errors,      \* the errors CloseWithError is called with
  WriteBudget  \* bound: how many Write calls are made in all

ASSUME BatchAssumption == Batch \in Int
ASSUME SizesAssumption == WriteSizes \subseteq Nat
ASSUME BudgetAssumption == WriteBudget \in Nat
ASSUME ErrorsAssumption == {"nil", "ErrClosedPipe"} \cap Errors = {}

\* newBatchAccumulator's normalisation of its argument.
maxBatch == IF Batch < 1 THEN 1 ELSE Batch

VARIABLES
  data,      \* b.data
  closed,    \* b.closed
  writeErr,  \* b.writeErr
  writePC,   \* per writer: "idle", "wait", "woken"
  writeLen,  \* per writer: len(p) of the Write in progress
  drainPC,   \* "idle", "wait", "woken"
  chunk,     \* what the last Drain returned; empty stands for io.EOF
  drained,   \* history: everything Drain has returned so far
  accepted,  \* history: how many bytes Write has accepted
  returned,  \* history: the errors Write has returned
  budget     \* Write calls left

callVars == <<writePC, writeLen, drainPC>>
vars == <<data, closed, writeErr, callVars, chunk, drained, accepted,
          returned, budget>>

PC == {"idle", "wait", "woken"}

TypeOK ==
  /\ data \in Seq(Nat)
  /\ closed \in BOOLEAN
  /\ writeErr \in Errors \cup {"nil"}
  /\ writePC \in [Writers -> PC]
  /\ writeLen \in [Writers -> Nat]
  /\ drainPC \in PC
  /\ chunk \in Seq(Nat)
  /\ drained \in Seq(Nat)
  /\ accepted \in Nat
  /\ returned \in SUBSET (Errors \cup {"ErrClosedPipe"})
  /\ budget \in Nat

Init ==
  /\ data = <<>>
  /\ closed = FALSE
  /\ writeErr = "nil"
  /\ writePC = [w \in Writers |-> "idle"]
  /\ writeLen = [w \in Writers |-> 0]
  /\ drainPC = "idle"
  /\ chunk = <<>>
  /\ drained = <<>>
  /\ accepted = 0
  /\ returned = {}
  /\ budget = WriteBudget

-----------------------------------------------------------------------------
Awake(pc) == IF pc = "wait" THEN "woken" ELSE pc

\* b.cond.Broadcast, while writer w leaves the monitor.
BroadcastAndLeave(w) ==
  /\ writePC' = [v \in Writers |-> IF v = w THEN "idle" ELSE Awake(writePC[v])]
  /\ drainPC' = Awake(drainPC)

\* Mutant: no Broadcast after appending.
MutTryWriteSilent(w, n) ==
  /\ Len(data) < maxBatch
  /\ ~closed
  /\ data' = data \o [i \in 1..n |-> accepted + i]
  /\ accepted' = accepted + n
  /\ writePC' = [writePC EXCEPT ![w] = "idle"]
  /\ UNCHANGED <<drainPC, returned>>

\* One pass of writer w through Write's loop and what follows it, for a slice
\* of n bytes.
TryWrite(w, n) ==
  \/ /\ Len(data) >= maxBatch
     /\ ~closed
     /\ writePC' = [writePC EXCEPT ![w] = "wait"]
     /\ UNCHANGED <<data, drainPC, accepted, returned>>
  \/ /\ closed
     /\ writePC' = [writePC EXCEPT ![w] = "idle"]
     /\ returned' = returned \cup
          {IF writeErr # "nil" THEN writeErr ELSE "ErrClosedPipe"}
     /\ UNCHANGED <<data, drainPC, accepted>>
  \/ /\ Len(data) < maxBatch
     /\ ~closed
     /\ data' = data \o [i \in 1..n |-> accepted + i]
     /\ accepted' = accepted + n
     /\ BroadcastAndLeave(w)
     /\ UNCHANGED returned

WriteCall(w, n) ==
  /\ writePC[w] = "idle"
  /\ budget > 0
  /\ budget' = budget - 1
  /\ writeLen' = [writeLen EXCEPT ![w] = n]
  /\ TryWrite(w, n)
  /\ UNCHANGED <<closed, writeErr, chunk, drained>>

WriteResume(w) ==
  /\ writePC[w] = "woken"
  /\ TryWrite(w, writeLen[w])
  /\ UNCHANGED <<closed, writeErr, writeLen, chunk, drained, budget>>

\* Mutant: the remainder is not shifted forward but lost.
MutTakeChunkLossy ==
  LET n == IF Len(data) > maxBatch THEN maxBatch ELSE Len(data)
  IN  /\ chunk' = SubSeq(data, 1, n)
      /\ data' = <<>>
      /\ drained' = drained \o chunk'
      /\ drainPC' = "idle"
      /\ writePC' = [w \in Writers |-> Awake(writePC[w])]

\* Mutant: the chunk is not capped at maxBatch.
MutTakeChunkWhole ==
  /\ chunk' = data
  /\ data' = <<>>
  /\ drained' = drained \o chunk'
  /\ drainPC' = "idle"
  /\ writePC' = [w \in Writers |-> Awake(writePC[w])]

\* Mutant: no Broadcast after taking a chunk.
MutTakeChunkSilent ==
  LET n == IF Len(data) > maxBatch THEN maxBatch ELSE Len(data)
  IN  /\ chunk' = SubSeq(data, 1, n)
      /\ data' = SubSeq(data, n + 1, Len(data))
      /\ drained' = drained \o chunk'
      /\ drainPC' = "idle"
      /\ UNCHANGED writePC

\* Drain's body once its condition holds: io.EOF, or up to maxBatch bytes.
TakeChunk ==
  LET n == IF Len(data) > maxBatch THEN maxBatch ELSE Len(data)
  IN  /\ chunk' = SubSeq(data, 1, n)
      /\ data' = SubSeq(data, n + 1, Len(data))
      /\ drained' = drained \o chunk'
      /\ drainPC' = "idle"
      /\ writePC' = IF n = 0 THEN writePC
                    ELSE [w \in Writers |-> Awake(writePC[w])]

\* Mutant: a closed accumulator gives io.EOF although data remains.
MutDrainEOFFirst ==
  /\ drainPC \in {"idle", "woken"}
  /\ IF closed
       THEN chunk' = <<>> /\ drainPC' = "idle" /\ UNCHANGED <<data, drained, writePC>>
       ELSE IF data = <<>>
         THEN drainPC' = "wait" /\ UNCHANGED <<data, chunk, drained, writePC>>
         ELSE TakeChunk
  /\ UNCHANGED <<closed, writeErr, writeLen, accepted, returned, budget>>

\* One pass through Drain, on the call and after every wake-up.
Drain ==
  /\ drainPC \in {"idle", "woken"}
  /\ IF data = <<>> /\ ~closed
       THEN drainPC' = "wait" /\ UNCHANGED <<data, chunk, drained, writePC>>
       ELSE TakeChunk
  /\ UNCHANGED <<closed, writeErr, writeLen, accepted, returned, budget>>

\* Mutant: no Broadcast after closing.
MutCloseSilent(err) ==
  /\ closed' = TRUE
  /\ writeErr' = IF closed THEN writeErr ELSE err
  /\ UNCHANGED <<data, callVars, chunk, drained, accepted, returned, budget>>

\* CloseWithError(err); Close is CloseWithError(nil).
CloseWithError(err) ==
  /\ IF closed
       THEN UNCHANGED <<closed, writeErr, writePC, drainPC>>
       ELSE /\ closed' = TRUE
            /\ writeErr' = err
            /\ writePC' = [w \in Writers |-> Awake(writePC[w])]
            /\ drainPC' = Awake(drainPC)
  /\ UNCHANGED <<data, writeLen, chunk, drained, accepted, returned, budget>>

-----------------------------------------------------------------------------

Next ==
  \/ \E w \in Writers, n \in WriteSizes : WriteCall(w, n)
  \/ \E w \in Writers : WriteResume(w)
  \/ Drain
  \/ \E err \in Errors \cup {"nil"} : CloseWithError(err)

Spec == Init /\ [][Next]_vars

(***************************************************************************)
(* A woken goroutine gets the lock in the end (sync.Mutex hands it over to *)
(* a waiter that starves), and the uploader goes on draining.              *)
(***************************************************************************)
FairSpec == Spec /\ WF_vars(Drain) /\ \A w \in Writers : WF_vars(WriteResume(w))

-----------------------------------------------------------------------------
\* Bytes leave the accumulator in the order Write accepted them, none lost
\* between the chunk Drain copies and the remainder it shifts forward.
Fifo ==
  /\ \A i \in DOMAIN drained : drained[i] = i
  /\ \A i \in DOMAIN data : data[i] = Len(drained) + i
  /\ accepted = Len(drained) + Len(data)

\* "We allow up to maxBatch bytes before blocking": a chunk is at most one
\* POST and the buffer overshoots maxBatch by less than one Write.
Bounded ==
  /\ Len(chunk) <= maxBatch
  /\ Len(data) < maxBatch \/ \E n \in WriteSizes : Len(data) < maxBatch + n

\* No lost wake-up: a sleeping writer faces a full open buffer and a sleeping
\* drainer an empty open one.
NoLostWakeup ==
  /\ \A w \in Writers : writePC[w] = "wait" => Len(data) >= maxBatch /\ ~closed
  /\ drainPC = "wait" => data = <<>> /\ ~closed

\* "After Close, Drain returns any remaining buffered data before returning
\* io.EOF": everything that was accepted comes out, also when Close races
\* with the writers.
AcceptedIsDrained == [](accepted > Len(drained) => <>(data = <<>>))

=============================================================================
