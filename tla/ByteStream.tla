----------------------------- MODULE ByteStream -----------------------------
(***************************************************************************)
(* What one direction of a net.Conn promises.  The writer's bytes are 1,   *)
(* 2, 3...; sent is how many it has written so far, and received what the  *)
(* reader has got.  The reader gets a beginning of what was written: bytes *)
(* may be missing at the end (the connection can break) but none is lost   *)
(* in the middle, repeated, reordered or invented.                         *)
(***************************************************************************)
EXTENDS Integers, Sequences

VARIABLES sent, received

vars == <<sent, received>>

Init == sent = 0 /\ received = <<>>

Write == sent' \in Nat /\ sent' > sent /\ UNCHANGED received

Deliver ==
  /\ Len(received') \in Len(received) + 1 .. sent
  /\ received' = [i \in 1 .. Len(received') |-> i]
  /\ UNCHANGED sent

Next == Write \/ Deliver

Spec == Init /\ [][Next]_vars
=============================================================================
