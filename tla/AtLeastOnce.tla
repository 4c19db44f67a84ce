---------------------------- MODULE AtLeastOnce ----------------------------
(***************************************************************************)
(* What sendH1Request promises its caller: the request was answered 200 at *)
(* least once when it returns nil.  The peer may handle it several times,  *)
(* and even after an error was returned.                                   *)
(***************************************************************************)
CONSTANTS Reqs, Statuses, OK

VARIABLES result,    \* of each call: "idle", "pending", "ok" or "error"
          replies    \* the statuses the peer has answered each request with

Init ==
  /\ result = [r \in Reqs |-> "idle"]
  /\ replies = [r \in Reqs |-> {}]

Call(r) ==
  /\ result[r] = "idle"
  /\ result' = [result EXCEPT ![r] = "pending"]
  /\ UNCHANGED replies

Answer(r, st) ==
  /\ result[r] # "idle"
  /\ replies' = [replies EXCEPT ![r] = @ \cup {st}]
  /\ UNCHANGED result

Succeed(r) ==
  /\ result[r] = "pending" /\ OK \in replies[r]
  /\ result' = [result EXCEPT ![r] = "ok"]
  /\ UNCHANGED replies

Fail(r) ==
  /\ result[r] = "pending"
  /\ result' = [result EXCEPT ![r] = "error"]
  /\ UNCHANGED replies

Next ==
  \E r \in Reqs : Call(r) \/ Succeed(r) \/ Fail(r) \/ \E st \in Statuses : Answer(r, st)

Spec == Init /\ [][Next]_<<result, replies>>
=============================================================================
