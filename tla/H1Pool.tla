------------------------------- MODULE H1Pool -------------------------------
(***************************************************************************)
(* The raw HTTP/1.1 uploads of h1_conn.go: concurrent calls of             *)
(* sendH1Request share a sync.Pool of connections, each call writing its   *)
(* request and reading one response before it puts the connection back.    *)
(* The peer closes idle connections and the network breaks any of them, so *)
(* a call that fails on a reused connection goes on with another; a fresh  *)
(* one is its last.  A connection therefore carries the name of the call   *)
(* that dialled it, and isNew is hc[r] = r.                                *)
(*                                                                         *)
(* The drain of stale responses (lines 79-96) has no action: PooledIsIdle  *)
(* shows that its condition is never true.                                 *)
(***************************************************************************)
EXTENDS Integers, Sequences

CONSTANTS Reqs,      \* the calls of sendH1Request
          Statuses,  \* what the peer may answer
          OK,        \* http.StatusOK
          None

ASSUME StatusAssumption == OK \in Statuses
ASSUME NoneAssumption == None \notin Reqs

VARIABLES pc,        \* of each call
          hc,        \* the connection a call holds, or None
          pool,      \* h1ConnPool.pool
          unread,    \* UnreadedResponsesCount
          link,      \* "none" (not dialled), "up", "broken" or "closed" (by the client)
          in,        \* requests the peer has received on a connection
          out,       \* its responses, not read yet: <<request, status>>
          answered,  \* the <<connection, status>> each request was answered with
          cut        \* the connections that failed: the dial, or later under the client

callVars == <<pc, hc>>
connVars == <<unread, link>>
peerVars == <<in, out, answered>>
vars == <<callVars, pool, connVars, peerVars, cut>>

TypeOK ==
  /\ pc \in [Reqs -> {"idle", "get", "write", "read", "ok", "error"}]
  /\ hc \in [Reqs -> Reqs \cup {None}]
  /\ pool \subseteq Reqs
  /\ unread \in [Reqs -> Nat]
  /\ link \in [Reqs -> {"none", "up", "broken", "closed"}]
  /\ in \in [Reqs -> Seq(Reqs)]
  /\ out \in [Reqs -> Seq(Reqs \X Statuses)]
  /\ answered \in [Reqs -> SUBSET (Reqs \X Statuses)]
  /\ cut \subseteq Reqs

Init ==
  /\ pc = [r \in Reqs |-> "idle"]
  /\ hc = [r \in Reqs |-> None]
  /\ pool = {}
  /\ unread = [c \in Reqs |-> 0]
  /\ link = [c \in Reqs |-> "none"]
  /\ in = [c \in Reqs |-> <<>>]
  /\ out = [c \in Reqs |-> <<>>]
  /\ answered = [r \in Reqs |-> {}]
  /\ cut = {}

-----------------------------------------------------------------------------
\* The request has been serialised.
Start(r) ==
  /\ pc[r] = "idle"
  /\ pc' = [pc EXCEPT ![r] = "get"]
  /\ UNCHANGED <<hc, pool, connVars, peerVars, cut>>

\* get: sync.Pool returns any connection it holds, or none even if it holds some.
GetPooled(r) ==
  /\ pc[r] = "get"
  /\ \E c \in pool : /\ pool' = pool \ {c}
                     /\ hc' = [hc EXCEPT ![r] = c]
  /\ pc' = [pc EXCEPT ![r] = "write"]
  /\ UNCHANGED <<connVars, peerVars, cut>>

GetDialed(r) ==
  /\ pc[r] = "get"
  /\ link' = [link EXCEPT ![r] = "up"]
  /\ hc' = [hc EXCEPT ![r] = r]
  /\ pc' = [pc EXCEPT ![r] = "write"]
  /\ UNCHANGED <<pool, unread, peerVars, cut>>

DialFails(r) ==
  /\ pc[r] = "get"
  /\ cut' = cut \cup {r}
  /\ pc' = [pc EXCEPT ![r] = "error"]
  /\ UNCHANGED <<hc, pool, connVars, peerVars>>

\* Mutant: isNew is not looked at.
MutCloseAndRetry(r) ==
  /\ link' = [link EXCEPT ![hc[r]] = "closed"]
  /\ pc' = [pc EXCEPT ![r] = "error"]
  /\ hc' = [hc EXCEPT ![r] = None]

\* hc.Close, then the error of a fresh connection or another round.
CloseAndRetry(r) ==
  /\ link' = [link EXCEPT ![hc[r]] = "closed"]
  /\ pc' = [pc EXCEPT ![r] = IF hc[r] = r THEN "error" ELSE "get"]
  /\ hc' = [hc EXCEPT ![r] = None]

\* Mutant: the connection goes back to the pool once the request is written.
MutWriteRequest(r) ==
  /\ pc[r] = "write"
  /\ unread' = [unread EXCEPT ![hc[r]] = @ + 1]
  /\ in' = IF link[hc[r]] = "up" THEN [in EXCEPT ![hc[r]] = Append(@, r)] ELSE in
  /\ pool' = pool \cup {hc[r]}
  /\ pc' = [pc EXCEPT ![r] = "read"]
  /\ UNCHANGED <<hc, link, out, answered, cut>>

\* The peer may be gone without the kernel knowing: the write succeeds all the same.
WriteRequest(r) ==
  /\ pc[r] = "write"
  /\ unread' = [unread EXCEPT ![hc[r]] = @ + 1]
  /\ in' = IF link[hc[r]] = "up" THEN [in EXCEPT ![hc[r]] = Append(@, r)] ELSE in
  /\ pc' = [pc EXCEPT ![r] = "read"]
  /\ UNCHANGED <<hc, pool, link, out, answered, cut>>

\* Mutant: a connection whose write failed is put back instead of closed.
MutWriteFails(r) ==
  /\ pc[r] = "write" /\ link[hc[r]] = "broken"
  /\ pool' = pool \cup {hc[r]}
  /\ pc' = [pc EXCEPT ![r] = IF hc[r] = r THEN "error" ELSE "get"]
  /\ hc' = [hc EXCEPT ![r] = None]
  /\ UNCHANGED <<connVars, peerVars, cut>>

WriteFails(r) ==
  /\ pc[r] = "write" /\ link[hc[r]] = "broken"
  /\ CloseAndRetry(r)
  /\ UNCHANGED <<pool, unread, peerVars, cut>>

\* Mutant: any status will do.
MutReadOK(r) ==
  LET c == hc[r] IN
  /\ pc[r] = "read" /\ out[c] # <<>>
  /\ out' = [out EXCEPT ![c] = Tail(@)]
  /\ unread' = [unread EXCEPT ![c] = @ - 1]
  /\ pool' = pool \cup {c}
  /\ hc' = [hc EXCEPT ![r] = None]
  /\ pc' = [pc EXCEPT ![r] = "ok"]
  /\ UNCHANGED <<link, in, answered, cut>>

ReadOK(r) ==
  LET c == hc[r] IN
  /\ pc[r] = "read" /\ out[c] # <<>> /\ Head(out[c])[2] = OK
  /\ out' = [out EXCEPT ![c] = Tail(@)]
  /\ unread' = [unread EXCEPT ![c] = @ - 1]
  /\ pool' = pool \cup {c}
  /\ hc' = [hc EXCEPT ![r] = None]
  /\ pc' = [pc EXCEPT ![r] = "ok"]
  /\ UNCHANGED <<link, in, answered, cut>>

\* Mutant: a refusal on a reused connection is tried again.
MutReadRefused(r) ==
  LET c == hc[r] IN
  /\ pc[r] = "read" /\ out[c] # <<>> /\ Head(out[c])[2] # OK
  /\ out' = [out EXCEPT ![c] = Tail(@)]
  /\ link' = [link EXCEPT ![c] = "closed"]
  /\ hc' = [hc EXCEPT ![r] = None]
  /\ pc' = [pc EXCEPT ![r] = IF c = r THEN "error" ELSE "get"]
  /\ UNCHANGED <<pool, unread, in, answered, cut>>

ReadRefused(r) ==
  LET c == hc[r] IN
  /\ pc[r] = "read" /\ out[c] # <<>> /\ Head(out[c])[2] # OK
  /\ out' = [out EXCEPT ![c] = Tail(@)]
  /\ link' = [link EXCEPT ![c] = "closed"]
  /\ hc' = [hc EXCEPT ![r] = None]
  /\ pc' = [pc EXCEPT ![r] = "error"]
  /\ UNCHANGED <<pool, unread, in, answered, cut>>

ReadFails(r) ==
  /\ pc[r] = "read" /\ link[hc[r]] = "broken" /\ out[hc[r]] = <<>>
  /\ CloseAndRetry(r)
  /\ UNCHANGED <<pool, unread, peerVars, cut>>

Send(r) ==
  \/ GetPooled(r) \/ GetDialed(r) \/ DialFails(r) \/ WriteRequest(r) \/ WriteFails(r)
  \/ ReadOK(r) \/ ReadRefused(r) \/ ReadFails(r)

-----------------------------------------------------------------------------
\* sync.Pool drops what it holds when the garbage collector runs; the
\* finalizer closes the connection.
PoolDrops(c) ==
  /\ c \in pool
  /\ pool' = pool \ {c}
  /\ link' = [link EXCEPT ![c] = "closed"]
  /\ UNCHANGED <<callVars, unread, peerVars, cut>>

\* The peer handles a request it has received, whether or not the connection
\* is still there to carry the answer.
PeerAnswers(c) ==
  /\ in[c] # <<>>
  /\ \E st \in Statuses :
       /\ answered' = [answered EXCEPT ![Head(in[c])] = @ \cup {<<c, st>>}]
       /\ out' = IF link[c] = "up" THEN [out EXCEPT ![c] = Append(@, <<Head(in[c]), st>>)]
                 ELSE out
  /\ in' = [in EXCEPT ![c] = Tail(@)]
  /\ UNCHANGED <<callVars, pool, connVars, cut>>

\* An idle timeout of the peer or a failure of the network: what was on the way
\* in either direction may be lost.
Break(c) ==
  /\ link[c] = "up"
  /\ link' = [link EXCEPT ![c] = "broken"]
  /\ cut' = cut \cup {c}
  /\ in' \in {in, [in EXCEPT ![c] = <<>>]}
  /\ out' \in {out, [out EXCEPT ![c] = <<>>]}
  /\ UNCHANGED <<callVars, pool, unread, answered>>

Next ==
  \/ \E r \in Reqs : Start(r) \/ Send(r)
  \/ \E c \in Reqs : PoolDrops(c) \/ PeerAnswers(c) \/ Break(c)

\* Every goroutine goes on; the peer answers what it has received.
Fairness ==
  /\ \A r \in Reqs : WF_vars(Send(r))
  /\ \A c \in Reqs : WF_vars(PeerAnswers(c))

Spec == Init /\ [][Next]_vars /\ Fairness

-----------------------------------------------------------------------------
(***************************************************************************)
(* Properties                                                              *)
(***************************************************************************)
\* "so that a pooled connection can drain stale responses before reuse": no
\* pooled connection ever has one, nor a request that may still produce one.
PooledIsIdle ==
  \A c \in pool : unread[c] = 0 /\ in[c] = <<>> /\ out[c] = <<>>

\* sendH1Request reports an error only if the peer refused this request or the
\* connection dialled for it failed: the death of a pooled connection, which
\* the caller can do nothing about, is never reported.
ErrorIsOwn ==
  \A r \in Reqs :
    pc[r] = "error" => r \in cut \/ \E p \in answered[r] : p[2] # OK

\* A request is handled a second time only if the connection that carried it
\* broke under the client.
RepeatIsForced ==
  \A r \in Reqs : \A p, q \in answered[r] :
    p # q => p[1] # q[1] /\ (p[1] \in cut \/ q[1] \in cut)

\* What the caller of sendH1Request sees.
Exchange ==
  INSTANCE AtLeastOnce WITH
    result <- [r \in Reqs |-> IF pc[r] \in {"get", "write", "read"} THEN "pending" ELSE pc[r]],
    replies <- [r \in Reqs |-> {p[2] : p \in answered[r]}]

\* sendH1Request returns nil only if the peer answered 200 to this request, not
\* to another one that used the same connection before.
AnswerIsOwn == Exchange!Spec

\* Every call returns, however many pooled connections turn out to be dead.
SendReturns == \A r \in Reqs : pc[r] = "get" ~> pc[r] \in {"ok", "error"}
=============================================================================
