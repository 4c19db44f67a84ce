----------------------------- MODULE DialProofs -----------------------------
(***************************************************************************)
(* What a dial of the client rests on: the pool that gives it a connection *)
(* and the streams it opens there.                                         *)
(*                                                                         *)
(* The stream modes, for both of them and with or without a middlebox that *)
(* holds back response heads: the types (with the usage released at most   *)
(* once), the single owner of the response body, its single Close, and     *)
(* that the end of the upload does not end the session.                    *)
(*                                                                         *)
(* The pool, for any number of sessions and any limits.  Budgets ties the  *)
(* picks of a connection to what is left of its budget; with it and        *)
(* PooledIsOpen every pick is within the limit.  Counts says what          *)
(* openUsage really counts, rotations included: the sessions dialled on a  *)
(* connection, plus the uploaders that came to it, less those that left    *)
(* it.  Until an uploader rotates that is the number of its sessions.      *)
(***************************************************************************)
EXTENDS Xmux, StreamDial, TLAPS

-----------------------------------------------------------------------------
(***************************************************************************)
(* The stream modes.                                                       *)
(***************************************************************************)
\* The body is held by the round trip, or by a Close that took it out.
TripHolds == rt \in {"set", "drop", "bad"}
Took(c) == wc[c] \in {"signalTook", "close"}

\* OneOwner, holder by holder.
Holders ==
  /\ (resp = "open") <=> (TripHolds \/ body \/ Took("conn") \/ Took("all"))
  /\ TripHolds => ~body /\ ~Took("conn") /\ ~Took("all")
  /\ body => ~Took("conn") /\ ~Took("all")
  /\ ~(Took("conn") /\ Took("all"))

\* No response before the round trip has answered, each Close called once.
Order ==
  /\ rt \in {"off", "trip"} => resp = "none"
  /\ dial = "start" => rt = "off" /\ ul = "off" /\ all = "no" /\ app = "open"
  /\ dial \in {"wait", "failed"} => ul = "off" /\ app = "open"
  /\ dial = "failed" /\ all = "no" => rt = "off"
  /\ dial = "wait" => mode = "stream-up" /\ all = "no"
  /\ rt = "failEnd" => mode = "stream-one"
  /\ all = "done" \/ (all = "release" /\ dial = "failed") \/ wc["all"] = "no"
  /\ app \in {"open", "reader"} => wc["conn"] = "no"

\* The two histories, from the state.
Counted ==
  /\ closes = IF resp = "closed" THEN 1 ELSE 0
  /\ released = IF all \in (IF dial = "failed" THEN {"no", "done"} ELSE {"pr", "pw", "body", "done"})
                  THEN 1 ELSE 0

IInv == DialTypeOK /\ Holders /\ Order /\ Counted

-----------------------------------------------------------------------------
\* The invariant holds when DialContext is called.
LEMMA IInvInit == DialInit => IInv
<1> SUFFICES ASSUME DialInit PROVE IInv
  OBVIOUS
<1>1. wc \in [Callers -> {"no"}]
  BY DEF DialInit
<1>2. DialTypeOK
  BY <1>1, Zenon DEF DialInit, DialTypeOK, Modes
<1>3. Holders
  BY <1>1 DEF DialInit, Holders, TripHolds, Took, Callers
<1>4. Order
  BY <1>1 DEF DialInit, Order, TripHolds, Took, Callers
<1>5. Counted
  BY <1>1 DEF DialInit, Counted, TripHolds, Took, Callers
<1> QED
  BY <1>2, <1>3, <1>4, <1>5 DEF IInv

\* Every step of the dial, the round trips, closeAll, the two Close calls and
\* the application preserves it.
LEMMA IInvNext == IInv /\ [DialNext]_streamVars => IInv'
<1> SUFFICES ASSUME IInv, [DialNext]_streamVars PROVE IInv'
  OBVIOUS
<1> USE DEF Modes, IInv, DialTypeOK, Holders, Order, Counted, TripHolds, Took, Callers,
                           dialVars, respVars, wrcVars, endVars, appVars
<1>1. CASE DialRefused
  BY <1>1 DEF DialRefused
<1>2. CASE DialStart
  BY <1>2 DEF DialStart
<1>3. CASE DialConnected
  BY <1>3 DEF DialConnected, DownloadOpened
<1>4. CASE DialAborted
  BY <1>4 DEF DialAborted, DownloadOpened, StartAll
<1>5. CASE ParentCancel
  BY <1>5 DEF ParentCancel
<1>6. CASE GotConn
  BY <1>6 DEF GotConn
<1>7. CASE TripAnswers
  BY <1>7 DEF TripAnswers
<1>8. CASE TripFails
  BY <1>8 DEF TripFails
<1>9. CASE TripBad
  BY <1>9 DEF TripBad, CloseResp
<1>10. CASE TripSet
  <2>1. DialTypeOK'
    <3>1. CASE wrcClosed \/ err # "none" \/ body
      BY <1>10, <3>1 DEF TripSet
    <3>2. CASE ~(wrcClosed \/ err # "none" \/ body)
      BY <1>10, <3>2 DEF TripSet
    <3> QED
      BY <3>1, <3>2
  <2>2. Holders'
    BY <1>10 DEF TripSet
  <2>3. Order'
    BY <1>10 DEF TripSet
  <2>4. Counted'
    BY <1>10 DEF TripSet
  <2> QED
    BY <2>1, <2>2, <2>3, <2>4
<1>11. CASE TripDrop
  BY <1>11 DEF TripDrop, CloseResp
<1>12. CASE TripCloseErr
  BY <1>12 DEF TripCloseErr
<1>13. CASE TripReady
  BY <1>13 DEF TripReady
<1>14. CASE TripEnds
  BY <1>14 DEF TripEnds, StartAll
<1>15. CASE UploadAnswers
  BY <1>15 DEF UploadAnswers
<1>16. CASE UploadEnds
  BY <1>16 DEF UploadEnds
<1>17. CASE UploadFails
  BY <1>17 DEF UploadFails
<1>18. CASE UploadCloses
  BY <1>18 DEF UploadCloses, StartAll
<1>19. CASE AllCancel
  BY <1>19 DEF AllCancel
<1>20. CASE AllRelease
  BY <1>20 DEF AllRelease
<1>21. CASE AllPipe
  <2>1. DialTypeOK'
    <3>1. (pr \in BOOLEAN /\ pw \in BOOLEAN)'
      BY <1>21, Zenon DEF AllPipe
    <3>2. all' \in {"pw", "body"}
      BY <1>21 DEF AllPipe
    <3>3. UNCHANGED <<mode, dialVars, rt, ul, respVars, wrcVars, wc, cancelled, released, appVars>>
      BY <1>21 DEF AllPipe
    <3> QED
      BY <3>1, <3>2, <3>3
  <2>2. Holders'
    BY <1>21 DEF AllPipe
  <2>3. Order'
    BY <1>21 DEF AllPipe
  <2>4. Counted'
    BY <1>21 DEF AllPipe
  <2> QED
    BY <2>1, <2>2, <2>3, <2>4
<1>22. CASE AllBody
  BY <1>22 DEF AllBody
<1>23. ASSUME NEW c \in Callers, WrcTake(c) PROVE IInv'
  <2>1. DialTypeOK'
    <3>1. wc' \in [Callers -> {"no", "call", "signal", "signalTook", "close", "done"}]
      BY <1>23 DEF WrcTake
    <3>2. (body \in BOOLEAN /\ wrcClosed \in BOOLEAN)'
      BY <1>23, Zenon DEF WrcTake
    <3>3. err' \in {"none", "failed", "closed"}
      BY <1>23 DEF WrcTake
    <3>4. UNCHANGED <<mode, dialVars, rt, ul, respVars, ready, endVars, appVars>>
      BY <1>23 DEF WrcTake
    <3> QED
      BY <3>1, <3>2, <3>3, <3>4
  <2>2. Holders'
    BY <1>23 DEF WrcTake
  <2>3. Order'
    BY <1>23 DEF WrcTake
  <2>4. Counted'
    BY <1>23 DEF WrcTake
  <2> QED
    BY <2>1, <2>2, <2>3, <2>4
<1>24. ASSUME NEW c \in Callers, WrcSignal(c) PROVE IInv'
  BY <1>24 DEF WrcSignal
<1>25. ASSUME NEW c \in Callers, WrcCloseBody(c) PROVE IInv'
  BY <1>25 DEF WrcCloseBody, CloseResp
<1>26. CASE ConnCloseWriter
  BY <1>26 DEF ConnCloseWriter
<1>27. CASE ConnCloseReader
  BY <1>27 DEF ConnCloseReader
<1>28. CASE ConnOnClose
  BY <1>28 DEF ConnOnClose, StartAll
<1>29. CASE ReadBegin
  BY <1>29 DEF ReadBegin
<1>30. CASE ReadWakes
  BY <1>30 DEF ReadWakes
<1>31. CASE ReadReturns
  BY <1>31 DEF ReadReturns
<1>32. CASE WriteBegin
  BY <1>32 DEF WriteBegin
<1>33. CASE WriteTaken
  BY <1>33 DEF WriteTaken
<1>34. CASE WriteFails
  BY <1>34 DEF WriteFails
<1>35. CASE BodyAbandoned
  BY <1>35 DEF BodyAbandoned
<1>36. CASE UNCHANGED streamVars
  BY <1>36 DEF streamVars
<1> QED
  BY <1>1, <1>2, <1>3, <1>4, <1>5, <1>6, <1>7, <1>8, <1>9, <1>10, <1>11, <1>12,
     <1>13, <1>14, <1>15, <1>16, <1>17, <1>18, <1>19, <1>20, <1>21, <1>22, <1>23,
     <1>24, <1>25, <1>26, <1>27, <1>28, <1>29, <1>30, <1>31, <1>32, <1>33, <1>34,
     <1>35, <1>36, ZenonT(30)
  DEF DialNext, Trip, All, WrcClose

\* The types, the usage released at most once among them: closeAll, a refused
\* and an aborted dial never add up to two calls of releaseUsage.
THEOREM TypeCorrect == DialSpec => []DialTypeOK
<1>1. DialInit => IInv
  BY IInvInit
<1>2. IInv /\ [DialNext]_streamVars => IInv'
  BY IInvNext
<1>3. IInv => DialTypeOK
  BY DEF IInv
<1> QED
  BY <1>1, <1>2, <1>3, PTL DEF DialSpec

\* "close each response body exactly once", as a count over the round trip and
\* the two callers of waitReadCloser.Close.
THEOREM ClosedOnce == DialSpec => []BodyClosedOnce
<1>1. DialInit => IInv
  BY IInvInit
<1>2. IInv /\ [DialNext]_streamVars => IInv'
  BY IInvNext
<1>3. IInv => BodyClosedOnce
  BY DEF IInv, Counted, BodyClosedOnce
<1> QED
  BY <1>1, <1>2, <1>3, PTL DEF DialSpec

\* The holders, one by one, are the set of owners.
LEMMA OwnerOf == IInv => OneOwner
<1> SUFFICES ASSUME IInv PROVE OneOwner
  OBVIOUS
<1> USE DEF IInv, Holders, TripHolds, Took, Callers, Owners
<1>1. CASE TripHolds
  <2>1. Owners = {"trip"}
    BY <1>1
  <2> QED
    BY <1>1, <2>1 DEF OneOwner
<1>2. CASE body
  <2>1. Owners = {"wrc"}
    BY <1>2
  <2> QED
    BY <1>2, <2>1 DEF OneOwner
<1>3. CASE Took("conn")
  <2>1. Owners = {"conn"}
    BY <1>3
  <2> QED
    BY <1>3, <2>1 DEF OneOwner
<1>4. CASE Took("all")
  <2>1. Owners = {"all"}
    BY <1>4
  <2> QED
    BY <1>4, <2>1 DEF OneOwner
<1>5. CASE ~TripHolds /\ ~body /\ ~Took("conn") /\ ~Took("all")
  <2>1. Owners = {}
    BY <1>5
  <2> QED
    BY <1>5, <2>1 DEF OneOwner
<1> QED
  BY <1>1, <1>2, <1>3, <1>4, <1>5

\* An open response body has exactly one owner that will close it, whatever
\* order set, closeWithError and the two calls of Close come in.
THEOREM SingleOwner == DialSpec => []OneOwner
<1>1. DialInit => IInv
  BY IInvInit
<1>2. IInv /\ [DialNext]_streamVars => IInv'
  BY IInvNext
<1>3. IInv => OneOwner
  BY OwnerOf
<1> QED
  BY <1>1, <1>2, <1>3, PTL DEF DialSpec

\* closeAll only ever runs for the application, a failed request or a failed
\* dial: the clean end of the upload leaves the download alone.
THEOREM EndIsNotTeardown == DialSpec => []EndKeepsDownload
<1> USE DEF EndKeepsDownload
<1>1. DialInit => IInv /\ EndKeepsDownload
  BY IInvInit DEF DialInit
<1>2. IInv /\ EndKeepsDownload /\ [DialNext]_streamVars => EndKeepsDownload'
  <2> SUFFICES ASSUME Order, EndKeepsDownload, [DialNext]_streamVars PROVE EndKeepsDownload'
    BY DEF IInv
  <2> USE DEF dialVars, respVars, wrcVars, endVars, appVars
  <2>1. CASE DialRefused \/ ParentCancel
    BY <2>1 DEF DialRefused, ParentCancel
  <2>2. CASE DialStart \/ DialConnected
    BY <2>2 DEF DialStart, DialConnected, Order
  <2>3. CASE DialAborted
    BY <2>3 DEF DialAborted, StartAll
  <2>4. CASE GotConn \/ TripAnswers \/ TripFails
    BY <2>4 DEF GotConn, TripAnswers, TripFails
  <2>5. CASE Trip
    BY <2>5 DEF Trip, TripBad, TripSet, TripDrop, TripCloseErr, TripReady, TripEnds,
       StartAll
  <2>6. CASE UploadAnswers \/ UploadEnds \/ UploadFails \/ UploadCloses
    BY <2>6 DEF UploadAnswers, UploadEnds, UploadFails, UploadCloses, StartAll
  <2>7. CASE All
    BY <2>7 DEF All, AllCancel, AllRelease, AllPipe, AllBody
  <2>8. CASE ConnCloseWriter \/ ConnCloseReader \/ ConnOnClose
    BY <2>8 DEF ConnCloseWriter, ConnCloseReader, ConnOnClose, StartAll
  <2>9. CASE ReadBegin \/ ReadWakes \/ ReadReturns
    BY <2>9 DEF ReadBegin, ReadWakes, ReadReturns
  <2>10. CASE WriteBegin \/ WriteTaken \/ WriteFails \/ BodyAbandoned
    BY <2>10 DEF WriteBegin, WriteTaken, WriteFails, BodyAbandoned
  <2>11. ASSUME NEW c \in Callers, WrcClose(c) PROVE EndKeepsDownload'
    BY <2>11 DEF WrcClose, WrcTake, WrcSignal, WrcCloseBody
  <2>12. CASE UNCHANGED streamVars
    BY <2>12 DEF streamVars
  <2> QED
    BY <2>1, <2>2, <2>3, <2>4, <2>5, <2>6, <2>7, <2>8, <2>9, <2>10, <2>11, <2>12 DEF DialNext
<1>3. IInv /\ [DialNext]_streamVars => IInv'
  BY IInvNext
<1> QED
  BY <1>1, <1>2, <1>3, PTL DEF DialSpec

-----------------------------------------------------------------------------
(***************************************************************************)
(* The pool.                                                               *)
(***************************************************************************)
\* What is known of cardinalities.
INSTANCE FiniteSetTheorems

\* A connection that was made has picks left as its budget says; one that was
\* not is untouched.
Budgets ==
  /\ \A c \in Clients : c <= made /\ reuse[c] > 0 =>
       leftUsage[c] >= 0 /\ picks[c] + leftUsage[c] = reuse[c]
  /\ \A c \in Clients : c <= made /\ reuse[c] = 0 => leftUsage[c] = -1
  /\ \A c \in Clients : c > made => reuse[c] = 0 /\ picks[c] = 0 /\ ~closed[c]

\* The sessions dialled on c and not released, those whose uploader uses c,
\* those whose uploader began on c, and those whose uploader moves to c.
Dialled(c) == {s \in Sessions : sess[s] \in {"counted", "open"} /\ xc[s] = c}
Uploading(c) == {s \in Sessions : up[s] # "off" /\ upXc[s] = c}
Began(c) == {s \in Sessions : up[s] # "off" /\ xc[s] = c}
Moving(c) == {s \in Sessions : up[s] = "sub" /\ newXc[s] = c}

Counts ==
  \A c \in Clients :
    openUsage[c] = Cardinality(Dialled(c)) + Cardinality(Uploading(c))
                     - Cardinality(Began(c)) + Cardinality(Moving(c))

\* An uploader runs only for a session that has counted itself.
Started == \A s \in Sessions : up[s] # "off" => sess[s] \in {"open", "closed"}

PoolType ==
  /\ clients \in SUBSET Clients
  /\ made \in 0 .. MaxClients
  /\ closed \in [Clients -> BOOLEAN]
  /\ leftUsage \in [Clients -> Int]
  /\ reuse \in [Clients -> Nat]
  /\ picks \in [Clients -> Nat]

SessType ==
  /\ openUsage \in [Clients -> Int]
  /\ sess \in [Sessions -> {"idle", "picked", "counted", "open", "closed"}]
  /\ xc \in [Sessions -> Clients \cup {None}]
  /\ up \in [Sessions -> {"off", "loop", "pick", "add", "sub", "stopped"}]
  /\ upXc \in [Sessions -> Clients \cup {None}]
  /\ newXc \in [Sessions -> Clients \cup {None}]
  /\ \A s \in Sessions : sess[s] # "idle" => xc[s] # None
  /\ \A s \in Sessions : up[s] # "off" => upXc[s] # None
  /\ \A s \in Sessions : up[s] \in {"add", "sub"} => newXc[s] # None

PoolInv == PoolType /\ Budgets /\ PooledIsOpen
SessInv == SessType /\ Started /\ Counts

-----------------------------------------------------------------------------
\* Connections are numbered from 1, so None is none of them.
LEMMA ClientNumbers ==
  MaxClients \in Nat /\ Clients = 1 .. MaxClients /\ None \notin Clients
  BY BoundAssumption DEF Clients, None

\* The number newClient gives is new.
LEMMA NextNumber ==
  ASSUME NEW n \in Nat
  PROVE  n + 1 \notin 1 .. n /\ 1 .. n + 1 = (1 .. n) \cup {n + 1}
<1>1. n + 1 \notin 1 .. n
  OBVIOUS
<1>2. \A d : d \in 1 .. n + 1 <=> d \in (1 .. n) \cup {n + 1}
  OBVIOUS
<1> QED
  BY <1>1, <1>2, Zenon

\* What a Pick of c does to the pool: the sweep, then a new connection or one
\* that is not retired.
LEMMA PickCases ==
  ASSUME NEW c \in Clients, Pick(c)
  PROVE  \/ \E u \in ReuseTimes, r \in RequestTimes : NewClient(c, u, r)
         \/ Reused(c)
  BY Zenon DEF Pick

\* Pick keeps the pool: the sweep closes what it drops, and the connection
\* returned has one pick more and one reuse less.
LEMMA PickKeepsPool ==
  ASSUME PoolInv, NEW c \in Clients, Pick(c)
  PROVE  PoolInv'
<1> USE ClientNumbers
<1>0. /\ made \in Nat /\ made <= MaxClients /\ c \in Nat /\ c >= 1
      /\ closed \in [Clients -> BOOLEAN] /\ leftUsage \in [Clients -> Int]
      /\ reuse \in [Clients -> Nat] /\ picks \in [Clients -> Nat]
  BY DEF PoolInv, PoolType
<1>1. /\ closed' = [d \in Clients |-> closed[d] \/ (d \in clients /\ Retired(d))]
      /\ picks' = [picks EXCEPT ![c] = @ + 1]
  BY Zenon DEF Pick
<1>2. closed' \in [Clients -> BOOLEAN]
  BY <1>1, Zenon
<1>3. picks' \in [Clients -> Nat]
  BY <1>0, <1>1
<1>4. \A d \in Clients : closed'[d] <=> closed[d] \/ (d \in clients /\ Retired(d))
  BY <1>1, Zenon
<1>5. 1 .. made \subseteq Clients /\ \A d \in Clients : d \in 1 .. made <=> d <= made
  BY <1>0
<1>6. clients = {d \in 1 .. made : ~closed[d]}
  BY DEF PoolInv, PooledIsOpen
<1>7. Swept = {d \in 1 .. made : ~closed'[d]}
  BY <1>4, <1>5, <1>6, Zenon DEF Swept
<1>8. CASE \E u \in ReuseTimes, r \in RequestTimes : NewClient(c, u, r)
  <2>1. PICK u \in ReuseTimes, r \in RequestTimes : NewClient(c, u, r)
    BY <1>8
  <2>2. /\ made < MaxClients /\ c = made + 1 /\ made' = c
        /\ clients' = Swept \cup {c}
        /\ reuse' = [reuse EXCEPT ![c] = u]
        /\ leftUsage' = [leftUsage EXCEPT ![c] = u - 1]
    BY <2>1, Zenon DEF NewClient
  <2>3. u \in Nat
    BY RangeAssumption
  <2>4. c \notin 1 .. made /\ 1 .. made' = (1 .. made) \cup {c} /\ c \notin clients
    <3>1. made' = made + 1 /\ c = made + 1
      BY <2>2, Zenon
    <3>2. c \notin 1 .. made /\ 1 .. made + 1 = (1 .. made) \cup {made + 1}
      BY <1>0, <3>1, NextNumber, Zenon
    <3> QED
      BY <1>6, <3>1, <3>2, Zenon
  <2>5. PoolType'
    <3>1. /\ leftUsage' \in [Clients -> Int] /\ reuse' \in [Clients -> Nat]
          /\ made' \in 0 .. MaxClients
      <4>1. u - 1 \in Int /\ c \in 0 .. MaxClients
        BY <1>0, <2>3
      <4>2. made' \in 0 .. MaxClients
        BY <2>2, <4>1, Zenon
      <4>3. leftUsage' \in [Clients -> Int] /\ reuse' \in [Clients -> Nat]
        BY <1>0, <2>2, <2>3, <4>1
      <4> QED
        BY <4>2, <4>3, Zenon
    <3>2. clients' \in SUBSET Clients
      BY <1>5, <1>7, <2>2, Zenon
    <3> QED
      BY <1>2, <1>3, <3>1, <3>2, Zenon DEF PoolType
  <2>6. ~closed'[c]
    <3>1. ~closed[c]
      BY <1>0, <2>2 DEF PoolInv, Budgets
    <3> QED
      BY <1>4, <2>4, <3>1, Zenon
  <2>7. PooledIsOpen'
    BY <1>7, <2>2, <2>4, <2>6, Zenon DEF PooledIsOpen
  <2>8. Budgets'
    <3>1. picks[c] = 0
      BY <1>0, <2>2 DEF PoolInv, Budgets
    <3>2. /\ picks'[c] = 1 /\ reuse'[c] = u /\ leftUsage'[c] = u - 1
          /\ \A d \in Clients : d # c =>
               picks'[d] = picks[d] /\ reuse'[d] = reuse[d] /\ leftUsage'[d] = leftUsage[d]
      BY <1>0, <1>1, <2>2, <3>1
    <3>3. ASSUME NEW d \in Clients, d <= made'
          PROVE  /\ reuse'[d] > 0 => leftUsage'[d] >= 0 /\ picks'[d] + leftUsage'[d] = reuse'[d]
                 /\ reuse'[d] = 0 => leftUsage'[d] = -1
      <4>1. CASE d = c
        BY <2>3, <3>2, <4>1
      <4>2. CASE d # c
        <5>1. d <= made
          BY <1>0, <2>2, <3>3, <4>2
        <5> QED
          BY <3>2, <4>2, <5>1 DEF PoolInv, Budgets
      <4> QED
        BY <4>1, <4>2
    <3>4. ASSUME NEW d \in Clients, d > made'
          PROVE  reuse'[d] = 0 /\ picks'[d] = 0 /\ ~closed'[d]
      <4>1. d # c /\ d > made /\ d \notin 1 .. made
        BY <1>0, <2>2, <3>4
      <4>2. reuse[d] = 0 /\ picks[d] = 0 /\ ~closed[d]
        BY <4>1 DEF PoolInv, Budgets
      <4>3. ~closed'[d]
        BY <1>4, <1>6, <4>1, <4>2, Zenon
      <4> QED
        BY <3>2, <4>1, <4>2, <4>3, Zenon
    <3> QED
      BY <3>3, <3>4, Zenon DEF Budgets
  <2> QED
    BY <2>5, <2>7, <2>8, Zenon DEF PoolInv
<1>9. CASE Reused(c)
  <2>1. /\ c \in Candidates /\ clients' = Swept
        /\ leftUsage' = [leftUsage EXCEPT ![c] = IF @ > 0 THEN @ - 1 ELSE @]
        /\ UNCHANGED <<made, reuse>>
    BY <1>9, Zenon DEF Reused
  <2>2. c \in clients /\ leftUsage[c] # 0 /\ c \in 1 .. made
    BY <1>6, <2>1 DEF Candidates, Swept, Retired
  <2>3. PoolType'
    <3>1. leftUsage' \in [Clients -> Int]
      BY <1>0, <2>1
    <3>2. clients' \in SUBSET Clients
      BY <1>5, <1>7, <2>1, Zenon
    <3> QED
      BY <1>2, <1>3, <2>1, <3>1, <3>2, Zenon DEF PoolType, PoolInv
  <2>4. PooledIsOpen'
    BY <1>7, <2>1, Zenon DEF PooledIsOpen
  <2>5. Budgets'
    <3>1. /\ picks'[c] = picks[c] + 1
          /\ leftUsage'[c] = IF leftUsage[c] > 0 THEN leftUsage[c] - 1 ELSE leftUsage[c]
          /\ \A d \in Clients : d # c => picks'[d] = picks[d] /\ leftUsage'[d] = leftUsage[d]
      BY <1>0, <1>1, <2>1
    <3>2. ASSUME NEW d \in Clients, d <= made
          PROVE  /\ reuse[d] > 0 => leftUsage'[d] >= 0 /\ picks'[d] + leftUsage'[d] = reuse[d]
                 /\ reuse[d] = 0 => leftUsage'[d] = -1
      <4>1. /\ reuse[d] > 0 => leftUsage[d] >= 0 /\ picks[d] + leftUsage[d] = reuse[d]
            /\ reuse[d] = 0 => leftUsage[d] = -1
            /\ leftUsage[d] \in Int /\ picks[d] \in Nat /\ reuse[d] \in Nat
        BY <1>0, <3>2 DEF PoolInv, Budgets
      <4>2. CASE d = c
        BY <2>2, <3>1, <4>1, <4>2
      <4>3. CASE d # c
        BY <3>1, <4>1, <4>3
      <4> QED
        BY <4>2, <4>3
    <3>3. ASSUME NEW d \in Clients, d > made
          PROVE  reuse[d] = 0 /\ picks'[d] = 0 /\ ~closed'[d]
      <4>1. d # c /\ d \notin 1 .. made
        BY <1>0, <2>2, <3>3
      <4>2. reuse[d] = 0 /\ picks[d] = 0 /\ ~closed[d]
        BY <3>3 DEF PoolInv, Budgets
      <4>3. ~closed'[d]
        BY <1>4, <1>6, <4>1, <4>2, Zenon
      <4> QED
        BY <3>1, <4>1, <4>2, <4>3, Zenon
    <3> QED
      BY <2>1, <3>2, <3>3, Zenon DEF Budgets
  <2> QED
    BY <2>3, <2>4, <2>5, Zenon DEF PoolInv
<1> QED
  BY <1>8, <1>9, PickCases

\* Client.Close closes and forgets the connections of the pool.
LEMMA CloseKeepsPool ==
  ASSUME PoolInv, ManagerClose
  PROVE  PoolInv'
<1>1. /\ closed' = [c \in Clients |-> closed[c] \/ c \in clients]
      /\ clients' = {}
      /\ UNCHANGED <<made, leftUsage, reuse, picks>>
  BY Zenon DEF ManagerClose
<1>2. \A d \in Clients : closed'[d] <=> closed[d] \/ d \in clients
  BY <1>1, Zenon
<1>3. made \in Nat /\ made <= MaxClients /\ clients = {d \in 1 .. made : ~closed[d]}
  BY ClientNumbers DEF PoolInv, PoolType, PooledIsOpen
<1>4. 1 .. made \subseteq Clients /\ \A d \in Clients : d \in 1 .. made <=> d <= made
  BY <1>3, ClientNumbers
<1>5. PoolType'
  <2>1. closed' \in [Clients -> BOOLEAN]
    BY <1>1, Zenon
  <2> QED
    BY <1>1, <2>1, Zenon DEF PoolInv, PoolType
<1>6. PooledIsOpen'
  BY <1>1, <1>2, <1>3, <1>4, Zenon DEF PooledIsOpen
<1>7. ASSUME NEW d \in Clients, d > made
      PROVE  reuse[d] = 0 /\ picks[d] = 0 /\ ~closed'[d]
  <2>1. reuse[d] = 0 /\ picks[d] = 0 /\ ~closed[d]
    BY <1>7, Zenon DEF PoolInv, Budgets
  <2>2. d \notin 1 .. made
    BY <1>3, <1>7, ClientNumbers
  <2> QED
    BY <1>2, <1>3, <2>1, <2>2, Zenon
<1>8. Budgets'
  BY <1>1, <1>7, Zenon DEF PoolInv, Budgets
<1> QED
  BY <1>5, <1>6, <1>8, Zenon DEF PoolInv

\* The pool and its budgets, in every reachable state.
LEMMA PoolInvariance == Spec => []PoolInv
<1>1. Init => PoolInv
  <2> SUFFICES ASSUME Init PROVE PoolInv
    OBVIOUS
  <2>1. PoolType
    BY ClientNumbers DEF Init, PoolType
  <2>2. Budgets
    BY ClientNumbers DEF Init, Budgets
  <2>3. PooledIsOpen
    BY DEF Init, PooledIsOpen
  <2> QED
    BY <2>1, <2>2, <2>3 DEF PoolInv
<1>2. ASSUME PoolInv, [Next]_vars
      PROVE  PoolInv'
  <2>1. CASE UNCHANGED poolVars
    BY <1>2, <2>1, Zenon DEF poolVars, PoolInv, PoolType, Budgets, PooledIsOpen
  <2>2. CASE \E c \in Clients : Pick(c)
    BY <1>2, <2>2, PickKeepsPool
  <2>3. CASE ManagerClose
    BY <1>2, <2>3, CloseKeepsPool
  <2>4. UNCHANGED poolVars \/ (\E c \in Clients : Pick(c)) \/ ManagerClose
    BY <1>2, Zenon DEF Next, vars, DialPick, DialUse, DialSpend, Release, UpPost, UpPick,
                       UpUse, UpLeave, UpStop, Expire
  <2> QED
    BY <2>1, <2>2, <2>3, <2>4
<1> QED
  BY <1>1, <1>2, PTL DEF Spec

\* The limit on reuse holds for any number of sessions, rotations and
\* connections: every Pick of a limited connection spends its leftUsage.
THEOREM PicksAreLimited == Spec => []ReuseLimit
<1>1. PoolInv => ReuseLimit
  <2> SUFFICES ASSUME PoolInv, NEW c \in Clients, reuse[c] > 0
               PROVE  picks[c] <= reuse[c]
    BY DEF ReuseLimit
  <2>1. made \in Nat /\ c \in Nat /\ picks[c] \in Nat /\ leftUsage[c] \in Int /\ reuse[c] \in Nat
    BY ClientNumbers DEF PoolInv, PoolType
  <2>2. CASE c <= made
    BY <2>1, <2>2 DEF PoolInv, Budgets
  <2>3. CASE c > made
    BY <2>1, <2>3 DEF PoolInv, Budgets
  <2> QED
    BY <2>1, <2>2, <2>3
<1> QED
  BY <1>1, PoolInvariance, PTL

\* The pool is exactly the open connections, whatever Pick, its sweep and
\* Client.Close do and in whatever order.
THEOREM PoolIsOpen == Spec => []PooledIsOpen
<1>1. PoolInv => PooledIsOpen
  BY DEF PoolInv
<1> QED
  BY <1>1, PoolInvariance, PTL
-----------------------------------------------------------------------------
\* How many sessions a set holds when one enters or leaves it.
LEMMA Enters ==
  ASSUME NEW S \in SUBSET Sessions, NEW s \in Sessions, s \notin S
  PROVE  Cardinality(S \cup {s}) = Cardinality(S) + 1
  BY BoundAssumption, FS_Subset, FS_AddElement

\* A session that leaves a set makes it smaller by one.
LEMMA Leaves ==
  ASSUME NEW S \in SUBSET Sessions, NEW s \in S
  PROVE  Cardinality(S \ {s}) = Cardinality(S) - 1
  BY BoundAssumption, FS_Subset, FS_RemoveElement

\* Sets of sessions are finite.
LEMMA SizeIsNat ==
  ASSUME NEW S \in SUBSET Sessions
  PROVE  Cardinality(S) \in Nat
  BY BoundAssumption, FS_Subset, FS_CardinalityType

\* A step that leaves the four sets and the counters alone.
LEMMA SameCounts ==
  ASSUME Counts, openUsage' = openUsage,
         \A c \in Clients : /\ Dialled(c)' = Dialled(c) /\ Uploading(c)' = Uploading(c)
                            /\ Began(c)' = Began(c) /\ Moving(c)' = Moving(c)
  PROVE  Counts'
  BY Zenon DEF Counts

\* Every step keeps the types, and an uploader runs only once its session was
\* dialled.
LEMMA SessTypeKept ==
  ASSUME SessType, Started, [Next]_vars
  PROVE  SessType' /\ Started'
<1> USE ClientNumbers
<1> USE DEF SessType, Started
<1>1. ASSUME NEW s \in Sessions, DialPick(s) PROVE SessType' /\ Started'
  <2>1. PICK c \in Clients : xc' = [xc EXCEPT ![s] = c]
    BY <1>1, Zenon DEF DialPick
  <2> QED
    BY <1>1, <2>1 DEF DialPick, upVars
<1>2. ASSUME NEW s \in Sessions, DialUse(s) PROVE SessType' /\ Started'
  BY <1>2 DEF DialUse, upVars
<1>3. ASSUME NEW s \in Sessions, DialSpend(s) PROVE SessType' /\ Started'
  BY <1>3 DEF DialSpend
<1>4. ASSUME NEW s \in Sessions, Release(s) PROVE SessType' /\ Started'
  BY <1>4 DEF Release, upVars
<1>5. ASSUME NEW s \in Sessions, UpPost(s) PROVE SessType' /\ Started'
  <2>1. up' = [up EXCEPT ![s] = "pick"] \/ up' = [up EXCEPT ![s] = "loop"]
    BY <1>5, Zenon DEF UpPost
  <2> QED
    BY <1>5, <2>1 DEF UpPost, sessVars
<1>6. ASSUME NEW s \in Sessions, UpPick(s) PROVE SessType' /\ Started'
  <2>1. PICK c \in Clients : newXc' = [newXc EXCEPT ![s] = c]
    BY <1>6, Zenon DEF UpPick
  <2> QED
    BY <1>6, <2>1 DEF UpPick, sessVars
<1>7. ASSUME NEW s \in Sessions, UpUse(s) PROVE SessType' /\ Started'
  BY <1>7 DEF UpUse, sessVars
<1>8. ASSUME NEW s \in Sessions, UpLeave(s) PROVE SessType' /\ Started'
  BY <1>8 DEF UpLeave, sessVars
<1>9. ASSUME NEW s \in Sessions, UpStop(s) PROVE SessType' /\ Started'
  BY <1>9 DEF UpStop, sessVars
<1>10. CASE UNCHANGED <<openUsage, sessVars, upVars>>
  BY <1>10 DEF sessVars, upVars
<1> QED
  BY <1>1, <1>2, <1>3, <1>4, <1>5, <1>6, <1>7, <1>8, <1>9, <1>10, Zenon
     DEF Next, vars, Expire, ManagerClose
\* The steps that count nobody: s has not been counted, or its uploader stays
\* where it is.
LEMMA QuietSteps ==
  ASSUME SessInv, NEW s \in Sessions,
         DialPick(s) \/ UpPost(s) \/ UpPick(s) \/ UpStop(s)
  PROVE  Counts'
<1>0. SessType /\ Started /\ Counts
  BY DEF SessInv
<1>1. \A t \in Sessions : t # s => /\ sess'[t] = sess[t] /\ xc'[t] = xc[t] /\ up'[t] = up[t]
                                   /\ upXc'[t] = upXc[t] /\ newXc'[t] = newXc[t]
  BY <1>0 DEF SessType, DialPick, UpPost, UpPick, UpStop, sessVars, upVars
<1>2. openUsage' = openUsage
  BY Zenon DEF DialPick, UpPost, UpPick, UpStop
<1>3. CASE DialPick(s)
  <2>1. up[s] = "off" /\ up'[s] = "off" /\ sess[s] = "idle" /\ sess'[s] = "picked"
    BY <1>0, <1>3 DEF SessType, Started, DialPick, upVars
  <2>2. ASSUME NEW c \in Clients
        PROVE  /\ Dialled(c)' = Dialled(c) /\ Uploading(c)' = Uploading(c)
               /\ Began(c)' = Began(c) /\ Moving(c)' = Moving(c)
    <3>1. Dialled(c)' = Dialled(c)
      BY <1>1, <2>1, Zenon DEF Dialled
    <3>2. Uploading(c)' = Uploading(c)
      BY <1>1, <2>1, Zenon DEF Uploading
    <3>3. Began(c)' = Began(c)
      BY <1>1, <2>1, Zenon DEF Began
    <3>4. Moving(c)' = Moving(c)
      BY <1>1, <2>1, Zenon DEF Moving
    <3> QED
      BY <3>1, <3>2, <3>3, <3>4, Zenon
  <2> QED
    BY <1>0, <1>2, <2>2, SameCounts, Zenon
<1>4. CASE UpPost(s) \/ UpPick(s) \/ UpStop(s)
  <2>1. /\ up[s] \in {"loop", "pick"} /\ up'[s] \in {"loop", "pick", "add", "stopped"}
        /\ sess'[s] = sess[s] /\ xc'[s] = xc[s] /\ upXc'[s] = upXc[s]
    BY <1>0, <1>4 DEF SessType, UpPost, UpPick, UpStop, sessVars
  <2>2. ASSUME NEW c \in Clients
        PROVE  /\ Dialled(c)' = Dialled(c) /\ Uploading(c)' = Uploading(c)
               /\ Began(c)' = Began(c) /\ Moving(c)' = Moving(c)
    <3>1. Dialled(c)' = Dialled(c)
      BY <1>1, <2>1, Zenon DEF Dialled
    <3>2. Uploading(c)' = Uploading(c)
      BY <1>1, <2>1, Zenon DEF Uploading
    <3>3. Began(c)' = Began(c)
      BY <1>1, <2>1, Zenon DEF Began
    <3>4. Moving(c)' = Moving(c)
      BY <1>1, <2>1, Zenon DEF Moving
    <3> QED
      BY <3>1, <3>2, <3>3, <3>4, Zenon
  <2> QED
    BY <1>0, <1>2, <2>2, SameCounts, Zenon
<1> QED
  BY <1>3, <1>4

\* DialUse and Release: s enters or leaves the sessions dialled on xc[s].
LEMMA DialCounts ==
  ASSUME SessInv, NEW s \in Sessions, DialUse(s) \/ Release(s)
  PROVE  Counts'
<1>0. SessType /\ Started /\ Counts
  BY DEF SessInv
<1> DEFINE x == xc[s]
<1>1. /\ xc' = xc /\ up' = up /\ upXc' = upXc /\ newXc' = newXc
      /\ \A t \in Sessions : t # s => sess'[t] = sess[t]
      /\ x \in Clients
  BY <1>0 DEF SessType, DialUse, Release, upVars
<1> SUFFICES ASSUME NEW c \in Clients
             PROVE  openUsage'[c] = Cardinality(Dialled(c)') + Cardinality(Uploading(c))
                                      - Cardinality(Began(c)) + Cardinality(Moving(c))
  <2>1. \A c \in Clients : /\ Uploading(c)' = Uploading(c) /\ Began(c)' = Began(c)
                           /\ Moving(c)' = Moving(c)
    BY <1>1, Zenon DEF Uploading, Began, Moving
  <2> QED
    BY <2>1, Zenon DEF Counts
<1>2. openUsage[c] = Cardinality(Dialled(c)) + Cardinality(Uploading(c))
                       - Cardinality(Began(c)) + Cardinality(Moving(c))
  BY <1>0, Zenon DEF Counts
<1>3. /\ Cardinality(Dialled(c)) \in Nat /\ Cardinality(Uploading(c)) \in Nat
      /\ Cardinality(Began(c)) \in Nat /\ Cardinality(Moving(c)) \in Nat
      /\ Dialled(c) \in SUBSET Sessions
  BY SizeIsNat, Zenon DEF Dialled, Uploading, Began, Moving
<1>4. CASE c # x
  <2>1. Dialled(c)' = Dialled(c)
    BY <1>1, <1>4, Zenon DEF Dialled
  <2>2. openUsage'[c] = openUsage[c]
    BY <1>0, <1>1, <1>4 DEF SessType, DialUse, Release
  <2> QED
    BY <1>2, <2>1, <2>2, Zenon
<1>5. CASE c = x /\ DialUse(s)
  <2>1. sess[s] = "picked" /\ sess'[s] = "counted"
    BY <1>0, <1>5 DEF SessType, DialUse
  <2>2. s \notin Dialled(c) /\ Dialled(c)' = Dialled(c) \cup {s}
    BY <1>1, <1>5, <2>1, Zenon DEF Dialled
  <2>3. Cardinality(Dialled(c)') = Cardinality(Dialled(c)) + 1
    BY <1>3, <2>2, Enters, Zenon
  <2>4. openUsage'[c] = openUsage[c] + 1
    BY <1>0, <1>5 DEF SessType, DialUse
  <2>5. (Cardinality(Dialled(c)) + 1) + Cardinality(Uploading(c)) - Cardinality(Began(c)) + Cardinality(Moving(c))
          = (Cardinality(Dialled(c)) + Cardinality(Uploading(c)) - Cardinality(Began(c)) + Cardinality(Moving(c))) + 1
    BY <1>3
  <2> QED
    BY <1>2, <2>3, <2>4, <2>5, Zenon
<1>6. CASE c = x /\ Release(s)
  <2>1. sess[s] = "open" /\ sess'[s] = "closed"
    BY <1>0, <1>6 DEF SessType, Release
  <2>2. s \in Dialled(c) /\ Dialled(c)' = Dialled(c) \ {s}
    BY <1>1, <1>6, <2>1, Zenon DEF Dialled
  <2>3. Cardinality(Dialled(c)') = Cardinality(Dialled(c)) - 1
    BY <1>3, <2>2, Leaves, Zenon
  <2>4. openUsage'[c] = openUsage[c] - 1
    BY <1>0, <1>6 DEF SessType, Release
  <2>5. (Cardinality(Dialled(c)) - 1) + Cardinality(Uploading(c)) - Cardinality(Began(c)) + Cardinality(Moving(c))
          = (Cardinality(Dialled(c)) + Cardinality(Uploading(c)) - Cardinality(Began(c)) + Cardinality(Moving(c))) - 1
    BY <1>3
  <2> QED
    BY <1>2, <2>3, <2>4, <2>5, Zenon
<1> QED
  BY <1>4, <1>5, <1>6

\* DialSpend: the uploader of s begins on the connection s was dialled on.
LEMMA SpendCounts ==
  ASSUME SessInv, NEW s \in Sessions, DialSpend(s)
  PROVE  Counts'
<1>0. SessType /\ Started /\ Counts
  BY DEF SessInv
<1>1. /\ xc' = xc /\ newXc' = newXc /\ openUsage' = openUsage
      /\ \A t \in Sessions : t # s => /\ sess'[t] = sess[t] /\ up'[t] = up[t]
                                      /\ upXc'[t] = upXc[t]
      /\ sess[s] = "counted" /\ sess'[s] = "open" /\ upXc'[s] = xc[s] /\ up[s] = "off"
      /\ up'[s] \in {"off", "loop"}
  BY <1>0 DEF SessType, Started, DialSpend
<1>2. ASSUME NEW c \in Clients
      PROVE  openUsage'[c] = Cardinality(Dialled(c)') + Cardinality(Uploading(c)')
                               - Cardinality(Began(c)') + Cardinality(Moving(c)')
  <2>1. openUsage[c] = Cardinality(Dialled(c)) + Cardinality(Uploading(c))
                         - Cardinality(Began(c)) + Cardinality(Moving(c))
    BY <1>0, Zenon DEF Counts
  <2>2. Dialled(c)' = Dialled(c) /\ Moving(c)' = Moving(c)
    BY <1>1, Zenon DEF Dialled, Moving
  <2>3. CASE up'[s] = "loop" /\ c = xc[s]
    <3>1. /\ s \notin Uploading(c) /\ Uploading(c)' = Uploading(c) \cup {s}
          /\ s \notin Began(c) /\ Began(c)' = Began(c) \cup {s}
      BY <1>1, <2>3, Zenon DEF Uploading, Began
    <3>2. Uploading(c) \in SUBSET Sessions /\ Began(c) \in SUBSET Sessions
      BY Zenon DEF Uploading, Began
    <3>3. /\ Cardinality(Uploading(c)') = Cardinality(Uploading(c)) + 1
          /\ Cardinality(Began(c)') = Cardinality(Began(c)) + 1
      BY <3>1, <3>2, Enters, Zenon
    <3>4. /\ Cardinality(Dialled(c)) \in Nat /\ Cardinality(Uploading(c)) \in Nat
          /\ Cardinality(Began(c)) \in Nat /\ Cardinality(Moving(c)) \in Nat
      BY SizeIsNat, Zenon DEF Dialled, Uploading, Began, Moving
    <3>5. Cardinality(Dialled(c)) + (Cardinality(Uploading(c)) + 1) - (Cardinality(Began(c)) + 1) + Cardinality(Moving(c))
            = Cardinality(Dialled(c)) + Cardinality(Uploading(c)) - Cardinality(Began(c)) + Cardinality(Moving(c))
      BY <3>4
    <3> QED
      BY <1>1, <2>1, <2>2, <3>3, <3>5, Zenon
  <2>4. CASE up'[s] = "off" \/ c # xc[s]
    <3>1. Uploading(c)' = Uploading(c) /\ Began(c)' = Began(c)
      BY <1>1, <2>4, Zenon DEF Uploading, Began
    <3> QED
      BY <1>1, <2>1, <2>2, <3>1, Zenon
  <2> QED
    BY <1>1, <2>3, <2>4
<1> QED
  BY <1>2, Zenon DEF Counts

\* UpUse: the uploader of s is counted on the connection it moves to.
LEMMA UseCounts ==
  ASSUME SessInv, NEW s \in Sessions, UpUse(s)
  PROVE  Counts'
<1>0. SessType /\ Started /\ Counts
  BY DEF SessInv
<1>1. /\ sess' = sess /\ xc' = xc /\ newXc' = newXc /\ upXc' = upXc
      /\ \A t \in Sessions : t # s => up'[t] = up[t]
      /\ up[s] = "add" /\ up'[s] = "sub" /\ newXc[s] \in Clients
  BY <1>0 DEF SessType, UpUse, sessVars
<1>2. ASSUME NEW c \in Clients
      PROVE  openUsage'[c] = Cardinality(Dialled(c)') + Cardinality(Uploading(c)')
                               - Cardinality(Began(c)') + Cardinality(Moving(c)')
  <2>1. openUsage[c] = Cardinality(Dialled(c)) + Cardinality(Uploading(c))
                         - Cardinality(Began(c)) + Cardinality(Moving(c))
    BY <1>0, Zenon DEF Counts
  <2>2. Dialled(c)' = Dialled(c) /\ Uploading(c)' = Uploading(c) /\ Began(c)' = Began(c)
    BY <1>1, Zenon DEF Dialled, Uploading, Began
  <2>3. CASE c = newXc[s]
    <3>1. s \notin Moving(c) /\ Moving(c)' = Moving(c) \cup {s}
      BY <1>1, <2>3, Zenon DEF Moving
    <3>2. Cardinality(Moving(c)') = Cardinality(Moving(c)) + 1
      <4>1. Moving(c) \in SUBSET Sessions
        BY Zenon DEF Moving
      <4> QED
        BY <3>1, <4>1, Enters, Zenon
    <3>3. /\ Cardinality(Dialled(c)) \in Nat /\ Cardinality(Uploading(c)) \in Nat
          /\ Cardinality(Began(c)) \in Nat /\ Cardinality(Moving(c)) \in Nat
      BY SizeIsNat, Zenon DEF Dialled, Uploading, Began, Moving
    <3>4. openUsage'[c] = openUsage[c] + 1
      BY <1>0, <2>3 DEF SessType, UpUse
    <3>5. Cardinality(Dialled(c)) + Cardinality(Uploading(c)) - Cardinality(Began(c)) + (Cardinality(Moving(c)) + 1)
            = (Cardinality(Dialled(c)) + Cardinality(Uploading(c)) - Cardinality(Began(c)) + Cardinality(Moving(c))) + 1
      BY <3>3
    <3> QED
      BY <2>1, <2>2, <3>2, <3>4, <3>5, Zenon
  <2>4. CASE c # newXc[s]
    <3>1. Moving(c)' = Moving(c)
      BY <1>1, <2>4, Zenon DEF Moving
    <3>2. openUsage'[c] = openUsage[c]
      BY <1>0, <1>1, <2>4 DEF SessType, UpUse
    <3> QED
      BY <2>1, <2>2, <3>1, <3>2, Zenon
  <2> QED
    BY <2>3, <2>4
<1> QED
  BY <1>2, Zenon DEF Counts

\* UpLeave: the move ends, and the uploader of s is on the new connection only
\* (which may be the old one).
LEMMA LeaveCounts ==
  ASSUME SessInv, NEW s \in Sessions, UpLeave(s)
  PROVE  Counts'
<1>0. SessType /\ Started /\ Counts
  BY DEF SessInv
<1> DEFINE old == upXc[s]
           new == newXc[s]
<1>1. /\ sess' = sess /\ xc' = xc /\ newXc' = newXc
      /\ \A t \in Sessions : t # s => up'[t] = up[t] /\ upXc'[t] = upXc[t]
      /\ up[s] = "sub" /\ up'[s] = "loop" /\ upXc'[s] = new
      /\ old \in Clients /\ new \in Clients
  BY <1>0 DEF SessType, UpLeave, sessVars
<1>2. ASSUME NEW c \in Clients
      PROVE  openUsage'[c] = Cardinality(Dialled(c)') + Cardinality(Uploading(c)')
                               - Cardinality(Began(c)') + Cardinality(Moving(c)')
  <2>1. openUsage[c] = Cardinality(Dialled(c)) + Cardinality(Uploading(c))
                         - Cardinality(Began(c)) + Cardinality(Moving(c))
    BY <1>0, Zenon DEF Counts
  <2>2. Dialled(c)' = Dialled(c) /\ Began(c)' = Began(c)
    BY <1>1, Zenon DEF Dialled, Began
  <2>3. /\ Cardinality(Dialled(c)) \in Nat /\ Cardinality(Uploading(c)) \in Nat
        /\ Cardinality(Began(c)) \in Nat /\ Cardinality(Moving(c)) \in Nat
        /\ Uploading(c) \in SUBSET Sessions /\ Moving(c) \in SUBSET Sessions
    BY SizeIsNat, Zenon DEF Dialled, Uploading, Began, Moving
  <2>4. Cardinality(Moving(c)') = Cardinality(Moving(c)) - (IF c = new THEN 1 ELSE 0)
    <3>1. CASE c = new
      <4>1. s \in Moving(c) /\ Moving(c)' = Moving(c) \ {s}
        BY <1>1, <3>1, Zenon DEF Moving
      <4>2. Cardinality(Moving(c)') = Cardinality(Moving(c)) - 1
        BY <2>3, <4>1, Leaves, Zenon
      <4> QED
        BY <3>1, <4>2, Zenon
    <3>2. CASE c # new
      <4>1. Moving(c)' = Moving(c)
        BY <1>1, <3>2, Zenon DEF Moving
      <4> QED
        BY <2>3, <3>2, <4>1
    <3> QED
      BY <3>1, <3>2
  <2>5. Cardinality(Uploading(c)') =
          Cardinality(Uploading(c)) + (IF c = new THEN 1 ELSE 0) - (IF c = old THEN 1 ELSE 0)
    <3>1. CASE c = new /\ c # old
      <4>1. s \notin Uploading(c) /\ Uploading(c)' = Uploading(c) \cup {s}
        BY <1>1, <3>1, Zenon DEF Uploading
      <4>2. Cardinality(Uploading(c)') = Cardinality(Uploading(c)) + 1
        BY <2>3, <4>1, Enters, Zenon
      <4> QED
        BY <2>3, <3>1, <4>2
    <3>2. CASE c # new /\ c = old
      <4>1. s \in Uploading(c) /\ Uploading(c)' = Uploading(c) \ {s}
        BY <1>1, <3>2, Zenon DEF Uploading
      <4>2. Cardinality(Uploading(c)') = Cardinality(Uploading(c)) - 1
        BY <2>3, <4>1, Leaves, Zenon
      <4> QED
        BY <2>3, <3>2, <4>2
    <3>3. CASE (c = new) <=> (c = old)
      <4>1. Uploading(c)' = Uploading(c)
        BY <1>1, <3>3, Zenon DEF Uploading
      <4> QED
        BY <2>3, <3>3, <4>1
    <3> QED
      BY <3>1, <3>2, <3>3, Zenon
  <2>6. openUsage'[c] = openUsage[c] - (IF c = old THEN 1 ELSE 0)
    BY <1>0, <1>1 DEF SessType, UpLeave
  <2> HIDE DEF old, new
  <2> QED
    BY <2>1, <2>2, <2>3, <2>4, <2>5, <2>6
<1> QED
  BY <1>2, Zenon DEF Counts

\* What openUsage counts, in every reachable state.
LEMMA SessInvariance == Spec => []SessInv
<1>1. Init => SessInv
  <2> SUFFICES ASSUME Init PROVE SessInv
    OBVIOUS
  <2>1. SessType /\ Started
    BY DEF Init, SessType, Started
  <2>2. ASSUME NEW c \in Clients
        PROVE  Dialled(c) = {} /\ Uploading(c) = {} /\ Began(c) = {} /\ Moving(c) = {}
    BY DEF Init, Dialled, Uploading, Began, Moving
  <2>3. \A c \in Clients : openUsage[c] = 0
    BY DEF Init
  <2>4. Counts
    BY <2>2, <2>3, FS_EmptySet DEF Counts
  <2> QED
    BY <2>1, <2>4 DEF SessInv
<1>2. ASSUME SessInv, [Next]_vars
      PROVE  SessInv'
  <2>1. SessType' /\ Started'
    BY <1>2, SessTypeKept, Zenon DEF SessInv
  <2>2. CASE UNCHANGED <<openUsage, sessVars, upVars>>
    <3>1. \A c \in Clients : /\ Dialled(c)' = Dialled(c) /\ Uploading(c)' = Uploading(c)
                             /\ Began(c)' = Began(c) /\ Moving(c)' = Moving(c)
      BY <2>2, Zenon DEF sessVars, upVars, Dialled, Uploading, Began, Moving
    <3>2. Counts'
      BY <1>2, <2>2, <3>1, SameCounts, Zenon DEF SessInv
    <3> QED
      BY <2>1, <3>2, Zenon DEF SessInv
  <2>3. ASSUME NEW s \in Sessions,
               \/ DialPick(s) \/ DialUse(s) \/ DialSpend(s) \/ Release(s)
               \/ UpPost(s) \/ UpPick(s) \/ UpUse(s) \/ UpLeave(s) \/ UpStop(s)
        PROVE  SessInv'
    <3>1. Counts'
      BY <1>2, <2>3, QuietSteps, DialCounts, SpendCounts, UseCounts, LeaveCounts, Zenon
    <3> QED
      BY <2>1, <3>1, Zenon DEF SessInv
  <2> QED
    BY <1>2, <2>2, <2>3, Zenon DEF Next, vars, Expire, ManagerClose
<1> QED
  BY <1>1, <1>2, PTL DEF Spec

\* As long as no uploader has rotated, openUsage is the number of sessions on
\* the connection: what max_concurrency is compared with.
LEMMA UsageBeforeRotation ==
  ASSUME SessInv, ~Rotated, NEW c \in Clients
  PROVE  openUsage[c] = Cardinality(Using(c)) /\ Cardinality(Using(c)) \in Nat
<1>1. \A s \in Sessions : up[s] # "sub" /\ (up[s] # "off" => upXc[s] = xc[s])
  BY Zenon DEF Rotated
<1>2. Moving(c) = {} /\ Uploading(c) = Began(c) /\ Using(c) = Dialled(c)
  BY <1>1, Zenon DEF Moving, Uploading, Began, Using, Dialled
<1>3. /\ Cardinality(Dialled(c)) \in Nat /\ Cardinality(Began(c)) \in Nat
      /\ Cardinality(Moving(c)) = 0
  BY <1>2, SizeIsNat, FS_EmptySet, Zenon DEF Dialled, Began
<1>4. openUsage[c] = Cardinality(Dialled(c)) + Cardinality(Uploading(c))
                       - Cardinality(Began(c)) + Cardinality(Moving(c))
  BY Zenon DEF SessInv, Counts
<1> QED
  BY <1>2, <1>3, <1>4

\* A Pick that creates a connection past max_connections found every pooled
\* one carrying max_concurrency sessions, for any number of sessions.
THEOREM SpawnsAreJustified == Spec => SpawnJustified
<1>1. ASSUME PoolInv, SessInv, [Next]_vars,
             ~Rotated, made' > made, Cardinality(Swept) >= Connections, Swept # {}
      PROVE  Concurrency > 0 /\ \A c \in Swept : Cardinality(Using(c)) >= Concurrency
  <2>1. made \in Nat /\ clients \in SUBSET Clients
    BY <1>1, ClientNumbers DEF PoolInv, PoolType
  <2>2. ~(made' = made)
    BY <1>1, <2>1
  <2>3. PICK c \in Clients : Pick(c)
    BY <1>1, <2>2, Zenon DEF Next, vars, poolVars, DialPick, DialUse, DialSpend, Release,
                             UpPost, UpPick, UpUse, UpLeave, UpStop, Expire, ManagerClose
  <2>4. ~(Cardinality(Swept) < Connections)
    <3>1. Swept \in SUBSET Clients
      BY <2>1, Zenon DEF Swept
    <3>2. IsFiniteSet(Clients)
      BY ClientNumbers, FS_Interval
    <3>3. Cardinality(Swept) \in Nat
      BY <3>1, <3>2, FS_Subset, FS_CardinalityType, Zenon
    <3> QED
      BY <1>1, <3>3, LimitAssumption
  <2>5. Candidates = {}
    <3>1. ~Reused(c)
      BY <2>2, Zenon DEF Reused
    <3> QED
      BY <1>1, <2>3, <2>4, <3>1, Zenon DEF Pick
  <2>6. Concurrency > 0 /\ \A d \in Swept : ~(openUsage[d] < Concurrency)
    BY <1>1, <2>5, Zenon DEF Candidates
  <2>7. ASSUME NEW d \in Swept
        PROVE  Cardinality(Using(d)) >= Concurrency
    <3>1. d \in Clients
      BY <2>1, Zenon DEF Swept
    <3>2. openUsage[d] = Cardinality(Using(d)) /\ Cardinality(Using(d)) \in Nat
      BY <1>1, <3>1, UsageBeforeRotation, Zenon
    <3> QED
      BY <2>6, <3>2, LimitAssumption
  <2> QED
    BY <2>6, <2>7
<1>2. PoolInv /\ SessInv /\ [Next]_vars =>
        [~Rotated /\ made' > made /\ Cardinality(Swept) >= Connections /\ Swept # {} =>
           Concurrency > 0 /\ \A c \in Swept : Cardinality(Using(c)) >= Concurrency]_vars
  BY <1>1, Zenon
<1> QED
  BY <1>2, PoolInvariance, SessInvariance, PTL DEF Spec, SpawnJustified
=============================================================================
