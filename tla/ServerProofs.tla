---------------------------- MODULE ServerProofs ----------------------------
(***************************************************************************)
(* The server: its sessions, and the queue of an uplink.                   *)
(*                                                                         *)
(* Safety of the sessions for any number of requests of each kind and any  *)
(* mix of them (the runs check mixes of two).  The argument has four       *)
(* parts, each inductive with the ones before it: the types; Attached,     *)
(* which ties a decided uplink to the POST that decided it; Joined, which  *)
(* ties the phases of splitConn.Close to the state of the flushWriter;     *)
(* Mapped, which ties the map to the sessions that were made.              *)
(*                                                                         *)
(* The reassembly queue for every set of POSTs, every buffer limit, every  *)
(* choice of read buffers and every well-formed workload.                  *)
(***************************************************************************)
EXTENDS ServerSession, UploadQueue, TLAPS

\* Every request past upsertSession has a session, and so has every download
\* whose upper layer runs.
HasSession ==
  /\ \A q \in Objs : pc[q] \notin {"never", "new"} => obj[q] \in Objs
  /\ \A g \in Gets : upper[g] # "off" => obj[g] \in Objs

\* An uplink names the POST that decided it, which has that session; a session
\* that is closing has its closed channel closed; and BodyReleased.
Attached ==
  /\ \A o \in Objs, u \in Streams :
       uplink[o] = u => obj[u] = o /\ pc[u] \in {"check", "serving", "closing", "returned"}
  /\ \A u \in Streams : pc[u] = "check" => obj[u] \in Objs /\ uplink[obj[u]] = u
  /\ \A o \in Objs : closing[o] # "no" => sclosed[o]
  /\ BodyReleased

\* Past the first part of splitConn.Close the writer is closed and idle, and a
\* handler past its join has seen all of it.
Joined ==
  \A g \in Conns :
    /\ conn[g] \in {"session", "wait", "done"} => wclosed[g] /\ ~writing[g]
    /\ pc[g] \in {"delete", "trailers", "returned"} => conn[g] = "done"

\* The requests that can arrive include at most one download.
OneGet == \A mix \in Mixes : \A g, h \in mix \cap Gets : g = h

\* A session exists once the request that made it has run upsertSession; a
\* download's session that is neither closed nor being reaped is the one the ID
\* maps to.
Mapped ==
  /\ \A q \in Objs : obj[q] \in Objs => pc[obj[q]] \notin {"never", "new"}
  /\ entry \in Objs => pc[entry] \notin {"never", "new"}
  /\ \A g \in Gets :
       /\ pc[g] \in {"upserted", "marked", "serving"}
       /\ ~sclosed[obj[g]] /\ reaper[obj[g]] # "close"
       => entry = obj[g]
  /\ \A g, h \in Gets : pc[g] # "never" /\ pc[h] # "never" => g = h

\* The steps, one per action.
LEMMA Steps ==
  ASSUME ServerNext
  PROVE  \/ \E o \in Objs : CloseQueue(o)
         \/ \E o \in Objs : CloseBody(o)
         \/ \E o \in Objs : ReaperWakes(o)
         \/ \E o \in Objs : ReaperDeletes(o)
         \/ \E o \in Objs : ReaperCloses(o)
         \/ \E r \in Objs : Upsert(r)
         \/ \E r \in Streams \cup Conns : ContextDone(r)
         \/ \E u \in Streams : StreamDecide(u)
         \/ \E u \in Streams : StreamCheck(u)
         \/ \E u \in Streams : StreamReturn(u)
         \/ \E u \in Streams : StreamLeave(u)
         \/ \E k \in Packets : PacketDecide(k)
         \/ \E k \in Packets : PacketPush(k)
         \/ \E k \in Packets : PacketSelect(k)
         \/ \E g \in Gets : LazyRead(g)
         \/ \E g \in Gets : QueueRead(g)
         \/ \E g \in Conns : Serve(g)
         \/ \E g \in Conns : Leave(g)
         \/ \E g \in Gets : GetMark(g)
         \/ \E g \in Gets : GetJoin(g)
         \/ \E g \in Gets : GetDelete(g)
         \/ \E x \in Ones : OneJoin(x)
         \/ \E x \in Ones : OneFinish(x)
         \/ \E g \in Gets : WatcherCloses(g)
         \/ \E x \in Ones : OneWatcherCloses(x)
         \/ \E g \in Conns : WatcherEnds(g)
         \/ \E g \in Conns : ConnCloseWriter(g)
         \/ \E g \in Gets : ConnCloseReader(g)
         \/ \E x \in Ones : OneCloseReader(x)
         \/ \E g \in Conns : ConnOnClose(g)
         \/ \E g \in Conns : UpperClose(g)
         \/ \E g \in Conns : UpperEnd(g)
         \/ \E g \in Conns : WriteBegin(g)
         \/ \E g \in Conns : WriteEnd(g)
BY DEF ServerNext, Session, Stream, PacketPost, Handler, handleDownloadGet, handleStreamOne,
   Watcher, Closer, Conns
-----------------------------------------------------------------------------
LEMMA TypeInit ==
  ASSUME ServerInit
  PROVE  ServerTypeOK
BY KindsAssumption, MixesAssumption, CapacityAssumption, SMTT(30) DEF ServerInit, ServerTypeOK,
   Objs, Conns, Requests

LEMMA TypeStep ==
  ASSUME ServerTypeOK, HasSession, [ServerNext]_serverVars
  PROVE  ServerTypeOK'
<1> USE KindsAssumption, CapacityAssumption DEF ServerTypeOK, Objs, Conns, Requests
<1>1. ASSUME NEW o \in Objs, CloseQueue(o) PROVE ServerTypeOK'
  BY <1>1 DEF CloseQueue, sessVars, mapVars, reqVars, connVars
<1>2. ASSUME NEW o \in Objs, CloseBody(o) PROVE ServerTypeOK'
  BY <1>2 DEF CloseBody, sessVars, mapVars, reqVars, connVars
<1>3. ASSUME NEW o \in Objs, ReaperWakes(o) PROVE ServerTypeOK'
  BY <1>3 DEF ReaperWakes, sessVars, mapVars, reqVars, connVars
<1>4. ASSUME NEW o \in Objs, ReaperDeletes(o) PROVE ServerTypeOK'
  BY <1>4 DEF ReaperDeletes, sessVars, mapVars, reqVars, connVars
<1>5. ASSUME NEW o \in Objs, ReaperCloses(o) PROVE ServerTypeOK'
  BY <1>5 DEF ReaperCloses, StartClose, sessVars, mapVars, reqVars, connVars
<1>6. ASSUME NEW r \in Objs, Upsert(r) PROVE ServerTypeOK'
  <2>1. /\ entry' \in Objs \cup {None} /\ obj' \in [Requests -> Objs \cup {None}]
        /\ reaper' \in [Objs -> {"off", "wait", "lock", "close", "gone"}]
    <3>1. CASE entry # None
      BY <1>6, <3>1, SMTT(30) DEF Upsert, upsertSession, mapVars
    <3>2. CASE entry = None
      BY <1>6, <3>2 DEF Upsert, upsertSession
    <3> QED
      BY <3>1, <3>2
  <2> QED
    BY <1>6, <2>1 DEF Upsert, Go, sessVars, connVars
<1>7. ASSUME NEW r \in Streams \cup Conns, ContextDone(r) PROVE ServerTypeOK'
  BY <1>7 DEF ContextDone, sessVars, mapVars, reqVars, connVars
<1>8. ASSUME NEW u \in Streams, StreamDecide(u) PROVE ServerTypeOK'
  BY <1>8, Zenon DEF StreamDecide, Go, sessVars, mapVars, reqVars, connVars
<1>9. ASSUME NEW u \in Streams, StreamCheck(u) PROVE ServerTypeOK'
  BY <1>9 DEF StreamCheck, Go, sessVars, mapVars, reqVars, connVars
<1>10. ASSUME NEW u \in Streams, StreamReturn(u) PROVE ServerTypeOK'
  BY <1>10 DEF StreamReturn, Go, sessVars, mapVars, reqVars, connVars
<1>11. ASSUME NEW u \in Streams, StreamLeave(u) PROVE ServerTypeOK'
  BY <1>11, Zenon DEF StreamLeave, StartClose, Go, sessVars, mapVars, reqVars, connVars
<1>12. ASSUME NEW k \in Packets, PacketDecide(k) PROVE ServerTypeOK'
  BY <1>12, Zenon DEF PacketDecide, Go, sessVars, mapVars, reqVars, connVars
<1>13. ASSUME NEW k \in Packets, PacketPush(k) PROVE ServerTypeOK'
  BY <1>13 DEF PacketPush, Go, sessVars, mapVars, reqVars, connVars
<1>14. ASSUME NEW k \in Packets, PacketSelect(k) PROVE ServerTypeOK'
  <2>1. obj[k] \in Objs
    BY <1>14 DEF PacketSelect, Go, HasSession
  <2>2. qlen' \in [Objs -> 0 .. maxBufferedPosts]
    <3>1. CASE qlen[obj[k]] < maxBufferedPosts /\ qlen' = [qlen EXCEPT ![obj[k]] = @ + 1]
      BY <2>1, <3>1
    <3>2. CASE UNCHANGED qlen
      BY <3>2
    <3> QED
      BY <1>14, <3>1, <3>2 DEF PacketSelect
  <2> QED
    BY <1>14, <2>2 DEF PacketSelect, Go, mapVars, connVars
<1>15. ASSUME NEW g \in Gets, LazyRead(g) PROVE ServerTypeOK'
  <2>1. obj[g] \in Objs
    BY <1>15 DEF LazyRead, HasSession
  <2>2. uplink[obj[g]] \in {"undecided", "packet"} \cup Streams
    BY <2>1
  <2>3. src' \in [Gets -> {"unset", "queue", "eof"} \cup Streams]
    <3>1. CASE /\ uplink[obj[g]] # "undecided"
               /\ src' = [src EXCEPT ![g] = IF uplink[obj[g]] = "packet" THEN "queue"
                                           ELSE uplink[obj[g]]]
      BY <2>2, <3>1
    <3>2. CASE src' = [src EXCEPT ![g] = "eof"]
      BY <3>2
    <3> QED
      BY <1>15, <3>1, <3>2 DEF LazyRead
  <2> QED
    BY <1>15, <2>3 DEF LazyRead, sessVars, mapVars, reqVars
<1>16. ASSUME NEW g \in Gets, QueueRead(g) PROVE ServerTypeOK'
  <2>1. obj[g] \in Objs
    BY <1>16 DEF QueueRead, HasSession
  <2>2. qlen' \in [Objs -> 0 .. maxBufferedPosts]
    BY <1>16, <2>1 DEF QueueRead
  <2> QED
    BY <1>16, <2>2 DEF QueueRead, mapVars, reqVars, connVars
<1>17. ASSUME NEW g \in Conns, Serve(g) PROVE ServerTypeOK'
  BY <1>17 DEF Serve, Go, sessVars, mapVars, reqVars, connVars
<1>18. ASSUME NEW g \in Conns, Leave(g) PROVE ServerTypeOK'
  BY <1>18 DEF Leave, StartConnClose, Go, sessVars, mapVars, reqVars, connVars
<1>19. ASSUME NEW g \in Gets, GetMark(g) PROVE ServerTypeOK'
  BY <1>19, Zenon DEF GetMark, Go, sessVars, mapVars, reqVars, connVars
<1>20. ASSUME NEW g \in Gets, GetJoin(g) PROVE ServerTypeOK'
  BY <1>20, Zenon DEF GetJoin, StartClose, Go, sessVars, mapVars, reqVars, connVars
<1>21. ASSUME NEW g \in Gets, GetDelete(g) PROVE ServerTypeOK'
  BY <1>21 DEF GetDelete, Go, sessVars, mapVars, reqVars, connVars
<1>22. ASSUME NEW x \in Ones, OneJoin(x) PROVE ServerTypeOK'
  BY <1>22 DEF OneJoin, Go, sessVars, mapVars, reqVars, connVars
<1>23. ASSUME NEW x \in Ones, OneFinish(x) PROVE ServerTypeOK'
  BY <1>23 DEF OneFinish, Go, sessVars, mapVars, reqVars, connVars
<1>24. ASSUME NEW g \in Gets, WatcherCloses(g) PROVE ServerTypeOK'
  BY <1>24, Zenon DEF WatcherCloses, StartClose, sessVars, mapVars, reqVars, connVars
<1>25. ASSUME NEW x \in Ones, OneWatcherCloses(x) PROVE ServerTypeOK'
  BY <1>25 DEF OneWatcherCloses, StartConnClose, sessVars, mapVars, reqVars, connVars
<1>26. ASSUME NEW g \in Conns, WatcherEnds(g) PROVE ServerTypeOK'
  BY <1>26 DEF WatcherEnds, sessVars, mapVars, reqVars, connVars
<1>27. ASSUME NEW g \in Conns, ConnCloseWriter(g) PROVE ServerTypeOK'
  BY <1>27 DEF ConnCloseWriter, sessVars, mapVars, reqVars, connVars
<1>28. ASSUME NEW g \in Gets, ConnCloseReader(g) PROVE ServerTypeOK'
  BY <1>28, Zenon DEF ConnCloseReader, StartClose, sessVars, mapVars, reqVars, connVars
<1>29. ASSUME NEW x \in Ones, OneCloseReader(x) PROVE ServerTypeOK'
  BY <1>29 DEF OneCloseReader, sessVars, mapVars, reqVars, connVars
<1>30. ASSUME NEW g \in Conns, ConnOnClose(g) PROVE ServerTypeOK'
  BY <1>30 DEF ConnOnClose, sessVars, mapVars, reqVars, connVars
<1>31. ASSUME NEW g \in Conns, UpperClose(g) PROVE ServerTypeOK'
  BY <1>31 DEF UpperClose, StartConnClose, sessVars, mapVars, reqVars, connVars
<1>32. ASSUME NEW g \in Conns, UpperEnd(g) PROVE ServerTypeOK'
  BY <1>32 DEF UpperEnd, sessVars, mapVars, reqVars, connVars
<1>33. ASSUME NEW g \in Conns, WriteBegin(g) PROVE ServerTypeOK'
  BY <1>33 DEF WriteBegin, sessVars, mapVars, reqVars, connVars
<1>34. ASSUME NEW g \in Conns, WriteEnd(g) PROVE ServerTypeOK'
  BY <1>34 DEF WriteEnd, sessVars, mapVars, reqVars, connVars
<1>35. CASE UNCHANGED serverVars
  BY <1>35, Zenon DEF serverVars, sessVars, mapVars, reqVars, connVars
<1> QED
  BY Steps, <1>1, <1>2, <1>3, <1>4, <1>5, <1>6, <1>7, <1>8, <1>9, <1>10, <1>11, <1>12, <1>13,
     <1>14, <1>15, <1>16, <1>17, <1>18, <1>19, <1>20, <1>21, <1>22, <1>23, <1>24, <1>25,
     <1>26, <1>27, <1>28, <1>29, <1>30, <1>31, <1>32, <1>33, <1>34, <1>35, ZenonT(40)

LEMMA HasSessionStep ==
  ASSUME ServerTypeOK, HasSession, [ServerNext]_serverVars
  PROVE  HasSession'
<1> USE KindsAssumption DEF ServerTypeOK, Objs, Conns, Requests
<1>1. ASSUME NEW r \in Objs, Upsert(r) PROVE HasSession'
  BY <1>1 DEF Upsert, upsertSession, Go, sessVars, mapVars, reqVars, connVars, HasSession
<1>2. ASSUME NEW u \in Streams, StreamDecide(u) PROVE HasSession'
  BY <1>2 DEF StreamDecide, Go, sessVars, mapVars, reqVars, connVars, HasSession
<1>3. ASSUME NEW u \in Streams, StreamCheck(u) PROVE HasSession'
  BY <1>3 DEF StreamCheck, Go, sessVars, mapVars, reqVars, connVars, HasSession
<1>4. ASSUME NEW u \in Streams, StreamReturn(u) PROVE HasSession'
  BY <1>4 DEF StreamReturn, Go, sessVars, mapVars, reqVars, connVars, HasSession
<1>5. ASSUME NEW u \in Streams, StreamLeave(u) PROVE HasSession'
  BY <1>5 DEF StreamLeave, StartClose, Go, sessVars, mapVars, reqVars, connVars, HasSession
<1>6. ASSUME NEW k \in Packets, PacketDecide(k) PROVE HasSession'
  BY <1>6 DEF PacketDecide, Go, sessVars, mapVars, reqVars, connVars, HasSession
<1>7. ASSUME NEW k \in Packets, PacketPush(k) PROVE HasSession'
  BY <1>7 DEF PacketPush, Go, sessVars, mapVars, reqVars, connVars, HasSession
<1>8. ASSUME NEW k \in Packets, PacketSelect(k) PROVE HasSession'
  BY <1>8 DEF PacketSelect, Go, sessVars, mapVars, reqVars, connVars, HasSession
<1>9. ASSUME NEW g \in Conns, Serve(g) PROVE HasSession'
  BY <1>9 DEF Serve, Go, sessVars, mapVars, reqVars, connVars, HasSession
<1>10. ASSUME NEW g \in Conns, Leave(g) PROVE HasSession'
  BY <1>10 DEF Leave, StartConnClose, Go, sessVars, mapVars, reqVars, connVars, HasSession
<1>11. ASSUME NEW g \in Gets, GetMark(g) PROVE HasSession'
  BY <1>11 DEF GetMark, Go, sessVars, mapVars, reqVars, connVars, HasSession
<1>12. ASSUME NEW g \in Gets, GetJoin(g) PROVE HasSession'
  BY <1>12 DEF GetJoin, StartClose, Go, sessVars, mapVars, reqVars, connVars, HasSession
<1>13. ASSUME NEW g \in Gets, GetDelete(g) PROVE HasSession'
  BY <1>13 DEF GetDelete, Go, sessVars, mapVars, reqVars, connVars, HasSession
<1>14. ASSUME NEW x \in Ones, OneJoin(x) PROVE HasSession'
  BY <1>14 DEF OneJoin, Go, sessVars, mapVars, reqVars, connVars, HasSession
<1>15. ASSUME NEW x \in Ones, OneFinish(x) PROVE HasSession'
  BY <1>15 DEF OneFinish, Go, sessVars, mapVars, reqVars, connVars, HasSession
<1>16. ASSUME NEW g \in Conns, UpperClose(g) PROVE HasSession'
  BY <1>16 DEF UpperClose, StartConnClose, sessVars, mapVars, reqVars, connVars, HasSession
<1>17. ASSUME NEW g \in Conns, UpperEnd(g) PROVE HasSession'
  BY <1>17 DEF UpperEnd, sessVars, mapVars, reqVars, connVars, HasSession
<1>18. ASSUME UNCHANGED <<pc, obj, upper>> PROVE HasSession'
  BY <1>18, Zenon DEF HasSession
<1>19. ASSUME \/ \E o \in Objs : CloseQueue(o)
              \/ \E o \in Objs : CloseBody(o)
              \/ \E o \in Objs : ReaperWakes(o)
              \/ \E o \in Objs : ReaperDeletes(o)
              \/ \E o \in Objs : ReaperCloses(o)
              \/ \E r \in Streams \cup Conns : ContextDone(r)
              \/ \E g \in Gets : LazyRead(g)
              \/ \E g \in Gets : QueueRead(g)
              \/ \E g \in Gets : WatcherCloses(g)
              \/ \E x \in Ones : OneWatcherCloses(x)
              \/ \E g \in Conns : WatcherEnds(g)
              \/ \E g \in Conns : ConnCloseWriter(g)
              \/ \E g \in Gets : ConnCloseReader(g)
              \/ \E x \in Ones : OneCloseReader(x)
              \/ \E g \in Conns : ConnOnClose(g)
              \/ \E g \in Conns : WriteBegin(g)
              \/ \E g \in Conns : WriteEnd(g)
     PROVE  HasSession'
  BY <1>18, <1>19, Zenon DEF CloseQueue, sessVars, mapVars, reqVars, connVars, CloseBody,
         ReaperWakes, ReaperDeletes, ReaperCloses, StartClose, ContextDone,
         LazyRead, QueueRead, WatcherCloses, OneWatcherCloses, StartConnClose,
         WatcherEnds, ConnCloseWriter, ConnCloseReader, OneCloseReader, ConnOnClose,
         WriteBegin, WriteEnd
<1>20. CASE UNCHANGED serverVars
  BY <1>18, <1>20 DEF serverVars, sessVars, mapVars, reqVars, connVars
<1> HIDE DEF ServerTypeOK, Objs, Conns, Requests
<1> QED
  BY Steps, <1>1, <1>2, <1>3, <1>4, <1>5, <1>6, <1>7, <1>8, <1>9, <1>10, <1>11,
     <1>12, <1>13, <1>14, <1>15, <1>16, <1>17, <1>19, <1>20, Zenon

LEMMA AttachedStep ==
  ASSUME ServerTypeOK, HasSession, Attached, [ServerNext]_serverVars
  PROVE  Attached'
<1> USE KindsAssumption DEF ServerTypeOK, Objs, Conns, Requests, HasSession
<1>1. ASSUME NEW o \in Objs, CloseQueue(o) PROVE Attached'
  BY <1>1, Zenon DEF CloseQueue, sessVars, mapVars, reqVars, connVars, Attached, BodyReleased
<1>2. ASSUME NEW o \in Objs, CloseBody(o) PROVE Attached'
  BY <1>2 DEF CloseBody, sessVars, mapVars, reqVars, connVars, Attached, BodyReleased
<1>3. ASSUME NEW o \in Objs, ReaperCloses(o) PROVE Attached'
  BY <1>3 DEF ReaperCloses, StartClose, sessVars, mapVars, reqVars, connVars, Attached, BodyReleased
<1>4. ASSUME NEW r \in Objs, Upsert(r) PROVE Attached'
  BY <1>4 DEF Upsert, upsertSession, Go, sessVars, mapVars, reqVars, connVars, Attached,
     BodyReleased
<1>5. ASSUME NEW u \in Streams, StreamDecide(u) PROVE Attached'
  <2> DEFINE o == obj[u]
  <2>1. o \in Objs /\ u \in Objs
    BY <1>5, Zenon DEF StreamDecide, Go
  <2>2. CASE uplink[o] = "undecided"
    BY <1>5, <2>1, <2>2, SMTT(30) DEF StreamDecide, Go, Attached, BodyReleased
  <2>3. CASE uplink[o] # "undecided"
    BY <1>5, <2>1, <2>3 DEF StreamDecide, Go, Attached, BodyReleased
  <2> QED
    BY <2>2, <2>3
<1>6. ASSUME NEW u \in Streams, StreamCheck(u) PROVE Attached'
  BY <1>6 DEF StreamCheck, Go, sessVars, mapVars, reqVars, connVars, Attached, BodyReleased
<1>7. ASSUME NEW u \in Streams, StreamReturn(u) PROVE Attached'
  BY <1>7, Zenon DEF StreamReturn, Go, sessVars, mapVars, reqVars, connVars, Attached, BodyReleased
<1>8. ASSUME NEW u \in Streams, StreamLeave(u) PROVE Attached'
  BY <1>8 DEF StreamLeave, StartClose, Go, sessVars, mapVars, reqVars, connVars, Attached,
     BodyReleased
<1>9. ASSUME NEW k \in Packets, PacketDecide(k) PROVE Attached'
  BY <1>9, SMTT(30) DEF PacketDecide, Go, sessVars, mapVars, reqVars, connVars, Attached,
     BodyReleased
<1>10. ASSUME NEW k \in Packets, PacketPush(k) PROVE Attached'
  BY <1>10 DEF PacketPush, Go, sessVars, mapVars, reqVars, connVars, Attached, BodyReleased
<1>11. ASSUME NEW k \in Packets, PacketSelect(k) PROVE Attached'
  BY <1>11 DEF PacketSelect, Go, sessVars, mapVars, reqVars, connVars, Attached, BodyReleased
<1>12. ASSUME NEW g \in Conns, Serve(g) PROVE Attached'
  BY <1>12 DEF Serve, Go, sessVars, mapVars, reqVars, connVars, Attached, BodyReleased
<1>13. ASSUME NEW g \in Conns, Leave(g) PROVE Attached'
  BY <1>13 DEF Leave, StartConnClose, Go, sessVars, mapVars, reqVars, connVars, Attached,
     BodyReleased
<1>14. ASSUME NEW g \in Gets, GetMark(g) PROVE Attached'
  BY <1>14 DEF GetMark, Go, sessVars, mapVars, reqVars, connVars, Attached, BodyReleased
<1>15. ASSUME NEW g \in Gets, GetJoin(g) PROVE Attached'
  BY <1>15 DEF GetJoin, StartClose, Go, sessVars, mapVars, reqVars, connVars, Attached, BodyReleased
<1>16. ASSUME NEW g \in Gets, GetDelete(g) PROVE Attached'
  BY <1>16 DEF GetDelete, Go, sessVars, mapVars, reqVars, connVars, Attached, BodyReleased
<1>17. ASSUME NEW x \in Ones, OneJoin(x) PROVE Attached'
  BY <1>17 DEF OneJoin, Go, sessVars, mapVars, reqVars, connVars, Attached, BodyReleased
<1>18. ASSUME NEW x \in Ones, OneFinish(x) PROVE Attached'
  BY <1>18 DEF OneFinish, Go, sessVars, mapVars, reqVars, connVars, Attached, BodyReleased
<1>19. ASSUME NEW g \in Gets, WatcherCloses(g) PROVE Attached'
  BY <1>19 DEF WatcherCloses, StartClose, sessVars, mapVars, reqVars, connVars, Attached,
     BodyReleased
<1>20. ASSUME NEW g \in Gets, ConnCloseReader(g) PROVE Attached'
  BY <1>20 DEF ConnCloseReader, StartClose, sessVars, mapVars, reqVars, connVars, Attached,
     BodyReleased
<1>21. ASSUME NEW x \in Ones, OneCloseReader(x) PROVE Attached'
  BY <1>21 DEF OneCloseReader, sessVars, mapVars, reqVars, connVars, Attached, BodyReleased
<1>22. ASSUME UNCHANGED <<uplink, obj, pc, closing, sclosed, bodyClosed>> PROVE Attached'
  BY <1>22, Zenon DEF Attached, BodyReleased
<1>23. ASSUME \/ \E o \in Objs : ReaperWakes(o)
              \/ \E o \in Objs : ReaperDeletes(o)
              \/ \E r \in Streams \cup Conns : ContextDone(r)
              \/ \E g \in Gets : LazyRead(g)
              \/ \E g \in Gets : QueueRead(g)
              \/ \E x \in Ones : OneWatcherCloses(x)
              \/ \E g \in Conns : WatcherEnds(g)
              \/ \E g \in Conns : ConnCloseWriter(g)
              \/ \E g \in Conns : ConnOnClose(g)
              \/ \E g \in Conns : UpperClose(g)
              \/ \E g \in Conns : UpperEnd(g)
              \/ \E g \in Conns : WriteBegin(g)
              \/ \E g \in Conns : WriteEnd(g)
     PROVE  Attached'
  BY <1>22, <1>23 DEF ReaperWakes, sessVars, mapVars, reqVars, connVars,
         ReaperDeletes, ContextDone, LazyRead, QueueRead, OneWatcherCloses,
         StartConnClose, WatcherEnds, ConnCloseWriter, ConnOnClose, UpperClose,
         UpperEnd, WriteBegin, WriteEnd
<1>24. CASE UNCHANGED serverVars
  BY <1>22, <1>24, Zenon DEF serverVars, sessVars, mapVars, reqVars, connVars
<1> HIDE DEF ServerTypeOK, Objs, Conns, Requests
<1> QED
  BY Steps, <1>1, <1>2, <1>3, <1>4, <1>5, <1>6, <1>7, <1>8, <1>9, <1>10, <1>11,
     <1>12, <1>13, <1>14, <1>15, <1>16, <1>17, <1>18, <1>19, <1>20, <1>21, <1>23,
     <1>24

LEMMA JoinedStep ==
  ASSUME ServerTypeOK, Joined, [ServerNext]_serverVars
  PROVE  Joined'
<1> USE KindsAssumption DEF ServerTypeOK, Objs, Conns, Requests
<1>1. ASSUME NEW r \in Objs, Upsert(r) PROVE Joined'
  BY <1>1 DEF Upsert, upsertSession, Go, sessVars, mapVars, reqVars, connVars, Joined
<1>2. ASSUME NEW u \in Streams, StreamDecide(u) PROVE Joined'
  BY <1>2 DEF StreamDecide, Go, sessVars, mapVars, reqVars, connVars, Joined
<1>3. ASSUME NEW u \in Streams, StreamCheck(u) PROVE Joined'
  BY <1>3 DEF StreamCheck, Go, sessVars, mapVars, reqVars, connVars, Joined
<1>4. ASSUME NEW u \in Streams, StreamReturn(u) PROVE Joined'
  BY <1>4 DEF StreamReturn, Go, sessVars, mapVars, reqVars, connVars, Joined
<1>5. ASSUME NEW u \in Streams, StreamLeave(u) PROVE Joined'
  BY <1>5 DEF StreamLeave, StartClose, Go, sessVars, mapVars, reqVars, connVars, Joined
<1>6. ASSUME NEW k \in Packets, PacketDecide(k) PROVE Joined'
  BY <1>6 DEF PacketDecide, Go, sessVars, mapVars, reqVars, connVars, Joined
<1>7. ASSUME NEW k \in Packets, PacketPush(k) PROVE Joined'
  BY <1>7 DEF PacketPush, Go, sessVars, mapVars, reqVars, connVars, Joined
<1>8. ASSUME NEW k \in Packets, PacketSelect(k) PROVE Joined'
  BY <1>8 DEF PacketSelect, Go, sessVars, mapVars, reqVars, connVars, Joined
<1>9. ASSUME NEW g \in Conns, Serve(g) PROVE Joined'
  BY <1>9, Zenon DEF Serve, Go, sessVars, mapVars, reqVars, connVars, Joined
<1>10. ASSUME NEW g \in Conns, Leave(g) PROVE Joined'
  BY <1>10 DEF Leave, StartConnClose, Go, sessVars, mapVars, reqVars, connVars, Joined
<1>11. ASSUME NEW g \in Gets, GetMark(g) PROVE Joined'
  BY <1>11 DEF GetMark, Go, sessVars, mapVars, reqVars, connVars, Joined
<1>12. ASSUME NEW g \in Gets, GetJoin(g) PROVE Joined'
  BY <1>12 DEF GetJoin, StartClose, Go, sessVars, mapVars, reqVars, connVars, Joined
<1>13. ASSUME NEW g \in Gets, GetDelete(g) PROVE Joined'
  BY <1>13, Zenon DEF GetDelete, Go, sessVars, mapVars, reqVars, connVars, Joined
<1>14. ASSUME NEW x \in Ones, OneJoin(x) PROVE Joined'
  BY <1>14 DEF OneJoin, Go, sessVars, mapVars, reqVars, connVars, Joined
<1>15. ASSUME NEW x \in Ones, OneFinish(x) PROVE Joined'
  BY <1>15 DEF OneFinish, Go, sessVars, mapVars, reqVars, connVars, Joined
<1>16. ASSUME NEW x \in Ones, OneWatcherCloses(x) PROVE Joined'
  BY <1>16 DEF OneWatcherCloses, StartConnClose, sessVars, mapVars, reqVars, connVars, Joined
<1>17. ASSUME NEW g \in Conns, ConnCloseWriter(g) PROVE Joined'
  BY <1>17, Zenon DEF ConnCloseWriter, sessVars, mapVars, reqVars, connVars, Joined
<1>18. ASSUME NEW g \in Gets, ConnCloseReader(g) PROVE Joined'
  BY <1>18, Zenon DEF ConnCloseReader, StartClose, sessVars, mapVars, reqVars, connVars, Joined
<1>19. ASSUME NEW x \in Ones, OneCloseReader(x) PROVE Joined'
  BY <1>19 DEF OneCloseReader, sessVars, mapVars, reqVars, connVars, Joined
<1>20. ASSUME NEW g \in Conns, ConnOnClose(g) PROVE Joined'
  BY <1>20 DEF ConnOnClose, sessVars, mapVars, reqVars, connVars, Joined
<1>21. ASSUME NEW g \in Conns, UpperClose(g) PROVE Joined'
  BY <1>21 DEF UpperClose, StartConnClose, sessVars, mapVars, reqVars, connVars, Joined
<1>22. ASSUME NEW g \in Conns, WriteBegin(g) PROVE Joined'
  BY <1>22, Zenon DEF WriteBegin, sessVars, mapVars, reqVars, connVars, Joined
<1>23. ASSUME NEW g \in Conns, WriteEnd(g) PROVE Joined'
  BY <1>23 DEF WriteEnd, sessVars, mapVars, reqVars, connVars, Joined
<1>24. ASSUME UNCHANGED <<conn, wclosed, writing, pc>> PROVE Joined'
  BY <1>24, Zenon DEF Joined
<1>25. ASSUME \/ \E o \in Objs : CloseQueue(o)
              \/ \E o \in Objs : CloseBody(o)
              \/ \E o \in Objs : ReaperWakes(o)
              \/ \E o \in Objs : ReaperDeletes(o)
              \/ \E o \in Objs : ReaperCloses(o)
              \/ \E r \in Streams \cup Conns : ContextDone(r)
              \/ \E g \in Gets : LazyRead(g)
              \/ \E g \in Gets : QueueRead(g)
              \/ \E g \in Gets : WatcherCloses(g)
              \/ \E g \in Conns : WatcherEnds(g)
              \/ \E g \in Conns : UpperEnd(g)
     PROVE  Joined'
  BY <1>24, <1>25 DEF CloseQueue, sessVars, mapVars, reqVars, connVars, CloseBody,
         ReaperWakes, ReaperDeletes, ReaperCloses, StartClose, ContextDone,
         LazyRead, QueueRead, WatcherCloses, WatcherEnds, UpperEnd
<1>26. CASE UNCHANGED serverVars
  BY <1>24, <1>26, Zenon DEF serverVars, sessVars, mapVars, reqVars, connVars
<1> HIDE DEF ServerTypeOK, Objs, Conns, Requests
<1> QED
  BY Steps, <1>1, <1>2, <1>3, <1>4, <1>5, <1>6, <1>7, <1>8, <1>9, <1>10, <1>11,
     <1>12, <1>13, <1>14, <1>15, <1>16, <1>17, <1>18, <1>19, <1>20, <1>21, <1>22,
     <1>23, <1>25, <1>26, Zenon

LEMMA MappedStep ==
  ASSUME ServerTypeOK, HasSession, Mapped, [ServerNext]_serverVars
  PROVE  Mapped'
<1> USE KindsAssumption DEF ServerTypeOK, Objs, Conns, Requests, HasSession
<1>1. ASSUME NEW o \in Objs, ReaperWakes(o) PROVE Mapped'
  BY <1>1 DEF ReaperWakes, sessVars, mapVars, reqVars, connVars, Mapped
<1>2. ASSUME NEW o \in Objs, ReaperDeletes(o) PROVE Mapped'
  BY <1>2, Zenon DEF ReaperDeletes, sessVars, mapVars, reqVars, connVars, Mapped
<1>3. ASSUME NEW o \in Objs, ReaperCloses(o) PROVE Mapped'
  BY <1>3, Zenon DEF ReaperCloses, StartClose, sessVars, mapVars, reqVars, connVars, Mapped
<1>4. ASSUME NEW r \in Objs, Upsert(r) PROVE Mapped'
  BY <1>4, SMTT(30) DEF Upsert, upsertSession, Go, sessVars, mapVars, reqVars, connVars, Mapped
<1>5. ASSUME NEW u \in Streams, StreamDecide(u) PROVE Mapped'
  BY <1>5 DEF StreamDecide, Go, sessVars, mapVars, reqVars, connVars, Mapped
<1>6. ASSUME NEW u \in Streams, StreamCheck(u) PROVE Mapped'
  BY <1>6 DEF StreamCheck, Go, sessVars, mapVars, reqVars, connVars, Mapped
<1>7. ASSUME NEW u \in Streams, StreamReturn(u) PROVE Mapped'
  BY <1>7, Zenon DEF StreamReturn, Go, sessVars, mapVars, reqVars, connVars, Mapped
<1>8. ASSUME NEW u \in Streams, StreamLeave(u) PROVE Mapped'
  BY <1>8, Zenon DEF StreamLeave, StartClose, Go, sessVars, mapVars, reqVars, connVars, Mapped
<1>9. ASSUME NEW k \in Packets, PacketDecide(k) PROVE Mapped'
  BY <1>9, Zenon DEF PacketDecide, Go, sessVars, mapVars, reqVars, connVars, Mapped
<1>10. ASSUME NEW k \in Packets, PacketPush(k) PROVE Mapped'
  BY <1>10, Zenon DEF PacketPush, Go, sessVars, mapVars, reqVars, connVars, Mapped
<1>11. ASSUME NEW k \in Packets, PacketSelect(k) PROVE Mapped'
  BY <1>11, Zenon DEF PacketSelect, Go, sessVars, mapVars, reqVars, connVars, Mapped
<1>12. ASSUME NEW g \in Conns, Serve(g) PROVE Mapped'
  BY <1>12 DEF Serve, Go, sessVars, mapVars, reqVars, connVars, Mapped
<1>13. ASSUME NEW g \in Conns, Leave(g) PROVE Mapped'
  BY <1>13, Zenon DEF Leave, StartConnClose, Go, sessVars, mapVars, reqVars, connVars, Mapped
<1>14. ASSUME NEW g \in Gets, GetMark(g) PROVE Mapped'
  BY <1>14, Zenon DEF GetMark, Go, sessVars, mapVars, reqVars, connVars, Mapped
<1>15. ASSUME NEW g \in Gets, GetJoin(g) PROVE Mapped'
  BY <1>15, Zenon DEF GetJoin, StartClose, Go, sessVars, mapVars, reqVars, connVars, Mapped
<1>16. ASSUME NEW g \in Gets, GetDelete(g) PROVE Mapped'
  BY <1>16, Zenon DEF GetDelete, Go, sessVars, mapVars, reqVars, connVars, Mapped
<1>17. ASSUME NEW x \in Ones, OneJoin(x) PROVE Mapped'
  BY <1>17, Zenon DEF OneJoin, Go, sessVars, mapVars, reqVars, connVars, Mapped
<1>18. ASSUME NEW x \in Ones, OneFinish(x) PROVE Mapped'
  BY <1>18, Zenon DEF OneFinish, Go, sessVars, mapVars, reqVars, connVars, Mapped
<1>19. ASSUME NEW g \in Gets, WatcherCloses(g) PROVE Mapped'
  BY <1>19, Zenon DEF WatcherCloses, StartClose, sessVars, mapVars, reqVars, connVars, Mapped
<1>20. ASSUME NEW g \in Gets, ConnCloseReader(g) PROVE Mapped'
  BY <1>20 DEF ConnCloseReader, StartClose, sessVars, mapVars, reqVars, connVars, Mapped
<1>21. ASSUME UNCHANGED <<pc, obj, entry, sclosed, reaper>> PROVE Mapped'
  BY <1>21, Zenon DEF Mapped
<1>22. ASSUME \/ \E o \in Objs : CloseQueue(o)
              \/ \E o \in Objs : CloseBody(o)
              \/ \E r \in Streams \cup Conns : ContextDone(r)
              \/ \E g \in Gets : LazyRead(g)
              \/ \E g \in Gets : QueueRead(g)
              \/ \E x \in Ones : OneWatcherCloses(x)
              \/ \E g \in Conns : WatcherEnds(g)
              \/ \E g \in Conns : ConnCloseWriter(g)
              \/ \E x \in Ones : OneCloseReader(x)
              \/ \E g \in Conns : ConnOnClose(g)
              \/ \E g \in Conns : UpperClose(g)
              \/ \E g \in Conns : UpperEnd(g)
              \/ \E g \in Conns : WriteBegin(g)
              \/ \E g \in Conns : WriteEnd(g)
     PROVE  Mapped'
  BY <1>21, <1>22, Zenon DEF CloseQueue, sessVars, mapVars, reqVars, connVars, CloseBody,
         ContextDone, LazyRead, QueueRead, OneWatcherCloses, StartConnClose,
         WatcherEnds, ConnCloseWriter, OneCloseReader, ConnOnClose, UpperClose,
         UpperEnd, WriteBegin, WriteEnd
<1>23. CASE UNCHANGED serverVars
  BY <1>21, <1>23 DEF serverVars, sessVars, mapVars, reqVars, connVars
<1> HIDE DEF ServerTypeOK, Objs, Conns, Requests
<1> QED
  BY Steps, <1>1, <1>2, <1>3, <1>4, <1>5, <1>6, <1>7, <1>8, <1>9, <1>10, <1>11,
     <1>12, <1>13, <1>14, <1>15, <1>16, <1>17, <1>18, <1>19, <1>20, <1>22, <1>23

LEMMA InvariantsInit ==
  ASSUME ServerInit
  PROVE  HasSession /\ Attached /\ Joined /\ (OneGet => Mapped)
<1> USE KindsAssumption, MixesAssumption DEF ServerInit, Objs, Conns, Requests
<1>1. PICK mix \in Mixes : pc = [r \in Requests |-> IF r \in mix THEN "new" ELSE "never"]
  OBVIOUS
<1>2. \A r \in Requests : pc[r] \in {"never", "new"} /\ obj[r] = None
  BY <1>1
<1>3. HasSession
  BY <1>2, Zenon DEF HasSession
<1>4. Attached
  BY <1>2, Zenon DEF Attached, BodyReleased
<1>5. Joined
  BY <1>2, Zenon DEF Joined
<1>6. ASSUME OneGet PROVE Mapped
  <2>1. \A g, h \in Gets : pc[g] # "never" /\ pc[h] # "never" => g = h
    BY <1>1, <1>6 DEF OneGet
  <2> QED
    BY <1>2, <2>1, Zenon DEF Mapped
<1> QED
  BY <1>3, <1>4, <1>5, <1>6

-----------------------------------------------------------------------------
(***************************************************************************)
(* Theorems                                                                *)
(***************************************************************************)
\* The types, with every request past upsertSession holding a session: the
\* handlers of server.go never use a session they did not get, and the queue
\* never holds more than maxBufferedPosts payloads.
THEOREM ServerTypeCorrect == ServerSpec => [](ServerTypeOK /\ HasSession)
<1>1. ServerInit => ServerTypeOK /\ HasSession
  BY TypeInit, InvariantsInit
<1>2. ServerTypeOK /\ HasSession /\ [ServerNext]_serverVars => (ServerTypeOK /\ HasSession)'
  BY TypeStep, HasSessionStep
<1> QED
  BY <1>1, <1>2, PTL DEF ServerSpec

\* httpSession.Close and decideStreamUp in any order, with any number of
\* requests: once both have finished the attached body is closed.
THEOREM BodyIsReleased == ServerSpec => []BodyReleased
<1>1. ServerInit => Attached
  BY InvariantsInit
<1>2. ServerTypeOK /\ HasSession /\ Attached /\ [ServerNext]_serverVars => Attached'
  BY AttachedStep
<1>3. Attached => BodyReleased
  BY DEF Attached
<1> QED
  BY <1>1, <1>2, <1>3, ServerTypeCorrect, PTL DEF ServerSpec

\* The join at the end of handleDownloadGet and handleStreamOne: no upper layer
\* uses the ResponseWriter once the handler has gone on, however many
\* connections are served.
THEOREM WritesAreJoined == ServerSpec => []NoWriteAfterReturn
<1>1. ServerInit => Joined
  BY InvariantsInit
<1>2. ServerTypeOK /\ Joined /\ [ServerNext]_serverVars => Joined'
  BY JoinedStep
<1>3. Joined => NoWriteAfterReturn
  BY DEF Joined, NoWriteAfterReturn
<1> QED
  BY <1>1, <1>2, <1>3, ServerTypeCorrect, PTL DEF ServerSpec

\* With one download per session ID (the protocol's use), a served download's
\* session is the one uploads find, whatever uploads and reapers do meanwhile.
THEOREM SessionStaysMapped == OneGet => (ServerSpec => []LiveSessionMapped)
<1> SUFFICES ASSUME OneGet PROVE ServerSpec => []LiveSessionMapped
  OBVIOUS
<1>1. ServerInit => Mapped
  BY InvariantsInit
<1>2. ServerTypeOK /\ HasSession /\ Mapped /\ [ServerNext]_serverVars => Mapped'
  BY MappedStep
<1>3. Mapped => LiveSessionMapped
  BY DEF Mapped, LiveSessionMapped
<1> QED
  BY <1>1, <1>2, <1>3, ServerTypeCorrect, PTL DEF ServerSpec

-----------------------------------------------------------------------------
(***************************************************************************)
(* The reassembly queue.                                                   *)
(***************************************************************************)
\* Read never cuts more off a payload than there is.
Cut == \A p \in Posts : off[p] <= pkt[p].len

\* The invariant every other proof starts from.
Base ==
  /\ TypeOK
  /\ pkt \in Workloads
  /\ Cut
  /\ readPC = "recv" => readLen \in ReadSizes

\* A packet that arrives more than once fits into every read buffer.
RepeatsFit ==
  \A w \in Workloads, p, q \in Posts, b \in ReadSizes :
    p # q /\ w[p].seq = w[q].seq => w[p].len <= b

\* Where the reader is: at the end of what it copied out of the packet that is
\* due, and nothing has been cut off a later one.
Cursor ==
  /\ \A p \in Posts : pkt[p].seq = nextSeq => pkt[p].start + off[p] = Len(delivered)
  /\ \A p \in Posts : pkt[p].seq > nextSeq => off[p] = 0

-----------------------------------------------------------------------------
\* What a concatenation holds.
LEMMA Appended ==
  ASSUME NEW s \in Seq(Nat), NEW r \in Seq(Nat)
  PROVE  /\ s \o r \in Seq(Nat) /\ Len(s \o r) = Len(s) + Len(r)
         /\ \A i \in 1 .. Len(s) + Len(r) :
              (s \o r)[i] = IF i <= Len(s) THEN s[i] ELSE r[i - Len(s)]
  OBVIOUS

\* The sequence that CopyOut appends.
LEMMA RunOfBytes ==
  ASSUME NEW n \in Nat, NEW a \in Nat
  PROVE  /\ [i \in 1..n |-> a + i] \in Seq(Nat)
         /\ Len([i \in 1..n |-> a + i]) = n
  <1>1. [i \in 1..n |-> a + i] \in [1..n -> Nat]
    OBVIOUS
  <1> QED
    BY <1>1

\* The packets of a workload are packets, and consecutive ones adjoin.
LEMMA WorkloadFacts ==
  ASSUME NEW w \in Workloads
  PROVE  /\ w \in [Posts -> Packet]
         /\ WellFormed(w)
  BY WorkloadAssumption

\* CopyOut keeps the reader's variables in their types.
LEMMA CopyOutBase ==
  ASSUME Base, NEW H \in SUBSET Posts, NEW b \in Nat, NEW p \in H,
         CopyOut(p, H, b)
  PROVE  /\ delivered' \in Seq(Nat)
         /\ off' \in [Posts -> Nat]
         /\ \A q \in Posts : off'[q] <= pkt[q].len
         /\ nextSeq' \in Nat
         /\ heap' \in SUBSET Posts
         /\ dropped' = dropped
         /\ readPC' = "idle"
         /\ Len(delivered') = Len(delivered) + Smaller(b, pkt[p].len - off[p])
  <1> DEFINE rest == pkt[p].len - off[p]
             n    == Smaller(b, rest)
             a    == pkt[p].start + off[p]
             r    == [i \in 1..n |-> a + i]
  <1>1. pkt[p] \in Packet /\ off[p] \in Nat /\ off[p] <= pkt[p].len
    BY DEF Base, TypeOK, Cut
  <1>2. rest \in Nat /\ n \in Nat /\ n <= rest /\ a \in Nat
    BY <1>1 DEF Packet, Smaller
  <1>3. r \in Seq(Nat) /\ Len(r) = n
    BY <1>2, RunOfBytes, Zenon
  <1>4. delivered' = delivered \o r /\ delivered \in Seq(Nat)
    BY DEF CopyOut, Base, TypeOK
  <1>5. delivered' \in Seq(Nat) /\ Len(delivered') = Len(delivered) + n
    <2> HIDE DEF r, n
    <2> QED BY <1>3, <1>4, Appended, Zenon
  <1>6. off' = [off EXCEPT ![p] = @ + n] /\ off \in [Posts -> Nat]
    BY Zenon DEF CopyOut, Base, TypeOK
  <1>7. \A q \in Posts : off'[q] <= pkt[q].len
    <2> HIDE DEF n
    <2>1. off'[p] = off[p] + n /\ \A q \in Posts : q # p => off'[q] = off[q]
      BY <1>6
    <2>2. off[p] + n <= pkt[p].len
      BY <1>1, <1>2 DEF Packet
    <2> QED
      BY <2>1, <2>2 DEF Base, Cut
  <1>8. nextSeq' \in Nat /\ heap' \in SUBSET Posts /\ dropped' = dropped /\ readPC' = "idle"
    BY <1>1 DEF CopyOut, Base, TypeOK, Packet
  <1> QED
    BY <1>2, <1>5, <1>6, <1>7, <1>8

\* The reader's loop keeps its variables in their types.
LEMMA ReadLoopBase ==
  ASSUME Base, NEW H \in SUBSET Posts, NEW b \in Nat, ReadLoop(H, b)
  PROVE  /\ delivered' \in Seq(Nat)
         /\ off' \in [Posts -> Nat]
         /\ \A q \in Posts : off'[q] <= pkt[q].len
         /\ nextSeq' \in Nat
         /\ heap' \in SUBSET Posts
         /\ dropped' \in SUBSET Posts
         /\ readPC' \in {"idle", "recv"}
  <1> DEFINE live == {p \in H : pkt[p].seq >= nextSeq}
  <1>1. live \in SUBSET Posts /\ Lowest(live) \subseteq live
    BY DEF Lowest
  <1> HIDE DEF live
  <1>2. CASE live = {} /\ heap' = {} /\ readPC' = "idle"
             /\ UNCHANGED <<off, nextSeq, delivered, dropped>>
    BY <1>2 DEF Base, TypeOK, Cut
  <1>3. CASE \E p \in Lowest(live) : CopyOut(p, live, b)
    <2>1. PICK p \in live : CopyOut(p, live, b)
      BY <1>1, <1>3
    <2> QED
      BY <1>1, <2>1, CopyOutBase, Zenon DEF Base, TypeOK
  <1>4. CASE \E p \in Lowest(live) : Park(p, live)
    <2>1. PICK p \in live : Park(p, live)
      BY <1>1, <1>4
    <2> QED
      BY <1>1, <2>1 DEF Park, Base, TypeOK, Cut
  <1> QED
    BY <1>2, <1>3, <1>4, Zenon DEF ReadLoop, live

\* Base holds initially.
LEMMA BaseInit == Init => Base
  <1> SUFFICES ASSUME Init PROVE Base
    OBVIOUS
  <1>1. pkt \in [Posts -> Packet]
    BY WorkloadFacts DEF Init
  <1>2. TypeOK
    <2>1. pushed \in Seq(Posts) /\ delivered \in Seq(Nat)
      BY DEF Init, QueueInit
    <2>2. /\ pushPC \in [Posts -> {"call", "select", "ok", "err"}]
          /\ off \in [Posts -> Nat]
      BY DEF Init, QueueInit
    <2>3. closed \in BOOLEAN /\ heap \in SUBSET Posts /\ nextSeq \in Nat
      BY Zenon DEF Init, QueueInit
    <2>4. readPC \in {"idle", "recv"} /\ readLen \in Nat /\ dropped \in SUBSET Posts
      BY DEF Init, QueueInit
    <2> QED
      BY <1>1, <2>1, <2>2, <2>3, <2>4 DEF TypeOK
  <1>3. Cut
    BY <1>1 DEF Init, QueueInit, Cut, Packet
  <1> QED
    BY <1>2, <1>3 DEF Base, Init, QueueInit

\* Every step preserves Base.
LEMMA BaseNext == Base /\ [Next]_vars => Base'
  <1> SUFFICES ASSUME Base, [Next]_vars PROVE Base'
    BY Zenon
  <1> USE DEF Base, TypeOK, Cut
  <1>1. ASSUME NEW p \in Posts, Push(p) PROVE Base'
    <2>1. CASE PushCheck(p)
      BY <2>1 DEF PushCheck, readVars
    <2>2. CASE PushSend(p)
      BY <2>2 DEF PushSend, readVars
    <2>3. CASE PushAbort(p)
      BY <2>3 DEF PushAbort, readVars
    <2> QED
      BY <1>1, <2>1, <2>2, <2>3 DEF Push
  <1>2. CASE Close
    BY <1>2 DEF Close, readVars, pushVars
  <1>3. ASSUME NEW b \in ReadSizes, ReadCall(b) PROVE Base'
    <2>1. b \in Nat /\ readLen' = b /\ UNCHANGED <<pkt, closed, pushPC, pushed>>
      BY <1>3, ReadAssumption DEF ReadCall, pushVars
    <2>2. CASE heap = {}
      BY <1>3, <2>1, <2>2, Zenon DEF ReadCall
    <2>3. CASE heap # {}
      <3>1. ReadLoop(heap, b)
        BY <1>3, <2>3, Zenon DEF ReadCall
      <3> QED
        BY <2>1, <3>1, ReadLoopBase
    <2> QED
      BY <2>2, <2>3
  <1>4. CASE ReadRecv
    <2>1. /\ readPC = "recv" /\ pushed # <<>> /\ pushed' = Tail(pushed)
          /\ UNCHANGED <<pkt, closed, pushPC, readLen>>
          /\ ReadLoop(heap \cup {Head(pushed)}, readLen)
      BY <1>4 DEF ReadRecv
    <2>2. Head(pushed) \in Posts /\ Tail(pushed) \in Seq(Posts)
      BY <2>1
    <2>3. readLen \in Nat /\ readLen \in ReadSizes /\ heap \cup {Head(pushed)} \in SUBSET Posts
      BY <2>1, <2>2, Zenon
    <2> QED
      BY <2>1, <2>2, <2>3, ReadLoopBase, Zenon
  <1>5. CASE ReadEOF
    BY <1>5 DEF ReadEOF, pushVars
  <1>6. CASE UNCHANGED vars
    BY <1>6 DEF vars, pushVars, readVars
  <1> QED
    BY <1>1, <1>2, <1>3, <1>4, <1>5, <1>6 DEF Next, Read

\* The queue's state stays in its types: in particular nextSeq never goes
\* back below zero and only pushed packets are ever in the heap.
THEOREM TypeCorrect == Spec => []TypeOK
  <1>1. Base => TypeOK
    BY DEF Base
  <1> QED
    BY <1>1, BaseInit, BaseNext, PTL DEF Spec

-----------------------------------------------------------------------------
(***************************************************************************)
(* The order of the bytes.                                                 *)
(***************************************************************************)
\* The cursor after a step that leaves the packets alone.
LEMMA CursorNext ==
  ASSUME pkt' = pkt,
         \A q \in Posts : pkt[q].seq = nextSeq' => pkt[q].start + off'[q] = Len(delivered'),
         \A q \in Posts : pkt[q].seq > nextSeq' => off'[q] = 0
  PROVE  Cursor'
  BY DEF Cursor

\* CopyOut appends the bytes that come next, and leaves the cursor at the end
\* of them: in the same packet, or at the start of the one after it.
LEMMA CopyOutOrder ==
  ASSUME RepeatsFit, Base, Cursor, InOrder, pkt' = pkt,
         NEW H \in SUBSET Posts, NEW b \in ReadSizes, NEW p \in H,
         pkt[p].seq = nextSeq, CopyOut(p, H, b)
  PROVE  InOrder' /\ Cursor'
  <1> DEFINE rest == pkt[p].len - off[p]
             n    == Smaller(b, rest)
             a    == pkt[p].start + off[p]
             r    == [i \in 1..n |-> a + i]
  <1>0. b \in Nat /\ p \in Posts /\ pkt \in [Posts -> Packet] /\ WellFormed(pkt)
    BY ReadAssumption, WorkloadFacts DEF Base
  <1>1. pkt[p] \in Packet /\ off[p] \in Nat /\ off[p] <= pkt[p].len
    BY <1>0, Zenon DEF Base, TypeOK, Cut
  <1>2. rest \in Nat /\ n \in Nat /\ n <= rest /\ a \in Nat /\ a = Len(delivered)
    BY <1>0, <1>1 DEF Packet, Smaller, Cursor
  <1>3. r \in Seq(Nat) /\ Len(r) = n /\ \A i \in 1..n : r[i] = a + i
    BY <1>2, RunOfBytes, Zenon
  <1>4. delivered' = delivered \o r /\ delivered \in Seq(Nat)
    BY Zenon DEF CopyOut, Base, TypeOK
  <1>5. Len(delivered') = a + n
    BY <1>0, <1>2, CopyOutBase
  <1>6. InOrder'
    <2> HIDE DEF r, n, a
    <2>1. /\ delivered' \in Seq(Nat)
          /\ \A i \in 1 .. a + n : delivered'[i] = IF i <= a THEN delivered[i] ELSE r[i - a]
      BY <1>2, <1>3, <1>4, Appended
    <2>2. \A i \in 1 .. a : delivered[i] = i
      <3>1. DOMAIN delivered = 1 .. a
        BY <1>2, <1>4
      <3> QED
        BY <3>1 DEF InOrder
    <2>3. ASSUME NEW i \in 1 .. a + n PROVE delivered'[i] = i
      <3>1. a \in Nat /\ n \in Nat
        BY <1>2
      <3>2. CASE i <= a
        BY <2>1, <2>2, <3>1, <3>2
      <3>3. CASE i > a
        <4>1. i - a \in 1 .. n /\ a + (i - a) = i
          BY <3>1, <3>3
        <4> QED
          BY <1>3, <2>1, <3>1, <3>3, <4>1
      <3> QED
        BY <3>1, <3>2, <3>3
    <2> QED
      BY <1>5, <2>1, <2>3 DEF InOrder
  <1>7. off' = [off EXCEPT ![p] = @ + n] /\ off \in [Posts -> Nat]
    BY DEF CopyOut, Base, TypeOK
  <1>8. /\ \A q \in Posts : pkt[q].seq \in Nat /\ pkt[q].start \in Nat /\ pkt[q].len \in Nat
        /\ nextSeq \in Nat
    BY <1>0, Zenon DEF Packet, Base, TypeOK
  <1>9. /\ off'[p] = off[p] + n
        /\ \A q \in Posts : q # p => off'[q] = off[q]
    BY <1>0, <1>7
  <1>10. /\ n < rest => nextSeq' = nextSeq
         /\ n = rest => nextSeq' = nextSeq + 1
    <2>1. nextSeq' = IF n < rest THEN nextSeq ELSE pkt[p].seq + 1
      BY DEF CopyOut
    <2> HIDE DEF n, rest
    <2> QED
      BY <1>2, <2>1
  <1>11. n < rest => b < pkt[p].len
    BY <1>0, <1>1, <1>8 DEF Smaller
  <1>12. a + n = pkt[p].start + (off[p] + n) /\ (n = rest => a + n = pkt[p].start + pkt[p].len)
    <2> HIDE DEF n
    <2>1. pkt[p].start \in Nat /\ pkt[p].len \in Nat /\ off[p] \in Nat /\ n \in Nat
      BY <1>0, <1>1, <1>2, <1>8, Zenon
    <2> QED
      BY <2>1
  <1> HIDE DEF rest, n, a, r
  <1>13. ASSUME n < rest PROVE Cursor'
    <2>1. ASSUME NEW q \in Posts, pkt[q].seq = nextSeq
          PROVE  q = p
      <3> SUFFICES ASSUME q # p PROVE FALSE
        OBVIOUS
      <3>1. pkt[p].len <= b
        BY <1>0, <2>1, Zenon DEF RepeatsFit, Base
      <3> QED
        BY <1>0, <1>8, <1>11, <1>13, <3>1
    <2>2. pkt[p].start + off'[p] = Len(delivered')
      BY <1>5, <1>9, <1>12, Zenon
    <2>3. ASSUME NEW q \in Posts, pkt[q].seq > nextSeq
          PROVE  off'[q] = 0
      <3>1. q # p /\ off[q] = 0
        BY <1>8, <2>3 DEF Cursor
      <3> QED
        BY <1>9, <3>1, Zenon
    <2>4. \A q \in Posts : pkt[q].seq = nextSeq => pkt[q].start + off'[q] = Len(delivered')
      BY <2>1, <2>2, Zenon
    <2>5. \A q \in Posts : pkt[q].seq > nextSeq => off'[q] = 0
      BY <2>3, Zenon
    <2> QED
      BY <1>10, <1>13, <2>4, <2>5, CursorNext
  <1>14. ASSUME n = rest PROVE Cursor'
    <2>1. ASSUME NEW q \in Posts, pkt[q].seq >= nextSeq'
          PROVE  off'[q] = 0
      <3>1. pkt[q].seq > nextSeq /\ q # p
        BY <1>8, <1>10, <1>14, <2>1
      <3>2. off[q] = 0
        BY <3>1, Zenon DEF Cursor
      <3> QED
        BY <1>9, <3>1, <3>2, Zenon
    <2>2. ASSUME NEW q \in Posts, pkt[q].seq = nextSeq'
          PROVE  pkt[q].start + off'[q] = Len(delivered')
      <3>1. pkt[q].seq = pkt[p].seq + 1
        BY <1>10, <1>14, <2>2, Zenon
      <3>2. pkt[q].start = a + n
        BY <1>0, <1>12, <1>14, <3>1, Zenon DEF WellFormed
      <3>3. off'[q] = 0
        BY <1>8, <1>10, <1>14, <2>1, <2>2
      <3> QED
        BY <1>2, <1>5, <3>2, <3>3
    <2>3. ASSUME NEW q \in Posts, pkt[q].seq > nextSeq'
          PROVE  off'[q] = 0
      BY <1>8, <1>10, <1>14, <2>1, <2>3
    <2>4. \A q \in Posts : pkt[q].seq = nextSeq' => pkt[q].start + off'[q] = Len(delivered')
      BY <2>2, Zenon
    <2>5. \A q \in Posts : pkt[q].seq > nextSeq' => off'[q] = 0
      BY <2>3
    <2> QED
      BY <2>4, <2>5, CursorNext, Zenon
  <1>15. Cursor'
    BY <1>2, <1>13, <1>14
  <1> QED
    BY <1>6, <1>15

\* The other outcomes of the loop do not move the cursor.
LEMMA ReadLoopOrder ==
  ASSUME RepeatsFit, Base, Cursor, InOrder, pkt' = pkt,
         NEW H \in SUBSET Posts, NEW b \in ReadSizes, ReadLoop(H, b)
  PROVE  InOrder' /\ Cursor'
  <1> DEFINE live == {p \in H : pkt[p].seq >= nextSeq}
  <1>1. live \in SUBSET Posts /\ Lowest(live) \subseteq live
    BY Zenon DEF Lowest
  <1> HIDE DEF live
  <1>2. CASE UNCHANGED <<off, nextSeq, delivered>>
    BY <1>2 DEF InOrder, Cursor
  <1>3. CASE \E p \in Lowest(live) : pkt[p].seq = nextSeq /\ CopyOut(p, live, b)
    <2>1. PICK p \in live : pkt[p].seq = nextSeq /\ CopyOut(p, live, b)
      BY <1>1, <1>3
    <2> QED
      BY <1>1, <2>1, CopyOutOrder
  <1> QED
    BY <1>2, <1>3, Zenon DEF ReadLoop, Park, live

\* Read "returns reassembled bytes in seq order": the bytes copied out are the
\* beginning of the client's stream, for every interleaving of Push, Read and
\* Close, provided that a packet that arrives twice fits into the read buffer.
\* (Without that proviso the run queue_duplicate refutes it.)
THEOREM ReadsInOrder ==
  ASSUME RepeatsFit
  PROVE  Spec => []InOrder
  <1> DEFINE Ordered == Base /\ Cursor /\ InOrder
  <1>1. Init => Ordered
    <2> SUFFICES ASSUME Init PROVE Ordered
      OBVIOUS
    <2>1. Base /\ WellFormed(pkt)
      BY BaseInit, WorkloadFacts, Zenon DEF Init
    <2>2. Cursor
      BY <2>1 DEF Cursor, Init, QueueInit, WellFormed
    <2>3. InOrder
      BY DEF InOrder, Init, QueueInit
    <2> QED
      BY <2>1, <2>2, <2>3
  <1>2. Ordered /\ [Next]_vars => Ordered'
    <2> SUFFICES ASSUME Ordered, [Next]_vars PROVE InOrder' /\ Cursor'
      BY BaseNext, Zenon
    <2>1. CASE UNCHANGED <<pkt, off, nextSeq, delivered>>
      BY <2>1 DEF InOrder, Cursor
    <2>2. ASSUME NEW b \in ReadSizes, ReadCall(b), heap # {}
          PROVE  InOrder' /\ Cursor'
      <3>1. ReadLoop(heap, b) /\ pkt' = pkt /\ heap \in SUBSET Posts
        BY <2>2 DEF ReadCall, Base, TypeOK
      <3> QED
        BY <3>1, ReadLoopOrder
    <2>3. CASE ReadRecv
      <3>1. /\ ReadLoop(heap \cup {Head(pushed)}, readLen) /\ pkt' = pkt
            /\ readLen \in ReadSizes /\ pushed # <<>>
        BY <2>3 DEF ReadRecv, Base
      <3>2. heap \cup {Head(pushed)} \in SUBSET Posts
        BY <3>1 DEF Base, TypeOK
      <3> QED
        BY <3>1, <3>2, ReadLoopOrder
    <2>4. ASSUME NEW b \in ReadSizes, ReadCall(b), heap = {}
          PROVE  UNCHANGED <<pkt, off, nextSeq, delivered>>
      BY <2>4, Zenon DEF ReadCall
    <2>5. ASSUME NEW p \in Posts, Push(p)
          PROVE  UNCHANGED <<pkt, off, nextSeq, delivered>>
      BY <2>5 DEF Push, PushCheck, PushSend, PushAbort, readVars
    <2> QED
      BY <2>1, <2>2, <2>3, <2>4, <2>5
         DEF Next, Close, Read, ReadEOF, vars, pushVars, readVars
  <1>3. Ordered => InOrder
    BY Zenon
  <1> QED
    BY <1>1, <1>2, <1>3, PTL DEF Spec

-----------------------------------------------------------------------------
(***************************************************************************)
(* No accepted packet is forgotten.                                        *)
(***************************************************************************)
InChannel(p) == \E i \in DOMAIN pushed : pushed[i] = p

\* The loop keeps, consumes or reports every packet it is entered with.
LEMMA ReadLoopAccounts ==
  ASSUME Base, pkt' = pkt, NEW H \in SUBSET Posts, NEW b \in Nat, ReadLoop(H, b),
         NEW p \in Posts, p \in H \/ pkt[p].seq < nextSeq \/ p \in dropped
  PROVE  p \in heap' \/ pkt[p].seq < nextSeq' \/ p \in dropped'
  <1> DEFINE live == {q \in H : pkt[q].seq >= nextSeq}
  <1>1. live \in SUBSET Posts /\ Lowest(live) \subseteq live
    BY DEF Lowest
  <1>2. p \in live \/ pkt[p].seq < nextSeq \/ p \in dropped
    BY DEF Base, TypeOK, Packet
  <1> HIDE DEF live
  <1>3. CASE live = {} /\ UNCHANGED <<nextSeq, dropped>>
    BY <1>2, <1>3, Zenon
  <1>4. CASE \E q \in Lowest(live) : pkt[q].seq = nextSeq /\ CopyOut(q, live, b)
    <2>1. PICK q \in live : pkt[q].seq = nextSeq /\ CopyOut(q, live, b)
      BY <1>1, <1>4, Zenon
    <2>2. /\ dropped' = dropped
          /\ \/ heap' = live /\ nextSeq' = nextSeq
             \/ heap' = live \ {q} /\ nextSeq' = nextSeq + 1
      BY <2>1, Zenon DEF CopyOut
    <2> QED
      BY <1>2, <2>1, <2>2 DEF Base, TypeOK, Packet
  <1>5. CASE \E q \in Lowest(live) : Park(q, live)
    BY <1>2, <1>5 DEF Park
  <1> QED
    BY <1>3, <1>4, <1>5, Zenon DEF ReadLoop, live

\* A packet whose Push returned nil stays accounted for, whatever Read, Close
\* and the other POSTs do.
THEOREM NothingForgotten == Spec => []Accounted
  <1> DEFINE Inv == Base /\ Accounted
  <1>1. Init => Inv
    <2> SUFFICES ASSUME Init PROVE Accounted
      BY BaseInit, Zenon
    <2> QED
      BY DEF Init, QueueInit, Accounted
  <1>2. Inv /\ [Next]_vars => Inv'
    <2> SUFFICES ASSUME Inv, [Next]_vars, NEW p \in Posts, (pushPC[p] = "ok")'
                 PROVE  InChannel(p)' \/ p \in heap' \/ pkt'[p].seq < nextSeq' \/ p \in dropped'
      BY BaseNext, Zenon DEF Accounted, InChannel
    <2> DEFINE Held == InChannel(p) \/ p \in heap \/ pkt[p].seq < nextSeq \/ p \in dropped
    <2>1. pushPC[p] = "ok" => Held
      BY DEF Accounted, InChannel
    <2>2. pushed \in Seq(Posts) /\ pushPC \in [Posts -> {"call", "select", "ok", "err"}]
      BY Zenon DEF Base, TypeOK
    <2>3. ASSUME NEW q \in Posts, PushSend(q) PROVE Held'
      <3>1. pushed' = Append(pushed, q) /\ pushPC' = [pushPC EXCEPT ![q] = "ok"]
            /\ UNCHANGED <<pkt, heap, nextSeq, dropped>>
        BY <2>3, Zenon DEF PushSend, readVars
      <3>2. DOMAIN pushed \subseteq DOMAIN pushed'
               /\ \A i \in DOMAIN pushed : pushed'[i] = pushed[i]
        BY <2>2, <3>1
      <3>3. InChannel(p) => InChannel(p)'
        BY <3>2 DEF InChannel
      <3>4. CASE p = q
        <4>1. Len(pushed) + 1 \in DOMAIN pushed' /\ pushed'[Len(pushed) + 1] = p
          BY <2>2, <3>1, <3>4
        <4> QED
          BY <4>1 DEF InChannel
      <3>5. CASE p # q
        BY <2>1, <2>2, <3>1, <3>3, <3>5, Zenon
      <3> QED
        BY <3>4, <3>5
    <2>4. ASSUME NEW q \in Posts, PushCheck(q) \/ PushAbort(q) PROVE Held'
      BY <2>1, <2>2, <2>4, Zenon DEF PushCheck, PushAbort, readVars, InChannel
    <2>5. CASE Close \/ ReadEOF \/ UNCHANGED vars
      BY <2>1, <2>5, Zenon DEF Close, ReadEOF, vars, pushVars, readVars, InChannel
    <2>6. ASSUME NEW b \in ReadSizes, ReadCall(b) PROVE Held'
      <3>1. UNCHANGED <<pkt, pushed, pushPC>> /\ b \in Nat /\ heap \in SUBSET Posts
        BY <2>6, ReadAssumption, Zenon DEF ReadCall, pushVars, Base, TypeOK
      <3>2. InChannel(p)' = InChannel(p)
        BY <3>1, Zenon DEF InChannel
      <3>3. CASE heap = {}
        BY <2>1, <2>6, <3>1, <3>2, <3>3, Zenon DEF ReadCall
      <3>4. CASE heap # {}
        BY <2>1, <2>6, <3>1, <3>2, <3>4, ReadLoopAccounts, Zenon DEF ReadCall
      <3> QED
        BY <3>3, <3>4, Zenon
    <2>7. CASE ReadRecv
      <3>1. /\ UNCHANGED <<pkt, pushPC>> /\ pushed # <<>> /\ pushed' = Tail(pushed)
            /\ ReadLoop(heap \cup {Head(pushed)}, readLen)
            /\ readLen \in Nat
        BY <2>7 DEF ReadRecv, Base, TypeOK
      <3>2. heap \cup {Head(pushed)} \in SUBSET Posts
        BY <2>2, <3>1 DEF Base, TypeOK
      <3>3. InChannel(p) => p = Head(pushed) \/ InChannel(p)'
        <4> SUFFICES ASSUME NEW i \in DOMAIN pushed, pushed[i] = p, p # Head(pushed)
                     PROVE  InChannel(p)'
          BY DEF InChannel
        <4>1. i - 1 \in DOMAIN pushed' /\ pushed'[i - 1] = p
          BY <2>2, <3>1
        <4> QED
          BY <4>1 DEF InChannel
      <3>4. InChannel(p)' \/ p \in heap \cup {Head(pushed)} \/ pkt[p].seq < nextSeq \/ p \in dropped
        BY <2>1, <3>1, <3>3
      <3> QED
        BY <3>1, <3>2, <3>4, ReadLoopAccounts, Zenon
    <2> QED
      BY <2>3, <2>4, <2>5, <2>6, <2>7, Zenon DEF Next, Push, Read
  <1> QED
    BY <1>1, <1>2, PTL DEF Spec

-----------------------------------------------------------------------------
(***************************************************************************)
(* The limits.  MemoryBound is not inductive: what keeps the heap within   *)
(* maxBuffered + 2 is that a Read which waits for a packet holds one less. *)
(***************************************************************************)
Early == {p \in heap : pkt[p].seq > nextSeq}

Room ==
  /\ Len(pushed) <= maxBuffered
  /\ Cardinality(heap) <= maxBuffered + 2
  /\ Cardinality(Early) <= maxBuffered + 1
  /\ readPC = "recv" => Cardinality(heap) <= maxBuffered + 1

\* newUploadQueue's limit is positive, whatever the option says.
LEMMA LimitType == maxBuffered \in Nat /\ maxBuffered > 0
  BY BufferAssumption DEF maxBuffered

\* What is known of cardinalities.
INSTANCE FiniteSetTheorems

\* Sets of POSTs are finite, and smaller sets have fewer elements.
LEMMA PostSets ==
  ASSUME NEW T \in SUBSET Posts, NEW S \in SUBSET T
  PROVE  /\ IsFiniteSet(T) /\ IsFiniteSet(S)
         /\ Cardinality(S) \in Nat /\ Cardinality(T) \in Nat
         /\ Cardinality(S) <= Cardinality(T)
  <1>1. IsFiniteSet(T)
    BY PostsAssumption, FS_Subset
  <1> QED
    BY <1>1, FS_Subset, FS_CardinalityType, Zenon

\* The loop respects the limits when it starts with at most maxBuffered + 2.
LEMMA ReadLoopRoom ==
  ASSUME Base, pkt' = pkt, NEW H \in SUBSET Posts, NEW b \in Nat, ReadLoop(H, b),
         Cardinality(H) <= maxBuffered + 2
  PROVE  /\ Cardinality(heap') <= maxBuffered + 2
         /\ Cardinality(Early') <= maxBuffered + 1
         /\ readPC' = "recv" => Cardinality(heap') <= maxBuffered + 1
  <1> DEFINE live == {q \in H : pkt[q].seq >= nextSeq}
  <1>1. /\ live \in SUBSET H /\ live \in SUBSET Posts
        /\ Lowest(live) \subseteq live
        /\ Early' = {q \in heap' : pkt[q].seq > nextSeq'}
    BY DEF Lowest, Early
  <1> HIDE DEF live
  <1>2. maxBuffered \in Nat
    BY LimitType
  <1>3. Cardinality(live) <= maxBuffered + 2 /\ Cardinality(live) \in Nat
    <2>1. /\ Cardinality(live) <= Cardinality(H)
          /\ Cardinality(live) \in Nat /\ Cardinality(H) \in Nat
      BY <1>1, PostSets, Zenon
    <2> QED
      BY <1>2, <2>1
  <1>4. ASSUME NEW q \in live
        PROVE  /\ live \ {q} \in SUBSET Posts
               /\ Cardinality(live \ {q}) = Cardinality(live) - 1
    BY <1>1, PostSets, FS_RemoveElement, Zenon
  <1>5. CASE live = {} /\ heap' = {} /\ readPC' = "idle"
    <2>1. Early' = {}
      BY <1>1, <1>5, Zenon
    <2> QED
      BY <1>2, <1>5, <2>1, FS_EmptySet
  <1>6. CASE \E q \in Lowest(live) : pkt[q].seq = nextSeq /\ CopyOut(q, live, b)
    <2>1. PICK q \in live : pkt[q].seq = nextSeq /\ CopyOut(q, live, b)
      BY <1>1, <1>6, Zenon
    <2>2. /\ readPC' = "idle"
          /\ \/ heap' = live /\ nextSeq' = nextSeq
             \/ heap' = live \ {q}
      BY <2>1, Zenon DEF CopyOut
    <2>3. Early' \subseteq live \ {q}
      BY <1>1, <2>1, <2>2 DEF Base, TypeOK, Packet
    <2>4. Cardinality(Early') <= Cardinality(live \ {q}) /\ Cardinality(Early') \in Nat
      BY <1>4, <2>3, PostSets, Zenon
    <2> QED
      BY <1>2, <1>3, <1>4, <2>2, <2>4
  <1>7. CASE \E q \in Lowest(live) : Park(q, live)
    <2>1. PICK q \in live : Park(q, live)
      BY <1>1, <1>7, Zenon
    <2>2. /\ live \ {q} \in SUBSET Posts
          /\ Cardinality(live \ {q}) = Cardinality(live) - 1
      BY <1>4, <2>1, Zenon
    <2>3. \/ heap' = live \ {q}
          \/ heap' = live /\ ~(Cardinality(live \ {q}) > maxBuffered)
      BY <2>1, Zenon DEF Park
    <2>4. heap' \in SUBSET Posts
      BY <1>1, <2>2, <2>3, Zenon
    <2>5. Cardinality(heap') <= maxBuffered + 1
      BY <1>2, <1>3, <2>2, <2>3
    <2>6. Cardinality(Early') <= Cardinality(heap') /\ Cardinality(Early') \in Nat
          /\ Cardinality(heap') \in Nat
      BY <1>1, <2>4, PostSets
    <2> QED
      BY <1>2, <2>5, <2>6
  <1>8. \/ live = {} /\ heap' = {} /\ readPC' = "idle"
        \/ \E q \in Lowest(live) : pkt[q].seq = nextSeq /\ CopyOut(q, live, b)
        \/ \E q \in Lowest(live) : Park(q, live)
    BY Zenon DEF ReadLoop, live
  <1> QED
    BY <1>5, <1>6, <1>7, <1>8, Zenon

\* A session makes the server hold at most maxBuffered packets in the channel
\* and maxBuffered + 2 in the heap, for every limit and every arrival order.
THEOREM MemoryIsBounded == Spec => []MemoryBound
  <1> DEFINE Inv == Base /\ Room
  <1>1. Init => Inv
    <2> SUFFICES ASSUME Init PROVE Room
      BY BaseInit, Zenon
    <2>1. heap = {} /\ Early = {} /\ pushed = <<>> /\ readPC = "idle"
      BY DEF Init, QueueInit, Early
    <2>2. Len(pushed) = 0 /\ Cardinality(heap) = 0 /\ Cardinality(Early) = 0
      BY <2>1, FS_EmptySet
    <2> QED
      BY <2>1, <2>2, LimitType DEF Room
  <1>2. Inv /\ [Next]_vars => Inv'
    <2> SUFFICES ASSUME Base, Room, [Next]_vars PROVE Room'
      BY BaseNext, Zenon
    <2>1. /\ maxBuffered \in Nat /\ pushed \in Seq(Posts) /\ heap \in SUBSET Posts
          /\ Cardinality(heap) \in Nat
      BY LimitType, PostSets, Zenon DEF Base, TypeOK
    <2>2. CASE UNCHANGED <<pkt, heap, nextSeq>> /\ readPC' \in {"idle", readPC}
               /\ Len(pushed') <= maxBuffered
      BY <2>2 DEF Room, Early
    <2>3. ASSUME NEW p \in Posts, Push(p) PROVE Room'
      <3>1. UNCHANGED <<pkt, heap, nextSeq, readPC>>
        BY <2>3 DEF Push, PushCheck, PushSend, PushAbort, readVars
      <3>2. Len(pushed) <= maxBuffered
        BY DEF Room
      <3>3. pushed' = pushed \/ (Len(pushed) < maxBuffered /\ pushed' = Append(pushed, p))
        BY <2>3 DEF Push, PushCheck, PushSend, PushAbort
      <3>4. Len(pushed') <= maxBuffered
        BY <2>1, <3>2, <3>3
      <3> QED
        BY <2>2, <3>1, <3>4, Zenon
    <2>4. CASE Close \/ ReadEOF \/ UNCHANGED vars
      BY <2>2, <2>4 DEF Close, ReadEOF, vars, pushVars, readVars, Room
    <2>5. ASSUME NEW b \in ReadSizes, ReadCall(b) PROVE Room'
      <3>1. UNCHANGED <<pkt, pushed>> /\ b \in Nat
        BY <2>5, ReadAssumption, Zenon DEF ReadCall, pushVars
      <3>2. CASE heap = {}
        <4>1. heap' = {} /\ Early' = {}
          BY <2>5, <3>2, Zenon DEF ReadCall, Early
        <4> QED
          BY <2>1, <3>1, <4>1, FS_EmptySet DEF Room
      <3>3. CASE heap # {}
        BY <2>1, <2>5, <3>1, <3>3, ReadLoopRoom, Zenon DEF ReadCall, Room
      <3> QED
        BY <3>2, <3>3
    <2>6. CASE ReadRecv
      <3> DEFINE H == heap \cup {Head(pushed)}
      <3>1. /\ pkt' = pkt /\ pushed # <<>> /\ pushed' = Tail(pushed)
            /\ ReadLoop(H, readLen) /\ readLen \in Nat /\ readPC = "recv"
        BY <2>6, Zenon DEF ReadRecv, Base, TypeOK
      <3>2. H \in SUBSET Posts /\ Len(pushed') <= maxBuffered
        BY <2>1, <3>1 DEF Room
      <3>3. Cardinality(H) <= maxBuffered + 2
        <4>1. IsFiniteSet(heap) /\ Cardinality(heap) <= maxBuffered + 1
          BY <2>1, <3>1, PostSets, Zenon DEF Room
        <4>2. \/ Cardinality(H) = Cardinality(heap)
              \/ Cardinality(H) = Cardinality(heap) + 1
          BY <4>1, FS_AddElement, Zenon
        <4> HIDE DEF H
        <4> QED
          BY <2>1, <4>1, <4>2
      <3> HIDE DEF H
      <3> QED
        BY <3>1, <3>2, <3>3, ReadLoopRoom, Zenon DEF Room
    <2> QED
      BY <2>3, <2>4, <2>5, <2>6 DEF Next, Read
  <1>3. Inv => MemoryBound
    BY DEF Room, Early, MemoryBound
  <1> QED
    BY <1>1, <1>2, <1>3, PTL DEF Spec

-----------------------------------------------------------------------------
(***************************************************************************)
(* The overflow error.                                                     *)
(***************************************************************************)
\* Everything in the channel and the heap was accepted.
AllAccepted ==
  /\ \A i \in DOMAIN pushed : pushPC[pushed[i]] = "ok"
  /\ \A p \in heap : pushPC[p] = "ok"

AtOrAfter(d) == {p \in Posts : pushPC[p] = "ok" /\ pkt[p].seq >= pkt[d].seq}

\* What the loop newly gives up has maxBuffered + 1 accepted packets with it.
LEMMA ReadLoopOverflow ==
  ASSUME Base, NEW H \in SUBSET Posts, NEW b \in Nat, ReadLoop(H, b),
         \A p \in H : pushPC[p] = "ok"
  PROVE  /\ heap' \subseteq H
         /\ \A d \in dropped' \ dropped : Cardinality(AtOrAfter(d)) >= maxBuffered + 2
  <1> DEFINE live == {q \in H : pkt[q].seq >= nextSeq}
  <1>1. /\ live \in SUBSET H /\ live \in SUBSET Posts
        /\ Lowest(live) \subseteq live
    BY Zenon DEF Lowest
  <1>2. ASSUME NEW d \in Lowest(live) PROVE live \in SUBSET AtOrAfter(d)
    BY <1>1, <1>2, Zenon DEF Lowest, AtOrAfter, Base, TypeOK, Packet
  <1> HIDE DEF live
  <1>3. CASE heap' = {} /\ dropped' = dropped
    BY <1>3, Zenon
  <1>4. CASE \E q \in Lowest(live) : CopyOut(q, live, b)
    BY <1>1, <1>4, Zenon DEF CopyOut
  <1>5. CASE \E q \in Lowest(live) : Park(q, live)
    <2>1. PICK q \in Lowest(live) : Park(q, live)
      BY <1>5, Zenon
    <2>2. heap' \subseteq H
      BY <1>1, <2>1, Zenon DEF Park
    <2>3. ASSUME NEW d \in dropped' \ dropped
          PROVE  Cardinality(AtOrAfter(d)) >= maxBuffered + 2
      <3>1. d = q /\ Cardinality(live \ {q}) > maxBuffered /\ q \in live
        BY <1>1, <2>1, <2>3, Zenon DEF Park
      <3>2. IsFiniteSet(live) /\ Cardinality(live) \in Nat
        BY <1>1, PostSets
      <3>3. Cardinality(live \ {q}) = Cardinality(live) - 1
        BY <3>1, <3>2, FS_RemoveElement, Zenon
      <3>4. AtOrAfter(q) \in SUBSET Posts
        BY Zenon DEF AtOrAfter
      <3>5. Cardinality(live) <= Cardinality(AtOrAfter(q)) /\ Cardinality(AtOrAfter(q)) \in Nat
        BY <1>2, <3>4, PostSets
      <3> QED
        BY <3>1, <3>2, <3>3, <3>5, LimitType
    <2> QED
      BY <2>2, <2>3
  <1> QED
    BY <1>3, <1>4, <1>5, Zenon DEF ReadLoop, live

\* Read reports "reassembly buffer overflow" only when the client really got
\* more than maxBuffered packets ahead of a missing one.
THEOREM OverflowIsJustified == Spec => []OverflowJustified
  <1> DEFINE Inv == Base /\ AllAccepted /\ OverflowJustified
  <1>1. Init => Inv
    <2> SUFFICES ASSUME Init PROVE AllAccepted /\ OverflowJustified
      BY BaseInit, Zenon
    <2> QED
      BY DEF Init, QueueInit, AllAccepted, OverflowJustified
  <1>2. Inv /\ [Next]_vars => Inv'
    <2> SUFFICES ASSUME Base, AllAccepted, OverflowJustified, [Next]_vars
                 PROVE  AllAccepted' /\ OverflowJustified'
      BY BaseNext
    <2>1. /\ pushed \in Seq(Posts) /\ pushPC \in [Posts -> {"call", "select", "ok", "err"}]
          /\ heap \in SUBSET Posts /\ dropped \in SUBSET Posts
      BY Zenon DEF Base, TypeOK
    <2>2. pkt' = pkt
      BY Zenon DEF Next, Push, PushCheck, PushSend, PushAbort, Close, Read, ReadCall,
             ReadRecv, ReadEOF, vars
    <2>3. \A p \in Posts : pushPC[p] = "ok" => pushPC'[p] = "ok"
      BY <2>1 DEF Next, Push, PushCheck, PushSend, PushAbort, Close, Read, ReadCall,
             ReadRecv, ReadEOF, vars, pushVars
    <2>4. \A d \in Posts : Cardinality(AtOrAfter(d)) <= Cardinality(AtOrAfter(d)')
                           /\ Cardinality(AtOrAfter(d)) \in Nat
                              /\ Cardinality(AtOrAfter(d)') \in Nat
      <3> TAKE d \in Posts
      <3>1. AtOrAfter(d)' \in SUBSET Posts /\ AtOrAfter(d) \in SUBSET (AtOrAfter(d)')
        BY <2>2, <2>3, Zenon DEF AtOrAfter
      <3> QED
        BY <3>1, PostSets
    <2>5. ASSUME \A d \in dropped' \ dropped : Cardinality(AtOrAfter(d)) >= maxBuffered + 2,
                 dropped' \in SUBSET Posts
          PROVE  OverflowJustified'
      <3>1. \A d \in dropped : Cardinality(AtOrAfter(d)) >= maxBuffered + 2
        BY DEF OverflowJustified, AtOrAfter
      <3>2. \A d \in dropped' : Cardinality(AtOrAfter(d)') >= maxBuffered + 2
        BY <2>4, <2>5, <3>1, LimitType
      <3> QED
        BY <3>2, Zenon DEF OverflowJustified, AtOrAfter
    <2>6. ASSUME NEW p \in Posts, Push(p) PROVE AllAccepted' /\ dropped' = dropped
      <3>1. UNCHANGED <<heap, dropped>>
        BY <2>6, Zenon DEF Push, PushCheck, PushSend, PushAbort, readVars
      <3>2. \A i \in DOMAIN pushed' : pushPC'[pushed'[i]] = "ok"
        <4>1. CASE PushSend(p)
          BY <2>1, <2>3, <4>1 DEF PushSend, AllAccepted
        <4>2. CASE pushed' = pushed
          BY <2>1, <2>3, <4>2 DEF AllAccepted
        <4> QED
          BY <2>6, <4>1, <4>2, Zenon DEF Push, PushCheck, PushAbort
      <3> QED
        BY <2>1, <2>3, <3>1, <3>2, Zenon DEF AllAccepted
    <2>7. CASE Close \/ ReadEOF \/ UNCHANGED vars
      <3>1. UNCHANGED <<pushed, pushPC, heap, dropped>>
        BY <2>7 DEF Close, ReadEOF, vars, pushVars, readVars
      <3> QED
        BY <2>1, <2>5, <3>1, Zenon DEF AllAccepted
    <2>8. ASSUME NEW b \in ReadSizes, ReadCall(b)
          PROVE  AllAccepted' /\ OverflowJustified'
      <3>1. UNCHANGED <<pushed, pushPC>> /\ b \in Nat
        BY <2>8, ReadAssumption, Zenon DEF ReadCall, pushVars
      <3>2. CASE heap = {}
        <4>1. UNCHANGED <<heap, dropped>>
          BY <2>8, <3>2, Zenon DEF ReadCall
        <4> QED
          BY <2>1, <2>5, <3>1, <4>1, Zenon DEF AllAccepted
      <3>3. CASE heap # {}
        <4>1. ReadLoop(heap, b)
          BY <2>8, <3>3 DEF ReadCall
        <4> heap \in SUBSET Posts /\ \A p \in heap : pushPC[p] = "ok"
          BY <2>1 DEF AllAccepted
        <4>2. /\ heap' \subseteq heap
              /\ \A d \in dropped' \ dropped : Cardinality(AtOrAfter(d)) >= maxBuffered + 2
          BY <3>1, <4>1, ReadLoopOverflow, Zenon
        <4>3. dropped' \in SUBSET Posts
          BY <2>1, <3>1, <4>1, ReadLoopBase, Zenon
        <4> QED
          BY <2>5, <3>1, <4>2, <4>3, Zenon DEF AllAccepted
      <3> QED
        BY <3>2, <3>3, Zenon
    <2>9. CASE ReadRecv
      <3> DEFINE H == heap \cup {Head(pushed)}
      <3>1. /\ pushed # <<>> /\ pushed' = Tail(pushed) /\ pushPC' = pushPC
            /\ ReadLoop(H, readLen) /\ readLen \in Nat
        BY <2>9 DEF ReadRecv, Base, TypeOK
      <3>2. H \in SUBSET Posts /\ \A p \in H : pushPC[p] = "ok"
        BY <2>1, <3>1 DEF AllAccepted
      <3>3. \A i \in DOMAIN pushed' : pushPC'[pushed'[i]] = "ok"
        BY <2>1, <3>1 DEF AllAccepted
      <3> HIDE DEF H
      <3>4. /\ heap' \subseteq H
            /\ \A d \in dropped' \ dropped : Cardinality(AtOrAfter(d)) >= maxBuffered + 2
        BY <3>1, <3>2, ReadLoopOverflow, Zenon
      <3>5. dropped' \in SUBSET Posts
        BY <3>1, <3>2, ReadLoopBase, Zenon
      <3> QED
        BY <2>5, <3>1, <3>2, <3>3, <3>4, <3>5, Zenon DEF AllAccepted
    <2> QED
      BY <2>1, <2>5, <2>6, <2>7, <2>8, <2>9, Zenon DEF Next, Read
  <1> QED
    BY <1>1, <1>2, PTL DEF Spec
=============================================================================
