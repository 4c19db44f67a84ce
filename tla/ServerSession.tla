--------------------------- MODULE ServerSession ---------------------------
(***************************************************************************)
(* The server's life of one session ID (xhttp/server.go): the sessions     *)
(* map, the session object with its once-only decisions and its reaper,    *)
(* the three handlers that share it (download GET, stream-up POST,         *)
(* packet-up POST), the connection given to the upper layer, and every     *)
(* way they are torn down.  All requests here carry the same session ID;   *)
(* different IDs share nothing but the map.  A stream-one request has no   *)
(* session: its handler shares the connection's code with the download.    *)
(*                                                                         *)
(* A sync.Once whose function takes several steps is a phase variable: the *)
(* first caller starts it, every caller waits until it is "done".  The     *)
(* reassembly queue is reduced to its length and its closed flag; what it  *)
(* does with the packets is the business of UploadQueue.                   *)
(***************************************************************************)
EXTENDS Integers

CONSTANTS
  Gets, Streams, Packets, Ones, \* the requests, by kind
  Mixes,                  \* the sets of requests that may arrive
  maxBufferedPosts,       \* capacity of the queue's channel
  Blocking,               \* the requests whose NewConnectionEx returns only when
                          \* the upper layer is done
  Heartbeats,             \* stream-up heartbeats are written (and may fail)
  None                    \* no session

Requests == Gets \cup Streams \cup Packets \cup Ones
Conns == Gets \cup Ones       \* the requests with a connection for the upper layer

\* A session object is named after the request that made it.
Objs == Gets \cup Streams \cup Packets

ASSUME KindsAssumption ==
  /\ Gets \cap Streams = {} /\ Gets \cap Packets = {} /\ Streams \cap Packets = {}
  /\ Ones \cap Objs = {} /\ None \notin Requests
  /\ Streams \cap {"undecided", "packet", "unset", "queue", "eof"} = {}
ASSUME MixesAssumption == Mixes \subseteq SUBSET Requests
ASSUME CapacityAssumption == maxBufferedPosts \in Nat \ {0}
ASSUME HeartbeatsAssumption == Heartbeats \in BOOLEAN

VARIABLES
  entry,      \* s.sessions[sessionID]
  connected, uplink, sclosed, closing, reaper,  \* per session object:
              \* connected and closed channels; the decided uplink; the phase of
              \* closeOnce; its reaper goroutine
  qclosed, qlen,   \* per session object: its queue
  pc, obj, ctxDone,            \* per request: handler, its sess, its context
  bodyClosed,                  \* per stream-up POST and stream-one request: its body
  conn, wclosed, writing,      \* per connection: splitConn.once, flushWriter, its mutex
  watcher, upper, src          \* per connection: watcher, upper layer; GET: lazy reader

sessVars == <<connected, uplink, sclosed, closing, qclosed, qlen>>
mapVars == <<entry, reaper>>
reqVars == <<pc, obj, ctxDone>>
connVars == <<conn, wclosed, writing, watcher, upper, src>>
serverVars == <<sessVars, mapVars, reqVars, bodyClosed, connVars>>

ServerTypeOK ==
  /\ entry \in Objs \cup {None}
  /\ connected \in [Objs -> BOOLEAN]
  /\ uplink \in [Objs -> {"undecided", "packet"} \cup Streams]
  /\ sclosed \in [Objs -> BOOLEAN]
  /\ closing \in [Objs -> {"no", "queue", "body", "done"}]
  /\ reaper \in [Objs -> {"off", "wait", "lock", "close", "gone"}]
  /\ qclosed \in [Objs -> BOOLEAN]
  /\ qlen \in [Objs -> 0 .. maxBufferedPosts]
  /\ pc \in [Requests -> {"never", "new", "upserted", "marked", "serving", "closing",
                          "delete", "trailers", "check", "push", "select", "returned"}]
  /\ obj \in [Requests -> Objs \cup {None}]
  /\ ctxDone \in [Requests -> BOOLEAN]
  /\ bodyClosed \in [Streams \cup Ones -> BOOLEAN]
  /\ conn \in [Conns -> {"open", "writer", "session", "wait", "done"}]
  /\ wclosed \in [Conns -> BOOLEAN]
  /\ writing \in [Conns -> BOOLEAN]
  /\ watcher \in [Conns -> {"off", "wait", "closing", "gone"}]
  /\ upper \in [Conns -> {"off", "running", "closing", "gone"}]
  /\ src \in [Gets -> {"unset", "queue", "eof"} \cup Streams]

ServerInit ==
  /\ entry = None
  /\ connected = [o \in Objs |-> FALSE]
  /\ uplink = [o \in Objs |-> "undecided"]
  /\ sclosed = [o \in Objs |-> FALSE]
  /\ closing = [o \in Objs |-> "no"]
  /\ reaper = [o \in Objs |-> "off"]
  /\ qclosed = [o \in Objs |-> FALSE]
  /\ qlen = [o \in Objs |-> 0]
  /\ \E mix \in Mixes : pc = [r \in Requests |-> IF r \in mix THEN "new" ELSE "never"]
  /\ obj = [r \in Requests |-> None]
  /\ ctxDone = [r \in Requests |-> FALSE]
  /\ bodyClosed = [u \in Streams \cup Ones |-> FALSE]
  /\ conn = [g \in Conns |-> "open"]
  /\ wclosed = [g \in Conns |-> FALSE]
  /\ writing = [g \in Conns |-> FALSE]
  /\ watcher = [g \in Conns |-> "off"]
  /\ upper = [g \in Conns |-> "off"]
  /\ src = [g \in Gets |-> "unset"]

\* No handler is running for r.
Idle(r) == pc[r] \in {"never", "new", "returned"}

Go(r, from, to) == pc[r] = from /\ pc' = [pc EXCEPT ![r] = to]

-----------------------------------------------------------------------------
(***************************************************************************)
(* The session object: httpSession.Close and its three parts.              *)
(***************************************************************************)
\* A call of sess.Close: the first one closes s.closed and goes on below.
StartClose(o) ==
  /\ closing' = [closing EXCEPT ![o] = IF @ = "no" THEN "queue" ELSE @]
  /\ sclosed' = [sclosed EXCEPT ![o] = TRUE]

CloseQueue(o) ==
  /\ closing[o] = "queue"
  /\ closing' = [closing EXCEPT ![o] = "body"]
  /\ qclosed' = [qclosed EXCEPT ![o] = TRUE]
  /\ UNCHANGED <<connected, uplink, sclosed, qlen, mapVars, reqVars, bodyClosed, connVars>>

CloseBody(o) ==
  /\ closing[o] = "body"
  /\ closing' = [closing EXCEPT ![o] = "done"]
  /\ bodyClosed' = [u \in Streams \cup Ones |-> bodyClosed[u] \/ uplink[o] = u]
  /\ UNCHANGED <<connected, uplink, sclosed, qclosed, qlen, mapVars, reqVars, connVars>>

(***************************************************************************)
(* The sessions map.                                                       *)
(***************************************************************************)
upsertSession(r) ==
  IF entry # None
    THEN obj' = [obj EXCEPT ![r] = entry] /\ UNCHANGED mapVars
    ELSE /\ entry' = r
         /\ obj' = [obj EXCEPT ![r] = r]
         /\ reaper' = [reaper EXCEPT ![r] = "wait"]

Upsert(r) ==
  /\ Go(r, "new", "upserted")
  /\ upsertSession(r)
  /\ UNCHANGED <<sessVars, ctxDone, bodyClosed, connVars>>

\* Mutant: no 30-second timer.
MutReaperWakes(o) ==
  /\ reaper[o] = "wait"
  /\ \/ sclosed[o] /\ reaper' = [reaper EXCEPT ![o] = "lock"]
     \/ connected[o] /\ reaper' = [reaper EXCEPT ![o] = "gone"]
  /\ UNCHANGED <<entry, sessVars, reqVars, bodyClosed, connVars>>

\* The reaper's select: 30 seconds may have passed at any moment.
ReaperWakes(o) ==
  /\ reaper[o] = "wait"
  /\ \/ reaper' = [reaper EXCEPT ![o] = "lock"]
     \/ connected[o] /\ reaper' = [reaper EXCEPT ![o] = "gone"]
  /\ UNCHANGED <<entry, sessVars, reqVars, bodyClosed, connVars>>

ReaperDeletes(o) ==
  /\ reaper[o] = "lock"
  /\ reaper' = [reaper EXCEPT ![o] = "close"]
  /\ entry' = IF entry = o THEN None ELSE entry
  /\ UNCHANGED <<sessVars, reqVars, bodyClosed, connVars>>

\* Mutant: the reaped session is not closed.
MutReaperCloses(o) ==
  /\ reaper[o] = "close"
  /\ reaper' = [reaper EXCEPT ![o] = "gone"]
  /\ UNCHANGED <<entry, sessVars, reqVars, bodyClosed, connVars>>

ReaperCloses(o) ==
  /\ reaper[o] = "close"
  /\ reaper' = [reaper EXCEPT ![o] = "gone"]
  /\ StartClose(o)
  /\ UNCHANGED <<entry, connected, uplink, qclosed, qlen, reqVars, bodyClosed, connVars>>

Session(o) ==
  CloseQueue(o) \/ CloseBody(o) \/ ReaperWakes(o) \/ ReaperDeletes(o) \/ ReaperCloses(o)

-----------------------------------------------------------------------------
(***************************************************************************)
(* handleStreamUpPost and handlePacketUpPost.                              *)
(***************************************************************************)
\* decideStreamUp, first half: uplinkOnce.
StreamDecide(u) ==
  LET o == obj[u] IN
  /\ Go(u, "upserted", IF uplink[o] = "undecided" THEN "check" ELSE "returned")
  /\ uplink' = [uplink EXCEPT ![o] = IF @ = "undecided" THEN u ELSE @]
  /\ UNCHANGED <<connected, sclosed, closing, qclosed, qlen, mapVars, obj, ctxDone,
                 bodyClosed, connVars>>

\* Mutant: the session is not looked at again after the body was attached.
MutStreamCheck(u) ==
  /\ Go(u, "check", "serving")
  /\ UNCHANGED <<sessVars, mapVars, obj, ctxDone, bodyClosed, connVars>>

\* decideStreamUp, second half: a Close that came first has missed this body.
StreamCheck(u) ==
  /\ Go(u, "check", IF sclosed[obj[u]] THEN "returned" ELSE "serving")
  /\ bodyClosed' = [bodyClosed EXCEPT ![u] = @ \/ sclosed[obj[u]]]
  /\ UNCHANGED <<sessVars, mapVars, obj, ctxDone, connVars>>

\* The heartbeat loop ends: context, session, or a heartbeat that cannot be written.
StreamLeave(u) ==
  /\ Go(u, "serving", "closing")
  /\ ctxDone[u] \/ sclosed[obj[u]] \/ Heartbeats
  /\ StartClose(obj[u])
  /\ UNCHANGED <<connected, uplink, qclosed, qlen, mapVars, obj, ctxDone, bodyClosed, connVars>>

StreamReturn(u) ==
  /\ Go(u, "closing", "returned")
  /\ closing[obj[u]] = "done"
  /\ UNCHANGED <<sessVars, mapVars, obj, ctxDone, bodyClosed, connVars>>

PacketDecide(k) ==
  /\ Go(k, "upserted", "push")
  /\ uplink' = [uplink EXCEPT ![obj[k]] = IF @ = "undecided" THEN "packet" ELSE @]
  /\ UNCHANGED <<connected, sclosed, closing, qclosed, qlen, mapVars, obj, ctxDone,
                 bodyClosed, connVars>>

\* queue.Push: the check of q.closed, then the select.
PacketPush(k) ==
  /\ Go(k, "push", IF qclosed[obj[k]] THEN "returned" ELSE "select")
  /\ UNCHANGED <<sessVars, mapVars, obj, ctxDone, bodyClosed, connVars>>

PacketSelect(k) ==
  LET o == obj[k] IN
  /\ Go(k, "select", "returned")
  /\ \/ qlen[o] < maxBufferedPosts /\ qlen' = [qlen EXCEPT ![o] = @ + 1]
     \/ qclosed[o] /\ UNCHANGED qlen
  /\ UNCHANGED <<connected, uplink, sclosed, closing, qclosed, mapVars, obj, ctxDone,
                 bodyClosed, connVars>>

Stream(u) == StreamDecide(u) \/ StreamCheck(u) \/ StreamReturn(u)
PacketPost(k) == PacketDecide(k) \/ PacketPush(k) \/ PacketSelect(k)

-----------------------------------------------------------------------------
(***************************************************************************)
(* handleDownloadGet, handleStreamOne and their watchers.                  *)
(***************************************************************************)
GetMark(g) ==
  /\ Go(g, "upserted", "marked")
  /\ connected' = [connected EXCEPT ![obj[g]] = TRUE]
  /\ UNCHANGED <<uplink, sclosed, closing, qclosed, qlen, mapVars, obj, ctxDone,
                 bodyClosed, connVars>>

\* The response headers are sent, the watcher starts, NewConnectionEx is called.
Serve(g) ==
  /\ Go(g, IF g \in Gets THEN "marked" ELSE "new", "serving")
  /\ watcher' = [watcher EXCEPT ![g] = "wait"]
  /\ upper' = [upper EXCEPT ![g] = "running"]
  /\ UNCHANGED <<sessVars, mapVars, obj, ctxDone, bodyClosed, conn, wclosed, writing, src>>

\* A call of conn.Close: the first one goes on with ConnClose below.
StartConnClose(g) == conn' = [conn EXCEPT ![g] = IF @ = "open" THEN "writer" ELSE @]

\* NewConnectionEx has returned and the final select has fired.
Leave(g) ==
  /\ Go(g, "serving", "closing")
  /\ g \in Blocking => upper[g] = "gone"
  /\ ctxDone[g] \/ conn[g] = "done"
  /\ StartConnClose(g)
  /\ UNCHANGED <<sessVars, mapVars, obj, ctxDone, bodyClosed, wclosed, writing, watcher,
                 upper, src>>

\* conn.Close has returned; close(finished); sess.Close.
GetJoin(g) ==
  /\ Go(g, "closing", "delete")
  /\ conn[g] = "done"
  /\ StartClose(obj[g])
  /\ UNCHANGED <<connected, uplink, qclosed, qlen, mapVars, obj, ctxDone, bodyClosed, connVars>>

\* The deferred deleteSession: whatever the ID maps to by now.
GetDelete(g) ==
  /\ Go(g, "delete", "returned")
  /\ closing[obj[g]] = "done"
  /\ entry' = None
  /\ UNCHANGED <<reaper, sessVars, obj, ctxDone, bodyClosed, connVars>>

\* handleStreamOne: conn.Close has returned; close(finished).
OneJoin(x) ==
  /\ Go(x, "closing", "trailers")
  /\ conn[x] = "done"
  /\ UNCHANGED <<sessVars, mapVars, obj, ctxDone, bodyClosed, connVars>>

\* The deferred finish publishes the trailers; END_STREAM follows.
OneFinish(x) ==
  /\ Go(x, "trailers", "returned")
  /\ UNCHANGED <<sessVars, mapVars, obj, ctxDone, bodyClosed, connVars>>

WatcherCloses(g) ==
  /\ watcher[g] = "wait" /\ ctxDone[g]
  /\ watcher' = [watcher EXCEPT ![g] = "closing"]
  /\ StartClose(obj[g])
  /\ UNCHANGED <<connected, uplink, qclosed, qlen, mapVars, reqVars, bodyClosed,
                 conn, wclosed, writing, upper, src>>

\* The watcher of handleStreamOne closes the connection, not a session.
OneWatcherCloses(x) ==
  /\ watcher[x] = "wait" /\ ctxDone[x]
  /\ watcher' = [watcher EXCEPT ![x] = "closing"]
  /\ StartConnClose(x)
  /\ UNCHANGED <<sessVars, mapVars, reqVars, bodyClosed, wclosed, writing, upper, src>>

WatcherEnds(g) ==
  /\ \/ watcher[g] = "wait" /\ pc[g] \in {"delete", "trailers", "returned"}
     \/ /\ watcher[g] = "closing"
        /\ IF g \in Gets THEN closing[obj[g]] = "done" ELSE conn[g] = "done"
  /\ watcher' = [watcher EXCEPT ![g] = "gone"]
  /\ UNCHANGED <<sessVars, mapVars, reqVars, bodyClosed, conn, wclosed, writing, upper, src>>

(***************************************************************************)
(* splitConn.Close: flushWriter.Close, the reader's Close, onClose.  The   *)
(* reader is the lazyStreamReader of a session or, in stream-one, the      *)
(* request's body.                                                         *)
(***************************************************************************)
\* Mutant: flushWriter.Close without the mutex.
MutConnCloseWriter(g) ==
  /\ conn[g] = "writer"
  /\ conn' = [conn EXCEPT ![g] = "session"]
  /\ wclosed' = [wclosed EXCEPT ![g] = TRUE]
  /\ UNCHANGED <<sessVars, mapVars, reqVars, bodyClosed, writing, watcher, upper, src>>

ConnCloseWriter(g) ==
  /\ conn[g] = "writer" /\ ~writing[g]
  /\ conn' = [conn EXCEPT ![g] = "session"]
  /\ wclosed' = [wclosed EXCEPT ![g] = TRUE]
  /\ UNCHANGED <<sessVars, mapVars, reqVars, bodyClosed, writing, watcher, upper, src>>

ConnCloseReader(g) ==
  /\ conn[g] = "session"
  /\ conn' = [conn EXCEPT ![g] = "wait"]
  /\ StartClose(obj[g])
  /\ UNCHANGED <<connected, uplink, qclosed, qlen, mapVars, reqVars, bodyClosed,
                 wclosed, writing, watcher, upper, src>>

OneCloseReader(x) ==
  /\ conn[x] = "session"
  /\ conn' = [conn EXCEPT ![x] = "wait"]
  /\ bodyClosed' = [bodyClosed EXCEPT ![x] = TRUE]
  /\ UNCHANGED <<sessVars, mapVars, reqVars, wclosed, writing, watcher, upper, src>>

ConnOnClose(g) ==
  /\ conn[g] = "wait" /\ (g \in Gets => closing[obj[g]] = "done")
  /\ conn' = [conn EXCEPT ![g] = "done"]
  /\ UNCHANGED <<sessVars, mapVars, reqVars, bodyClosed, wclosed, writing, watcher, upper, src>>

\* The goroutines of a request with a connection: the handler, its watcher, and
\* whoever came first to conn.Close.
handleDownloadGet(g) == GetMark(g) \/ Serve(g) \/ Leave(g) \/ GetJoin(g) \/ GetDelete(g)
handleStreamOne(x) == Leave(x) \/ OneJoin(x) \/ OneFinish(x)
Handler(g) == IF g \in Gets THEN handleDownloadGet(g) ELSE handleStreamOne(g)
Watcher(g) == WatcherEnds(g) \/ (IF g \in Gets THEN WatcherCloses(g) ELSE OneWatcherCloses(g))
Closer(g) == ConnOnClose(g) \/ (IF g \in Gets THEN ConnCloseReader(g) ELSE OneCloseReader(g))

-----------------------------------------------------------------------------
(***************************************************************************)
(* The upper layer: one goroutine reads conn and closes it when a read     *)
(* fails, any number of others may write to it, even after it was closed.  *)
(***************************************************************************)
\* lazyStreamReader.Read, the first call: it waits for the uplink or the end.
LazyRead(g) ==
  LET o == obj[g] IN
  /\ upper[g] = "running" /\ src[g] = "unset"
  /\ \/ /\ uplink[o] # "undecided"
        /\ src' = [src EXCEPT ![g] = IF uplink[o] = "packet" THEN "queue" ELSE uplink[o]]
     \/ sclosed[o] /\ src' = [src EXCEPT ![g] = "eof"]
  /\ UNCHANGED <<sessVars, mapVars, reqVars, bodyClosed, conn, wclosed, writing, watcher, upper>>

QueueRead(g) ==
  LET o == obj[g] IN
  /\ upper[g] = "running" /\ src[g] = "queue" /\ qlen[o] > 0
  /\ qlen' = [qlen EXCEPT ![o] = @ - 1]
  /\ UNCHANGED <<connected, uplink, sclosed, closing, qclosed, mapVars, reqVars, bodyClosed,
                 connVars>>

\* A read of the chosen source fails: EOF, closed queue, closed or ended body.
ReadFails(g) ==
  IF g \in Ones THEN bodyClosed[g] \/ ctxDone[g]
  ELSE \/ src[g] = "eof"
       \/ src[g] = "queue" /\ qclosed[obj[g]]
       \/ src[g] \in Streams /\ (bodyClosed[src[g]] \/ ctxDone[src[g]] \/ pc[src[g]] = "returned")

UpperClose(g) ==
  /\ upper[g] = "running"
  /\ upper' = [upper EXCEPT ![g] = "closing"]
  /\ StartConnClose(g)
  /\ UNCHANGED <<sessVars, mapVars, reqVars, bodyClosed, wclosed, writing, watcher, src>>

UpperEnd(g) ==
  /\ upper[g] = "closing" /\ conn[g] = "done"
  /\ upper' = [upper EXCEPT ![g] = "gone"]
  /\ UNCHANGED <<sessVars, mapVars, reqVars, bodyClosed, conn, wclosed, writing, watcher, src>>

\* flushWriter.Write, between its lock and its unlock.
WriteBegin(g) ==
  /\ upper[g] # "off" /\ ~writing[g] /\ ~wclosed[g]
  /\ writing' = [writing EXCEPT ![g] = TRUE]
  /\ UNCHANGED <<sessVars, mapVars, reqVars, bodyClosed, conn, wclosed, watcher, upper, src>>

WriteEnd(g) ==
  /\ writing[g]
  /\ writing' = [writing EXCEPT ![g] = FALSE]
  /\ UNCHANGED <<sessVars, mapVars, reqVars, bodyClosed, conn, wclosed, watcher, upper, src>>

\* The client goes away, or the server shuts down.
ContextDone(r) ==
  /\ ~ctxDone[r] /\ ~Idle(r)
  /\ ctxDone' = [ctxDone EXCEPT ![r] = TRUE]
  /\ UNCHANGED <<sessVars, mapVars, pc, obj, bodyClosed, connVars>>

ServerNext ==
  \/ \E o \in Objs : Session(o)
  \/ \E r \in Objs : Upsert(r)
  \/ \E r \in Streams \cup Conns : ContextDone(r)
  \/ \E u \in Streams : Stream(u) \/ StreamLeave(u)
  \/ \E k \in Packets : PacketPost(k)
  \/ \E x \in Ones : Serve(x)
  \/ \E g \in Gets : LazyRead(g) \/ QueueRead(g)
  \/ \E g \in Conns : \/ Handler(g) \/ Watcher(g) \/ ConnCloseWriter(g) \/ Closer(g)
                      \/ UpperClose(g) \/ UpperEnd(g) \/ WriteBegin(g) \/ WriteEnd(g)

(***************************************************************************)
(* Goroutines that can run do run; timers fire.  Nothing makes a request   *)
(* arrive, a client go away, a heartbeat fail, or an upper layer write or  *)
(* close of its own accord; it does close once a read has failed.  A Go    *)
(* mutex hands itself to a waiter that starves, so flushWriter.Close gets   *)
(* its turn between the writes of a busy upper layer: strong fairness.     *)
(***************************************************************************)
Fairness ==
  /\ \A o \in Objs : /\ WF_serverVars(CloseQueue(o) \/ CloseBody(o))
                     /\ WF_serverVars(ReaperWakes(o) \/ ReaperDeletes(o) \/ ReaperCloses(o))
  /\ \A u \in Streams :
       WF_serverVars(Stream(u) \/ (StreamLeave(u) /\ (ctxDone[u] \/ sclosed[obj[u]])))
  /\ \A k \in Packets : WF_serverVars(PacketPost(k))
  /\ \A g \in Conns :
       /\ WF_serverVars(Handler(g)) /\ WF_serverVars(Watcher(g))
       /\ SF_serverVars(ConnCloseWriter(g)) /\ WF_serverVars(Closer(g))
       /\ WF_serverVars(
            (g \in Gets /\ LazyRead(g)) \/ UpperEnd(g) \/ (UpperClose(g) /\ ReadFails(g)))
       /\ WF_serverVars(WriteEnd(g))

ServerSpec == ServerInit /\ [][ServerNext]_serverVars /\ Fairness

-----------------------------------------------------------------------------
(***************************************************************************)
(* Properties                                                              *)
(***************************************************************************)
\* httpSession.Close "closes the stream-up body if one was attached": whatever
\* the order of Close and decideStreamUp, once both have finished the attached
\* body is closed.
BodyReleased ==
  \A o \in Objs, u \in Streams :
    closing[o] = "done" /\ uplink[o] = u /\ pc[u] # "check" => bodyClosed[u]

\* "A ResponseWriter is only valid until this handler returns": no write of an
\* upper layer that outlives handleDownloadGet or handleStreamOne touches it,
\* during or after; handleStreamOne joins every close "before publishing
\* trailers / END_STREAM", so none comes after the trailers either.
NoWriteAfterReturn ==
  \A g \in Conns :
    pc[g] \in {"delete", "trailers", "returned"} => wclosed[g] /\ ~writing[g]

\* While a download is served and its session neither closes nor is being
\* reaped, uploads with its ID find that session in the map (one download).
LiveSessionMapped ==
  \A g \in Gets :
    /\ pc[g] \in {"marked", "serving"}
    /\ ~sclosed[obj[g]] /\ reaper[obj[g]] # "close"
    => entry = obj[g]

\* No client keeps a long request open.
Gone == \A r \in Streams \cup Conns : ctxDone[r] \/ Idle(r)

\* The map is empty, every session is closed and every goroutine has ended.
Clean ==
  /\ entry = None
  /\ \A o \in Objs : reaper[o] # "off" => closing[o] = "done" /\ reaper[o] = "gone"
  /\ \A r \in Requests : Idle(r)
  /\ \A g \in Conns : pc[g] = "returned" => watcher[g] = "gone" /\ upper[g] = "gone"
  /\ \A x \in Ones : pc[x] = "returned" => bodyClosed[x]

\* Nothing of a session outlives its clients: the watcher ("otherwise that
\* NewConnectionEx would never return and the read goroutine would leak"), the
\* reaper and the joins together leave no goroutine and no map entry behind.
\* httpSession.Close tears the session down "unblocking any reader": a reader
\* of a closed session ends even if its own request lives on.
Released ==
  /\ <>[]Gone => <>[]Clean
  /\ \A g \in Gets : upper[g] = "running" /\ sclosed[obj[g]] ~> upper[g] # "running"
=============================================================================
