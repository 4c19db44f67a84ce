----------------------------- MODULE StreamDial -----------------------------
(***************************************************************************)
(* The client's connection in the stream modes (xhttp/client.go):          *)
(* dialStreamUp with its download GET and its upload POST, dialStreamOne   *)
(* with its single request, the waitReadCloser that lets a dial return     *)
(* before the response, the io.Pipe of the upload, and closeAll.           *)
(*                                                                         *)
(* Goroutines: the dialling caller, the round trip that yields the         *)
(* downlink body (rt), the upload round trip of stream-up (ul), the        *)
(* application's reader, writer and closer, and whichever of them runs     *)
(* closeAll.  Of the network only what it may do to these is modelled: it  *)
(* connects, answers, fails, ends the upload, and reads the pipe.          *)
(***************************************************************************)
EXTENDS Integers

CONSTANT Held    \* a middlebox holds back the response head until uplink bytes flow

ASSUME HeldAssumption == Held \in BOOLEAN

Modes == {"stream-up", "stream-one"}

VARIABLES
  mode,      \* the mode of the client, which does not change
  dial,      \* the caller of DialContext
  gotConn,   \* the channel openDownload waits for
  cancelled, released,   \* the session's context; history: calls of releaseUsage
  rt, ul,    \* the goroutines of the two round trips
  resp, closes,          \* the downlink response body; history: its Close calls
  body, err, wrcClosed, ready,  \* waitReadCloser: body is set, err, closed, ready
  wc,        \* the calls of waitReadCloser.Close: from splitConn, from closeAll
  all,       \* closeAll: how far its one runner is
  pr, pw,    \* the two ends of the pipe are closed
  sent,      \* the server has received uplink bytes
  rd, wr, app   \* the application: its Read, its Write, its Close

dialVars == <<dial, gotConn>>
wrcVars == <<body, err, wrcClosed, ready>>
respVars == <<resp, closes>>
endVars == <<cancelled, released, all, pr, pw>>
appVars == <<rd, wr, app, sent>>
streamVars == <<mode, dialVars, rt, ul, respVars, wrcVars, wc, endVars, appVars>>

Callers == {"conn", "all"}

DialTypeOK ==
  /\ mode \in Modes
  /\ dial \in {"start", "wait", "open", "failed"}
  /\ gotConn \in BOOLEAN /\ cancelled \in BOOLEAN /\ released \in {0, 1}
  /\ rt \in {"off", "trip", "set", "drop", "ready", "bad", "fail", "failReady", "failEnd", "failed",
            "done"}
  /\ ul \in {"off", "trip", "copy", "ended", "fail", "failed"}
  /\ resp \in {"none", "open", "closed"} /\ closes \in Nat
  /\ body \in BOOLEAN /\ err \in {"none", "failed", "closed"}
  /\ wrcClosed \in BOOLEAN /\ ready \in BOOLEAN
  /\ wc \in [Callers -> {"no", "call", "signal", "signalTook", "close", "done"}]
  /\ all \in {"no", "cancel", "release", "pr", "pw", "body", "done"}
  /\ pr \in BOOLEAN /\ pw \in BOOLEAN /\ sent \in BOOLEAN
  /\ rd \in {"idle", "wait", "body"} /\ wr \in {"idle", "wait"}
  /\ app \in {"open", "reader", "all", "done"}

DialInit ==
  /\ mode \in Modes
  /\ dial = "start" /\ gotConn = FALSE /\ cancelled = FALSE /\ released = 0
  /\ rt = "off" /\ ul = "off" /\ resp = "none" /\ closes = 0
  /\ body = FALSE /\ err = "none" /\ wrcClosed = FALSE /\ ready = FALSE
  /\ wc = [c \in Callers |-> "no"] /\ all = "no" /\ pr = FALSE /\ pw = FALSE
  /\ sent = FALSE /\ rd = "idle" /\ wr = "idle" /\ app = "open"

CloseResp == resp' = "closed" /\ closes' = closes + 1

\* A call of closeAll: doneOnce.Swap lets one caller through.
StartAll == all' = IF all = "no" THEN "cancel" ELSE all

-----------------------------------------------------------------------------
(***************************************************************************)
(* The dial.                                                               *)
(***************************************************************************)
\* Mutant: openDownload waits for the response.
MutDownloadOpened == ready

\* The condition openDownload waits for.
DownloadOpened == gotConn

\* A request that cannot be built, before anything was started.
DialRefused ==
  /\ dial = "start" /\ dial' = "failed"
  /\ cancelled' = TRUE /\ released' = released + 1
  /\ pr' = (mode = "stream-one") /\ pw' = (mode = "stream-one")
  /\ UNCHANGED <<mode, gotConn, rt, ul, respVars, wrcVars, wc, all, appVars>>

\* The GET of stream-up, or the one request of stream-one, starts.
DialStart ==
  /\ dial = "start"
  /\ dial' = IF mode = "stream-up" THEN "wait" ELSE "open"
  /\ rt' = "trip"
  /\ UNCHANGED <<mode, gotConn, ul, respVars, wrcVars, wc, endVars, appVars>>

\* stream-up: openDownload returns on gotConn, the POST starts, Dial returns.
DialConnected ==
  /\ dial = "wait" /\ DownloadOpened
  /\ dial' = "open" /\ ul' = "trip"
  /\ UNCHANGED <<mode, gotConn, rt, respVars, wrcVars, wc, endVars, appVars>>

\* stream-up: the POST cannot be built, the download is closed again.  The
\* steps are those of closeAll, which nothing else can call here, but for the
\* usage, which is released last.
DialAborted ==
  /\ dial = "wait" /\ DownloadOpened
  /\ dial' = "failed" /\ StartAll
  /\ UNCHANGED <<mode, gotConn, rt, ul, respVars, wrcVars, wc, cancelled, released, pr,
                 pw, appVars>>

\* The caller's own context, of which the session's is a child.
ParentCancel ==
  /\ dial # "start" /\ ~cancelled /\ cancelled' = TRUE
  /\ UNCHANGED <<mode, dialVars, rt, ul, respVars, wrcVars, wc, released, all, pr, pw,
                 appVars>>

-----------------------------------------------------------------------------
(***************************************************************************)
(* The round trip whose response body is the downlink.                     *)
(***************************************************************************)
GotConn ==
  /\ rt = "trip" /\ ~gotConn /\ gotConn' = TRUE
  /\ UNCHANGED <<mode, dial, rt, ul, respVars, wrcVars, wc, endVars, appVars>>

TripAnswers ==
  /\ rt = "trip" /\ gotConn /\ (Held => sent)
  /\ rt' \in {"set", "bad"} /\ resp' = "open"
  /\ UNCHANGED <<mode, dialVars, ul, closes, wrcVars, wc, endVars, appVars>>

\* RoundTrip returns an error; signalConn.
TripFails ==
  /\ rt = "trip" /\ rt' = "fail"
  /\ gotConn' = TRUE
  /\ UNCHANGED <<mode, dial, ul, respVars, wrcVars, wc, endVars, appVars>>

\* Not a 200 (or no gRPC response): resp.Body.Close, signalConn.
TripBad ==
  /\ rt = "bad" /\ rt' = "fail"
  /\ CloseResp /\ gotConn' = TRUE
  /\ UNCHANGED <<mode, dial, ul, wrcVars, wc, endVars, appVars>>

\* Mutant: set does not look whether the reader was closed.
MutTripSet ==
  /\ rt = "set" /\ rt' = "ready" /\ body' = TRUE
  /\ UNCHANGED <<mode, dialVars, ul, respVars, err, wrcClosed, ready, wc, endVars, appVars>>

\* waitReadCloser.set under its lock.
TripSet ==
  /\ rt = "set"
  /\ IF wrcClosed \/ err # "none" \/ body
       THEN rt' = "drop" /\ UNCHANGED body
       ELSE rt' = "ready" /\ body' = TRUE
  /\ UNCHANGED <<mode, dialVars, ul, respVars, err, wrcClosed, ready, wc, endVars, appVars>>

TripDrop ==
  /\ rt = "drop" /\ rt' = "done"
  /\ CloseResp /\ gotConn' = TRUE
  /\ UNCHANGED <<mode, dial, ul, wrcVars, wc, endVars, appVars>>

\* waitReadCloser.closeWithError under its lock.
TripCloseErr ==
  /\ rt = "fail" /\ rt' = "failReady"
  /\ err' = IF ~wrcClosed /\ err = "none" THEN "failed" ELSE err
  /\ UNCHANGED <<mode, dialVars, ul, respVars, body, wrcClosed, ready, wc, endVars, appVars>>

\* close(w.ready), of set and of closeWithError.
TripReady ==
  /\ rt \in {"ready", "failReady"}
  /\ rt' = IF rt = "ready" THEN "done" ELSE IF mode = "stream-one" THEN "failEnd" ELSE "failed"
  /\ ready' = TRUE /\ gotConn' = TRUE
  /\ UNCHANGED <<mode, dial, ul, respVars, body, err, wrcClosed, wc, endVars, appVars>>

\* stream-one: pr.CloseWithError, closeAll.
TripEnds ==
  /\ rt = "failEnd" /\ rt' = "failed"
  /\ pr' = TRUE /\ StartAll
  /\ UNCHANGED <<mode, dialVars, ul, respVars, wrcVars, wc, cancelled, released, pw,
                 appVars>>

Trip == TripBad \/ TripSet \/ TripDrop \/ TripCloseErr \/ TripReady \/ TripEnds

-----------------------------------------------------------------------------
(***************************************************************************)
(* The upload round trip of stream-up.                                     *)
(***************************************************************************)
UploadAnswers ==
  /\ ul = "trip" /\ ul' = "copy"
  /\ UNCHANGED <<mode, dialVars, rt, respVars, wrcVars, wc, endVars, appVars>>

\* Mutant: a clean end of the upload closes the session.
MutUploadEnds ==
  /\ ul = "copy" /\ ul' = "ended"
  /\ pr' = TRUE /\ StartAll
  /\ UNCHANGED <<mode, dialVars, rt, respVars, wrcVars, wc, cancelled, released, pw,
                 appVars>>

\* The response ends cleanly: only the pipe is closed.
UploadEnds ==
  /\ ul = "copy" /\ ul' = "ended"
  /\ pr' = TRUE
  /\ UNCHANGED <<mode, dialVars, rt, respVars, wrcVars, wc, cancelled, released, all, pw,
                 appVars>>

UploadFails ==
  /\ ul \in {"trip", "copy"} /\ ul' = "fail"
  /\ UNCHANGED <<mode, dialVars, rt, respVars, wrcVars, wc, endVars, appVars>>

\* pr.CloseWithError, closeAll.
UploadCloses ==
  /\ ul = "fail" /\ ul' = "failed"
  /\ pr' = TRUE /\ StartAll
  /\ UNCHANGED <<mode, dialVars, rt, respVars, wrcVars, wc, cancelled, released, pw,
                 appVars>>

-----------------------------------------------------------------------------
(***************************************************************************)
(* closeAll, run by the caller that came first, and the same calls on the  *)
(* error path of dialStreamUp, where releaseUsage follows downBody.Close.  *)
(***************************************************************************)
AllCancel ==
  /\ all = "cancel" /\ all' = (IF dial = "failed" THEN "pr" ELSE "release") /\ cancelled' = TRUE
  /\ UNCHANGED <<mode, dialVars, rt, ul, respVars, wrcVars, wc, released, pr, pw, appVars>>

AllRelease ==
  /\ all = "release" /\ released' = released + 1
  /\ \/ dial # "failed" /\ all' = "pr"
     \/ dial = "failed" /\ wc["all"] = "done" /\ all' = "done"
  /\ UNCHANGED <<mode, dialVars, rt, ul, respVars, wrcVars, wc, cancelled, pr, pw, appVars>>

AllPipe ==
  /\ \/ all = "pr" /\ all' = "pw" /\ pr' = TRUE /\ UNCHANGED pw
     \/ all = "pw" /\ all' = "body" /\ pw' = TRUE /\ UNCHANGED pr
  /\ UNCHANGED <<mode, dialVars, rt, ul, respVars, wrcVars, wc, cancelled, released,
                 appVars>>

AllBody ==
  /\ all = "body" /\ wc' = [wc EXCEPT !["all"] = "call"]
  /\ all' = IF dial = "failed" THEN "release" ELSE "done"
  /\ UNCHANGED <<mode, dialVars, rt, ul, respVars, wrcVars, cancelled, released, pr, pw,
                 appVars>>

All == AllCancel \/ AllRelease \/ AllPipe \/ AllBody

(***************************************************************************)
(* waitReadCloser.Close, which closeAll and splitConn.Close may call at    *)
(* the same time: the locked part, close(w.ready), body.Close.             *)
(***************************************************************************)
\* Mutant: Close leaves the body in place.
MutWrcTake(c) ==
  /\ wc[c] = "call"
  /\ wc' = [wc EXCEPT ![c] = IF body THEN "signalTook" ELSE "signal"]
  /\ wrcClosed' = TRUE
  /\ err' = IF err = "none" THEN "closed" ELSE err
  /\ UNCHANGED <<mode, dialVars, rt, ul, respVars, body, ready, endVars, appVars>>

WrcTake(c) ==
  /\ wc[c] = "call"
  /\ wc' = [wc EXCEPT ![c] = IF body THEN "signalTook" ELSE "signal"]
  /\ wrcClosed' = TRUE /\ body' = FALSE
  /\ err' = IF err = "none" THEN "closed" ELSE err
  /\ UNCHANGED <<mode, dialVars, rt, ul, respVars, ready, endVars, appVars>>

WrcSignal(c) ==
  /\ wc[c] \in {"signal", "signalTook"}
  /\ wc' = [wc EXCEPT ![c] = IF @ = "signal" THEN "done" ELSE "close"]
  /\ ready' = TRUE
  /\ UNCHANGED <<mode, dialVars, rt, ul, respVars, body, err, wrcClosed, endVars, appVars>>

WrcCloseBody(c) ==
  /\ wc[c] = "close" /\ wc' = [wc EXCEPT ![c] = "done"]
  /\ CloseResp
  /\ UNCHANGED <<mode, dialVars, rt, ul, wrcVars, endVars, appVars>>

WrcClose(c) == WrcTake(c) \/ WrcSignal(c) \/ WrcCloseBody(c)

-----------------------------------------------------------------------------
(***************************************************************************)
(* The application on the splitConn it was given.                          *)
(***************************************************************************)
\* splitConn.Close: the writer, the reader, onClose.
ConnCloseWriter ==
  /\ dial = "open" /\ app = "open" /\ app' = "reader" /\ pw' = TRUE
  /\ UNCHANGED <<mode, dialVars, rt, ul, respVars, wrcVars, wc, cancelled, released, all,
                 pr, rd, wr, sent>>

ConnCloseReader ==
  /\ app = "reader" /\ app' = "all" /\ wc' = [wc EXCEPT !["conn"] = "call"]
  /\ UNCHANGED <<mode, dialVars, rt, ul, respVars, wrcVars, endVars, rd, wr, sent>>

ConnOnClose ==
  /\ app = "all" /\ wc["conn"] = "done" /\ app' = "done" /\ StartAll
  /\ UNCHANGED <<mode, dialVars, rt, ul, respVars, wrcVars, wc, cancelled, released, pr,
                 pw, rd, wr, sent>>

\* waitReadCloser.Read.
ReadBegin ==
  /\ dial = "open" /\ rd = "idle" /\ rd' = "wait"
  /\ UNCHANGED <<mode, dialVars, rt, ul, respVars, wrcVars, wc, endVars, wr, app, sent>>

ReadWakes ==
  /\ rd = "wait" /\ ready
  /\ rd' = IF err = "none" /\ body THEN "body" ELSE "idle"
  /\ UNCHANGED <<mode, dialVars, rt, ul, respVars, wrcVars, wc, endVars, wr, app, sent>>

ReadReturns ==
  /\ rd = "body" /\ rd' = "idle"
  /\ UNCHANGED <<mode, dialVars, rt, ul, respVars, wrcVars, wc, endVars, wr, app, sent>>

WriteBegin ==
  /\ dial = "open" /\ wr = "idle" /\ wr' = "wait"
  /\ UNCHANGED <<mode, dialVars, rt, ul, respVars, wrcVars, wc, endVars, rd, app, sent>>

\* The transport reads the pipe: the request is connected and not cancelled.
WriteTaken ==
  /\ wr = "wait" /\ wr' = "idle" /\ ~pr /\ ~pw /\ ~cancelled
  /\ IF mode = "stream-up" THEN ul \in {"trip", "copy"} ELSE gotConn
  /\ sent' = TRUE
  /\ UNCHANGED <<mode, dialVars, rt, ul, respVars, wrcVars, wc, endVars, rd, app>>

WriteFails ==
  /\ wr = "wait" /\ wr' = "idle" /\ (pr \/ pw)
  /\ UNCHANGED <<mode, dialVars, rt, ul, respVars, wrcVars, wc, endVars, rd, app, sent>>

\* A RoundTripper closes the request body of a request that was cancelled.
BodyAbandoned ==
  /\ cancelled /\ dial = "open" /\ ~pr /\ pr' = TRUE
  /\ UNCHANGED <<mode, dialVars, rt, ul, respVars, wrcVars, wc, cancelled, released, all,
                 pw, appVars>>

DialNext ==
  \/ DialRefused \/ DialStart \/ DialConnected \/ DialAborted \/ ParentCancel
  \/ GotConn \/ TripAnswers \/ TripFails \/ Trip
  \/ UploadAnswers \/ UploadEnds \/ UploadFails \/ UploadCloses
  \/ All \/ \E c \in Callers : WrcClose(c)
  \/ ConnCloseWriter \/ ConnCloseReader \/ ConnOnClose
  \/ ReadBegin \/ ReadWakes \/ ReadReturns \/ WriteBegin \/ WriteTaken \/ WriteFails
  \/ BodyAbandoned

(***************************************************************************)
(* Goroutines that can run do run.  Of the network: a connection is made   *)
(* or fails, a cancelled round trip or body read fails, a closed response  *)
(* body ends a read of it.  No answer, no clean end and no application     *)
(* call is ever owed.                                                      *)
(***************************************************************************)
Fairness ==
  /\ WF_streamVars(DialConnected \/ DialAborted) /\ WF_streamVars(~gotConn /\ (GotConn \/ TripFails))
  /\ WF_streamVars(Trip) /\ WF_streamVars(cancelled /\ TripFails)
  /\ WF_streamVars(UploadCloses) /\ WF_streamVars(cancelled /\ UploadFails)
  /\ WF_streamVars(All) /\ \A c \in Callers : WF_streamVars(WrcClose(c))
  /\ WF_streamVars(ConnCloseReader \/ ConnOnClose)
  /\ WF_streamVars(ReadWakes) /\ WF_streamVars((resp = "closed" \/ cancelled) /\ ReadReturns)
  /\ WF_streamVars(WriteFails) /\ WF_streamVars(BodyAbandoned)

DialSpec == DialInit /\ [][DialNext]_streamVars /\ Fairness

-----------------------------------------------------------------------------
(***************************************************************************)
(* Properties                                                              *)
(***************************************************************************)
\* Who will close the response body: the round trip before it has handed it
\* over, the waitReadCloser, or a Close that has taken it out.
Owners ==
  (IF rt \in {"set", "drop", "bad"} THEN {"trip"} ELSE {})
  \cup (IF body THEN {"wrc"} ELSE {})
  \cup {c \in Callers : wc[c] \in {"signalTook", "close"}}

\* "close each response body exactly once": an open response body always has
\* exactly one owner that will close it, a closed one has none.
OneOwner ==
  /\ resp = "open" => \E o \in {"trip", "wrc"} \cup Callers : Owners = {o}
  /\ resp # "open" => Owners = {}

\* The same as a count, over set, closeWithError and both callers of Close.
BodyClosedOnce == closes <= 1

\* "A clean upload EOF must not discard that independently buffered stream":
\* the session is torn down by the application, by a failed request or by a
\* failed dial, never because the upload came to its end.
EndKeepsDownload ==
  all # "no" => app # "open" \/ dial = "failed" \/ ul = "failed" \/ rt = "failed"

\* No call hangs: openDownload returns when the connection is there, response
\* or not ("If we blocked on RoundTrip here, the uplink POSTs would never start
\* and both ends would deadlock"); closing, and a failed upload or stream-one
\* request, end the reads and writes in flight.
CallsUnblocked ==
  /\ dial = "wait" ~> dial # "wait"
  /\ rd # "idle" /\ (all # "no" \/ app # "open") ~> rd = "idle"
  /\ wr # "idle" /\ (all # "no" \/ app # "open") ~> wr = "idle"

\* Everything the session held has been given back, and exactly once.
Torn ==
  /\ cancelled /\ released = 1 /\ resp # "open"
  /\ dial = "open" => pr /\ pw
  /\ rt \in {"off", "done", "failed"} /\ ul \in {"off", "ended", "failed"}

\* A closed connection or a failed dial gives everything back for good.
TornDown == (app # "open" \/ dial = "failed") ~> []Torn
=============================================================================
