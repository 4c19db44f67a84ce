--------------------------- MODULE RequestRouting ---------------------------
(***************************************************************************)
(* How a request of the client finds its handler in the server.  Both ends *)
(* are built from Options: Validate accepts or refuses them, the client    *)
(* resolves its mode and writes the session ID, the sequence number and    *)
(* the padding where the options place them (codec.apply...), splits the   *)
(* payload of a packet over headers or cookies, and Server.ServeHTTP reads *)
(* it all back (codec.extract..., decodeUplinkPayload) and dispatches.     *)
(* The two ends share every option but the mode, so that a client of one   *)
(* mode also meets a server of another.  The server keeps no state between *)
(* requests here: what a handler does with its session is ServerSession.   *)
(*                                                                         *)
(* Paths are the segments after the base path; header, query and cookie    *)
(* fields are functions from names to values.  A payload is its number of  *)
(* bytes; the i-th character of its base64 form is i, and the headers or   *)
(* cookies that carry it have names no other field has.  Left out: host    *)
(* matching, CORS and custom headers, a padding header of another name,    *)
(* the tokenish padding method.                                            *)
(***************************************************************************)
EXTENDS Integers, Sequences, SequencesExt, TLC

CONSTANT Families     \* the options considered: a set of records of four sets,
                      \*   setups    of [mode, smode, method, grpc, tls, download,
                      \*             noGRPC, service]: no_grpc_header, and
                      \*             whether path names one gRPC service
                      \*   metas     of [sPlc, sKey, qPlc, qKey]: session, seq
                      \*   paddings  of [obfs, xPlc, xKey, from, to]
                      \*   datas     of [uPlc, uKey, cFrom, cTo, table, idLen, hMax]
                      \* each standing for every combination of its members

VARIABLES opts,       \* the options of the two ends, and their transport
          phase,      \* "start", "refused", "ready", "stuck", "dialled", "sent"
                      \* or "served"
          req,        \* the request on the wire and what its sender meant
          got         \* what ServeHTTP made of it

vars == <<opts, phase, req, got>>

SID == "sid"          \* the session ID a dial generates
Seq0 == "0"           \* a sequence number, formatted
None == [f \in {} |-> ""]

\* What http.CanonicalHeaderKey makes of the header names used here.
Canonical(k) ==
  LET upper == [j |-> "J", x_session |-> "X_session", x_seq |-> "X_seq", x_padding |-> "X_padding"]
  IN  IF k \in DOMAIN upper THEN upper[k] ELSE k

\* The length of a value, as validatePadding measures it.
Length(v) == CASE v = "" -> 0 [] v \in {"X", Seq0} -> 1 [] v = "XX" -> 2 [] OTHER -> 36

------------------------------------------------------------------------------
\* Options.

orPath(p) == IF p = "" THEN "path" ELSE p

defaultKey(set, placement, header, querycookie) ==
  CASE set # "" -> set
    [] set = "" /\ placement = "header" -> header
    [] set = "" /\ placement \in {"query", "cookie"} -> querycookie
    [] OTHER -> ""

sessionKey(o) == defaultKey(o.sKey, orPath(o.sPlc), "X-Session", "x_session")
seqKey(o) == defaultKey(o.qKey, orPath(o.qPlc), "X-Seq", "x_seq")

validMetaPlacement(p) == p \in {"", "path", "query", "header", "cookie"}
validPaddingPlacement(p) ==
  p \in {"", "query", "header", "cookie", "query-in-header"}
validUplinkDataPlacement(p) == p \in {"", "body", "header", "cookie", "auto"}
validRange(r) == r.from >= 0 /\ r.to >= 0 /\ (r.to # 0 => r.to >= r.from)

\* The part of Options.Validate about the options modelled here.
Validate(o, mode) ==
  /\ mode \in {"", "packet-up", "stream-up", "stream-one", "stream-down", "auto"}
  /\ o.grpc => /\ mode \in {"stream-up", "stream-one", "auto"}
               /\ ~o.noGRPC
               /\ o.method \in {"", "POST"}
               /\ o.uPlc \in {"", "body"}
               /\ o.service
               /\ ~(o.obfs /\ o.xPlc = "query")
  /\ validMetaPlacement(o.sPlc)
  /\ validMetaPlacement(o.qPlc)
  /\ (orPath(o.sPlc) # "path" /\ orPath(o.sPlc) = orPath(o.qPlc))
       => sessionKey(o) # seqKey(o)
  /\ o.obfs => validPaddingPlacement(o.xPlc)
  /\ validUplinkDataPlacement(o.uPlc)
  /\ o.uPlc \in {"header", "cookie", "auto"} => o.uKey # ""
  /\ validRange([from |-> o.cFrom, to |-> o.cTo])
  /\ validRange(o)

\* x_padding_bytes: To = 0 means the default, which is some {1,2} here.
xpadRange(o) == IF o.to = 0 THEN [from |-> 1, to |-> 2]
                ELSE [from |-> o.from, to |-> o.to]
rangeRand(r) == IF r.to <= r.from THEN {r.from} ELSE r.from .. r.to

\* sc_max_each_post_bytes of both ends, and the least chunk: 64 in the code.
MaxPost == 4
MinChunk == 2

\* uplink_chunk_size: To = 0 means a default, which is some {2,3} here.
uplinkChunkSize(o) ==
  LET r == IF o.cTo = 0 THEN [from |-> 2, to |-> 3] ELSE [from |-> o.cFrom, to |-> o.cTo]
  IN  IF r.from >= MinChunk THEN r
      ELSE [from |-> MinChunk, to |-> IF r.to < MinChunk THEN MinChunk ELSE r.to]

xpadPlacement(o) == IF o.xPlc = "" THEN "header" ELSE o.xPlc
xpadKey(o) == IF o.xKey = "" THEN "x_padding" ELSE o.xKey
xpadHeader == "X-Padding"

decideHTTPVersion(tls) ==
  CASE tls \in {"none", "h1"} -> 1 [] tls = "h3" -> 3 [] OTHER -> 2

\* NewClientWithDownload: the mode the client dials with.
ClientMode(o) ==
  IF o.mode \notin {"", "auto"} THEN o.mode
  ELSE CASE o.tls # "reality" -> "packet-up"
         [] o.tls = "reality" /\ o.download -> "stream-up"
         [] OTHER -> "stream-one"

Streams(m) == m \in {"stream-up", "stream-one"}
ClientRefuses(o) ==
  \/ ~Validate(o, o.mode)
  \/ o.grpc /\ ~Streams(ClientMode(o))
  \/ Streams(ClientMode(o)) /\ decideHTTPVersion(o.tls) = 1

\* NewServer: the mode the server checks requests against.
ServerMode(o) == IF o.smode = "" THEN "packet-up" ELSE o.smode

MutmodeAllows(o, requestMode) == ServerMode(o) \in {"auto", requestMode}

modeAllows(o, requestMode) ==
  CASE ServerMode(o) = "auto" -> TRUE
    [] ServerMode(o) = "stream-down" -> requestMode = "packet-up"
    [] OTHER -> ServerMode(o) = requestMode

------------------------------------------------------------------------------
\* The client's side of the codec.

Set(fields, key, value) == (key :> value) @@ fields
Get(fields, key) == IF key \in DOMAIN fields THEN fields[key] ELSE ""

\* Header.Set and url.Values.Set replace; of two cookies the first is read.
applyField(r, placement, key, value) ==
  CASE placement = "path"   -> [r EXCEPT !.path = Append(@, value)]
    [] placement = "query"  -> [r EXCEPT !.query = Set(@, key, value)]
    [] placement = "header" -> [r EXCEPT !.header = Set(@, Canonical(key), value)]
    [] placement = "cookie" -> [r EXCEPT !.cookie = @ @@ (key :> value)]

applyMetaToRequest(o, r, sessionID, seqStr) ==
  LET s == IF sessionID = "" THEN r
           ELSE applyField(r, orPath(o.sPlc), sessionKey(o), sessionID)
  IN IF seqStr = "" THEN s ELSE applyField(s, orPath(o.qPlc), seqKey(o), seqStr)

\* A header whose value is the request's URL with one more query field: ref is
\* that URL's query.
UrlHeader(r, name, key, value) ==
  [r EXCEPT !.header = Set(@, name, "url"), !.ref = Set(r.query, key, value)]

\* The table indices a random byte may be turned into: a byte from limit on is
\* thrown away and drawn again.  limit is a byte itself.
randStringFromCharset(m) ==
  LET limit == (256 - (256 % m)) % 256
  IN  {b % m : b \in {x \in 0 .. 255 : x < limit}}

\* The IDs a dial may get: none if it draws for ever.
generateSessionID(o) ==
  IF o.table > 0 /\ o.idLen > 0 /\ randStringFromCharset(o.table) = {} THEN {} ELSE {SID}

generatePadding(n) == IF n = 1 THEN "X" ELSE "XX"

applyPaddingToRequest(o, r, n) ==
  CASE n <= 0 -> r
    [] n > 0 /\ ~o.obfs -> UrlHeader(r, "Referer", "x_padding", generatePadding(n))
    [] n > 0 /\ o.obfs /\ xpadPlacement(o) = "header" ->
         applyField(r, "header", xpadHeader, generatePadding(n))
    [] n > 0 /\ o.obfs /\ xpadPlacement(o) \in {"query", "cookie"} ->
         applyField(r, xpadPlacement(o), xpadKey(o), generatePadding(n))
    [] OTHER -> UrlHeader(r, xpadHeader, xpadKey(o), generatePadding(n))

Blank(method, proto) ==
  [method |-> method, base |-> TRUE, path |-> <<>>, query |-> None,
   header |-> None, ref |-> None, cookie |-> None, proto |-> proto,
   body |-> 0, cut |-> FALSE, inHeader |-> <<>>, inCookie |-> <<>>]

newRequest(o, method, sessionID, seqStr, n) ==
  applyPaddingToRequest(o,
    applyMetaToRequest(o, Blank(method, decideHTTPVersion(o.tls)), sessionID, seqStr), n)

Method(o) == IF o.method = "" THEN "POST" ELSE o.method

newStreamRequest(o, sessionID, n) ==
  IF ~o.grpc
  THEN LET r == newRequest(o, Method(o), sessionID, "", n)
       IN IF o.noGRPC THEN r
          ELSE [r EXCEPT !.header = Set(@, "Content-Type", "application/grpc")]
  ELSE LET r == newRequest(o, "POST", "", "", n)
           h == Set(r.header, "Content-Type", "application/grpc")
       IN [r EXCEPT !.path = <<"Tun">>,
                    !.header = IF sessionID = "" THEN h
                               ELSE Set(h, "X-Xhttp-Session", sessionID)]

\* The requests a dial and its session send, by the handler they are meant for.
Kinds(m) == CASE m = "stream-up" -> {"handleDownloadGet", "handleStreamUpPost"}
              [] m = "stream-one" -> {"handleStreamOne"}
              [] OTHER -> {"handleDownloadGet", "handlePacketUpPost"}

Meant(kind, payload) ==
  [to |-> kind,
   id |-> IF kind = "handleStreamOne" THEN "" ELSE SID,
   seq |-> IF kind = "handlePacketUpPost" THEN Seq0 ELSE "",
   data |-> IF kind = "handlePacketUpPost" THEN payload ELSE 0]

\* base64.RawURLEncoding: three bytes are four characters.  A text that lost
\* its end still decodes, to fewer bytes, unless one character is left over.
Encode(payload) == [i \in 1 .. (4 * payload + 2) \div 3 |-> i]
Decode(text) == IF Len(text) % 4 # 1 /\ \A i \in DOMAIN text : text[i] = i
                THEN (3 * Len(text)) \div 4 ELSE 0

\* The ways writePayloadToHeaders and writePayloadToCookies may cut a text.
RECURSIVE Chunks(_, _)
Chunks(text, size) ==
  IF text = <<>> THEN {<<>>}
  ELSE UNION {LET k == IF n > Len(text) THEN Len(text) ELSE n
              IN  {<<SubSeq(text, 1, k)>> \o rest :
                     rest \in Chunks(SubSeq(text, k + 1, Len(text)), size)} :
                n \in rangeRand(size)}

\* The requests encodeUplinkPayload may make of r.
encodeUplinkPayload(o, r, payload) ==
  LET cuts == Chunks(Encode(payload), uplinkChunkSize(o))
  IN  CASE o.uPlc = "header" -> {[r EXCEPT !.inHeader = c] : c \in cuts}
        [] o.uPlc = "cookie" -> {[r EXCEPT !.inCookie = c] : c \in cuts}
        [] OTHER -> {[r EXCEPT !.body = payload]}

Requests(o, kind, n, payload) ==
  CASE kind = "handleDownloadGet"  -> {newRequest(o, "GET", SID, "", n)}
    [] kind = "handlePacketUpPost" ->
         encodeUplinkPayload(o, newRequest(o, Method(o), SID, Seq0, n), payload)
    [] OTHER -> {newStreamRequest(o, Meant(kind, 0).id, n)}

------------------------------------------------------------------------------
\* The server's side.

Segment(r, i) == IF i > Len(r.path) THEN "" ELSE r.path[i]

extractField(r, placement, key, takePath) ==
  CASE placement = "path"   -> takePath
    [] placement = "query"  -> Get(r.query, key)
    [] placement = "header" -> Get(r.header, Canonical(key))
    [] placement = "cookie" -> Get(r.cookie, key)

MutextractMetaFromRequest(o, r) ==
  [id  |-> extractField(r, orPath(o.sPlc), sessionKey(o),
                        Segment(r, IF orPath(o.qPlc) = "path" THEN 2 ELSE 1)),
   seq |-> extractField(r, orPath(o.qPlc), seqKey(o), Segment(r, 1))]

\* The session takes the first path segment if it is placed there, seq the next.
extractMetaFromRequest(o, r) ==
  [id  |-> extractField(r, orPath(o.sPlc), sessionKey(o), Segment(r, 1)),
   seq |-> extractField(r, orPath(o.qPlc), seqKey(o),
                        Segment(r, IF orPath(o.sPlc) = "path" THEN 2 ELSE 1))]

\* Obfuscated padding is looked for in the cookie, the header, then the query.
extractPaddingFromRequest(o, r) ==
  LET cookie == Get(r.cookie, xpadKey(o))
      header == CASE Get(r.header, xpadHeader) = "" -> ""
                  [] xpadPlacement(o) = "header" -> Get(r.header, xpadHeader)
                  [] OTHER -> Get(r.ref, xpadKey(o))
  IN CASE ~o.obfs /\ Get(r.header, "Referer") # "" -> Get(r.ref, "x_padding")
       [] ~o.obfs /\ Get(r.header, "Referer") = "" -> Get(r.query, "x_padding")
       [] o.obfs /\ cookie # "" -> cookie
       [] o.obfs /\ cookie = "" /\ header # "" -> header
       [] OTHER -> Get(r.query, xpadKey(o))

validatePadding(o, v) ==
  v # "" /\ Length(v) \in xpadRange(o).from .. xpadRange(o).to

To(handler, id, seq) == [to |-> handler, id |-> id, seq |-> seq, data |-> 0]
Invalid == To("invalid", "", "")
If(allowed, answer) == IF allowed THEN answer ELSE Invalid

\* readPayloadFromHeaders stops at the first empty header.
readPayloadFromHeaders(r) ==
  LET n == CHOOSE k \in 0 .. Len(r.inHeader) :
             /\ \A i \in 1 .. k : r.inHeader[i] # <<>>
             /\ k < Len(r.inHeader) => r.inHeader[k + 1] = <<>>
  IN  Decode(FlattenSeq(SubSeq(r.inHeader, 1, n)))

readPayloadFromCookies(r) == Decode(FlattenSeq(r.inCookie))

decodeUplinkPayload(o, r) ==
  CASE o.uPlc = "header" -> readPayloadFromHeaders(r)
    [] o.uPlc = "cookie" -> readPayloadFromCookies(r)
    [] o.uPlc = "auto" -> readPayloadFromHeaders(r) + readPayloadFromCookies(r) + r.body
    [] OTHER -> r.body

\* The checks of handlePacketUpPost before it joins the session: the size, a
\* body that ends early where it reads one, and strconv.ParseUint of the
\* sequence number.
handlePacketUpPost(o, r, id, seq) ==
  If(/\ r.body <= MaxPost
     /\ o.uPlc \in {"", "body", "auto"} => ~r.cut
     /\ decodeUplinkPayload(o, r) <= MaxPost
     /\ seq = Seq0,
     [To("handlePacketUpPost", id, seq) EXCEPT !.data = decodeUplinkPayload(o, r)])

\* net/http refuses a request whose header is longer than MaxHeaderBytes.
Oversize(o, r) == Len(FlattenSeq(r.inHeader)) + Len(FlattenSeq(r.inCookie)) > o.hMax

\* A framed upload: the gRPC method path and the session header decide.
RouteGRPC(o, r) ==
  LET id == Get(r.header, "X-Xhttp-Session")
  IN If(/\ r.method = "POST" /\ r.proto >= 2 /\ r.path = <<"Tun">>
        /\ Get(r.header, "Content-Type") = "application/grpc"
        /\ Get(r.header, "Grpc-Encoding") \in {"", "identity"}
        /\ modeAllows(o, IF id = "" THEN "stream-one" ELSE "stream-up"),
        To(IF id = "" THEN "handleStreamOne" ELSE "handleStreamUpPost", id, ""))

\* Any other request: session ID, sequence number and method decide.
RoutePlain(o, r) ==
  LET m == extractMetaFromRequest(o, r)
      isUplink == r.method # "GET" \/ m.seq # ""
  IN CASE o.grpc /\ (m.id = "" \/ m.seq # "") -> Invalid
       [] ~o.grpc /\ m.id = "" /\ modeAllows(o, "stream-one") ->
            To("handleStreamOne", "", "")
       [] ~o.grpc /\ m.id = "" /\ ~modeAllows(o, "stream-one") ->
            If(~isUplink, To("handleDownloadGet", "", ""))
       [] m.id # "" /\ m.seq # "" /\ ~o.grpc ->
            If(modeAllows(o, "packet-up"), handlePacketUpPost(o, r, m.id, m.seq))
       [] m.id # "" /\ m.seq = "" /\ isUplink ->
            If(modeAllows(o, "stream-up"), To("handleStreamUpPost", m.id, ""))
       [] OTHER -> To("handleDownloadGet", m.id, "")

Padded(o, r) == validatePadding(o, extractPaddingFromRequest(o, r))

ServeHTTP(o, r) ==
  CASE Oversize(o, r) \/ ~r.base -> Invalid
    [] ~Oversize(o, r) /\ r.base /\ r.method = "OPTIONS" -> To("preflight", "", "")
    [] OTHER ->
         If(Padded(o, r), IF o.grpc /\ r.method # "GET" THEN RouteGRPC(o, r)
                          ELSE RoutePlain(o, r))

------------------------------------------------------------------------------
NoRequest == [r |-> Blank("GET", 1), kind |-> "none", payload |-> 0, padding |-> 0]

Init ==
  /\ \E f \in Families : \E s \in f.setups, m \in f.metas, p \in f.paddings, d \in f.datas :
       opts = s @@ m @@ p @@ d
  /\ phase = "start"
  /\ req = NoRequest
  /\ got = Invalid

\* NewClient and NewServer, either of which may refuse its options.
Build ==
  /\ phase = "start"
  /\ phase' = IF ClientRefuses(opts) \/ ~Validate(opts, opts.smode)
              THEN "refused" ELSE "ready"
  /\ UNCHANGED <<opts, req, got>>

\* DialContext: every mode but stream-one has a session.
DialContext ==
  /\ phase = "ready"
  /\ phase' = IF ClientMode(opts) # "stream-one" /\ generateSessionID(opts) = {}
              THEN "stuck" ELSE "dialled"
  /\ UNCHANGED <<opts, req, got>>

\* The client sends one of its mode's requests, padded by n bytes; its body may
\* be cut short on the way.
Send ==
  /\ phase \in {"dialled", "served"}
  /\ \E kind \in Kinds(ClientMode(opts)), n \in rangeRand(xpadRange(opts)) :
       \E payload \in IF kind = "handlePacketUpPost" THEN 1 .. MaxPost ELSE {0} :
         \E r \in Requests(opts, kind, n, payload) : \E cut \in {FALSE, r.body > 0} :
           req' = [r |-> [r EXCEPT !.cut = cut], kind |-> kind, payload |-> payload,
                   padding |-> n]
  /\ phase' = "sent"
  /\ got' = Invalid
  /\ UNCHANGED opts

\* A request of some other HTTP client, which knows neither path nor padding.
Stray ==
  /\ phase \in {"dialled", "served"}
  /\ \E method \in {"GET", "POST", "OPTIONS"}, base \in BOOLEAN :
       req' = [r |-> [Blank(method, decideHTTPVersion(opts.tls)) EXCEPT !.base = base],
               kind |-> "none", payload |-> 0, padding |-> 0]
  /\ phase' = "sent"
  /\ got' = Invalid
  /\ UNCHANGED opts

Serve ==
  /\ phase = "sent"
  /\ got' = ServeHTTP(opts, req.r)
  /\ phase' = "served"
  /\ UNCHANGED <<opts, req>>

Next == Build \/ DialContext \/ Send \/ Stray \/ Serve

Spec == Init /\ [][Next]_vars

------------------------------------------------------------------------------
\* What carries a field, and its name there.
Name(placement, key) == <<placement, IF placement = "header" THEN Canonical(key) ELSE key>>

\* The session ID, the sequence number and the padding have names of their own,
\* wherever padding is looked for, and none is a header the client sets itself.
\* Validate asks for less: it compares session_key and seq_key only, as written
\* (validate.go:60-66), while of two equal names Header.Set and q.Set keep the
\* last (meta.go:132-136, 170-173) and r.Cookie reads the first.
OwnNames(o) ==
  LET session == Name(orPath(o.sPlc), sessionKey(o))
      seq == Name(orPath(o.qPlc), seqKey(o))
      padding == IF o.obfs THEN {<<"cookie", xpadKey(o)>>, <<"header", xpadHeader>>,
                                 <<"query", xpadKey(o)>>}
                 ELSE {<<"header", "Referer">>, <<"query", "x_padding">>}
      others == {<<"header", "Content-Type">>, <<"header", "X-Xhttp-Session">>}
  IN  /\ session = seq => session[1] = "path"
      /\ {session, seq} \intersect (padding \union others) = {}

\* A request by a method that stands for something else: an upload by OPTIONS is
\* a preflight, a stream by GET is a download unless it may be a stream-one.
Misread(o, q) ==
  \/ q.kind # "none" /\ q.r.method = "OPTIONS"
  \/ q.kind = "handleStreamUpPost" /\ q.r.method = "GET"
  \/ q.kind = "handleStreamOne" /\ q.r.method = "GET" /\ ~modeAllows(o, "stream-one")

\* Whatever the modes of the two ends and wherever the options place the
\* fields, as long as each field has a name of its own and no method is misread,
\* ServeHTTP refuses a request or hands it to the handler the client meant, with
\* the session ID, the sequence number and the payload the client meant, however
\* the payload was cut; a request of a stranger reaches no handler
\* (server.go:277-376, 434-491).
RoutedAsMeant ==
  (phase = "served" /\ OwnNames(opts) /\ ~Misread(opts, req)) =>
    \/ got.to = "invalid"
    \/ req.kind = "none" /\ got.to = "preflight"
    \/ req.kind # "none" /\ got = Meant(req.kind, req.payload)

\* The other requests that fail between two ends whose options Validate accepts:
\* no padding, though x_padding_bytes may be drawn as 0 (meta.go:154-157,
\* 321-323); a payload longer than the header may be; a stream that the mode ""
\* stands for on a REALITY client only (client.go:117-127, server.go:125); and a
\* body that ends early, which is no option.
Unworkable(o, q) ==
  \/ q.padding = 0
  \/ Oversize(o, q.r)
  \/ o.mode = "" /\ o.tls = "reality" /\ q.kind # "handleDownloadGet"
  \/ q.r.cut

\* Validate promises that misconfiguration "fails fast at startup rather than
\* producing confusing runtime errors" (validate.go:10-13).  Of two ends given the
\* same options, accepted by Validate, NewClient and NewServer, and with a name
\* for each field, this holds but for what Misread and Unworkable say, and that
\* much does fail: every other request, and no more, is handled as meant.  A dial
\* gets its session ID unless no byte is below the limit for its table, whose
\* size then divides 256 or exceeds it (meta.go:417).
ValidOptionsWork ==
  /\ phase = "stuck" => opts.table > 256 \/ 256 % opts.table = 0
  /\ (phase = "served" /\ req.kind # "none" /\ opts.mode = opts.smode /\ OwnNames(opts)) =>
       (got = Meant(req.kind, req.payload) <=> ~Misread(opts, req) /\ ~Unworkable(opts, req))

\* What Validate's comment says without these exceptions: no dial is stuck and
\* no request fails whose body arrives (validate.go:10-13).
FailsFast ==
  /\ phase # "stuck"
  /\ (phase = "served" /\ req.kind # "none" /\ opts.mode = opts.smode /\ ~req.r.cut)
       => got = Meant(req.kind, req.payload)

\* A server whose mode is left empty accepts whatever its client sends:
\* modeAllows says that "auto"/"" accept everything (server.go:378-381).
EmptyModeAcceptsAll ==
  (phase = "served" /\ req.kind # "none" /\ opts.smode = "") => got.to # "invalid"
==============================================================================
