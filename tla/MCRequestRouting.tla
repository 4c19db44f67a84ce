-------------------------- MODULE MCRequestRouting --------------------------
(* Option sets of RequestRouting for model checking. *)
EXTENDS RequestRouting

Modes == {"", "packet-up", "stream-up", "stream-one", "stream-down", "auto", "bad"}
Transports == {"none", "h1", "h2", "h3", "reality"}
Places == {"", "path", "query", "header", "cookie"}

Setup(modes, smodes, methods, framings, transports, downloads) ==
  [mode : modes, smode : smodes, method : methods, grpc : framings,
   tls : transports, download : downloads, noGRPC : {FALSE}, service : {TRUE}]

\* The two ends with one mode, and with any two.
SameMode == {s \in Setup(Modes, Modes, {"", "GET"}, BOOLEAN, {"h1", "h2", "reality"}, {FALSE}) :
               s.mode = s.smode}
AnyModes == Setup(Modes, Modes, {"", "GET", "OPTIONS"}, BOOLEAN, Transports, BOOLEAN)

\* Session, sequence number and padding may get one name, also by its case.
Meta(splaces, skeys, qplaces, qkeys) ==
  [sPlc : splaces, sKey : skeys, qPlc : qplaces, qKey : qkeys]
AllMetas == Meta(Places \ {"path"}, {"", "j"}, Places \ {"path"}, {"", "j", "J"})
SomeMetas == Meta({"", "header", "body"}, {""}, {"path", "query"}, {""})

Padding(keys, froms, tos) ==
  [obfs : {TRUE}, xPlc : {"", "query", "header", "cookie", "query-in-header"},
   xKey : keys, from : froms, to : tos]
    \union [obfs : {FALSE}, xPlc : {""}, xKey : {""}, from : froms, to : tos]
AllPaddings == Padding({"", "j"}, {1}, {2})
SomePaddings == [obfs : {TRUE}, xPlc : {"cookie", "path"}, xKey : {"p"},
                 from : {2}, to : {0, 1, 2}]

PlainMeta == Meta({""}, {""}, {""}, {""})
PlainPadding == [obfs : {FALSE}, xPlc : {""}, xKey : {""}, from : {1}, to : {2}]

\* Tables of the sizes PredefinedTable has (16 is HEX and hex), and longer ones;
\* a header that holds every payload, and one that does not.
Data(places, froms, tos, tables, lengths, limits) ==
  [uPlc : places, uKey : {"", "d"}, cFrom : froms, cTo : tos,
   table : tables, idLen : lengths, hMax : limits]
PlainData == {d \in Data({""}, {0}, {0}, {0}, {0}, {6}) : d.uKey = ""}
AllData == Data({"", "body", "header", "cookie", "auto", "path"}, {0, 3, 5}, {0, 3, 4},
                {0}, {0}, {4, 6})
             \union Data({""}, {0}, {0}, {0, 10, 16, 26, 36, 52, 62, 300}, {0, 1}, {6})
Packets == Setup({"packet-up", "stream-down", "stream-up"}, {"packet-up", "auto"}, {""},
                 BOOLEAN, {"h2"}, {FALSE})
             \union {s \in Setup(Modes, Modes, {""}, BOOLEAN, {"h2"}, {FALSE}) : s.mode = s.smode}

\* The gRPC header and path, headers of the client's own, padding of no bytes.
Corners == {s \in [mode : Modes, smode : Modes, method : {"", "PUT"}, grpc : BOOLEAN,
                   tls : {"h2"}, download : {FALSE}, noGRPC : BOOLEAN, service : BOOLEAN] :
              s.mode = s.smode}
HeaderMetas == Meta({"header", "query", "cookie"},
                    {"", "Referer", "X-Padding", "Content-Type", "X-Xhttp-Session", "x_padding"},
                    {"header"}, {"", "Referer"})
ZeroPaddings == Padding({""}, {0, 1}, {1})

Family(setups, metas, paddings, datas) ==
  [setups |-> setups, metas |-> metas, paddings |-> paddings, datas |-> datas]

MCFamilies == {Family(SameMode, AllMetas, AllPaddings, PlainData),
               Family(AnyModes, SomeMetas, SomePaddings, PlainData),
               Family(Packets, PlainMeta, PlainPadding, AllData),
               Family(Corners, HeaderMetas, ZeroPaddings, PlainData)}

\* The options of the runs that refute what the sources say.
OneSetup(mode, method, tls) == Setup({mode}, {mode}, {method}, {FALSE}, {tls}, {FALSE})
H2Packet == OneSetup("packet-up", "", "h2")
KeyCase == {Family(H2Packet, Meta({"header"}, {"j"}, {"header"}, {"J"}), PlainPadding, PlainData)}
PadKey == {Family(H2Packet, Meta({"query"}, {"j"}, {""}, {""}),
                  [obfs : {TRUE}, xPlc : {"query"}, xKey : {"j"}, from : {1}, to : {2}], PlainData)}
ZeroPad == {Family(H2Packet, PlainMeta,
                   [obfs : {FALSE}, xPlc : {""}, xKey : {""}, from : {0}, to : {2}], PlainData)}
StreamByGet == {Family(OneSetup("stream-up", "GET", "h2"), PlainMeta, PlainPadding, PlainData)}
HexIDs == {Family(H2Packet, PlainMeta, PlainPadding, Data({""}, {0}, {0}, {16}, {16}, {6}))}
LongHeader == {Family(H2Packet, PlainMeta, PlainPadding, Data({"header"}, {0}, {0}, {0}, {0}, {4}))}
RealityDefault == {Family(OneSetup("", "", "reality"), PlainMeta, PlainPadding, PlainData)}
==============================================================================
