----------------------------- MODULE Transport ------------------------------
(***************************************************************************)
(* A transportSet: the HTTP version follows from the TLS configuration     *)
(* once and for all, and decides which connection carries the requests.    *)
(* The raw pool of H1Pool runs for "1.1", the rewriting connection of      *)
(* H2Conn for "2"; for "3" both rest and quic-go does the work.            *)
(***************************************************************************)
EXTENDS H1Pool, H2Conn

VARIABLE httpVersion

transportVars == <<httpVersion, vars, h2Vars>>

\* nextProtos is the first protocol of the TLS configuration's ALPN list.
decideHTTPVersion(tls, nextProtos, isReality) ==
  IF isReality THEN "2"
  ELSE IF ~tls THEN "1.1"
  ELSE CASE nextProtos = "http/1.1" -> "1.1"
         [] nextProtos = "h3" -> "3"
         [] OTHER -> "2"

TransportInit ==
  /\ \E tls, isReality \in BOOLEAN, nextProtos \in {"", "http/1.1", "h3", "h2"} :
       httpVersion = decideHTTPVersion(tls, nextProtos, isReality)
  /\ Init /\ H2Init

TransportNext ==
  /\ \/ httpVersion = "1.1" /\ Next /\ UNCHANGED h2Vars
     \/ httpVersion = "2" /\ H2Next /\ UNCHANGED vars
  /\ UNCHANGED httpVersion

TransportSpec == TransportInit /\ [][TransportNext]_transportVars /\ Fairness
=============================================================================
