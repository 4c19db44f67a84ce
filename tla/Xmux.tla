-------------------------------- MODULE Xmux --------------------------------
(***************************************************************************)
(* The client's pool of HTTP transports (xhttp/xmux.go) and everything     *)
(* that touches its counters: DialContext, which picks a connection for a  *)
(* session, the packet-up uploader, which may rotate to another one, the   *)
(* session's closeAll and Client.Close.                                    *)
(*                                                                         *)
(* Pick runs under the manager's lock and is one step; the atomic counters *)
(* openUsage and leftRequests are changed by its callers outside the lock, *)
(* one step for each Add.  Connections are numbered in the order newClient *)
(* creates them.                                                           *)
(***************************************************************************)
EXTENDS Integers, FiniteSets

CONSTANTS
  Sessions,      \* calls of DialContext
  Packet,        \* TRUE: packet-up or stream-down, FALSE: the stream modes
  Concurrency,   \* realized max_concurrency, 0 = unlimited
  Connections,   \* realized max_connections, 0 = unlimited
  ReuseTimes,    \* values c_max_reuse_times may be realized to, 0 = unlimited
  RequestTimes,  \* values h_max_request_times may be realized to, 0 = unlimited
  Timed,         \* h_max_reusable_secs is set
  PostBudget,    \* bound: POSTs per session
  MaxClients     \* bound: connections created

ASSUME LimitAssumption ==
  Concurrency \in Nat /\ Connections \in Nat /\ PostBudget \in Nat
ASSUME RangeAssumption == ReuseTimes \subseteq Nat /\ RequestTimes \subseteq Nat
ASSUME BoundAssumption == MaxClients \in Nat /\ IsFiniteSet(Sessions)

Clients == 1 .. MaxClients
None == 0
MaxInt32 == 2147483647

VARIABLES
  clients,      \* m.clients
  made,         \* history: how many connections newClient has created
  closed,       \* conn.closed of each connection
  openUsage, leftUsage, leftRequests,
  expired,      \* unreusableAt is set and has passed
  reuse,        \* history: the c_max_reuse_times drawn for each connection
  picks,        \* history: how often Pick returned each connection
  managerOpen,  \* Client.Close has not been called
  sess,         \* a session: "idle", "picked", "counted", "open", "closed"
  xc,           \* DialContext's xc, which closeAll captures
  up,           \* its uploader: "off", "loop", "pick", "add", "sub", "stopped"
  upXc,         \* runPacketUploader's xc
  newXc,        \* its newXc
  posts         \* POSTs left

poolVars == <<clients, made, closed, leftUsage, reuse, picks>>
sessVars == <<sess, xc>>
upVars == <<up, upXc, newXc, posts>>
vars == <<poolVars, openUsage, leftRequests, expired, managerOpen, sessVars, upVars>>

TypeOK ==
  /\ clients \in SUBSET Clients
  /\ made \in 0 .. MaxClients
  /\ closed \in [Clients -> BOOLEAN]
  /\ openUsage \in [Clients -> Int]
  /\ leftUsage \in [Clients -> Int]
  /\ leftRequests \in [Clients -> Int]
  /\ expired \in [Clients -> BOOLEAN]
  /\ reuse \in [Clients -> Nat]
  /\ picks \in [Clients -> Nat]
  /\ managerOpen \in BOOLEAN
  /\ sess \in [Sessions -> {"idle", "picked", "counted", "open", "closed"}]
  /\ xc \in [Sessions -> Clients \cup {None}]
  /\ up \in [Sessions -> {"off", "loop", "pick", "add", "sub", "stopped"}]
  /\ upXc \in [Sessions -> Clients \cup {None}]
  /\ newXc \in [Sessions -> Clients \cup {None}]
  /\ posts \in [Sessions -> Nat]
  /\ \A s \in Sessions : sess[s] # "idle" => xc[s] # None
  /\ \A s \in Sessions : up[s] # "off" => upXc[s] # None
  /\ \A s \in Sessions : up[s] \in {"add", "sub"} => newXc[s] # None

Init ==
  /\ clients = {} /\ made = 0
  /\ closed = [c \in Clients |-> FALSE]
  /\ openUsage = [c \in Clients |-> 0]
  /\ leftUsage = [c \in Clients |-> -1]
  /\ leftRequests = [c \in Clients |-> MaxInt32]
  /\ expired = [c \in Clients |-> FALSE]
  /\ reuse = [c \in Clients |-> 0]
  /\ picks = [c \in Clients |-> 0]
  /\ managerOpen = TRUE
  /\ sess = [s \in Sessions |-> "idle"]
  /\ xc = [s \in Sessions |-> None]
  /\ up = [s \in Sessions |-> "off"]
  /\ upXc = [s \in Sessions |-> None]
  /\ newXc = [s \in Sessions |-> None]
  /\ posts = [s \in Sessions |-> PostBudget]

-----------------------------------------------------------------------------
(***************************************************************************)
(* Pick, with c the connection it returns.                                 *)
(***************************************************************************)
Retired(c) == closed[c] \/ leftUsage[c] = 0 \/ leftRequests[c] <= 0 \/ expired[c]

\* The pool after the sweep.
Swept == {c \in clients : ~Retired(c)}

\* Mutant: a connection counts as saturated one session early.
MutCandidates ==
  IF Concurrency > 0 THEN {c \in Swept : openUsage[c] < Concurrency - 1} ELSE Swept

Candidates ==
  IF Concurrency > 0 THEN {c \in Swept : openUsage[c] < Concurrency} ELSE Swept

\* Mutant: the pick that creates the connection is not counted.
MutNewClientFree(c, u, r) ==
  /\ made < MaxClients
  /\ c = made + 1
  /\ made' = c
  /\ clients' = Swept \cup {c}
  /\ reuse' = [reuse EXCEPT ![c] = u]
  /\ leftUsage' = [leftUsage EXCEPT ![c] = IF u > 0 THEN u ELSE -1]
  /\ leftRequests' = [leftRequests EXCEPT ![c] = IF r > 0 THEN r ELSE MaxInt32]

\* Mutant: the sweep closes retired connections but leaves them in the pool.
MutNewClientKeeps(c, u, r) ==
  /\ made < MaxClients
  /\ c = made + 1
  /\ made' = c
  /\ clients' = clients \cup {c}
  /\ reuse' = [reuse EXCEPT ![c] = u]
  /\ leftUsage' = [leftUsage EXCEPT ![c] = u - 1]
  /\ leftRequests' = [leftRequests EXCEPT ![c] = IF r > 0 THEN r ELSE MaxInt32]

\* newClient: u and r are the limits drawn for the connection.
NewClient(c, u, r) ==
  /\ made < MaxClients
  /\ c = made + 1
  /\ made' = c
  /\ clients' = Swept \cup {c}
  /\ reuse' = [reuse EXCEPT ![c] = u]
  /\ leftUsage' = [leftUsage EXCEPT ![c] = u - 1]
  /\ leftRequests' = [leftRequests EXCEPT ![c] = IF r > 0 THEN r ELSE MaxInt32]

Reused(c) ==
  /\ c \in Candidates
  /\ clients' = Swept
  /\ leftUsage' = [leftUsage EXCEPT ![c] = IF @ > 0 THEN @ - 1 ELSE @]
  /\ UNCHANGED <<made, reuse, leftRequests>>

Pick(c) ==
  /\ closed' = [d \in Clients |-> closed[d] \/ (d \in clients /\ Retired(d))]
  /\ picks' = [picks EXCEPT ![c] = @ + 1]
  /\ IF \/ Swept = {}
        \/ Connections > 0 /\ Cardinality(Swept) < Connections
        \/ Candidates = {}
       THEN \E u \in ReuseTimes, r \in RequestTimes : NewClient(c, u, r)
       ELSE Reused(c)

-----------------------------------------------------------------------------
(***************************************************************************)
(* A session: DialContext, and closeAll with its releaseUsage.             *)
(***************************************************************************)
DialPick(s) ==
  /\ sess[s] = "idle"
  /\ \E c \in Clients : Pick(c) /\ xc' = [xc EXCEPT ![s] = c]
  /\ sess' = [sess EXCEPT ![s] = "picked"]
  /\ UNCHANGED <<openUsage, expired, managerOpen, upVars>>

DialUse(s) ==
  /\ sess[s] = "picked"
  /\ openUsage' = [openUsage EXCEPT ![xc[s]] = @ + 1]
  /\ sess' = [sess EXCEPT ![s] = "counted"]
  /\ UNCHANGED <<poolVars, leftRequests, expired, managerOpen, xc, upVars>>

\* leftRequests.Add(-1), and the uploader starts.
DialSpend(s) ==
  /\ sess[s] = "counted"
  /\ leftRequests' = [leftRequests EXCEPT ![xc[s]] = @ - 1]
  /\ sess' = [sess EXCEPT ![s] = "open"]
  /\ up' = [up EXCEPT ![s] = IF Packet THEN "loop" ELSE "off"]
  /\ upXc' = [upXc EXCEPT ![s] = xc[s]]
  /\ UNCHANGED <<poolVars, openUsage, expired, managerOpen, xc, newXc, posts>>

\* closeAll (or the error path of the dial): once per session.
Release(s) ==
  /\ sess[s] = "open"
  /\ openUsage' = [openUsage EXCEPT ![xc[s]] = @ - 1]
  /\ sess' = [sess EXCEPT ![s] = "closed"]
  /\ UNCHANGED <<poolVars, leftRequests, expired, managerOpen, xc, upVars>>

-----------------------------------------------------------------------------
(***************************************************************************)
(* runPacketUploader's use of the pool.  A POST that is being dispatched   *)
(* when the session closes still goes through these steps.                 *)
(***************************************************************************)
UpPost(s) ==
  /\ up[s] = "loop"
  /\ posts[s] > 0
  /\ posts' = [posts EXCEPT ![s] = @ - 1]
  /\ leftRequests' = [leftRequests EXCEPT ![upXc[s]] = @ - 1]
  /\ up' = [up EXCEPT ![s] =
              IF leftRequests'[upXc[s]] <= 0 \/ expired[upXc[s]] THEN "pick" ELSE "loop"]
  /\ UNCHANGED <<poolVars, openUsage, expired, managerOpen, sessVars, upXc, newXc>>

UpPick(s) ==
  /\ up[s] = "pick"
  /\ \E c \in Clients : Pick(c) /\ newXc' = [newXc EXCEPT ![s] = c]
  /\ up' = [up EXCEPT ![s] = "add"]
  /\ UNCHANGED <<openUsage, expired, managerOpen, sessVars, upXc, posts>>

UpUse(s) ==
  /\ up[s] = "add"
  /\ openUsage' = [openUsage EXCEPT ![newXc[s]] = @ + 1]
  /\ up' = [up EXCEPT ![s] = "sub"]
  /\ UNCHANGED <<poolVars, leftRequests, expired, managerOpen, sessVars, upXc, newXc, posts>>

UpLeave(s) ==
  /\ up[s] = "sub"
  /\ openUsage' = [openUsage EXCEPT ![upXc[s]] = @ - 1]
  /\ upXc' = [upXc EXCEPT ![s] = newXc[s]]
  /\ up' = [up EXCEPT ![s] = "loop"]
  /\ UNCHANGED <<poolVars, leftRequests, expired, managerOpen, sessVars, newXc, posts>>

UpStop(s) ==
  /\ up[s] = "loop" /\ sess[s] = "closed"
  /\ up' = [up EXCEPT ![s] = "stopped"]
  /\ UNCHANGED <<poolVars, openUsage, leftRequests, expired, managerOpen, sessVars,
                 upXc, newXc, posts>>

-----------------------------------------------------------------------------
\* A connection's unreusableAt passes.
Expire(c) ==
  /\ Timed
  /\ c <= made /\ ~expired[c]
  /\ expired' = [expired EXCEPT ![c] = TRUE]
  /\ UNCHANGED <<poolVars, openUsage, leftRequests, managerOpen, sessVars, upVars>>

\* Client.Close: xmuxManager.Close.  Sessions go on, and may dial again.
ManagerClose ==
  /\ managerOpen
  /\ managerOpen' = FALSE
  /\ closed' = [c \in Clients |-> closed[c] \/ c \in clients]
  /\ clients' = {}
  /\ UNCHANGED <<made, leftUsage, reuse, picks, openUsage, leftRequests, expired,
                 sessVars, upVars>>

Next ==
  \/ \E s \in Sessions :
       \/ DialPick(s) \/ DialUse(s) \/ DialSpend(s) \/ Release(s)
       \/ UpPost(s) \/ UpPick(s) \/ UpUse(s) \/ UpLeave(s) \/ UpStop(s)
  \/ \E c \in Clients : Expire(c)
  \/ ManagerClose

Spec == Init /\ [][Next]_vars

-----------------------------------------------------------------------------
\* options.go, c_max_reuse_times: "max times a connection is picked".  The
\* limit holds over all sessions and rotations, the creating pick included.
ReuseLimit == \A c \in Clients : reuse[c] > 0 => picks[c] <= reuse[c]

\* The pool consists of the connections that are not closed: none that was
\* retired can be picked, and none that left the pool keeps its sockets.
PooledIsOpen == clients = {c \in 1 .. made : ~closed[c]}

\* The sessions that use connection c, as the uploader sees it.
Using(c) ==
  {s \in Sessions :
     sess[s] \in {"counted", "open"} /\ c = IF up[s] = "off" THEN xc[s] ELSE upXc[s]}

\* Some uploader has moved, or is moving, to another connection.
Rotated ==
  \E s \in Sessions : up[s] = "sub" \/ (up[s] # "off" /\ upXc[s] # xc[s])

\* xmux.go: openUsage is the number of "currently-in-flight sessions" of a
\* connection (of both connections while the uploader moves between them).
UsageIsSessions ==
  (\A s \in Sessions : up[s] # "sub") =>
     \A c \in Clients : openUsage[c] = Cardinality(Using(c))

\* options.go, max_concurrency: "max in-flight sessions per connection".
ConcurrencyLimit ==
  Concurrency > 0 => \A c \in Clients : Cardinality(Using(c)) <= Concurrency

\* "All saturated: spawn a fresh client even past MaxConnections": a connection
\* past max_connections is created only when every pooled one carries
\* max_concurrency sessions (counted right, that is, before a rotation).
SpawnJustified ==
  [][~Rotated /\ made' > made /\ Cardinality(Swept) >= Connections /\ Swept # {} =>
       Concurrency > 0 /\ \A c \in Swept : Cardinality(Using(c)) >= Concurrency]_vars
=============================================================================
