------------------------------ MODULE TcpServer ------------------------------
(***************************************************************************)
(* A TcpServer with its clones (src/src/Network/TcpServer.cpp, Server.cpp, *)
(* Socket::onAccept): every poller watches the one listening file, accepts *)
(* what it can, hands each connection to a poller that need not be its     *)
(* own, and that poller's server keeps a session for it until it fails.    *)
(* Once the main server is gone a clone finds no server but itself, and its *)
(* map gets the sessions of foreign pollers: this is the build without      *)
(* assertions; with them it stops where onAcceptConnection begins.          *)
(*                                                                         *)
(* A connection stands for its Socket and its descriptor.  A SessionHelper *)
(* is found in _session_map by its address, and addresses are used again.  *)
(* accept() fails while MaxFds descriptors are open.                       *)
(***************************************************************************)
EXTENDS Naturals, Sequences, FiniteSets

CONSTANTS
  Pollers, Main,  \* the pool's pollers, and the one of the main server
  Conns,          \* connections that peers make
  Addresses,      \* of SessionHelpers
  MaxFds,         \* descriptors for connections
  NoConn          \* none of the connections

ASSUME TcpAssumption ==
  /\ Main \in Pollers
  /\ MaxFds \in Nat \ {0} /\ Cardinality(Addresses) = MaxFds
  /\ NoConn \notin Conns

VARIABLES
  backlog,   \* the kernel's queue of the listening file
  acceptEdge, \* pollers that epoll will tell of it
  at,        \* what each poller does: "idle", "accept", "manage"
  taken,     \* the connection a poller handed on while it holds `completed`
  retries,   \* of each poller, pending timers that accept again
  srvTasks,  \* of each poller, its task list
  phase,     \* of each connection: see Phases
  home,      \* of each connection, its Socket's poller
  serverOf,  \* of each connection, the one whose onAcceptConnection gets it
  failing,   \* connections whose Socket has _err_emit
  data,      \* of each connection: what became of its first bytes
  map,       \* _session_map of each server: address to connection
  visiting,  \* addresses that onManagerSession of a poller still has to visit
  told,      \* of each connection, how often its session's onError was called
  owner,     \* the user still holds the main server
  gone       \* pollers whose server has been destroyed

srvConnVars == <<phase, home, serverOf, failing, data, told>>
loopVars == <<acceptEdge, at, taken, retries, visiting>>
serverVars == <<map, owner, gone>>
tcpVars == <<backlog, loopVars, srvTasks, srvConnVars, serverVars>>

(* "accepted": descriptor open, no events; "attached": events too;          *)
(* "failed": _on_err was called and the events are off again.               *)
Phases == {"new", "queued", "accepted", "attached", "failed", "closed"}
Open == {c \in Conns : phase[c] \in {"accepted", "attached", "failed"}}

Sessions(p) == {map[p][a] : a \in DOMAIN map[p]}
HasSession(c) == c \in Sessions(serverOf[c])

TcpInit ==
  /\ backlog = <<>> /\ acceptEdge = {}
  /\ at = [p \in Pollers |-> "idle"] /\ taken = [p \in Pollers |-> NoConn]
  /\ retries = [p \in Pollers |-> 0] /\ srvTasks = [p \in Pollers |-> <<>>]
  /\ phase = [c \in Conns |-> "new"] /\ home = [c \in Conns |-> Main]
  /\ serverOf = [c \in Conns |-> Main]
  /\ failing = {} /\ data = [c \in Conns |-> "waiting"]
  /\ map = [p \in Pollers |-> <<>>] /\ visiting = [p \in Pollers |-> {}]
  /\ told = [c \in Conns |-> 0]
  /\ owner = TRUE /\ gone = {}

-----------------------------------------------------------------------------
(* The kernel queues a connection, whose first bytes may already be there.  *)

Arrive(c) ==
  /\ phase[c] = "new"
  /\ phase' = [phase EXCEPT ![c] = "queued"]
  /\ backlog' = Append(backlog, c)
  /\ acceptEdge' = Pollers \ gone
  /\ UNCHANGED <<at, taken, retries, visiting, srvTasks, home, serverOf, failing, data, told, serverVars>>

-----------------------------------------------------------------------------
(* Socket::onAccept                                                         *)

StartAccept(p) ==
  /\ at[p] = "idle" /\ p \in acceptEdge /\ p \notin gone
  /\ acceptEdge' = acceptEdge \ {p}
  /\ at' = [at EXCEPT ![p] = "accept"]
  /\ UNCHANGED <<backlog, taken, retries, visiting, srvTasks, srvConnVars, serverVars>>

(* The timer of a failed accept, 100 ms later.                              *)
Retry(p) ==
  /\ at[p] = "idle" /\ retries[p] > 0
  /\ retries' = [retries EXCEPT ![p] = @ - 1]
  /\ at' = IF p \in gone THEN at ELSE [at EXCEPT ![p] = "accept"]
  /\ UNCHANGED <<backlog, acceptEdge, taken, visiting, srvTasks, srvConnVars, serverVars>>

(* EAGAIN: only now will epoll tell of the next connection.                 *)
AcceptNone(p) ==
  /\ at[p] = "accept" /\ taken[p] = NoConn /\ backlog = <<>>
  /\ at' = [at EXCEPT ![p] = "idle"]
  /\ UNCHANGED <<backlog, acceptEdge, taken, retries, visiting, srvTasks, srvConnVars, serverVars>>

(* Mutant: the failed accept is left to the next event.                     *)
GiveUp(p) ==
  /\ at' = [at EXCEPT ![p] = "idle"]
  /\ UNCHANGED retries

AcceptAgain(p) ==
  /\ at' = [at EXCEPT ![p] = "idle"]
  /\ retries' = [retries EXCEPT ![p] = @ + 1]

AcceptFails(p) ==
  /\ at[p] = "accept" /\ taken[p] = NoConn /\ backlog # <<>>
  /\ Cardinality(Open) >= MaxFds
  /\ AcceptAgain(p)
  /\ UNCHANGED <<backlog, acceptEdge, taken, visiting, srvTasks, srvConnVars, serverVars>>

Accepts(p, c) ==
  /\ at[p] = "accept" /\ taken[p] = NoConn /\ backlog # <<>>
  /\ Cardinality(Open) < MaxFds
  /\ c = Head(backlog)
  /\ backlog' = Tail(backlog)

(* _on_before_accept throws: the descriptor is closed and the loop goes on. *)
BeforeAcceptThrows(p, c) ==
  /\ Accepts(p, c)
  /\ phase' = [phase EXCEPT ![c] = "closed"]
  /\ UNCHANGED <<loopVars, srvTasks, home, serverOf, failing, data, told, serverVars>>

(* onAcceptConnection: a session, and the callbacks of the Socket.          *)
FreeAddresses == Addresses \ UNION {DOMAIN map[p] : p \in Pollers}

NewSession(p, c) ==
  \E a \in FreeAddresses :
    map' = [map EXCEPT ![p] = [b \in DOMAIN @ \cup {a} |-> IF b = a THEN c ELSE @[b]]]

(* The connection stays on the poller: session and events at once.          *)
AcceptHere(p, c) ==
  /\ Accepts(p, c)
  /\ p \notin gone
  /\ NewSession(p, c)
  /\ phase' = [phase EXCEPT ![c] = "attached"]
  /\ home' = [home EXCEPT ![c] = p] /\ serverOf' = [serverOf EXCEPT ![c] = p]
  /\ UNCHANGED <<loopVars, srvTasks, failing, data, told, owner, gone>>

(* getServer: a clone asks the main server for the one of a poller; without *)
(* it there is nobody but itself.                                           *)
GetServer(p, q) == IF Main \notin gone THEN q ELSE p

(* The Socket got another poller, which has to run onAcceptConnection;      *)
(* `completed`, whose deleter attaches the events, is held by the task and  *)
(* by this loop.                                                            *)
AcceptFor(p, q, c) ==
  /\ Accepts(p, c)
  /\ p \notin gone /\ q # p
  /\ phase' = [phase EXCEPT ![c] = "accepted"]
  /\ home' = [home EXCEPT ![c] = q]
  /\ serverOf' = [serverOf EXCEPT ![c] = GetServer(p, q)]
  /\ taken' = [taken EXCEPT ![p] = c]
  /\ srvTasks' = [srvTasks EXCEPT ![q] = Append(@, [kind |-> "accept", conn |-> c])]
  /\ UNCHANGED <<acceptEdge, at, retries, visiting, failing, data, told, serverVars>>

(* The server is gone: nobody takes the connection.                         *)
AcceptNobody(p, c) ==
  /\ Accepts(p, c)
  /\ p \in gone
  /\ phase' = [phase EXCEPT ![c] = "closed"]
  /\ UNCHANGED <<loopVars, srvTasks, home, serverOf, failing, data, told, serverVars>>

Queued(kind, c) == \E p \in Pollers : \E i \in 1 .. Len(srvTasks[p]) :
                     srvTasks[p][i].kind = kind /\ srvTasks[p][i].conn = c

(* The deleter of `completed` runs on p, with the rest of its tasks.        *)
Attach(p, c, rest) ==
  IF p = home[c]
  THEN /\ phase' = [phase EXCEPT ![c] = IF @ = "accepted" THEN "attached" ELSE @]
       /\ srvTasks' = [srvTasks EXCEPT ![p] = rest]
  ELSE /\ srvTasks' = [srvTasks EXCEPT ![p] = rest,
                                 ![home[c]] = Append(@, [kind |-> "attach", conn |-> c])]
       /\ UNCHANGED phase

ReleaseCompleted(p, c) ==
  IF Queued("accept", c) THEN UNCHANGED <<phase, srvTasks>> ELSE Attach(p, c, srvTasks[p])

(* The loop drops its reference and accepts the next.                       *)
NextAccept(p) ==
  /\ taken[p] # NoConn
  /\ taken' = [taken EXCEPT ![p] = NoConn]
  /\ ReleaseCompleted(p, taken[p])
  /\ UNCHANGED <<backlog, acceptEdge, at, retries, visiting, home, serverOf, failing, data, told, serverVars>>

-----------------------------------------------------------------------------
(* The tasks of a poller.                                                   *)

Starts(p, kind) ==
  /\ at[p] = "idle" /\ srvTasks[p] # <<>>
  /\ Head(srvTasks[p]).kind = kind

RunAccept(p) ==
  /\ Starts(p, "accept")
  /\ LET c == Head(srvTasks[p]).conn
     IN  /\ NewSession(serverOf[c], c)
         /\ IF \E q \in Pollers : taken[q] = c
            THEN /\ srvTasks' = [srvTasks EXCEPT ![p] = Tail(@)]
                 /\ UNCHANGED phase
            ELSE Attach(p, c, Tail(srvTasks[p]))
  /\ UNCHANGED <<backlog, loopVars, home, serverOf, failing, data, told, owner, gone>>

(* addEvent, when `completed` was dropped on another thread.                *)
RunAttach(p) ==
  /\ Starts(p, "attach")
  /\ Attach(p, Head(srvTasks[p]).conn, Tail(srvTasks[p]))
  /\ UNCHANGED <<backlog, loopVars, home, serverOf, failing, data, told, serverVars>>

Without(s, a) == [map EXCEPT ![s] = [b \in DOMAIN @ \ {a} |-> @[b]]]

AndErases(tasks, s, a) ==
  [tasks EXCEPT ![s] = Append(@, [kind |-> "erase", conn |-> map[s][a], addr |-> a])]

(* Mutant: the session is removed at once, and once more by the task.       *)
RemoveTwice(p, c, rest) ==
  LET s == serverOf[c]
      left == [srvTasks EXCEPT ![p] = rest]
  IN  \E a \in DOMAIN map[s] :
        /\ map[s][a] = c
        /\ map' = Without(s, a)
        /\ srvTasks' = IF at[s] = "manage" THEN AndErases(left, s, a) ELSE left

(* The session is removed from its server, by the thread of p, which goes   *)
(* on with the rest of its tasks: later, if onManagerSession iterates over  *)
(* the map.                                                                 *)
Remove(p, c, rest) ==
  LET s == serverOf[c]
      left == [srvTasks EXCEPT ![p] = rest]
  IN  \E a \in DOMAIN map[s] :
        /\ map[s][a] = c
        /\ IF at[s] = "manage"
           THEN srvTasks' = AndErases(left, s, a) /\ UNCHANGED map
           ELSE srvTasks' = left /\ map' = Without(s, a)

(* Mutant: the session is not told.                                         *)
RemoveOnly(p, c, rest) ==
  /\ Remove(p, c, rest)
  /\ phase' = [phase EXCEPT ![c] = "failed"]
  /\ UNCHANGED told

(* The task of emitErr: onError, removal, closeSock(false).                 *)
OnErr(p, c, rest) ==
  /\ phase' = [phase EXCEPT ![c] = "failed"]
  /\ IF HasSession(c)
     THEN Remove(p, c, rest) /\ told' = [told EXCEPT ![c] = @ + 1]
     ELSE /\ srvTasks' = [srvTasks EXCEPT ![p] = rest]
          /\ UNCHANGED <<map, told>>

RunErr(p) ==
  /\ Starts(p, "err")
  /\ LET c == Head(srvTasks[p]).conn
     IN  IF phase[c] = "closed"
         THEN srvTasks' = [srvTasks EXCEPT ![p] = Tail(@)] /\ UNCHANGED <<phase, map, told>>
         ELSE OnErr(p, c, Tail(srvTasks[p]))
  /\ UNCHANGED <<backlog, loopVars, home, serverOf, failing, data, owner, gone>>

RunErase(p) ==
  /\ Starts(p, "erase")
  /\ map' = Without(p, Head(srvTasks[p]).addr)
  /\ srvTasks' = [srvTasks EXCEPT ![p] = Tail(@)]
  /\ UNCHANGED <<backlog, loopVars, srvConnVars, owner, gone>>

-----------------------------------------------------------------------------
(* Events of a connection on its poller.                                    *)

(* "dropped": the weak pointer to the session of the read callback expired; *)
(* "ignored": the callback has not even been set.                           *)
Read(c) ==
  /\ phase[c] = "attached" /\ at[home[c]] = "idle" /\ data[c] = "waiting"
  /\ data' = [data EXCEPT ![c] = IF HasSession(c) THEN "served"
                                 ELSE IF told[c] > 0 THEN "dropped" ELSE "ignored"]
  /\ UNCHANGED <<backlog, loopVars, srvTasks, phase, home, serverOf, failing, told, serverVars>>

(* End of file, an error, or a shutdown by the session itself.              *)
Fails(c) ==
  /\ phase[c] = "attached" /\ at[home[c]] = "idle" /\ c \notin failing
  /\ HasSession(c)
  /\ failing' = failing \cup {c}
  /\ OnErr(home[c], c, srvTasks[home[c]])
  /\ UNCHANGED <<backlog, loopVars, home, serverOf, data, owner, gone>>

(* shutdown() by another thread: emitErr leaves it to the Socket's poller.  *)
ErrLater(c) ==
  /\ srvTasks' = [srvTasks EXCEPT ![home[c]] = Append(@, [kind |-> "err", conn |-> c])]
  /\ UNCHANGED <<map, phase, told>>

ShutdownElsewhere(c) ==
  /\ phase[c] \in {"accepted", "attached"} /\ HasSession(c) /\ c \notin failing
  /\ failing' = failing \cup {c}
  /\ ErrLater(c)
  /\ UNCHANGED <<backlog, loopVars, home, serverOf, data, owner, gone>>

(* The last reference goes and the poller deletes the Socket.               *)
CloseSocket(c) ==
  /\ c \in Open /\ ~HasSession(c)
  /\ \A p \in Pollers : taken[p] # c
  /\ ~Queued("accept", c) /\ ~Queued("attach", c)
  /\ phase' = [phase EXCEPT ![c] = "closed"]
  /\ UNCHANGED <<backlog, loopVars, srvTasks, home, serverOf, failing, data, told, serverVars>>

-----------------------------------------------------------------------------
(* onManagerSession, every two seconds.                                     *)

StartManage(p) ==
  /\ at[p] = "idle" /\ p \notin gone /\ DOMAIN map[p] # {}
  /\ at' = [at EXCEPT ![p] = "manage"]
  /\ visiting' = [visiting EXCEPT ![p] = DOMAIN map[p]]
  /\ UNCHANGED <<backlog, acceptEdge, taken, retries, srvTasks, srvConnVars, serverVars>>

Visits(p, a) ==
  /\ at[p] = "manage" /\ a \in visiting[p]
  /\ visiting' = [visiting EXCEPT ![p] = @ \ {a}]
  /\ UNCHANGED <<backlog, acceptEdge, at, taken, retries, home, serverOf, data, owner, gone>>

(* A session's onManager leaves it alone, or shuts it down.                 *)
ManageKeeps(p, a) ==
  /\ Visits(p, a)
  /\ UNCHANGED <<srvTasks, map, phase, failing, told>>

ManageShuts(p, a) ==
  /\ a \in DOMAIN map[p]
  /\ LET c == map[p][a]
     IN  /\ c \notin failing
         /\ failing' = failing \cup {c}
         /\ IF home[c] = p THEN OnErr(p, c, srvTasks[p]) ELSE ErrLater(c)
  /\ Visits(p, a)

EndManage(p) ==
  /\ at[p] = "manage" /\ visiting[p] = {}
  /\ at' = [at EXCEPT ![p] = "idle"]
  /\ UNCHANGED <<backlog, acceptEdge, taken, retries, visiting, srvTasks, srvConnVars, serverVars>>

-----------------------------------------------------------------------------
(* The end of the server.                                                   *)

ReleaseOwner ==
  /\ owner
  /\ owner' = FALSE
  /\ UNCHANGED <<backlog, loopVars, srvTasks, srvConnVars, map, gone>>

(* ~TcpServer, when no accept task, on whatever poller, and no callback     *)
(* holds it either: each session that is left is told by ~SessionHelper.    *)
(* The loop of Socket::onAccept holds the Socket and not the server.        *)
Dies(p) ==
  /\ ~owner /\ p \notin gone
  /\ p # Main => Main \in gone
  /\ at[p] # "manage"
  /\ \A q \in Pollers : \A i \in 1 .. Len(srvTasks[q]) :
       srvTasks[q][i].kind = "accept" => serverOf[srvTasks[q][i].conn] # p
  /\ gone' = gone \cup {p}
  /\ told' = [c \in Conns |-> IF c \in Sessions(p) THEN told[c] + 1 ELSE told[c]]
  /\ map' = [map EXCEPT ![p] = <<>>]
  /\ UNCHANGED <<backlog, loopVars, srvTasks, phase, home, serverOf, failing, data, owner>>

-----------------------------------------------------------------------------
AcceptStep(p) ==
  \/ StartAccept(p) \/ Retry(p) \/ AcceptNone(p) \/ AcceptFails(p) \/ NextAccept(p)
  \/ \E c \in Conns : \/ AcceptHere(p, c) \/ AcceptNobody(p, c)
                      \/ \E q \in Pollers : AcceptFor(p, q, c)

TaskStep(p) == RunAccept(p) \/ RunAttach(p) \/ RunErr(p) \/ RunErase(p)

ManageStep(p) == EndManage(p) \/ \E a \in Addresses : ManageKeeps(p, a)

TcpNext ==
  \/ \E c \in Conns :
       \/ Arrive(c) \/ Read(c) \/ Fails(c) \/ ShutdownElsewhere(c)
       \/ CloseSocket(c)
       \/ \E p \in Pollers : BeforeAcceptThrows(p, c)
  \/ \E p \in Pollers :
       \/ AcceptStep(p) \/ TaskStep(p) \/ ManageStep(p) \/ StartManage(p) \/ Dies(p)
       \/ \E a \in Addresses : ManageShuts(p, a)
  \/ ReleaseOwner

TcpSpec == TcpInit /\ [][TcpNext]_tcpVars

(* Each poller's loop goes on, and neither its tasks nor its other timers   *)
(* keep it for ever from an event of the listening file or from the retry.  *)
TcpFairness ==
  \A p \in Pollers : /\ WF_tcpVars(AcceptStep(p) \/ ManageStep(p))
                     /\ SF_tcpVars(StartAccept(p) \/ Retry(p))

-----------------------------------------------------------------------------
(* Properties.                                                              *)

TcpTypeOK ==
  /\ backlog \in Seq(Conns) /\ acceptEdge \subseteq Pollers
  /\ at \in [Pollers -> {"idle", "accept", "manage"}]
  /\ taken \in [Pollers -> Conns \cup {NoConn}]
  /\ retries \in [Pollers -> Nat]
  /\ \A p \in Pollers : /\ DOMAIN map[p] \subseteq Addresses /\ Sessions(p) \subseteq Conns
                        /\ visiting[p] \subseteq Addresses
                        /\ \A i \in 1 .. Len(srvTasks[p]) :
                             srvTasks[p][i].kind \in {"accept", "attach", "err", "erase"}
  /\ phase \in [Conns -> Phases] /\ home \in [Conns -> Pollers]
  /\ serverOf \in [Conns -> Pollers]
  /\ failing \subseteq Conns
  /\ data \in [Conns -> {"waiting", "served", "dropped", "ignored"}]
  /\ told \in [Conns -> Nat] /\ owner \in BOOLEAN /\ gone \subseteq Pollers

(* A connection that works has its session, in the map of the one server    *)
(* that got it, so that no byte is read before onAcceptConnection has set   *)
(* the callbacks, and removing a session by its address never takes another *)
(* one (Socket::onAccept's `completed`; the deferred erase of onErr).  That *)
(* server is the one of the connection's own poller while the main server   *)
(* exists.  One that leaves the map was told by onError, and only once      *)
(* unless the whole server ended too.                                       *)
SessionsServed ==
  \A c \in Conns :
    /\ data[c] # "ignored"
    /\ phase[c] = "attached" /\ serverOf[c] \notin gone => HasSession(c)
    /\ \A p \in Pollers : c \in Sessions(p) => p = serverOf[c]
    /\ Main \notin gone => serverOf[c] = home[c]
    /\ phase[c] \in {"attached", "failed"} /\ ~HasSession(c) => told[c] > 0
    /\ told[c] > 1 => serverOf[c] \in gone

(* "This TCP client is dispatched to the corresponding thread of the        *)
(* TcpServer server" (TcpServer.cpp:42): a session is in the map of the     *)
(* server of its Socket's poller, whose thread alone may run                *)
(* onAcceptConnection (the assertion of TcpServer.cpp:134).                 *)
SessionOnItsPoller ==
  \A p \in Pollers : \A c \in Sessions(p) : home[c] = p

(* A connection that waits while a descriptor is free is taken out of the   *)
(* backlog, though accept failed on it before and epoll told of it once:    *)
(* unless the descriptors are used up again or the server ends              *)
(* (Socket::onAccept's loop until EAGAIN and its retry timer).              *)
AllAccepted ==
  \A c \in Conns :
    (phase[c] = "queued" /\ gone = {}) ~>
      (phase[c] # "queued" \/ Cardinality(Open) >= MaxFds \/ gone # {})

=============================================================================
