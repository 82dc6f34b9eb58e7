------------------------------ MODULE TcpClient ------------------------------
(***************************************************************************)
(* A TcpClient on its poller (src/src/Network/TcpClient.cpp), and how its  *)
(* Sockets connect and receive (Socket::connect_l, onConnected, onRead,    *)
(* enableRecv, emitErr in src/src/Network/Socket.cpp).  Each startConnect  *)
(* makes a new Socket and drops the last one, so that a Socket stands for  *)
(* one attempt.  Names are resolved by a thread of the WorkThreadPool.     *)
(*                                                                         *)
(* All but the first startConnect and the last release of the client are   *)
(* calls on the poller's thread, many of them inside onConnect or onError. *)
(***************************************************************************)
EXTENDS Naturals, Sequences

CONSTANTS
  Attempts,    \* Sockets
  NoAttempt,   \* none of them
  MaxInbox,    \* packets of the peer in the kernel's receive buffer
  MaxShutdowns \* tasks of safeShutdown that are pending at a time

ASSUME CliAssumption ==
  NoAttempt \notin Attempts /\ MaxInbox \in Nat \ {0} /\ MaxShutdowns \in Nat

VARIABLES
  current,   \* _sock
  manager,   \* _timer: onManager is called every two seconds
  client,    \* the TcpClient exists
  so,        \* of each attempt, its Socket: see Unused
  shutdowns, \* tasks of safeShutdown in the poller's list
  early      \* attempts whose onError came before connect_l ran

cliVars == <<current, manager, client, so, shutdowns, early>>

(* `fd': "carried" by the task of the resolver, "held" by _sock_fd;         *)
(* `watch': what its poller watches it for; `edge': epoll will tell of      *)
(* `inbox', the packets to read.                                            *)
Unused == [stage |-> "new", fd |-> "none", watch |-> "none", timer |-> FALSE,
           asyncCb |-> FALSE, errEmit |-> FALSE, recv |-> TRUE,
           inbox |-> 0, edge |-> FALSE, told |-> <<>>]
Stages == {"new", "asked", "resolving", "resolved", "unresolved", "started"}

CliInit ==
  /\ current = NoAttempt /\ manager = FALSE /\ client = TRUE
  /\ so = [a \in Attempts |-> Unused] /\ shutdowns = 0 /\ early = {}

-----------------------------------------------------------------------------
(* What the functions of Socket do with one Socket r.                       *)

CloseSock(r, close_fd) ==
  [r EXCEPT !.recv = TRUE, !.timer = FALSE, !.asyncCb = FALSE,
            !.errEmit = @ /\ ~close_fd,
            !.fd = IF close_fd /\ @ = "held" THEN "closed" ELSE @,
            !.watch = "none", !.edge = FALSE]

Tell(r, what) == IF client THEN [r EXCEPT !.told = Append(@, what)] ELSE r

(* con_cb of connect_l.                                                     *)
ConCbFails(r) ==
  Tell([CloseSock(r, TRUE) EXCEPT !.errEmit = r.errEmit, !.recv = r.recv], "fail")

ConCbOk(r) == Tell([r EXCEPT !.timer = FALSE, !.asyncCb = FALSE], "ok")

(* async_con_cb with a descriptor: addEvent fails, or setSock.              *)
Watched(r) ==
  {ConCbFails([r EXCEPT !.fd = "closed"]),
   [r EXCEPT !.fd = "held", !.watch = "write", !.stage = "started"]}

(* Mutant: the timer is made before the reset of the Socket.                *)
ConnectLForgets(r) ==
  LET clean == [CloseSock(r, TRUE) EXCEPT !.stage = "started"]
  IN  {[clean EXCEPT !.stage = "resolving", !.asyncCb = TRUE], ConCbFails(clean)}
        \cup Watched(clean)

(* connect_l: the address is a name for the resolver, or an IP and connect  *)
(* fails at once or goes on.                                                *)
ConnectL(r) ==
  LET clean == [CloseSock(r, TRUE) EXCEPT !.timer = TRUE, !.stage = "started"]
  IN  {[clean EXCEPT !.stage = "resolving", !.asyncCb = TRUE], ConCbFails(clean)}
        \cup Watched(clean)

(* Mutant: setSock only after attachEvent, so that the destructor of the    *)
(* old SockFD deletes the new event.                                        *)
AttachFirst(r) ==
  {ConCbFails(r), ConCbOk([r EXCEPT !.watch = "none", !.edge = FALSE])}

(* onConnected with no error: setSock, delEvent, attachEvent.               *)
Attached(r) ==
  {ConCbFails(r), ConCbOk([r EXCEPT !.watch = "all", !.edge = r.inbox > 0])}

(* enableRecv, whose modifyEvent makes epoll look again.                    *)
Enabled(r, b) ==
  [r EXCEPT !.recv = b, !.edge = IF r.recv = b THEN @ ELSE b /\ r.inbox > 0]

-----------------------------------------------------------------------------
(* The client.                                                              *)

(* The sockets after startConnect: on the loop the old one is deleted and   *)
(* connect_l runs at once.                                                  *)
StartConnectOn(s, n, r) ==
  [a \in Attempts |-> IF a = n THEN r ELSE IF a = current THEN CloseSock(s[a], TRUE) ELSE s[a]]

Failed(r) == "fail" \in {r.told[i] : i \in 1 .. Len(r.told)}

(* The user's startConnect with the sockets s, on the loop.                 *)
Reconnects(s) ==
  \E n \in {a \in Attempts : s[a].stage = "new"} :
    \E r \in ConnectL(s[n]) :
      /\ current' = n
      /\ manager' = ~Failed(r)
      /\ so' = StartConnectOn(s, n, r)

(* A callback of the user, after `stop' reset _timer: may start again.      *)
Callback(s, stop) ==
  \/ current' = current /\ so' = s /\ manager' = (manager /\ ~(stop /\ client))
  \/ client /\ Reconnects(s)

OnSocket(r) == [so EXCEPT ![current] = r]
(* onSockConnect.                                                           *)
Report(r) ==
  /\ Callback(OnSocket(r), Failed(r))
  /\ UNCHANGED <<client, shutdowns, early>>

(* The first startConnect, on another thread, queues connect_l.             *)
StartConnect(n) ==
  /\ client /\ current = NoAttempt
  /\ current' = n /\ manager' = TRUE
  /\ so' = [so EXCEPT ![n].stage = "asked"]
  /\ UNCHANGED <<client, shutdowns, early>>

Live == current # NoAttempt
Sock == so[current]

CliReconnect ==
  /\ client /\ Live /\ Sock.stage # "asked"
  /\ Reconnects(so)
  /\ UNCHANGED <<client, shutdowns, early>>

RunConnect ==
  /\ Live /\ Sock.stage = "asked"
  /\ \E r \in ConnectL(Sock) : Report(r)

(* The resolver's thread, and the task it posts to the poller.              *)
Resolves(a) ==
  /\ so[a].stage = "resolving"
  /\ so' = [so EXCEPT ![a].stage = "resolved", ![a].fd = "carried"]
  /\ UNCHANGED <<current, manager, client, shutdowns, early>>

CannotResolve(a) ==
  /\ so[a].stage = "resolving"
  /\ so' = [so EXCEPT ![a].stage = "unresolved"]
  /\ UNCHANGED <<current, manager, client, shutdowns, early>>

(* Mutant: the task does not see that its attempt is over.                  *)
ExpiredNever(a) == a # current

(* weak_task: _async_con_cb was reset, or the Socket is deleted.            *)
Expired(a) == a # current \/ ~so[a].asyncCb

ResultTooLate(a) ==
  /\ so[a].stage \in {"resolved", "unresolved"} /\ Expired(a)
  /\ so' = [so EXCEPT ![a].stage = "started",
                      ![a].fd = IF @ = "carried" THEN "closed" ELSE @]
  /\ UNCHANGED <<current, manager, client, shutdowns, early>>

Result ==
  /\ Live /\ Sock.stage \in {"resolved", "unresolved"} /\ ~Expired(current)
  /\ LET r == [Sock EXCEPT !.stage = "started"]
     IN  \E r2 \in IF Sock.stage = "resolved" THEN Watched(r) ELSE {ConCbFails(r)} : Report(r2)

ConnectTimeout ==
  /\ Live /\ Sock.timer
  /\ Report(ConCbFails(Sock))

(* The descriptor is writable, or connecting failed.                        *)
OnConnected ==
  /\ Live /\ Sock.watch = "write"
  /\ \E r \in Attached(Sock) : Report(r)

-----------------------------------------------------------------------------
(* Receiving.                                                               *)

PeerSends ==
  /\ Live /\ Sock.fd = "held" /\ Sock.inbox < MaxInbox
  /\ so' = [so EXCEPT ![current].inbox = @ + 1,
                      ![current].edge = Sock.watch = "all" /\ Sock.recv]
  /\ UNCHANGED <<current, manager, client, shutdowns, early>>

(* Mutant: the read that returned 0 counts as a packet.                     *)
OnReadEof ==
  /\ Live /\ Sock.watch = "all" /\ Sock.edge
  /\ \E k \in 1 .. Sock.inbox + 1 :
       so' = OnSocket(Enabled([Sock EXCEPT !.inbox = @ - k, !.edge = FALSE], FALSE))
  /\ UNCHANGED <<current, manager, client, shutdowns, early>>

(* onRead: until EAGAIN, or until a callback disables receiving.            *)
OnRead ==
  /\ Live /\ Sock.watch = "all" /\ Sock.edge
  /\ \/ so' = OnSocket([Sock EXCEPT !.inbox = 0, !.edge = FALSE])
     \/ \E k \in 1 .. Sock.inbox :
          so' = OnSocket(Enabled([Sock EXCEPT !.inbox = @ - k, !.edge = FALSE], FALSE))
  /\ UNCHANGED <<current, manager, client, shutdowns, early>>

EnableRecv(b) ==
  /\ client /\ Live /\ Sock.watch = "all"
  /\ so' = OnSocket(Enabled(Sock, b))
  /\ UNCHANGED <<current, manager, client, shutdowns, early>>

-----------------------------------------------------------------------------
(* Errors and shutdown.                                                     *)

(* emitErr on the loop: its task runs at once, on_err and closeSock(false). *)
CliEmitErr(stop) ==
  IF Sock.errEmit
  THEN UNCHANGED <<current, so, early>> /\ manager' = (manager /\ ~stop)
  ELSE /\ Callback(OnSocket(CloseSock(Tell([Sock EXCEPT !.errEmit = TRUE], "err"), FALSE)), TRUE)
       /\ early' = IF Sock.stage = "asked" THEN early \cup {current} ELSE early

(* End of file or an error of the connection.                               *)
ConnectionFails ==
  /\ Live /\ Sock.watch = "all"
  /\ CliEmitErr(FALSE)
  /\ UNCHANGED <<client, shutdowns>>

SafeShutdown ==
  /\ client /\ Live /\ shutdowns < MaxShutdowns
  /\ shutdowns' = shutdowns + 1
  /\ UNCHANGED <<current, manager, client, so, early>>

(* async_first: it may come before the task of the first connect.           *)
RunShutdown ==
  /\ shutdowns > 0
  /\ shutdowns' = shutdowns - 1
  /\ IF client /\ Live THEN CliEmitErr(TRUE) ELSE UNCHANGED <<current, so, manager, early>>
  /\ UNCHANGED client

(* The user drops the client; its Socket is deleted by a task.              *)
Release ==
  /\ client
  /\ client' = FALSE /\ manager' = FALSE
  /\ UNCHANGED <<current, so, shutdowns, early>>

DeleteSocket ==
  /\ ~client /\ Live
  /\ current' = NoAttempt
  /\ so' = OnSocket(CloseSock(Sock, TRUE))
  /\ UNCHANGED <<manager, client, shutdowns, early>>

-----------------------------------------------------------------------------
LoopTask ==
  \/ RunConnect \/ Result \/ RunShutdown \/ DeleteSocket
  \/ \E a \in Attempts : ResultTooLate(a)

CliNext ==
  \/ LoopTask \/ ConnectTimeout \/ OnConnected \/ OnRead \/ ConnectionFails
  \/ CliReconnect \/ SafeShutdown \/ Release \/ PeerSends
  \/ \E b \in BOOLEAN : EnableRecv(b)
  \/ \E a \in Attempts : StartConnect(a) \/ Resolves(a) \/ CannotResolve(a)

CliSpec == CliInit /\ [][CliNext]_cliVars

(* The loop takes its tasks and its timers; the resolver may hang.          *)
CliFairness == WF_cliVars(LoopTask) /\ WF_cliVars(ConnectTimeout)

-----------------------------------------------------------------------------
(* Properties.                                                              *)

CliTypeOK ==
  /\ current \in Attempts \cup {NoAttempt}
  /\ manager \in BOOLEAN /\ client \in BOOLEAN /\ shutdowns \in 0 .. MaxShutdowns
  /\ early \subseteq Attempts
  /\ \A a \in Attempts :
       /\ so[a].stage \in Stages /\ so[a].fd \in {"none", "carried", "held", "closed"}
       /\ so[a].watch \in {"none", "write", "all"} /\ so[a].inbox \in 0 .. MaxInbox
       /\ {so[a].timer, so[a].asyncCb, so[a].errEmit, so[a].recv, so[a].edge} \subseteq BOOLEAN
       /\ so[a].told \in Seq({"ok", "fail", "err"})

Results(r) == {i \in 1 .. Len(r.told) : r.told[i] \in {"ok", "fail"}}

(* An attempt has one result: whichever of the timeout, the resolver and    *)
(* the connection is first ends the others, and after onError there is no   *)
(* result any more, unless safeShutdown overtook connect (con_cb of         *)
(* connect_l, weak_task, closeSock).  A descriptor that came too late is    *)
(* closed, and so is that of a Socket that was replaced.                    *)
OneResult ==
  \A a \in Attempts :
    /\ \A i, j \in Results(so[a]) : i = j
    /\ \A i, j \in 1 .. Len(so[a].told) :
         i < j /\ so[a].told[i] = "err" => so[a].told[j] = "err" \/ a \in early
    /\ so[a].fd = "held" => a = current
    /\ so[a].fd = "carried" => so[a].stage = "resolved"

(* While the connection is up it is watched for all events, and packets     *)
(* that wait are read or epoll will tell of them, though receiving was off  *)
(* for a while (onConnected, enableRecv and epoll's edges); and the client  *)
(* has its manager timer, whatever the user did in the last callback.       *)
ConnectedIsHeard ==
  client /\ Live /\ Sock.told = <<"ok">> =>
    /\ Sock.fd = "held" /\ Sock.watch = "all"
    /\ Sock.inbox > 0 /\ Sock.recv => Sock.edge
    /\ manager

(* Every attempt comes to an end though the resolver may hang: the user is  *)
(* told, or starts another attempt or drops the client.                     *)
Settles ==
  \A a \in Attempts :
    so[a].stage = "asked" \/ so[a].timer ~> so[a].told # <<>> \/ a # current \/ ~client

=============================================================================
