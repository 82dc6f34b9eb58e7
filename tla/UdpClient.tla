----------------------------- MODULE UdpClient -----------------------------
(* A UdpClient (src/src/Network/UdpClient.cpp, UdpClient.h) and the UDP     *)
(* Sockets it makes, one for every startConnect: how they are bound, where  *)
(* a datagram goes (Socket::send, bindPeerAddr), how they are read, told of *)
(* an error and replaced.  The first startConnect is called on a thread of  *)
(* the user, while the poller may already serve the new Socket; the others  *)
(* inside a callback on the poller.                                         *)
EXTENDS Naturals, Sequences

CONSTANTS
  UdpPeers,    \* addresses
  NoAddr,      \* no address given
  MaxTries,    \* startConnect calls
  MaxWaiting   \* datagrams in _send_buf_waiting of a Socket

ASSUME UdpClientAssumption ==
  NoAddr \notin UdpPeers /\ MaxTries \in Nat /\ MaxWaiting \in Nat

VARIABLES
  latest,    \* the Socket in _sock, counted by startConnect; 0: none
  ticks,     \* the startConnect that made _timer; 0: none
  us,        \* the Sockets: see NoSocket
  connects,  \* startConnect that is under way: see Nowhere
  serves,    \* what the poller does: see AtRestNow
  errTasks,  \* tasks of emitErr
  strays     \* history: a datagram went elsewhere than it was meant to go

udpClientVars == <<latest, ticks, us, connects, serves, errTasks, strays>>

Tries == 1 .. MaxTries
(* `soft' is _udp_send_dst, `hard' the peer of the descriptor and           *)
(* _peer_addr, `bound' (history) the peer of the last bindPeerAddr; `used'  *)
(* is the buffer that attachEvent took.                                     *)
NoSocket ==
  [made |-> FALSE, kept |-> FALSE, fd |-> FALSE, watched |-> FALSE, frozen |-> FALSE,
   soft |-> NoAddr, hard |-> NoAddr, bound |-> NoAddr, buffer |-> "shared", used |-> "none",
   errEmit |-> FALSE, waiting |-> <<>>, told |-> 0, stopped |-> FALSE, early |-> FALSE]
Nowhere == [step |-> "none", peer |-> NoAddr, by |-> "none"]
AtRestNow == [what |-> "idle", n |-> 0, kind |-> "none"]

UdpClientInit ==
  /\ latest = 0 /\ ticks = 0 /\ us = [n \in Tries |-> NoSocket]
  /\ connects = Nowhere /\ serves = AtRestNow /\ errTasks = <<>> /\ strays = FALSE

(* A Socket lives as long as the client, the user or its callback hold it.  *)
Lives(n) == us[n].made /\ (n = latest \/ us[n].kept \/ (serves.what # "idle" /\ serves.n = n))

PollerFree == connects.by # "poller"
InCallback == serves.what = "calls" /\ PollerFree
(* The client's own thread rules: no call races with startConnect.          *)
UserMayCall == latest # 0 /\ connects = Nowhere
MayCall == UserMayCall \/ (latest # 0 /\ InCallback)

-----------------------------------------------------------------------------
(* startConnect: timer and Socket, whose creation callback may give it a    *)
(* receive buffer.                                                          *)
MakeSocket(by) ==
  /\ connects = Nowhere /\ latest < MaxTries
  /\ \E peer \in UdpPeers, kept \in BOOLEAN, buffer \in {"shared", "own"} :
       /\ us' = [us EXCEPT ![latest + 1] =
                   [NoSocket EXCEPT !.made = TRUE, !.kept = kept, !.buffer = buffer]]
       /\ connects' = [step |-> "bind", peer |-> peer, by |-> by]
  /\ latest' = latest + 1 /\ ticks' = latest + 1
  /\ UNCHANGED <<serves, errTasks, strays>>

FirstConnect == latest = 0 /\ MakeSocket("user")
Reconnect == InCallback /\ MakeSocket("poller")

(* bindUdpSock: closeSock, then bind and attachEvent, which both may fail.  *)
BindUdpSock ==
  /\ connects.step = "bind"
  /\ \E ok \in BOOLEAN :
       /\ us' = [us EXCEPT ![latest].waiting = <<>>, ![latest].errEmit = FALSE,
                           ![latest].frozen = ok, ![latest].watched = ok,
                           ![latest].used = IF ok THEN us[latest].buffer ELSE @]
       /\ connects' = [connects EXCEPT !.step = IF ok THEN "setSock" ELSE "peer"]
  /\ UNCHANGED <<latest, ticks, serves, errTasks, strays>>

SetSock ==
  /\ connects.step = "setSock"
  /\ us' = [us EXCEPT ![latest].fd = TRUE]
  /\ connects' = [connects EXCEPT !.step = "peer"]
  /\ UNCHANGED <<latest, ticks, serves, errTasks, strays>>

SoftBind ==
  /\ connects.step = "peer"
  /\ us' = IF us[latest].fd
           THEN [us EXCEPT ![latest].soft = connects.peer, ![latest].bound = connects.peer]
           ELSE us
  /\ connects' = Nowhere
  /\ UNCHANGED <<latest, ticks, serves, errTasks, strays>>

(* The user's bindPeerAddr with connect(), which may fail, while nothing    *)
(* without an address of its own waits.                                     *)
(* Mutant: the soft bind is kept.                                           *)
HardBoundKeeps(s, peer) == [s EXCEPT !.hard = peer, !.bound = peer]
HardBound(s, peer) == [s EXCEPT !.soft = NoAddr, !.hard = peer, !.bound = peer]

HardBind(peer) ==
  /\ UserMayCall /\ us[latest].fd
  /\ \A i \in 1 .. Len(us[latest].waiting) : us[latest].waiting[i].own # NoAddr
  /\ \/ us' = [us EXCEPT ![latest] = HardBound(@, peer)]
     \/ us' = [us EXCEPT ![latest].soft = NoAddr, ![latest].bound = us[latest].hard]
  /\ UNCHANGED <<latest, ticks, connects, serves, errTasks, strays>>

(* setUdpRecvBuffer, by whoever holds the Socket.                           *)
(* Mutant: only the descriptor is tested.                                   *)
RefusesByFd(s) == s.fd
Refuses(s) == s.fd \/ s.frozen

SetUdpRecvBuffer(n) ==
  /\ Lives(n) /\ ~Refuses(us[n])
  /\ us' = [us EXCEPT ![n].buffer = "own"]
  /\ UNCHANGED <<latest, ticks, connects, serves, errTasks, strays>>

-----------------------------------------------------------------------------
(* send and sendto: the address that a datagram takes along.                *)
(* Mutant: it is taken along also by a Socket that is connected.            *)
TakesAlongAlways(s, addr) == IF addr = NoAddr THEN s.soft ELSE addr
TakesAlong(s, addr) ==
  IF addr = NoAddr THEN s.soft ELSE IF s.hard # NoAddr THEN NoAddr ELSE addr

SendDatagram(addr) ==
  /\ MayCall /\ Len(us[latest].waiting) < MaxWaiting
  /\ LET s == us[latest]
     IN us' = [us EXCEPT ![latest].waiting = Append(@,
                 [own |-> TakesAlong(s, addr),
                  meant |-> IF addr = NoAddr \/ s.hard # NoAddr THEN s.bound ELSE addr])]
  /\ UNCHANGED <<latest, ticks, connects, serves, errTasks, strays>>

(* flushData: the kernel knows the way of a datagram without an address     *)
(* only if it was connected, and may refuse one with an address if it was.  *)
Leave(n) ==
  /\ Lives(n) /\ us[n].fd /\ us[n].waiting # <<>>
  /\ us' = [us EXCEPT ![n].waiting = Tail(@)]
  /\ LET d == us[n].waiting[1]
         to == IF d.own = NoAddr THEN us[n].hard ELSE d.own
     IN \/ strays' = (strays \/ to \notin {d.meant, NoAddr})
        \/ d.own # NoAddr /\ us[n].hard # NoAddr /\ UNCHANGED strays
  /\ UNCHANGED <<latest, ticks, connects, serves, errTasks>>

-----------------------------------------------------------------------------
(* The poller: a batch of datagrams, the timer and the tasks of emitErr.    *)
Readable(n) ==
  /\ serves = AtRestNow /\ PollerFree /\ Lives(n) /\ us[n].watched
  /\ serves' = [what |-> "reads", n |-> n, kind |-> "read"]
  /\ UNCHANGED <<latest, ticks, us, connects, errTasks, strays>>

(* The callbacks that startConnect sets know their Socket.                  *)
(* Mutant: they do not compare it.                                          *)
HeardAlways(n) == n \in Tries
Heard(n) == n = latest

(* Datagrams that are not heard are read all the same, until none is left.  *)
TakePacket ==
  /\ serves.what = "reads" /\ PollerFree
  /\ LET n == serves.n
     IN \/ serves' = AtRestNow
        \/ Heard(n) /\ serves' = [serves EXCEPT !.what = "calls"]
  /\ UNCHANGED <<latest, ticks, us, connects, errTasks, strays>>

(* It ticks two seconds after startConnect, which has returned by then.     *)
Manager ==
  /\ serves = AtRestNow /\ connects = Nowhere /\ ticks # 0
  /\ serves' = [what |-> "calls", n |-> 0, kind |-> "manager"]
  /\ UNCHANGED <<latest, ticks, us, connects, errTasks, strays>>

(* shutdown: the timer goes at once, emitErr posts a task unless it did.    *)
EmitErr(n) ==
  /\ us' = [us EXCEPT ![n].errEmit = TRUE, ![n].stopped = TRUE]
  /\ errTasks' = IF us[n].errEmit THEN errTasks ELSE Append(errTasks, n)

UdpShutdown ==
  /\ MayCall /\ ticks' = 0 /\ EmitErr(latest)
  /\ UNCHANGED <<latest, connects, serves, strays>>

(* onRecvFrom throws: shutdown of whatever Socket the client now has.       *)
RecvThrows ==
  /\ InCallback /\ serves.kind = "read" /\ ticks' = 0 /\ EmitErr(latest)
  /\ serves' = [serves EXCEPT !.what = "reads"]
  /\ UNCHANGED <<latest, connects, strays>>

(* closeSock(false) deletes the events of the descriptor that setSock set.  *)
CloseEvents(n) ==
  us' = [us EXCEPT ![n].watched = @ /\ ~us[n].fd, ![n].early = ~us[n].fd, ![n].waiting = <<>>]

RunErr ==
  /\ serves = AtRestNow /\ PollerFree /\ errTasks # <<>>
  /\ errTasks' = Tail(errTasks)
  /\ LET n == errTasks[1]
     IN IF ~Lives(n) THEN UNCHANGED <<ticks, us, serves>>
        ELSE IF Heard(n)
        THEN /\ ticks' = 0 /\ us' = [us EXCEPT ![n].told = @ + 1]
             /\ serves' = [what |-> "calls", n |-> n, kind |-> "error"]
        ELSE CloseEvents(n) /\ UNCHANGED <<ticks, serves>>
  /\ UNCHANGED <<latest, connects, strays>>

CallbackReturns ==
  /\ InCallback
  /\ IF serves.kind = "error" THEN CloseEvents(serves.n) ELSE UNCHANGED us
  /\ serves' = IF serves.kind = "read" THEN [serves EXCEPT !.what = "reads"] ELSE AtRestNow
  /\ UNCHANGED <<latest, ticks, connects, errTasks, strays>>

UdpClientNext ==
  \/ FirstConnect \/ Reconnect \/ BindUdpSock \/ SetSock \/ SoftBind
  \/ \E peer \in UdpPeers : HardBind(peer)
  \/ \E addr \in UdpPeers \cup {NoAddr} : SendDatagram(addr)
  \/ \E n \in Tries : SetUdpRecvBuffer(n) \/ Leave(n) \/ Readable(n)
  \/ TakePacket \/ Manager \/ UdpShutdown \/ RecvThrows \/ RunErr \/ CallbackReturns

UdpClientSpec == UdpClientInit /\ [][UdpClientNext]_udpClientVars

-----------------------------------------------------------------------------
(* A datagram goes to the address it was sent to, or to the peer that was   *)
(* bound last, however soft and hard binds and Sockets followed each other  *)
(* (Socket.cpp:404-421, 1008-1034).                                         *)
SentWhereMeant == ~strays

(* What an old Socket still has to tell does not touch the connection that  *)
(* followed it: its timer runs until it fails or is shut down, it is told   *)
(* of an error once and hears nothing after it (UdpClient.cpp:46-87), save  *)
(* when the error came before setSock.                                      *)
OldSocketIgnored ==
  /\ connects = Nowhere /\ latest # 0 =>
       /\ ticks \in {0, latest}
       /\ ticks = 0 => us[latest].stopped
  /\ \A n \in Tries :
       /\ us[n].told <= 1
       /\ us[n].told = 1 /\ serves # [what |-> "calls", n |-> n, kind |-> "error"] =>
            us[n].early \/ ~us[n].watched \/ ~Lives(n)

(* A receive buffer that setUdpRecvBuffer accepted is the one that is read  *)
(* into (Socket.cpp:279-286, 1040-1053).                                    *)
AcceptedBufferUsed ==
  \A n \in Tries : us[n].watched => us[n].used = us[n].buffer

(* UdpClient: datagrams go where they were meant to go, the Sockets that    *)
(* were replaced are ignored, and an accepted buffer is the one in use.     *)
UdpClientServed == SentWhereMeant /\ OldSocketIgnored /\ AcceptedBufferUsed

=============================================================================
