------------------------------ MODULE UdpServer ------------------------------
(***************************************************************************)
(* A UdpServer with its clones (src/src/Network/UdpServer.cpp).  Each      *)
(* poller has a descriptor bound to the port; the first packet of a peer   *)
(* makes a session, with a connected descriptor, on a poller of its own,   *)
(* in a map all servers share under _session_mutex.  The kernel may give a *)
(* packet to any descriptor of the port, also to that of another peer.     *)
(***************************************************************************)
EXTENDS Naturals, Sequences

CONSTANTS
  Loops,      \* pollers
  Peers,
  Packets,    \* what the peers send
  PeerOf,     \* of each packet
  UdpSessions, NoSession

ASSUME UdpAssumption ==
  PeerOf \in [Packets -> Peers] /\ NoSession \notin UdpSessions

VARIABLES
  fate,      \* of each packet: see Fates
  readBy,    \* of each consumed packet, the poller that called onRecv
  session,   \* of each session: see Free
  sessionOf, \* _session_map
  loopTasks, \* of each poller, its task list
  erasures,  \* timers of kUdpDelayCloseMS, by the peer they will erase
  refused,   \* peers for whom createSocket returned no socket once
  server     \* the main UdpServer exists

udpVars == <<fate, readBy, session, sessionOf, loopTasks, erasures, refused, server>>

Fates == {"unsent", "carried", "consumed", "dropped"}
(* `enable' of the SessionHelper; `failed': onErr of its Socket ran.        *)
Free == [peer |-> "none", home |-> "none", enable |-> FALSE, failed |-> FALSE]

UdpInit ==
  /\ fate = [k \in Packets |-> "unsent"] /\ readBy = [k \in Packets |-> "none"]
  /\ session = [s \in UdpSessions |-> Free]
  /\ sessionOf = [x \in Peers |-> NoSession]
  /\ loopTasks = [p \in Loops |-> <<>>] /\ erasures = {} /\ refused = {}
  /\ server = TRUE

Post(ts, p, task) == [ts EXCEPT ![p] = Append(@, task)]
InMap(s) == \E x \in Peers : sessionOf[x] = s
(* A SessionHelper lives in the map, or in a task that holds it.            *)
Alive(s) ==
  InMap(s) \/ \E p \in Loops : \E i \in 1 .. Len(loopTasks[p]) :
                LET t == loopTasks[p][i] IN t.kind = "emit" /\ t.ses = s /\ t.strong

-----------------------------------------------------------------------------
(* emitSessionRecv.                                                         *)
Emit(k, s, p) ==
  IF session[s].enable
  THEN /\ fate' = [fate EXCEPT ![k] = "consumed"]
       /\ readBy' = [readBy EXCEPT ![k] = p]
  ELSE /\ fate' = [fate EXCEPT ![k] = "dropped"]
       /\ UNCHANGED readBy

Drop(k) == fate' = [fate EXCEPT ![k] = "dropped"] /\ UNCHANGED readBy

(* On the session's poller at once, on another one as a task.               *)
HandOver(k, s, p, strong, ts) ==
  IF session[s].home = p
  THEN Emit(k, s, p) /\ loopTasks' = ts
  ELSE /\ loopTasks' = Post(ts, session[s].home,
                            [kind |-> "emit", pkt |-> k, ses |-> s, strong |-> strong])
       /\ fate' = [fate EXCEPT ![k] = "carried"]
       /\ UNCHANGED readBy

(* Mutant: the map is not looked at again.                                  *)
CreatorBlind(k, p, strong, ts) ==
  \E s \in {r \in UdpSessions : session[r] = Free} :
    /\ session' = [session EXCEPT ![s] = [peer |-> PeerOf[k], home |-> p,
                                          enable |-> TRUE, failed |-> FALSE]]
    /\ sessionOf' = [sessionOf EXCEPT ![PeerOf[k]] = IF @ = NoSession THEN s ELSE @]
    /\ fate' = [fate EXCEPT ![k] = "consumed"] /\ readBy' = [readBy EXCEPT ![k] = p]
    /\ loopTasks' = ts

(* helper_creator on p, and what its caller does with the packet: another   *)
(* poller may have made the session meanwhile.                              *)
Creator(k, p, strong, ts) ==
  IF sessionOf[PeerOf[k]] # NoSession
  THEN HandOver(k, sessionOf[PeerOf[k]], p, strong, ts) /\ UNCHANGED <<session, sessionOf>>
  ELSE \E s \in {r \in UdpSessions : session[r] = Free} :
         /\ session' = [session EXCEPT ![s] = [peer |-> PeerOf[k], home |-> p,
                                               enable |-> TRUE, failed |-> FALSE]]
         /\ sessionOf' = [sessionOf EXCEPT ![PeerOf[k]] = s]
         /\ fate' = [fate EXCEPT ![k] = "consumed"] /\ readBy' = [readBy EXCEPT ![k] = p]
         /\ loopTasks' = ts

(* onRead_l on p, for a peer that has a session.                            *)
ReadKnown(k, p) ==
  /\ fate[k] = "unsent" /\ server
  /\ sessionOf[PeerOf[k]] # NoSession
  /\ HandOver(k, sessionOf[PeerOf[k]], p, FALSE, loopTasks)
  /\ UNCHANGED <<session, sessionOf, erasures, refused, server>>

(* For a new peer: its Socket may belong to the same poller, or another.    *)
ReadNew(k, p) ==
  /\ fate[k] = "unsent" /\ server
  /\ sessionOf[PeerOf[k]] = NoSession
  /\ \/ Creator(k, p, FALSE, loopTasks)
     \/ \E q \in Loops \ {p} :
          /\ loopTasks' = Post(loopTasks, q, [kind |-> "create", pkt |-> k])
          /\ fate' = [fate EXCEPT ![k] = "carried"]
          /\ UNCHANGED <<readBy, session, sessionOf>>
  /\ UNCHANGED <<erasures, refused, server>>

(* createSocket of the user returned no socket.                             *)
ReadRefused(k) ==
  /\ fate[k] = "unsent" /\ server
  /\ sessionOf[PeerOf[k]] = NoSession
  /\ Drop(k)
  /\ refused' = refused \cup {PeerOf[k]}
  /\ UNCHANGED <<session, sessionOf, loopTasks, erasures, server>>

(* The read callback of the session's own Socket, for its own peer.         *)
ReadOwn(k, s) ==
  /\ fate[k] = "unsent" /\ server
  /\ session[s].peer = PeerOf[k] /\ ~session[s].failed /\ Alive(s)
  /\ Emit(k, s, session[s].home)
  /\ UNCHANGED <<session, sessionOf, loopTasks, erasures, refused, server>>

-----------------------------------------------------------------------------
(* Tasks of a poller.                                                       *)

Next1(p, kind) == loopTasks[p] # <<>> /\ Head(loopTasks[p]).kind = kind
Popped(p) == [loopTasks EXCEPT ![p] = Tail(@)]

(* Mutant: the packet is for the creator of the session only.               *)
CreateForSelf(p) ==
  /\ Next1(p, "create")
  /\ LET k == Head(loopTasks[p]).pkt
     IN  IF ~server \/ sessionOf[PeerOf[k]] # NoSession
         THEN Drop(k) /\ loopTasks' = Popped(p) /\ UNCHANGED <<session, sessionOf>>
         ELSE Creator(k, p, TRUE, Popped(p))
  /\ UNCHANGED <<erasures, refused, server>>

RunCreate(p) ==
  /\ Next1(p, "create")
  /\ LET k == Head(loopTasks[p]).pkt
     IN  IF ~server
         THEN Drop(k) /\ loopTasks' = Popped(p) /\ UNCHANGED <<session, sessionOf>>
         ELSE Creator(k, p, TRUE, Popped(p))
  /\ UNCHANGED <<erasures, refused, server>>

RunEmit(p) ==
  /\ Next1(p, "emit")
  /\ LET t == Head(loopTasks[p])
     IN  IF t.strong \/ Alive(t.ses) THEN Emit(t.pkt, t.ses, p) ELSE Drop(t.pkt)
  /\ loopTasks' = Popped(p)
  /\ UNCHANGED <<session, sessionOf, erasures, refused, server>>

(* onManager, from a copy of the map: the session may have failed since.    *)
RunManage(p) ==
  /\ Next1(p, "manage")
  /\ loopTasks' = Popped(p)
  /\ UNCHANGED <<fate, readBy, session, sessionOf, erasures, refused, server>>

(* onManagerSession, which posts its lambda to every poller.                *)
ManageSessions ==
  /\ server /\ \E x \in Peers : sessionOf[x] # NoSession
  /\ \A p \in Loops : \A i \in 1 .. Len(loopTasks[p]) : loopTasks[p][i].kind # "manage"
  /\ loopTasks' = [p \in Loops |-> Append(loopTasks[p], [kind |-> "manage"])]
  /\ UNCHANGED <<fate, readBy, session, sessionOf, erasures, refused, server>>

-----------------------------------------------------------------------------
(* onErr of a session's Socket.                                             *)
OnErrUdp(s) ==
  /\ session' = [session EXCEPT ![s].enable = FALSE, ![s].failed = TRUE]
  /\ erasures' = IF server THEN erasures \cup {session[s].peer} ELSE erasures
  /\ UNCHANGED sessionOf

(* An error, a shutdown by the user or by onManager; once per Socket.       *)
SessionFails(s) ==
  /\ Alive(s) /\ ~session[s].failed
  /\ OnErrUdp(s)
  /\ UNCHANGED <<fate, readBy, loopTasks, refused, server>>

(* The timer of onErr erases by the peer's id.                              *)
EraseLater(x) ==
  /\ x \in erasures
  /\ erasures' = erasures \ {x}
  /\ sessionOf' = IF server THEN [sessionOf EXCEPT ![x] = NoSession] ELSE sessionOf
  /\ UNCHANGED <<fate, readBy, session, loopTasks, refused, server>>

(* ~UdpServer of the main server: the map is cleared, and what the tasks    *)
(* still hold finds no server any more.                                     *)
Stop ==
  /\ server
  /\ server' = FALSE
  /\ sessionOf' = [x \in Peers |-> NoSession]
  /\ UNCHANGED <<fate, readBy, session, loopTasks, erasures, refused>>

-----------------------------------------------------------------------------
UdpTask(p) == RunCreate(p) \/ RunEmit(p) \/ RunManage(p)

UdpNext ==
  \/ \E p \in Loops :
       UdpTask(p) \/ \E k \in Packets : ReadKnown(k, p) \/ ReadNew(k, p)
  \/ \E k \in Packets : ReadRefused(k) \/ \E s \in UdpSessions : ReadOwn(k, s)
  \/ \E s \in UdpSessions : SessionFails(s)
  \/ \E x \in Peers : EraseLater(x)
  \/ ManageSessions \/ Stop

UdpSpec == UdpInit /\ [][UdpNext]_udpVars

-----------------------------------------------------------------------------
(* Properties.                                                              *)

UdpTypeOK ==
  /\ fate \in [Packets -> Fates] /\ readBy \in [Packets -> Loops \cup {"none"}]
  /\ \A s \in UdpSessions : /\ session[s].peer \in Peers \cup {"none"}
                            /\ session[s].home \in Loops \cup {"none"}
                            /\ {session[s].enable, session[s].failed} \subseteq BOOLEAN
  /\ sessionOf \in [Peers -> UdpSessions \cup {NoSession}]
  /\ \A p \in Loops : \A i \in 1 .. Len(loopTasks[p]) :
       loopTasks[p][i].kind \in {"create", "emit", "manage"}
  /\ erasures \subseteq Peers /\ refused \subseteq Peers /\ server \in BOOLEAN

(* However many pollers see the first packets of a peer at once, it has one *)
(* working session, which the map knows: neither a second creation nor the  *)
(* erasure that a failed session left behind replaces it, and a failed one  *)
(* does not keep its peer out for ever (helper_creator's second look, and   *)
(* onErr's erase by id three seconds later).                                *)
OneSessionPerPeer ==
  \A s \in UdpSessions :
    server =>
      /\ session[s].enable => sessionOf[session[s].peer] = s
      /\ InMap(s) /\ session[s].failed => session[s].peer \in erasures

IsFor(task, k) == task.kind # "manage" /\ task.pkt = k

(* A packet is for its peer's session on that session's thread, and none    *)
(* is discarded while the server is up, unless a session of the peer failed *)
(* or no socket was to be had (createSession: "this data cannot be          *)
(* discarded").                                                             *)
PacketsReachSession ==
  \A k \in Packets :
    /\ fate[k] = "consumed" =>
         \E s \in UdpSessions : session[s].peer = PeerOf[k] /\ session[s].home = readBy[k]
    /\ fate[k] = "dropped" /\ server =>
         \/ PeerOf[k] \in refused
         \/ \E s \in UdpSessions : session[s].peer = PeerOf[k] /\ session[s].failed
    /\ fate[k] = "carried" =>
         \E p \in Loops : \E i \in 1 .. Len(loopTasks[p]) :
           /\ IsFor(loopTasks[p][i], k)
           /\ \A q \in Loops : \A j \in 1 .. Len(loopTasks[q]) :
                IsFor(loopTasks[q][j], k) => q = p /\ j = i

(* Two clones that see one new peer at the same time make one session of    *)
(* it, and what the peer sent to a living session is handled there, on the  *)
(* session's own poller.                                                    *)
PeersServed == OneSessionPerPeer /\ PacketsReachSession

=============================================================================
