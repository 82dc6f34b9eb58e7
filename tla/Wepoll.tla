------------------------------- MODULE Wepoll -------------------------------
(***************************************************************************)
(* The epoll of Windows (src/src/win32/wepoll.c): an epoll port made of an *)
(* I/O completion port and of one AFD poll request per socket.  A request  *)
(* cannot be changed: to wait for more events it is cancelled, and a new   *)
(* one is submitted when its completion has been fed.  A socket's state is *)
(* freed when no request of it is outstanding.  The queues of states are   *)
(* sets: each is only ever emptied, in whatever order.  AFD may refuse a   *)
(* request or its cancelling: the state and those behind it stay queued,   *)
(* and where nobody looks at the result they are kept in `unserved'.       *)
(***************************************************************************)
EXTENDS Naturals, Sequences, FiniteSets, SequencesExt

CONSTANTS
  EpollThreads,
  NoThread,
  Handles,     \* SOCKET values
  SockStates,  \* addresses of sock_state_t
  PollGroups,  \* addresses of poll_group_t
  Null,        \* no address
  GroupSize,   \* POLL_GROUP__MAX_GROUP_SIZE (32)
  Wanted,      \* the event masks users pass to epoll_ctl
  Conditions,  \* what sockets may get ready for: "IN", "OUT", "HUP"
  MaxCtls      \* bound on calls of epoll_ctl

ASSUME EpollAssumption ==
  /\ IsFiniteSet(SockStates) /\ GroupSize \in Nat \ {0} /\ MaxCtls \in Nat
  /\ NoThread \notin EpollThreads /\ Null \notin SockStates \cup PollGroups \cup Handles
  /\ Conditions \subseteq {"IN", "OUT", "HUP"}
  /\ \A mask \in Wanted : mask \subseteq {"IN", "OUT", "HUP", "ONESHOT"}

Events == {"IN", "OUT", "HUP"}  \* HUP stands for EPOLLHUP and EPOLLERR
Known(mask) == mask \ {"ONESHOT"}  \* SOCK__KNOWN_EPOLL_EVENTS

VARIABLES
  port,      \* port_state_t: see PortInit
  polls,     \* events of the outstanding request of a state, {} when none
  packets,   \* the completion port's queue: [of, events], {} when cancelled
  ready,     \* conditions of each socket; "CLOSE" once it is closed
  at,        \* where each thread is in epoll_wait, epoll_ctl or epoll_close
  dequeued,  \* the packets a thread has taken and not fed
  hasEvents, \* whether this epoll_wait has events to return
  unserved,  \* states that a failing update left in sock_update_queue
  portLock,  \* owner of port_state->lock
  ephnd,     \* "open", "closed" (out of the handle tree, no IOCP), "deleted"
  ctls

epollVars == <<port, polls, packets, ready, at, dequeued, hasEvents, unserved, portLock, ephnd, ctls>>

FreeSock == [sock |-> Null, status |-> "free", user |-> {}, pending |-> {}, group |-> Null]

PortInit == [tree |-> [h \in Handles |-> Null],
             socks |-> [s \in SockStates |-> FreeSock],
             deleted |-> {},                 \* states with delete_pending
             updates |-> {}, doomed |-> {},  \* sock_update_queue, sock_deleted_queue
             groups |-> <<>>, sizes |-> [g \in PollGroups |-> 0],
             cancel |-> Null]                \* whose request this step cancels

EpollInit ==
  /\ port = PortInit /\ polls = [s \in SockStates |-> {}] /\ packets = <<>>
  /\ ready = [h \in Handles |-> {}]
  /\ at = [t \in EpollThreads |-> "out"] /\ dequeued = [t \in EpollThreads |-> <<>>]
  /\ hasEvents = [t \in EpollThreads |-> FALSE]
  /\ unserved = {} /\ portLock = NoThread /\ ephnd = "open" /\ ctls = 0

Allocated(p) == {s \in SockStates : p.socks[s].status # "free"}
Polling == {t \in EpollThreads : at[t] \in {"blocked", "woken"}}  \* active_poll_count of them
Inside == {t \in EpollThreads : at[t] # "out"}  \* references of the reflock

-----------------------------------------------------------------------------
(* Poll groups: full ones first, so that the last one has room if any has   *)

Detached(q, g) ==
  IF g \in ToSet(q) THEN RemoveAt(q, CHOOSE i \in DOMAIN q : q[i] = g) ELSE q

LastHasRoom(p) == p.groups # <<>> /\ p.sizes[Last(p.groups)] < GroupSize

GroupFor(p) ==
  IF LastHasRoom(p) THEN Last(p.groups) ELSE CHOOSE g \in PollGroups : g \notin ToSet(p.groups)

(* There is memory for a group, or one with room.                           *)
HasGroup(p) == LastHasRoom(p) \/ \E g \in PollGroups : g \notin ToSet(p.groups)

Acquire(p) ==
  LET group == GroupFor(p)
      others == Detached(p.groups, group)
  IN [p EXCEPT !.sizes[group] = @ + 1,
               !.groups = IF p.sizes[group] + 1 = GroupSize THEN <<group>> \o others
                          ELSE Append(others, group)]

ReleaseGroup(p, group) ==
  [p EXCEPT !.sizes[group] = @ - 1, !.groups = Append(Detached(@, group), group)]

-----------------------------------------------------------------------------
(* Socket states                                                            *)

RequestUpdate(p, s) == [p EXCEPT !.updates = @ \cup {s}]
CancelUpdate(p, s) == [p EXCEPT !.updates = @ \ {s}]

CancelPoll(p, s) ==
  [p EXCEPT !.socks[s].status = "cancelled", !.socks[s].pending = {}, !.cancel = s]

FreeState(p, s) ==
  [ReleaseGroup(p, p.socks[s].group) EXCEPT !.socks[s] = FreeSock, !.deleted = @ \ {s},
                                            !.doomed = @ \ {s}]

Unregister(p, s) ==
  LET q == IF p.socks[s].status = "pending" THEN CancelPoll(p, s) ELSE p
  IN [CancelUpdate(q, s) EXCEPT !.tree[p.socks[s].sock] = Null, !.deleted = @ \cup {s}]

(* Mutant: does not wait for the outstanding request.                       *)
DeleteStateNow(p, s) == FreeState(IF s \in p.deleted THEN p ELSE Unregister(p, s), s)

DeleteState(p, s) ==
  LET q == IF s \in p.deleted THEN p ELSE Unregister(p, s)
  IN IF q.socks[s].status = "idle" THEN FreeState(q, s) ELSE [q EXCEPT !.doomed = @ \cup {s}]

(* sock__delete goes on when its cancelling fails.                          *)
DeleteUncancelled(p, s) ==
  [CancelUpdate(p, s) EXCEPT !.tree[p.socks[s].sock] = Null, !.deleted = @ \cup {s},
                             !.doomed = @ \cup {s}]

SetEvent(p, s, mask) ==
  LET user == mask \cup {"HUP"}
      q == [p EXCEPT !.socks[s].user = user]
  IN IF Known(user) \ p.socks[s].pending # {} THEN RequestUpdate(q, s) ELSE q

New(p, s, h) ==
  [Acquire(p) EXCEPT !.tree[h] = s,
     !.socks[s] = [sock |-> h, status |-> "idle", user |-> {}, pending |-> {},
                   group |-> GroupFor(p)]]

Submits(p, s) == p.socks[s].status = "idle" /\ "CLOSE" \notin ready[p.socks[s].sock]

Update(p, s) ==
  LET r == p.socks[s]
      fits == Known(r.user) \subseteq r.pending
  IN IF r.status = "idle" /\ ~Submits(p, s) THEN DeleteState(p, s)  \* ERROR_INVALID_HANDLE
     ELSE CancelUpdate(
            IF r.status = "pending" /\ ~fits THEN CancelPoll(p, s)
            ELSE IF r.status = "idle"
                 THEN [p EXCEPT !.socks[s].status = "pending", !.socks[s].pending = r.user]
                 ELSE p, s)

(* AFD refuses the request (any error but that of a closed socket), or the  *)
(* cancelling of one that is not over.                                      *)
CanFail(p, s) ==
  LET r == p.socks[s]
  IN r.status = "idle" \/ (r.status = "pending" /\ ~(Known(r.user) \subseteq r.pending) /\ polls[s] # {})

Reported(p, packet) == packet.events \cap p.socks[packet.of].user

(* Mutant: a request that ended without an event is not renewed.            *)
FeedOnly(p, packet) ==
  LET s == packet.of
      q == [p EXCEPT !.socks[s].status = "idle", !.socks[s].pending = {}]
  IN IF s \in q.deleted \/ "CLOSE" \in packet.events THEN DeleteState(q, s)
     ELSE IF Reported(p, packet) # {} THEN RequestUpdate(q, s) ELSE q

Feed(p, packet) ==
  LET s == packet.of
      q == [p EXCEPT !.socks[s].status = "idle", !.socks[s].pending = {}]
      r == RequestUpdate(q, s)
  IN IF s \in q.deleted \/ "CLOSE" \in packet.events THEN DeleteState(q, s)
     ELSE IF Reported(p, packet) # {} /\ "ONESHOT" \in p.socks[s].user
          THEN [r EXCEPT !.socks[s].user = {}] ELSE r

(* A step's new port: a request it cancels completes at once, unless it had *)
(* already completed.                                                       *)
SetPort(p, submitted) ==
  /\ port' = [p EXCEPT !.cancel = Null] /\ unserved' = unserved \cap p.updates
  /\ polls' = [s \in SockStates |->
                 IF s = p.cancel THEN {}
                 ELSE IF s \in submitted THEN Known(p.socks[s].pending) \cup {"CLOSE"} ELSE polls[s]]
  /\ packets' = IF p.cancel # Null /\ polls[p.cancel] # {}
                THEN Append(packets, [of |-> p.cancel, events |-> {}]) ELSE packets

-----------------------------------------------------------------------------
(* epoll_ctl and epoll_wait: the lock is held between Lock and Block, from  *)
(* Relock to Block or Return, and from an epoll_ctl to its Return           *)

Ctl(t, p) ==
  /\ at[t] = "out" /\ ephnd = "open" /\ portLock = NoThread /\ ctls < MaxCtls
  /\ ctls' = ctls + 1
  /\ SetPort(p, {})
  /\ UNCHANGED <<ready, dequeued, hasEvents, ephnd>>

CtlAdd(t, h, mask) ==
  /\ HasGroup(port)
  /\ IF port.tree[h] # Null
     THEN /\ Ctl(t, ReleaseGroup(Acquire(port), GroupFor(port)))  \* ERROR_ALREADY_EXISTS
          /\ UNCHANGED <<at, portLock>>
     ELSE /\ "CLOSE" \notin ready[h]  \* ws_get_base_socket fails
          /\ \E s \in SockStates \ Allocated(port) : Ctl(t, SetEvent(New(port, s, h), s, mask))
          /\ at' = [at EXCEPT ![t] = "finish"] /\ portLock' = t

CtlMod(t, h, mask) ==
  /\ port.tree[h] # Null
  /\ Ctl(t, SetEvent(port, port.tree[h], mask))
  /\ at' = [at EXCEPT ![t] = "finish"] /\ portLock' = t

CtlDel(t, h) ==
  /\ port.tree[h] # Null
  /\ LET s == port.tree[h]
     IN \/ Ctl(t, DeleteState(port, s))
        \/ polls[s] # {} /\ Ctl(t, DeleteUncancelled(port, s))
  /\ UNCHANGED <<at, portLock>>

Wait(t) ==
  /\ at[t] = "out" /\ ephnd = "open"
  /\ at' = [at EXCEPT ![t] = "enter"] /\ hasEvents' = [hasEvents EXCEPT ![t] = FALSE]
  /\ UNCHANGED <<port, polls, packets, ready, dequeued, unserved, portLock, ephnd, ctls>>

Lock(t) ==
  /\ at[t] = "enter" /\ portLock = NoThread
  /\ at' = [at EXCEPT ![t] = "update"] /\ portLock' = t
  /\ UNCHANGED <<port, polls, packets, ready, dequeued, hasEvents, unserved, ephnd, ctls>>

UpdateNext(t) ==
  /\ at[t] = "update" \/ (at[t] = "finish" /\ Polling # {})
  /\ \E s \in port.updates : SetPort(Update(port, s), IF Submits(port, s) THEN {s} ELSE {})
  /\ UNCHANGED <<ready, at, dequeued, hasEvents, portLock, ephnd, ctls>>

(* sock_update returns an error and the walk stops: epoll_wait returns it,  *)
(* at the end of a call it is dropped.                                      *)
UpdateFails(t) ==
  /\ \E s \in port.updates : CanFail(port, s)
  /\ \/ at[t] = "update" /\ at' = [at EXCEPT ![t] = "finish"] /\ UNCHANGED portLock
     \/ /\ at[t] = "finish" /\ Polling # {}
        /\ at' = [at EXCEPT ![t] = "out"] /\ portLock' = NoThread
  /\ unserved' = port.updates
  /\ UNCHANGED <<port, polls, packets, ready, dequeued, hasEvents, ephnd, ctls>>

Block(t) ==
  /\ at[t] = "update" /\ port.updates = {}
  /\ at' = [at EXCEPT ![t] = "blocked"] /\ portLock' = NoThread
  /\ UNCHANGED <<port, polls, packets, ready, dequeued, hasEvents, unserved, ephnd, ctls>>

(* GetQueuedCompletionStatusEx: packets, a timeout, or a closed port.       *)
Dequeue(t) ==
  /\ at[t] = "blocked"
  /\ IF ephnd = "open" /\ packets # <<>>
     THEN \E n \in 1 .. Len(packets) :
            /\ dequeued' = [dequeued EXCEPT ![t] = SubSeq(packets, 1, n)]
            /\ packets' = SubSeq(packets, n + 1, Len(packets))
     ELSE UNCHANGED <<dequeued, packets>>
  /\ at' = [at EXCEPT ![t] = "woken"]
  /\ UNCHANGED <<port, polls, ready, hasEvents, unserved, portLock, ephnd, ctls>>

Relock(t) ==
  /\ at[t] = "woken" /\ portLock = NoThread
  /\ at' = [at EXCEPT ![t] = IF dequeued[t] = <<>> THEN "finish" ELSE "feed"]
  /\ portLock' = t
  /\ UNCHANGED <<port, polls, packets, ready, dequeued, hasEvents, unserved, ephnd, ctls>>

FeedNext(t) ==
  /\ at[t] = "feed" /\ dequeued[t] # <<>>
  /\ LET packet == Head(dequeued[t])
     IN /\ SetPort(Feed(port, packet), {})
        /\ hasEvents' = [hasEvents EXCEPT ![t] = @ \/ (/\ packet.of \notin port.deleted
                                             /\ "CLOSE" \notin packet.events
                                             /\ Reported(port, packet) # {})]
  /\ dequeued' = [dequeued EXCEPT ![t] = Tail(@)]
  /\ UNCHANGED <<ready, at, portLock, ephnd, ctls>>

FeedDone(t) ==
  /\ at[t] = "feed" /\ dequeued[t] = <<>>
  /\ at' \in {[at EXCEPT ![t] = next] : next \in {"finish"} \cup IF hasEvents[t] THEN {} ELSE {"update"}}
  /\ UNCHANGED <<port, polls, packets, ready, dequeued, hasEvents, unserved, portLock, ephnd, ctls>>

Return(t) ==
  /\ at[t] = "finish" /\ (port.updates = {} \/ Polling = {})
  /\ at' = [at EXCEPT ![t] = "out"] /\ portLock' = NoThread
  /\ UNCHANGED <<port, polls, packets, ready, dequeued, hasEvents, unserved, ephnd, ctls>>

-----------------------------------------------------------------------------
(* epoll_close, and the sockets                                             *)

EpollClose(t) ==
  /\ at[t] = "out" /\ ephnd = "open" /\ portLock = NoThread
  /\ ephnd' = "closed" /\ at' = [at EXCEPT ![t] = "close"]
  /\ UNCHANGED <<port, polls, packets, ready, dequeued, hasEvents, unserved, portLock, ctls>>

(* reflock_unref_and_destroy waits for the other threads; port_delete then  *)
(* frees what the tree and sock_deleted_queue hold, outstanding or not.     *)
PortDelete(t) ==
  /\ at[t] = "close" /\ Inside = {t}
  /\ LET held == port.doomed \cup {port.tree[h] : h \in Handles}
     IN port' = [port EXCEPT
          !.tree = [h \in Handles |-> Null], !.doomed = {},
          !.socks = [s \in SockStates |-> IF s \in held THEN FreeSock ELSE @[s]],
          !.updates = @ \ held, !.deleted = @ \ held, !.groups = <<>>,
          !.sizes = [g \in PollGroups |-> @[g] - Cardinality({s \in held \cap SockStates : port.socks[s].group = g})]]
  /\ polls' = [s \in SockStates |-> {}] /\ packets' = <<>> /\ unserved' = {}
  /\ ephnd' = "deleted" /\ at' = [at EXCEPT ![t] = "out"]
  /\ UNCHANGED <<ready, dequeued, hasEvents, portLock, ctls>>

Others == <<port, at, dequeued, hasEvents, unserved, portLock, ephnd, ctls>>

BecomesReady(h, event) ==
  /\ "CLOSE" \notin ready[h]
  /\ ready' = [ready EXCEPT ![h] = @ \cup {event}]
  /\ UNCHANGED <<Others, polls, packets>>

IsRead(h) ==
  /\ ready' = [ready EXCEPT ![h] = @ \ {"IN", "OUT"}]
  /\ UNCHANGED <<Others, polls, packets>>

(* The driver completes a request when one of its events is there.          *)
Complete(s) ==
  /\ polls[s] # {}
  /\ LET events == polls[s] \cap ready[port.socks[s].sock]
     IN events # {} /\ packets' = Append(packets, [of |-> s, events |-> events])
  /\ polls' = [polls EXCEPT ![s] = {}]
  /\ UNCHANGED <<Others, ready>>

CloseSocket(h) ==
  /\ "CLOSE" \notin ready[h]
  /\ ready' = [ready EXCEPT ![h] = {"CLOSE"}]
  /\ UNCHANGED <<Others, polls, packets>>

(* closesocket completes every request of the socket; Windows gives its     *)
(* value to a new one.                                                      *)
Reopen(h) ==
  /\ "CLOSE" \in ready[h]
  /\ \A s \in SockStates : polls[s] # {} => port.socks[s].sock # h
  /\ ready' = [ready EXCEPT ![h] = {}]
  /\ UNCHANGED <<Others, polls, packets>>

EpollNext ==
  \/ \E t \in EpollThreads :
       \/ Wait(t) \/ Lock(t) \/ UpdateNext(t) \/ UpdateFails(t) \/ Block(t) \/ Dequeue(t)
       \/ Relock(t) \/ FeedNext(t) \/ FeedDone(t) \/ Return(t) \/ EpollClose(t) \/ PortDelete(t)
       \/ \E h \in Handles : CtlDel(t, h) \/ \E mask \in Wanted : CtlAdd(t, h, mask)
                                                              \/ CtlMod(t, h, mask)
  \/ \E h \in Handles :
       CloseSocket(h) \/ Reopen(h) \/ IsRead(h) \/ \E event \in Conditions : BecomesReady(h, event)
  \/ \E s \in SockStates : Complete(s)

EpollSpec == EpollInit /\ [][EpollNext]_epollVars

-----------------------------------------------------------------------------
(* Properties                                                               *)

EpollTypeOK ==
  /\ \A s \in SockStates : polls[s] \subseteq Events \cup {"CLOSE"}
  /\ \A i \in DOMAIN packets : packets[i].of \in SockStates
  /\ portLock \in EpollThreads \cup {NoThread} /\ ephnd \in {"open", "closed", "deleted"}

(* A completion of s waits in the port's queue or in a thread's hands.      *)
Completed(s) ==
  \/ \E i \in DOMAIN packets : packets[i].of = s
  \/ \E t \in EpollThreads : \E i \in DOMAIN dequeued[t] : dequeued[t][i].of = s

(* A thread that blocks in epoll_wait hears of every registered socket:     *)
(* each has a request for all it is registered for, or a completion on its  *)
(* way, after which the request is renewed; epoll_ctl of another thread     *)
(* reaches the thread already blocked.  Only what an update that failed     *)
(* left behind waits for the next epoll_ctl or epoll_wait: the error was    *)
(* returned by epoll_wait, or ignored (wepoll.c:1062-1065).                 *)
WaitersAreArmed ==
  (ephnd = "open" /\ portLock = NoThread /\ \E t \in EpollThreads : at[t] = "blocked") =>
    \A s \in Allocated(port) \ port.deleted :
      Known(port.socks[s].user) \subseteq polls[s] \/ Completed(s) \/ s \in unserved

(* While the port lives, the state of a socket is freed once, after the     *)
(* completion of its last request was fed, and never lost: until then it is *)
(* in the tree or in sock_deleted_queue, and its group counts it.           *)
(* port_delete frees the others by force, their requests outstanding or     *)
(* not, and leaves none.  A state that was deleted is not updated any more  *)
(* (the assertion of sock_update, wepoll.c:1595), and a group with room is  *)
(* last.                                                                    *)
FreedAfterCompletion ==
  /\ ephnd # "deleted" =>
       /\ \A s \in SockStates : polls[s] # {} \/ Completed(s) => s \in Allocated(port)
       /\ \A s \in Allocated(port) : s \in port.doomed <=> port.tree[port.socks[s].sock] # s
       /\ \A g \in PollGroups :
            port.sizes[g] = Cardinality({s \in Allocated(port) : port.socks[s].group = g})
  /\ ephnd = "deleted" =>
       /\ Allocated(port) = {} /\ port.updates = {}
       /\ \A g \in PollGroups : port.sizes[g] = 0
  /\ port.updates \cap port.deleted = {}
  /\ \A i \in DOMAIN port.groups : port.sizes[port.groups[i]] < GroupSize => LastHasRoom(port)

(* wepoll: who waits is armed, and before port_delete no state is freed     *)
(* while the kernel or a completion refers to it.                           *)
WaitersServed == WaitersAreArmed /\ FreedAfterCompletion
=============================================================================
