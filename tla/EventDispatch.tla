--------------------------- MODULE EventDispatch ---------------------------
(***************************************************************************)
(* Registration and dispatch of file events: addEvent, delEvent and the    *)
(* epoll loop of EventPoller, with the descriptors of SockFD and SockNum   *)
(* (src/src/Poller/EventPoller.cpp, src/src/Network/Socket.{h,cpp}).       *)
(*                                                                         *)
(* Descriptor numbers are reused by the system as soon as a file closes,   *)
(* while events of the old file may still be waiting in the batch that     *)
(* epoll_wait returned.  A call from another thread goes through the task  *)
(* list; the same call on the loop thread takes effect at once.            *)
(***************************************************************************)
EXTENDS Naturals, Sequences

CONSTANTS
  Socks,       \* sockets, each opened at most once
  Fds,         \* descriptor numbers
  None,        \* no socket, no number
  Pipe,        \* the event of the wake pipe
  EarlyClose   \* whether the loop thread may destroy a SockFD whose addEvent,
               \* called by another thread, is still in the task list

ASSUME SockAssumption == None \notin Socks \cup Fds /\ Pipe \notin Socks
ASSUME EarlyAssumption == EarlyClose \in BOOLEAN

VARIABLES
  phase,     \* of a socket's SockFD: "new", "open", "detached" (delEvent called,
             \* number kept) or "destroyed"
  fdOf,      \* the descriptor number of a socket's file
  eventMap,  \* _event_map: whose callback is registered for a number
  interest,  \* files registered with epoll
  ready,     \* registered files with an edge to report
  expired,   \* _event_cache_expired
  batch,     \* what epoll_wait returned and the loop has not handled
  tasks,     \* the task list: queued addEvent and delEvent
  running,   \* the part of it onPipeEvent has taken
  pc,        \* where the loop is
  event,     \* the file whose event is being handled
  current    \* the callback being run (its socket)

eventVars == <<phase, fdOf, eventMap, interest, ready, expired, batch, tasks, running, pc,
          event, current>>
loopVars == <<expired, batch, running, pc, event, current>>

Op == [op : {"add", "del"}, sock : Socks]
In(queue, op, s) == \E i \in 1..Len(queue) : queue[i].op = op /\ queue[i].sock = s
Queued(op, s) == In(tasks, op, s) \/ In(running, op, s)

(* Mutant: neither the calls nor the callback hold the SockNum.             *)
FileOpenEarlyClose(s) ==
  \/ phase[s] \in {"open", "detached"}
  \/ current = s

(* A SockNum closes its file when its last holder goes: the SockFD, a       *)
(* queued addEvent or delEvent, the registered callback, the running one.   *)
FileOpen(s) ==
  \/ phase[s] \in {"open", "detached"}
  \/ Queued("add", s) \/ Queued("del", s)
  \/ \E fd \in Fds : eventMap[fd] = s
  \/ current = s

FreeFds == {fd \in Fds : \A s \in Socks : fdOf[s] = fd => ~FileOpen(s)}

-----------------------------------------------------------------------------
EventInit ==
  /\ phase = [s \in Socks |-> "new"]
  /\ fdOf = [s \in Socks |-> None]
  /\ eventMap = [fd \in Fds |-> None]
  /\ interest = {} /\ ready = {} /\ expired = {}
  /\ batch = {} /\ tasks = <<>> /\ running = <<>>
  /\ pc = "wait"
  /\ event = None /\ current = None

(* addEvent on the loop thread.  EPOLL_CTL_ADD reports a file that is ready *)
(* already; emplace keeps an entry that is there.                           *)
AddNow(s, fd) ==
  /\ interest' = interest \cup {s}
  /\ ready' \in {ready, ready \cup {s}}
  /\ eventMap' = IF eventMap[fd] = None THEN [eventMap EXCEPT ![fd] = s] ELSE eventMap

(* Mutant: delEvent does not mark the number as expired.                    *)
DelNowUnmarked(s) ==
  IF eventMap[fdOf[s]] = None
  THEN UNCHANGED <<eventMap, expired, interest, ready>>
  ELSE /\ eventMap' = [eventMap EXCEPT ![fdOf[s]] = None]
       /\ interest' = interest \ {s}
       /\ ready' = ready \ {s}
       /\ UNCHANGED expired

(* Mutant: delEvent forgets the callback.                                   *)
DelNowKeepsCallback(s) ==
  IF eventMap[fdOf[s]] = None
  THEN UNCHANGED <<eventMap, expired, interest, ready>>
  ELSE /\ expired' = expired \cup {fdOf[s]}
       /\ interest' = interest \ {s}
       /\ ready' = ready \ {s}
       /\ UNCHANGED eventMap

(* delEvent on the loop thread.                                             *)
DelNow(s) ==
  IF eventMap[fdOf[s]] = None
  THEN UNCHANGED <<eventMap, expired, interest, ready>>
  ELSE /\ eventMap' = [eventMap EXCEPT ![fdOf[s]] = None]
       /\ expired' = expired \cup {fdOf[s]}
       /\ interest' = interest \ {s}
       /\ ready' = ready \ {s}

(* Code of the application runs on the loop thread inside a callback, or,   *)
(* from a timer, before epoll_wait.                                         *)
OnLoop == pc \in {"wait", "callback"}

(* Socket::fromSock_l: a new file, attachEvent.                             *)
Open(s, fd) ==
  /\ phase[s] = "new"
  /\ fd \in FreeFds
  /\ phase' = [phase EXCEPT ![s] = "open"]
  /\ fdOf' = [fdOf EXCEPT ![s] = fd]

OpenOnLoop(s, fd) ==
  /\ OnLoop
  /\ Open(s, fd)
  /\ AddNow(s, fd)
  /\ UNCHANGED <<tasks, loopVars>>

OpenElsewhere(s, fd) ==
  /\ Open(s, fd)
  /\ tasks' = Append(tasks, [op |-> "add", sock |-> s])
  /\ UNCHANGED <<eventMap, interest, ready, loopVars>>

(* closeSock(false), from emitErr: delEvent, the number is kept.            *)
DetachOnLoop(s) ==
  /\ OnLoop
  /\ phase[s] = "open"
  /\ Queued("add", s) => EarlyClose
  /\ phase' = [phase EXCEPT ![s] = "detached"]
  /\ DelNow(s)
  /\ UNCHANGED <<fdOf, tasks, batch, running, pc, event, current>>

(* ~SockFD: delEvent, unless it was called before.                          *)
DestroyDetached(s) ==
  /\ phase[s] = "detached"
  /\ phase' = [phase EXCEPT ![s] = "destroyed"]
  /\ UNCHANGED <<fdOf, eventMap, interest, ready, tasks, loopVars>>

DestroyOnLoop(s) ==
  /\ OnLoop
  /\ phase[s] = "open"
  /\ Queued("add", s) => EarlyClose
  /\ phase' = [phase EXCEPT ![s] = "destroyed"]
  /\ DelNow(s)
  /\ UNCHANGED <<fdOf, tasks, batch, running, pc, event, current>>

DestroyElsewhere(s) ==
  /\ phase[s] = "open"
  /\ phase' = [phase EXCEPT ![s] = "destroyed"]
  /\ tasks' = Append(tasks, [op |-> "del", sock |-> s])
  /\ UNCHANGED <<fdOf, eventMap, interest, ready, loopVars>>

-----------------------------------------------------------------------------
(* The kernel has something to report on a registered file.                 *)
BecomeReady(s) ==
  /\ s \in interest \ ready
  /\ FileOpen(s)
  /\ ready' = ready \cup {s}
  /\ UNCHANGED <<phase, fdOf, eventMap, interest, tasks, loopVars>>

(* What epoll_wait can return, in any order.  Files that closed are gone.   *)
Reportable ==
  {s \in ready \cap interest : FileOpen(s)} \cup (IF tasks = <<>> THEN {} ELSE {Pipe})

(* epoll_wait: every reportable event, edge-triggered, so it is reported    *)
(* once.  The marks of the last batch are cleared.                          *)
EpollWait ==
  /\ pc = "wait"
  /\ Reportable # {}
  /\ batch' = Reportable
  /\ ready' = {}
  /\ expired' = {}
  /\ pc' = "dispatch"
  /\ UNCHANGED <<phase, fdOf, eventMap, interest, tasks, running, event, current>>

(* The next event of the batch: the order is the kernel's.                  *)
TakeEvent(s) ==
  /\ pc = "dispatch"
  /\ s \in batch
  /\ batch' = batch \ {s}

(* "event cache refresh": the number was deleted since epoll_wait.          *)
SkipExpired(s) ==
  /\ TakeEvent(s)
  /\ fdOf[s] \in expired
  /\ UNCHANGED <<phase, fdOf, eventMap, interest, ready, expired, tasks, running, pc,
                 event, current>>

(* The callback of the number, or, when there is none, EPOLL_CTL_DEL of     *)
(* whatever file has the number now.                                        *)
Dispatch(s) ==
  /\ TakeEvent(s)
  /\ fdOf[s] \notin expired
  /\ IF eventMap[fdOf[s]] = None
     THEN /\ interest' = {other \in interest : fdOf[other] # fdOf[s]}
          /\ UNCHANGED <<pc, event, current>>
     ELSE /\ event' = s
          /\ current' = eventMap[fdOf[s]]
          /\ pc' = "callback"
          /\ UNCHANGED interest
  /\ UNCHANGED <<phase, fdOf, eventMap, ready, expired, tasks, running>>

CallbackReturns ==
  /\ pc = "callback"
  /\ event' = None /\ current' = None
  /\ pc' = "dispatch"
  /\ UNCHANGED <<phase, fdOf, eventMap, interest, ready, expired, batch, tasks, running>>

(* The pipe's callback takes the task list and runs it, see PollerTasks.    *)
TakeTasks ==
  /\ TakeEvent(Pipe)
  /\ running' = tasks
  /\ tasks' = <<>>
  /\ pc' = "tasks"
  /\ UNCHANGED <<phase, fdOf, eventMap, interest, ready, expired, event, current>>

RunQueued ==
  /\ pc = "tasks"
  /\ running # <<>>
  /\ running' = Tail(running)
  /\ LET s == Head(running).sock
     IN IF Head(running).op = "add"
        THEN AddNow(s, fdOf[s]) /\ UNCHANGED expired
        ELSE DelNow(s)
  /\ UNCHANGED <<phase, fdOf, batch, tasks, pc, event, current>>

TasksDone ==
  /\ pc = "tasks"
  /\ running = <<>>
  /\ pc' = "dispatch"
  /\ UNCHANGED <<phase, fdOf, eventMap, interest, ready, expired, batch, tasks, running,
                 event, current>>

BatchDone ==
  /\ pc = "dispatch"
  /\ batch = {}
  /\ pc' = "wait"
  /\ UNCHANGED <<phase, fdOf, eventMap, interest, ready, expired, batch, tasks, running,
                 event, current>>

-----------------------------------------------------------------------------
DispatchStep ==
  \/ EpollWait \/ CallbackReturns \/ TakeTasks \/ RunQueued \/ TasksDone \/ BatchDone
  \/ \E s \in Socks : SkipExpired(s) \/ Dispatch(s)

SockStep(s) ==
  \/ \E fd \in Fds : OpenOnLoop(s, fd) \/ OpenElsewhere(s, fd)
  \/ DestroyOnLoop(s) \/ DestroyElsewhere(s)
  \/ DetachOnLoop(s) \/ DestroyDetached(s)

EventNext == DispatchStep \/ \E s \in Socks : SockStep(s) \/ BecomeReady(s)

EventSpec == EventInit /\ [][EventNext]_eventVars
EventFairSpec == EventSpec /\ WF_eventVars(DispatchStep)

-----------------------------------------------------------------------------
(* Properties.                                                              *)

EventTypeOK ==
  /\ phase \in [Socks -> {"new", "open", "detached", "destroyed"}]
  /\ fdOf \in [Socks -> Fds \cup {None}]
  /\ eventMap \in [Fds -> Socks \cup {None}]
  /\ interest \subseteq Socks
  /\ ready \subseteq Socks
  /\ expired \subseteq Fds
  /\ batch \subseteq Socks \cup {Pipe}
  /\ tasks \in Seq(Op)
  /\ running \in Seq(Op)
  /\ pc \in {"wait", "dispatch", "callback", "tasks"}
  /\ event \in Socks \cup {None}
  /\ current \in Socks \cup {None}
  /\ pc = "callback" <=> current # None

(* An event reaches the callback of the file it is about, although the      *)
(* number may have been deleted and given to another file since epoll_wait  *)
(* returned it (the check of _event_cache_expired in runLoop).              *)
RightCallback == pc = "callback" => current = event

(* What the loop has registered and what epoll watches agree: a callback in *)
(* _event_map is that of the file which has the number, it is open, and     *)
(* epoll watches it.  SockFD closes the number only after delEvent.         *)
MapMatchesKernel ==
  /\ \A fd \in Fds :
       eventMap[fd] # None => fdOf[eventMap[fd]] = fd /\ eventMap[fd] \in interest
  /\ \A s \in interest : eventMap[fdOf[s]] = s

(* SockFD should "Automatically overflow listening and close socket when    *)
(* destructing" (Socket.h:183): nothing keeps the file of a destroyed       *)
(* SockFD open once the calls made about it have been carried out.          *)
NoLeakedFile ==
  \A s \in Socks :
    phase[s] = "destroyed" /\ ~Queued("add", s) /\ ~Queued("del", s) /\ current # s
      => ~FileOpen(s)

(* A destroyed SockFD's file is eventually closed and its number free.      *)
EventuallyClosed == \A s \in Socks : phase[s] = "destroyed" ~> ~FileOpen(s)

=============================================================================
