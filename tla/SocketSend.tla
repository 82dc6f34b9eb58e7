----------------------------- MODULE SocketSend -----------------------------
(***************************************************************************)
(* The two send buffers of a TCP Socket and the writable event of its      *)
(* poller (src/src/Network/Socket.cpp): send, flushAll, flushData,         *)
(* onWriteAble, emitErr, closeSock and the connection that follows.        *)
(*                                                                         *)
(* Data is a sequence of units, numbered in the order send() accepted      *)
(* them.  Senders hold _mtx_sock_fd while they flush; the writable event   *)
(* flushes on the poller's thread without it.                              *)
(***************************************************************************)
EXTENDS Naturals, Sequences

CONSTANTS
  Senders,    \* threads other than the poller's that call send
  Poller,     \* the poller's thread
  Nobody,     \* no holder of the lock
  MaxUnits,   \* bound: units sent
  KernelCap,  \* units the kernel's send buffer takes
  MaxConns,   \* bound: connections made one after the other
  MayFail     \* whether connections break and sends time out

ASSUME ActorAssumption == Poller \notin Senders /\ Nobody \notin Senders \cup {Poller}
ASSUME BoundAssumption ==
  /\ MaxUnits \in Nat /\ KernelCap \in Nat \ {0} /\ MaxConns \in Nat \ {0}
  /\ MayFail \in BOOLEAN

Actors == Senders \cup {Poller}

VARIABLES
  waiting,    \* _send_buf_waiting, the first buffer
  sending,    \* _send_buf_sending, the second buffer
  tmp,        \* send_buf_sending_tmp of each thread's flushData
  sendable,   \* _sendable
  lock,       \* holder of _mtx_sock_fd
  pc,         \* where each thread is
  onEvent,    \* the poller's flush was called by onWriteAble
  armed,      \* epoll watches the socket for writability
  edge,       \* epoll has a writable edge to report
  tasks,      \* tasks queued on the poller: modifyEvent of a connection's
              \* descriptor, and closeSock
  conn,       \* "up", "detached" (after closeSock(false)) or "none"
  broken,     \* the connection is dead: writes fail
  errEmit,    \* _err_emit
  conns,      \* connections made so far
  base,       \* the first unit accepted for this connection (history)
  count,      \* units accepted (history)
  kernel,     \* the kernel's send buffer
  received,   \* what the peer of this connection read (history)
  alone       \* the poller's thread alone calls send: chosen once

sendVars == <<waiting, sending, tmp, sendable, lock, pc, onEvent, armed, edge, tasks, conn,
          broken, errEmit, conns, base, count, kernel, received>>
bufVars == <<waiting, sending, tmp>>
epollVars == <<armed, edge, tasks>>
connVars == <<conn, broken, errEmit, conns, base>>
dataVars == <<count, kernel, received>>

Room == Len(kernel) < KernelCap
Task(op) == [op |-> op, conn |-> conns]
Goto(a, where) == pc' = [pc EXCEPT ![a] = where]
Unlock(a) == lock' = IF lock = a THEN Nobody ELSE lock

(* attachEvent watches for writability at first, see Connect.               *)
SendInit ==
  /\ waiting = <<>> /\ sending = <<>> /\ tmp = [a \in Actors |-> <<>>]
  /\ sendable = TRUE
  /\ lock = Nobody
  /\ pc = [a \in Actors |-> "idle"] /\ onEvent = FALSE
  /\ armed = TRUE /\ edge = TRUE /\ tasks = <<>>
  /\ conn = "up" /\ broken = FALSE /\ errEmit = FALSE /\ conns = 1 /\ base = 1
  /\ count = 0 /\ kernel = <<>> /\ received = <<>>
  /\ alone \in BOOLEAN

-----------------------------------------------------------------------------
(* send_l: the data joins the first buffer; more may follow before a flush. *)
Submit(a) ==
  /\ pc[a] \in {"idle", "flush"}
  /\ alone => a = Poller
  /\ count < MaxUnits
  /\ count' = count + 1
  /\ waiting' = Append(waiting, count')
  /\ Goto(a, "flush")
  /\ UNCHANGED <<sending, tmp, sendable, lock, onEvent, epollVars, connVars, kernel, received>>

(* closeSock clears the buffers one after the other, then takes the lock.   *)
StartClose(where) ==
  /\ sendable' = TRUE
  /\ waiting' = <<>>
  /\ Goto(Poller, where)

(* Mutant: a task closes the socket even for the poller's own errors.       *)
EmitErrQueued(a) ==
  /\ errEmit' = TRUE
  /\ tasks' = IF errEmit THEN tasks ELSE Append(tasks, Task("close"))
  /\ Goto(a, "idle")
  /\ UNCHANGED <<sendable, waiting>>

(* emitErr: the first error of a connection is reported and followed by     *)
(* closeSock(false), at once on the poller's thread, else by a task.        *)
EmitErr(a) ==
  /\ errEmit' = TRUE
  /\ IF a = Poller /\ ~errEmit
     THEN /\ StartClose("detach")
          /\ UNCHANGED tasks
     ELSE /\ tasks' = IF errEmit THEN tasks ELSE Append(tasks, Task("close"))
          /\ Goto(a, "idle")
          /\ UNCHANGED <<sendable, waiting>>

(* flushAll: the socket is writable, or there is none or it waits for its   *)
(* event, for too long perhaps.                                             *)
FlushAll(a) ==
  /\ pc[a] = "flush"
  /\ lock = Nobody
  /\ IF conn # "none" /\ sendable THEN lock' = a /\ Goto(a, "take")
                                  ELSE Goto(a, "idle") /\ UNCHANGED lock
  /\ UNCHANGED <<bufVars, sendable, onEvent, epollVars, connVars, dataVars>>

SendTimeOut(a) ==
  /\ MayFail
  /\ pc[a] = "flush"
  /\ lock = Nobody
  /\ conn # "none" /\ ~sendable
  /\ EmitErr(a)
  /\ lock' = IF pc'[a] = "idle" THEN Nobody ELSE a
  /\ UNCHANGED <<sending, tmp, onEvent, armed, edge, conn, broken, conns, base, dataVars>>

(* Mutant: the first buffer is preferred.                                   *)
TakeNewest(a) ==
  /\ pc[a] = "take"
  /\ IF waiting # <<>>
     THEN tmp' = [tmp EXCEPT ![a] = waiting] /\ waiting' = <<>> /\ UNCHANGED sending
     ELSE tmp' = [tmp EXCEPT ![a] = sending] /\ sending' = <<>> /\ UNCHANGED waiting
  /\ Goto(a, IF waiting \o sending = <<>> THEN "takeWaiting" ELSE "write")
  /\ UNCHANGED <<sendable, lock, onEvent, epollVars, connVars, dataVars>>

(* flushData: the second buffer,                                            *)
TakeSending(a) ==
  /\ pc[a] = "take"
  /\ tmp' = [tmp EXCEPT ![a] = sending]
  /\ sending' = <<>>
  /\ Goto(a, IF sending = <<>> THEN "takeWaiting" ELSE "write")
  /\ UNCHANGED <<waiting, sendable, lock, onEvent, epollVars, connVars, dataVars>>

(* modifyEvent: at once on the poller's thread, else by a task.             *)
Watch(write) ==
  IF conn = "up"
  THEN armed' = write /\ edge' = (write /\ Room)
  ELSE UNCHANGED <<armed, edge>>

StopWriteAble == sendable' = TRUE /\ Watch(FALSE)

(* ... or the first buffer.  When both are empty, the event stops watching. *)
TakeWaiting(a) ==
  /\ pc[a] = "takeWaiting"
  /\ IF waiting # <<>>
     THEN /\ tmp' = [tmp EXCEPT ![a] = waiting]
          /\ waiting' = <<>>
          /\ Goto(a, "write")
          /\ UNCHANGED <<sendable, lock, onEvent, armed, edge>>
     ELSE /\ IF a = Poller /\ onEvent THEN StopWriteAble
                                      ELSE UNCHANGED <<sendable, armed, edge>>
          /\ onEvent' = IF a = Poller THEN FALSE ELSE onEvent
          /\ Unlock(a)
          /\ Goto(a, "idle")
          /\ UNCHANGED <<tmp, waiting>>
  /\ UNCHANGED <<sending, tasks, connVars, dataVars>>

(* The system call: some units, until the kernel's buffer is full, or an    *)
(* error, which drops what was taken.                                       *)
Write(a) ==
  /\ pc[a] = "write"
  /\ ~broken
  /\ \E n \in 0..Len(tmp[a]) :
       /\ Len(kernel) + n <= KernelCap
       /\ n = 0 => ~Room
       /\ kernel' = kernel \o SubSeq(tmp[a], 1, n)
       /\ tmp' = [tmp EXCEPT ![a] = SubSeq(@, n + 1, Len(@))]
       /\ Goto(a, IF n = Len(tmp[a]) THEN "sent"
                  ELSE IF a = Poller /\ onEvent THEN "rollback" ELSE "arm")
  /\ UNCHANGED <<waiting, sending, sendable, lock, onEvent, epollVars, connVars, count, received>>

WriteFails(a) ==
  /\ pc[a] = "write"
  /\ broken
  /\ tmp' = [tmp EXCEPT ![a] = <<>>]
  /\ onEvent' = IF a = Poller THEN FALSE ELSE onEvent
  /\ EmitErr(a)
  /\ lock' = IF pc'[a] = "idle" /\ lock = a THEN Nobody ELSE lock
  /\ UNCHANGED <<sending, armed, edge, conn, broken, conns, base, dataVars>>

(* Everything taken was written: the event tries again.                     *)
Sent(a) ==
  /\ pc[a] = "sent"
  /\ IF a = Poller /\ onEvent
     THEN Goto(a, "take") /\ UNCHANGED lock
     ELSE Goto(a, "idle") /\ Unlock(a)
  /\ UNCHANGED <<bufVars, sendable, onEvent, epollVars, connVars, dataVars>>

(* Mutant: the event is not asked for.                                      *)
ArmNothing(a) ==
  /\ pc[a] = "arm"
  /\ sendable' = FALSE
  /\ Goto(a, "rollback")
  /\ UNCHANGED <<bufVars, lock, onEvent, epollVars, connVars, dataVars>>

(* startWriteAbleEvent.                                                     *)
Arm(a) ==
  /\ pc[a] = "arm"
  /\ sendable' = FALSE
  /\ IF a = Poller THEN Watch(TRUE) /\ UNCHANGED tasks
                   ELSE tasks' = Append(tasks, Task("watch")) /\ UNCHANGED <<armed, edge>>
  /\ Goto(a, "rollback")
  /\ UNCHANGED <<bufVars, lock, onEvent, connVars, dataVars>>

(* Mutant: what was not written is dropped.                                 *)
RollbackDrops(a) ==
  /\ pc[a] = "rollback"
  /\ tmp' = [tmp EXCEPT ![a] = <<>>]
  /\ onEvent' = IF a = Poller THEN FALSE ELSE onEvent
  /\ Unlock(a)
  /\ Goto(a, "idle")
  /\ UNCHANGED <<waiting, sending, sendable, epollVars, connVars, dataVars>>

(* What was not written goes in front of the second buffer.                 *)
Rollback(a) ==
  /\ pc[a] = "rollback"
  /\ sending' = tmp[a] \o sending
  /\ tmp' = [tmp EXCEPT ![a] = <<>>]
  /\ onEvent' = IF a = Poller THEN FALSE ELSE onEvent
  /\ Unlock(a)
  /\ Goto(a, "idle")
  /\ UNCHANGED <<waiting, sendable, epollVars, connVars, dataVars>>

-----------------------------------------------------------------------------
(* The poller's loop.                                                       *)

(* onWriteAble looks at the first buffer, then at the second.               *)
OnWriteAble ==
  /\ pc[Poller] = "idle"
  /\ armed /\ edge
  /\ edge' = FALSE
  /\ IF waiting = <<>> THEN Goto(Poller, "looking") /\ UNCHANGED onEvent
                       ELSE Goto(Poller, "take") /\ onEvent' = TRUE
  /\ UNCHANGED <<bufVars, sendable, lock, armed, tasks, connVars, dataVars>>

LookAtSending ==
  /\ pc[Poller] = "looking"
  /\ IF sending = <<>>
     THEN StopWriteAble /\ Goto(Poller, "idle") /\ UNCHANGED onEvent
     ELSE Goto(Poller, "take") /\ onEvent' = TRUE /\ UNCHANGED <<sendable, armed, edge>>
  /\ UNCHANGED <<bufVars, lock, tasks, connVars, dataVars>>

RunWatch ==
  /\ pc[Poller] = "idle"
  /\ tasks # <<>> /\ Head(tasks).op = "watch"
  /\ tasks' = Tail(tasks)
  /\ IF Head(tasks).conn = conns THEN Watch(TRUE) ELSE UNCHANGED <<armed, edge>>
  /\ UNCHANGED <<bufVars, sendable, lock, pc, onEvent, connVars, dataVars>>

RunClose ==
  /\ pc[Poller] = "idle"
  /\ tasks # <<>> /\ Head(tasks).op = "close"
  /\ tasks' = Tail(tasks)
  /\ StartClose("detach")
  /\ UNCHANGED <<sending, tmp, lock, onEvent, armed, edge, connVars, dataVars>>

(* connect() closes the connection before.                                  *)
Reconnect ==
  /\ pc[Poller] = "idle"
  /\ conn # "none" /\ conns < MaxConns
  /\ StartClose("close")
  /\ base' = count + 1
  /\ UNCHANGED <<sending, tmp, lock, onEvent, epollVars, conn, broken, errEmit, conns, dataVars>>

(* Mutant: the second buffer is not cleared.                                *)
ClearNothing ==
  /\ pc[Poller] \in {"detach", "close"}
  /\ Goto(Poller, IF pc[Poller] = "detach" THEN "detachLast" ELSE "closeLast")
  /\ UNCHANGED <<bufVars, sendable, lock, onEvent, epollVars, connVars, dataVars>>

ClearSending ==
  /\ pc[Poller] \in {"detach", "close"}
  /\ sending' = <<>>
  /\ Goto(Poller, IF pc[Poller] = "detach" THEN "detachLast" ELSE "closeLast")
  /\ UNCHANGED <<waiting, tmp, sendable, lock, onEvent, epollVars, connVars, dataVars>>

(* closeSock(false): delEvent, the socket is kept.                          *)
Detach ==
  /\ pc[Poller] = "detachLast"
  /\ lock \in {Nobody, Poller}
  /\ armed' = FALSE /\ edge' = FALSE
  /\ conn' = IF conn = "none" THEN "none" ELSE "detached"
  /\ Unlock(Poller)
  /\ Goto(Poller, "idle")
  /\ UNCHANGED <<bufVars, sendable, onEvent, tasks, broken, errEmit, conns, base, dataVars>>

CloseLast ==
  /\ pc[Poller] = "closeLast"
  /\ lock = Nobody
  /\ armed' = FALSE /\ edge' = FALSE
  /\ conn' = "none" /\ broken' = FALSE /\ errEmit' = FALSE
  /\ kernel' = <<>> /\ received' = <<>>
  /\ Goto(Poller, "idle")
  /\ UNCHANGED <<bufVars, sendable, lock, onEvent, tasks, conns, base, count>>

(* onConnected: attachEvent.                                                *)
Connect ==
  /\ pc[Poller] = "idle"
  /\ conn = "none" /\ conns < MaxConns
  /\ lock = Nobody
  /\ conns' = conns + 1
  /\ conn' = "up"
  /\ armed' = TRUE /\ edge' = TRUE
  /\ UNCHANGED <<bufVars, sendable, lock, pc, onEvent, tasks, broken, errEmit, base, dataVars>>

-----------------------------------------------------------------------------
(* The kernel and the peer.                                                 *)
Drain ==
  /\ kernel # <<>> /\ ~broken
  /\ received' = Append(received, Head(kernel))
  /\ kernel' = Tail(kernel)
  /\ edge' = (edge \/ armed)
  /\ UNCHANGED <<bufVars, sendable, lock, pc, onEvent, armed, tasks, connVars, count>>

Break ==
  /\ MayFail
  /\ conn = "up" /\ ~broken
  /\ broken' = TRUE
  /\ UNCHANGED <<bufVars, sendable, lock, pc, onEvent, epollVars, conn, errEmit, conns, base,
                 dataVars>>

(* epoll reports the broken connection: emitErr.                            *)
OnError ==
  /\ pc[Poller] = "idle"
  /\ conn = "up" /\ broken
  /\ ~errEmit
  /\ EmitErr(Poller)
  /\ UNCHANGED <<sending, tmp, lock, onEvent, armed, edge, conn, broken, conns, base, dataVars>>

-----------------------------------------------------------------------------
FlushStep(a) ==
  \/ FlushAll(a) \/ TakeSending(a) \/ TakeWaiting(a) \/ Write(a) \/ WriteFails(a)
  \/ Sent(a) \/ Arm(a) \/ Rollback(a)
  \/ SendTimeOut(a)

LoopStep ==
  \/ OnWriteAble \/ LookAtSending \/ RunWatch \/ OnError
  \/ RunClose \/ ClearSending \/ Detach \/ CloseLast

SendNext ==
  \/ \E a \in Actors : Submit(a) \/ FlushStep(a)
  \/ LoopStep \/ Reconnect \/ Connect \/ Drain \/ Break

SendSpec == SendInit /\ [][SendNext /\ UNCHANGED alone]_<<sendVars, alone>>

(* Calls and the poller go on, and the peer reads.                          *)
SendFairSpec ==
  /\ SendSpec
  /\ WF_sendVars(Drain) /\ WF_sendVars(LoopStep)
  /\ \A a \in Actors : WF_sendVars(FlushStep(a))

-----------------------------------------------------------------------------
(* Properties.                                                              *)

Units == 1..MaxUnits
Increasing(q) == \A i \in 1..(Len(q) - 1) : q[i] < q[i + 1]
InSeq(u, q) == \E i \in 1..Len(q) : q[i] = u

SendTypeOK ==
  /\ waiting \in Seq(Units) /\ sending \in Seq(Units)
  /\ tmp \in [Actors -> Seq(Units)]
  /\ sendable \in BOOLEAN
  /\ lock \in Actors \cup {Nobody}
  /\ \A a \in Actors :
       /\ lock = a => pc[a] \notin {"idle", "flush", "looking", "close", "closeLast"}
       /\ tmp[a] # <<>> => pc[a] \in {"write", "arm", "rollback"}
  /\ pc \in [Actors -> {"idle", "flush", "take", "takeWaiting", "write", "sent", "arm",
                        "rollback", "looking", "detach", "close", "detachLast", "closeLast"}]
  /\ onEvent \in BOOLEAN
  /\ armed \in BOOLEAN /\ edge \in BOOLEAN
  /\ tasks \in Seq([op : {"watch", "close"}, conn : 1..MaxConns])
  /\ conn \in {"up", "detached", "none"}
  /\ broken \in BOOLEAN /\ errEmit \in BOOLEAN
  /\ conns \in 1..MaxConns
  /\ base \in 1..(MaxUnits + 1)
  /\ count \in 0..MaxUnits
  /\ kernel \in Seq(Units) /\ Len(kernel) <= KernelCap
  /\ received \in Seq(Units)

Stream == received \o kernel
Switching == pc[Poller] \in {"close", "closeLast"}

(* The peer gets the data in the order send() accepted it, without holes    *)
(* until an error is reported: flushData hands the rest of a partly written *)
(* list back in front of what came later.                                   *)
StreamInOrder ==
  /\ Increasing(Stream)
  /\ ~errEmit /\ Stream # <<>> => \A u \in Stream[1]..Stream[Len(Stream)] : InSeq(u, Stream)

(* A connection carries no data that was meant for the one before, and      *)
(* closeSock(false) only ever hits the connection that had the error.       *)
OnlyOwnData ==
  /\ ~Switching => \A i \in 1..Len(Stream) : Stream[i] >= base
  /\ conn = "detached" => errEmit

(* Where a unit can be: one of the two buffers, what the kernel and the     *)
(* peer have, or the list a thread is flushing.                             *)
Places == ({"waiting", "sending", "stream"} \X {Nobody}) \cup ({"tmp"} \X Actors)
At(p) ==
  CASE p[1] = "waiting" -> waiting
    [] p[1] = "sending" -> sending
    [] p[1] = "stream" -> Stream
    [] OTHER -> tmp[p[2]]

(* A unit is never written or kept twice, whatever the threads do, and on   *)
(* the first connection none is lost before an error: one buffer has it, a  *)
(* thread that is flushing, the kernel, or the peer.                        *)
NothingLostOrTwice ==
  /\ \A p, q \in Places : \A i \in 1 .. Len(At(p)), j \in 1 .. Len(At(q)) :
       At(p)[i] = At(q)[j] => p = q /\ i = j
  /\ conns = 1 /\ ~Switching /\ conn = "up" /\ ~errEmit =>
       \A u \in 1 .. count : \E p \in Places : InSeq(u, At(p))

(* Whoever sends, each unit stays in one place and comes once; and while    *)
(* the poller alone sends, the stream is in order and without holes, and a  *)
(* connection carries its own data only.  With another thread a task to     *)
(* close one connection may hit the next one.                               *)
StreamKept == NothingLostOrTwice /\ (alone => StreamInOrder /\ OnlyOwnData)

(* When every thread is done, what could not be written waits for a         *)
(* writable event that epoll has been asked for, and has one to report or   *)
(* will when the peer reads (edge-triggered, so that a writable event that  *)
(* was used up comes again only from a full kernel buffer or modifyEvent).  *)
PendingIsWatched ==
  /\ \A a \in Actors : pc[a] = "idle"
  /\ tasks = <<>>
  /\ conn = "up" /\ ~errEmit
  /\ waiting \o sending # <<>>
  => armed /\ (edge \/ kernel # <<>>)

(* What send() accepted is received in the end, unless the connection fails *)
(* or is replaced: again and again nothing accepted is still on its way.    *)
AllReceived ==
  []<>\A u \in 1 .. count :
        InSeq(u, received) \/ errEmit \/ conns > 1 \/ Switching \/ conn = "none"

(* While the poller alone sends: what is pending waits for an event asked   *)
(* for, and comes in the end.                                               *)
WatchedAlone == alone => PendingIsWatched
ReceivedAlone == alone => AllReceived

=============================================================================
