-------------------------- MODULE EventLoopProofs --------------------------
(* Theorems about a poller's loop: EventDispatch, an event reaches the      *)
(* callback of the file it is about, for any number of sockets and          *)
(* descriptors; DelayTasks, for any tasks, delays and horizon; and          *)
(* HandleTree, the handles a poller's loop has on Windows, for any number   *)
(* of threads, handles and addresses.                                       *)
EXTENDS EventDispatch, DelayTasks, HandleTree, Integers, FiniteSetTheorems, TLAPS

-----------------------------------------------------------------------------
(* The events.                                                              *)
LEMMA InAppend ==
  ASSUME NEW q \in Seq(Op), NEW e \in Op, NEW op, NEW s, In(Append(q, e), op, s)
  PROVE  In(q, op, s) \/ (e.op = op /\ e.sock = s)
<1>1. PICK i \in 1..Len(Append(q, e)) : Append(q, e)[i].op = op /\ Append(q, e)[i].sock = s
  BY DEF In
<1>2. CASE i = Len(q) + 1
  BY <1>1, <1>2
<1>3. CASE i # Len(q) + 1
  <2>1. i \in 1..Len(q) /\ Append(q, e)[i] = q[i]
    BY <1>3
  <2> QED
    BY <1>1, <2>1 DEF In
<1> QED
  BY <1>2, <1>3

LEMMA InTail ==
  ASSUME NEW q \in Seq(Op), q # <<>>, NEW op, NEW s, In(Tail(q), op, s)
  PROVE  In(q, op, s)
<1>1. PICK i \in 1..Len(Tail(q)) : Tail(q)[i].op = op /\ Tail(q)[i].sock = s
  BY DEF In
<1>2. i + 1 \in 1..Len(q) /\ Tail(q)[i] = q[i + 1]
  OBVIOUS
<1> QED
  BY <1>1, <1>2 DEF In

LEMMA InHead ==
  ASSUME NEW q \in Seq(Op), q # <<>>
  PROVE  In(q, Head(q).op, Head(q).sock) /\ Head(q) \in Op
<1>1. 1 \in 1..Len(q) /\ q[1] = Head(q)
  OBVIOUS
<1> QED
  BY <1>1 DEF In

LEMMA InEmpty == \A op, s : ~In(<<>>, op, s)
  BY DEF In

-----------------------------------------------------------------------------
(* What a registration is worth.  Numbers of open files are distinct, a     *)
(* number's callback is that of the file epoll watches under it, and an     *)
(* event of the batch is either marked expired or still about the file      *)
(* whose callback the map has.                                              *)
NumbersDistinct ==
  \A s, other \in Socks :
    FileOpen(s) /\ FileOpen(other) /\ fdOf[s] = fdOf[other] => s = other

NewUnknown ==
  \A s \in Socks : phase[s] = "new" => s \notin interest /\ s \notin batch /\ ~FileOpen(s)

Numbered == \A s \in Socks : phase[s] # "new" => fdOf[s] \in Fds

BatchCurrent ==
  \A s \in batch \ {Pipe} : fdOf[s] \notin expired => eventMap[fdOf[s]] = s

Inv ==
  /\ EventTypeOK /\ NumbersDistinct /\ NewUnknown /\ Numbered /\ MapMatchesKernel
  /\ BatchCurrent /\ RightCallback

LEMMA InvInit == EventInit => Inv
<1> SUFFICES ASSUME EventInit PROVE Inv
  OBVIOUS
<1>1. EventTypeOK
  BY SockAssumption DEF EventInit, EventTypeOK
<1>2. \A s \in Socks : ~FileOpen(s)
  BY InEmpty, SockAssumption DEF EventInit, FileOpen, Queued
<1> QED
  BY <1>1, <1>2 DEF EventInit, Inv, NumbersDistinct, NewUnknown, Numbered, MapMatchesKernel,
     BatchCurrent, RightCallback

(* What the steps share: only Open opens a file, every other step keeps the *)
(* numbers and at most closes some.                                         *)
LEMMA KeepsFiles ==
  ASSUME Inv, UNCHANGED fdOf,
         \A s \in Socks : FileOpen(s)' => FileOpen(s),
         \A s \in Socks : phase'[s] = "new" <=> phase[s] = "new",
         \A s \in Socks : s \in interest' => s \in interest \/ FileOpen(s),
         batch' \subseteq batch \cup interest \cup {Pipe}
  PROVE  NumbersDistinct' /\ Numbered' /\ NewUnknown'
BY SockAssumption DEF Inv, NumbersDistinct, Numbered, NewUnknown

(* addEvent on the loop thread of a file whose number no other file has.    *)
LEMMA AddNowSafe ==
  ASSUME Inv, NEW s \in Socks, fdOf'[s] \in Fds, AddNow(s, fdOf'[s]),
         eventMap[fdOf'[s]] \in {None, s},
         \A other \in Socks : other # s => fdOf'[other] = fdOf[other],
         s \in interest => fdOf'[s] = fdOf[s],
         s \in batch => fdOf'[s] = fdOf[s],
         \A fd \in Fds : eventMap[fd] = s => fdOf'[s] = fdOf[s],
         UNCHANGED <<expired, batch>>
  PROVE  /\ MapMatchesKernel' /\ BatchCurrent'
         /\ eventMap' \in [Fds -> Socks \cup {None}]
         /\ interest' = interest \cup {s} /\ ready' \subseteq Socks
         /\ \A fd \in Fds : eventMap'[fd] # eventMap[fd] => eventMap'[fd] = s
<1> DEFINE n == fdOf'[s]
<1>1. /\ eventMap'[n] = s
      /\ \A fd \in Fds : fd # n => eventMap'[fd] = eventMap[fd]
      /\ eventMap' \in [Fds -> Socks \cup {None}]
  BY SockAssumption DEF AddNow, Inv, EventTypeOK
<1>2. interest' = interest \cup {s} /\ ready' \subseteq Socks
  BY DEF AddNow, Inv, EventTypeOK
<1>3. s # None
  BY SockAssumption
<1>4. MapMatchesKernel'
  <2>1. ASSUME NEW fd \in Fds, eventMap'[fd] # None
        PROVE  fdOf'[eventMap'[fd]] = fd /\ eventMap'[fd] \in interest'
    <3>1. CASE fd = n
      BY <1>1, <1>2, <3>1
    <3>2. CASE fd # n
      <4>1. fdOf[eventMap[fd]] = fd /\ eventMap[fd] \in interest /\ eventMap[fd] \in Socks
        BY <1>1, <2>1, <3>2 DEF Inv, MapMatchesKernel, EventTypeOK
      <4>2. fdOf'[eventMap[fd]] = fd
        BY <4>1
      <4> QED
        BY <1>1, <1>2, <3>2, <4>1, <4>2
    <3> QED
      BY <3>1, <3>2
  <2>2. ASSUME NEW other \in interest' PROVE eventMap'[fdOf'[other]] = other
    <3>1. CASE other = s
      BY <1>1, <3>1
    <3>2. CASE other # s
      <4>1. other \in interest /\ other \in Socks
        BY <1>2, <2>2, <3>2 DEF Inv, EventTypeOK
      <4>2. fdOf'[other] = fdOf[other] /\ eventMap[fdOf[other]] = other
        BY <3>2, <4>1 DEF Inv, MapMatchesKernel
      <4>3. fdOf[other] # n
        BY <1>3, <3>2, <4>1, <4>2, SockAssumption
      <4>4. fdOf[other] \in Fds
        BY <4>1 DEF Inv, NewUnknown, Numbered
      <4> QED
        BY <1>1, <4>2, <4>3, <4>4
    <3> QED
      BY <3>1, <3>2
  <2> QED
    BY <2>1, <2>2 DEF MapMatchesKernel
<1>5. BatchCurrent'
  <2> SUFFICES ASSUME NEW other \in batch \ {Pipe}, fdOf'[other] \notin expired
               PROVE  eventMap'[fdOf'[other]] = other
    BY DEF BatchCurrent
  <2>1. other \in Socks
    BY DEF Inv, EventTypeOK
  <2>2. fdOf'[other] = fdOf[other] /\ fdOf[other] \in Fds
    BY <2>1 DEF Inv, NewUnknown, Numbered
  <2>3. eventMap[fdOf[other]] = other
    BY <2>2 DEF Inv, BatchCurrent
  <2> QED
    BY <1>1, <2>1, <2>2, <2>3, SockAssumption
<1> QED
  BY <1>1, <1>2, <1>4, <1>5

(* delEvent on the loop thread of a file that is still open.                *)
LEMMA DelNowSafe ==
  ASSUME Inv, NEW s \in Socks, FileOpen(s), DelNow(s), UNCHANGED <<fdOf, batch>>
  PROVE  /\ MapMatchesKernel' /\ BatchCurrent'
         /\ eventMap' \in [Fds -> Socks \cup {None}]
         /\ interest' \subseteq interest /\ ready' \subseteq ready /\ expired' \subseteq Fds
         /\ \A fd \in Fds : eventMap'[fd] # eventMap[fd] => eventMap'[fd] = None
<1> DEFINE n == fdOf[s]
<1>1. n \in Fds
  BY DEF Inv, NewUnknown, Numbered
<1>2. CASE eventMap[n] = None
  BY <1>1, <1>2 DEF DelNow, Inv, EventTypeOK, MapMatchesKernel, BatchCurrent
<1>3. CASE eventMap[n] # None
  <2>1. eventMap[n] \in Socks /\ fdOf[eventMap[n]] = n
    BY <1>1, <1>3 DEF Inv, MapMatchesKernel, EventTypeOK
  <2>2. eventMap[n] = s
    BY <1>1, <2>1 DEF Inv, NumbersDistinct, FileOpen
  <2>3. /\ eventMap' = [eventMap EXCEPT ![n] = None]
        /\ expired' = expired \cup {n}
        /\ interest' = interest \ {s}
        /\ ready' = ready \ {s}
    BY <1>3 DEF DelNow
  <2>4. /\ eventMap'[n] = None
        /\ \A fd \in Fds : fd # n => eventMap'[fd] = eventMap[fd]
        /\ eventMap' \in [Fds -> Socks \cup {None}]
    BY <1>1, <2>3 DEF Inv, EventTypeOK
  <2>5. MapMatchesKernel'
    <3>1. ASSUME NEW fd \in Fds, eventMap'[fd] # None
          PROVE  fdOf[eventMap'[fd]] = fd /\ eventMap'[fd] \in interest'
      <4>1. fd # n /\ eventMap'[fd] = eventMap[fd]
        BY <2>4, <3>1
      <4>2. fdOf[eventMap[fd]] = fd /\ eventMap[fd] \in interest
        BY <3>1, <4>1 DEF Inv, MapMatchesKernel
      <4> QED
        BY <2>3, <4>1, <4>2
    <3>2. ASSUME NEW other \in interest' PROVE eventMap'[fdOf[other]] = other
      <4>1. other \in interest /\ other # s /\ other \in Socks
        BY <2>3, <3>2 DEF Inv, EventTypeOK
      <4>2. eventMap[fdOf[other]] = other /\ fdOf[other] \in Fds
        BY <4>1 DEF Inv, MapMatchesKernel, NewUnknown, Numbered
      <4> QED
        BY <2>2, <2>4, <4>1, <4>2
    <3> QED
      BY <3>1, <3>2 DEF MapMatchesKernel
  <2>6. BatchCurrent'
    <3> SUFFICES ASSUME NEW other \in batch \ {Pipe}, fdOf[other] \notin expired'
                 PROVE  eventMap'[fdOf[other]] = other
      BY DEF BatchCurrent
    <3>1. other \in Socks /\ fdOf[other] \in Fds
      BY DEF Inv, EventTypeOK, NewUnknown, Numbered
    <3> QED
      BY <2>3, <2>4, <3>1 DEF Inv, BatchCurrent
  <2>7. /\ interest' \subseteq interest /\ ready' \subseteq ready
        /\ \A fd \in Fds : eventMap'[fd] # eventMap[fd] => eventMap'[fd] = None
    BY <2>3, <2>4
  <2>8. expired' \subseteq Fds
    BY <1>1, <2>3 DEF Inv, EventTypeOK
  <2> QED
    BY <2>4, <2>5, <2>6, <2>7, <2>8
<1> QED
  BY <1>2, <1>3

-----------------------------------------------------------------------------
LEMMA OpenSafe ==
  ASSUME Inv, NEW s \in Socks, NEW fd \in Fds, Open(s, fd),
         \A other \in Socks : FileOpen(other)' => FileOpen(other) \/ other = s
  PROVE  /\ NumbersDistinct' /\ Numbered'
         /\ phase' \in [Socks -> {"new", "open", "detached", "destroyed"}]
         /\ fdOf' \in [Socks -> Fds \cup {None}]
         /\ fdOf'[s] = fd /\ \A other \in Socks : other # s => fdOf'[other] = fdOf[other]
         /\ s \notin interest /\ s \notin batch /\ ~FileOpen(s)
         /\ \A other \in Socks : FileOpen(other) => fdOf[other] # fd
         /\ \A other \in Socks : phase'[other] = "new" => phase[other] = "new" /\ other # s
<1>1. /\ phase' = [phase EXCEPT ![s] = "open"]
      /\ fdOf' = [fdOf EXCEPT ![s] = fd]
      /\ phase[s] = "new"
      /\ \A other \in Socks : FileOpen(other) => fdOf[other] # fd
  BY DEF Open, FreeFds
<1>2. /\ phase' \in [Socks -> {"new", "open", "detached", "destroyed"}]
      /\ fdOf' \in [Socks -> Fds \cup {None}]
      /\ fdOf'[s] = fd /\ \A other \in Socks : other # s => fdOf'[other] = fdOf[other]
      /\ \A other \in Socks : phase'[other] = "new" => phase[other] = "new" /\ other # s
      /\ \A other \in Socks : other # s => phase'[other] = phase[other]
  BY <1>1 DEF Inv, EventTypeOK
<1>3. NumbersDistinct'
  <2> SUFFICES ASSUME NEW a \in Socks, NEW b \in Socks, FileOpen(a)', FileOpen(b)',
                      fdOf'[a] = fdOf'[b]
               PROVE  a = b
    BY DEF NumbersDistinct
  <2> QED
    BY <1>1, <1>2 DEF Inv, NumbersDistinct
<1>4. Numbered'
  BY <1>2 DEF Inv, Numbered
<1> QED
  BY <1>1, <1>2, <1>3, <1>4 DEF Inv, NewUnknown

-----------------------------------------------------------------------------
(* The steps.                                                               *)
LEMMA OpenOnLoopSafe ==
  ASSUME Inv, NEW s \in Socks, NEW fd \in Fds, OpenOnLoop(s, fd)
  PROVE  Inv'
<1>1. /\ Open(s, fd) /\ AddNow(s, fd) /\ OnLoop
      /\ UNCHANGED <<expired, batch, tasks, running, pc, event, current>>
  BY DEF OpenOnLoop, loopVars
<1>2. \A other \in Socks : FileOpen(other)' => FileOpen(other) \/ other = s
  <2>1. \A op : Queued(op, s)' = Queued(op, s)
    BY <1>1 DEF Queued
  <2> QED
    BY <1>1 DEF FileOpen, Queued, AddNow, Open, Inv, EventTypeOK
<1>3. /\ NumbersDistinct' /\ Numbered'
      /\ phase' \in [Socks -> {"new", "open", "detached", "destroyed"}]
      /\ fdOf' \in [Socks -> Fds \cup {None}]
      /\ fdOf'[s] = fd /\ \A other \in Socks : other # s => fdOf'[other] = fdOf[other]
      /\ s \notin interest /\ s \notin batch /\ ~FileOpen(s)
      /\ \A other \in Socks : FileOpen(other) => fdOf[other] # fd
      /\ \A other \in Socks : phase'[other] = "new" => phase[other] = "new" /\ other # s
  BY <1>1, <1>2, OpenSafe
<1>4. eventMap[fd] = None
  BY <1>3 DEF Inv, EventTypeOK, MapMatchesKernel, FileOpen
<1>5. \A n \in Fds : eventMap[n] # s
  BY <1>3 DEF FileOpen
<1>6. /\ MapMatchesKernel' /\ BatchCurrent'
      /\ eventMap' \in [Fds -> Socks \cup {None}]
      /\ interest' = interest \cup {s} /\ ready' \subseteq Socks
  BY <1>1, <1>3, <1>4, <1>5, AddNowSafe
<1>7. EventTypeOK'
  BY <1>1, <1>3, <1>6 DEF Inv, EventTypeOK
<1>8. NewUnknown'
  BY <1>1, <1>2, <1>3, <1>6 DEF Inv, NewUnknown
<1>9. RightCallback'
  BY <1>1 DEF Inv, RightCallback
<1> QED
  BY <1>3, <1>6, <1>7, <1>8, <1>9 DEF Inv

LEMMA OpenElsewhereSafe ==
  ASSUME Inv, NEW s \in Socks, NEW fd \in Fds, OpenElsewhere(s, fd)
  PROVE  Inv'
<1> DEFINE e == [op |-> "add", sock |-> s]
<1>1. /\ Open(s, fd) /\ tasks' = Append(tasks, e) /\ e \in Op
      /\ UNCHANGED <<eventMap, interest, ready, expired, batch, running, pc, event, current>>
  BY DEF OpenElsewhere, loopVars, Op
<1>2. \A op, other : Queued(op, other)' => Queued(op, other) \/ other = s
  <2> SUFFICES ASSUME NEW op, NEW other, Queued(op, other)'
               PROVE  Queued(op, other) \/ other = s
    OBVIOUS
  <2>1. tasks \in Seq(Op)
    BY DEF Inv, EventTypeOK
  <2>2. CASE In(running, op, other)
    BY <2>2 DEF Queued
  <2>3. CASE In(Append(tasks, e), op, other)
    BY <1>1, <2>1, <2>3, InAppend DEF Queued
  <2> QED
    BY <1>1, <2>2, <2>3 DEF Queued
<1>3. \A other \in Socks : FileOpen(other)' => FileOpen(other) \/ other = s
  BY <1>1, <1>2 DEF FileOpen, Open, Inv, EventTypeOK
<1>4. /\ NumbersDistinct' /\ Numbered'
      /\ phase' \in [Socks -> {"new", "open", "detached", "destroyed"}]
      /\ fdOf' \in [Socks -> Fds \cup {None}]
      /\ fdOf'[s] = fd /\ \A other \in Socks : other # s => fdOf'[other] = fdOf[other]
      /\ s \notin interest /\ s \notin batch /\ ~FileOpen(s)
      /\ \A other \in Socks : phase'[other] = "new" => phase[other] = "new" /\ other # s
  BY <1>1, <1>3, OpenSafe
<1>5. EventTypeOK'
  BY <1>1, <1>4 DEF Inv, EventTypeOK
<1>6. NewUnknown'
  BY <1>1, <1>3, <1>4 DEF Inv, NewUnknown
<1>7. MapMatchesKernel'
  <2>1. \A n \in Fds : eventMap[n] # s
    BY <1>4 DEF FileOpen
  <2>2. ASSUME NEW n \in Fds, eventMap'[n] # None
        PROVE  fdOf'[eventMap'[n]] = n /\ eventMap'[n] \in interest'
    BY <1>1, <1>4, <2>1, <2>2 DEF Inv, EventTypeOK, MapMatchesKernel
  <2>3. ASSUME NEW other \in interest' PROVE eventMap'[fdOf'[other]] = other
    BY <1>1, <1>4, <2>3 DEF Inv, EventTypeOK, MapMatchesKernel
  <2> QED
    BY <2>2, <2>3 DEF MapMatchesKernel
<1>8. BatchCurrent'
  BY <1>1, <1>4 DEF Inv, EventTypeOK, BatchCurrent
<1>9. RightCallback'
  BY <1>1 DEF Inv, RightCallback
<1> QED
  BY <1>4, <1>5, <1>6, <1>7, <1>8, <1>9 DEF Inv

(* closeSock and ~SockFD on the loop thread: delEvent of an open file, whose *)
(* phase moves on.                                                           *)
LEMMA CloseOnLoopSafe ==
  ASSUME Inv, NEW s \in Socks, NEW new \in {"detached", "destroyed"},
         phase[s] = "open", phase' = [phase EXCEPT ![s] = new], DelNow(s),
         UNCHANGED <<fdOf, tasks, batch, running, pc, event, current>>
  PROVE  Inv'
<1>1. FileOpen(s)
  BY DEF FileOpen
<1>2. /\ MapMatchesKernel' /\ BatchCurrent'
      /\ eventMap' \in [Fds -> Socks \cup {None}]
      /\ interest' \subseteq interest /\ ready' \subseteq ready /\ expired' \subseteq Fds
      /\ \A fd \in Fds : eventMap'[fd] # eventMap[fd] => eventMap'[fd] = None
  BY <1>1, DelNowSafe
<1>3. \A other \in Socks : FileOpen(other)' => FileOpen(other)
  <2>1. \A op, other : Queued(op, other)' = Queued(op, other)
    BY DEF Queued
  <2>2. \A other \in Socks : phase'[other] \in {"open", "detached"}
                               => phase[other] \in {"open", "detached"}
    BY DEF Inv, EventTypeOK
  <2> QED
    BY <1>2, <2>1, <2>2, SockAssumption DEF FileOpen
<1>4. \A other \in Socks : phase'[other] = "new" <=> phase[other] = "new"
  BY DEF Inv, EventTypeOK
<1>5. NumbersDistinct' /\ Numbered' /\ NewUnknown'
  BY <1>2, <1>3, <1>4, KeepsFiles
<1>6. EventTypeOK'
  BY <1>2 DEF Inv, EventTypeOK
<1> QED
  BY <1>2, <1>5, <1>6 DEF Inv, RightCallback

LEMMA DestroyElsewhereSafe ==
  ASSUME Inv, NEW s \in Socks, DestroyElsewhere(s)
  PROVE  Inv'
<1> DEFINE e == [op |-> "del", sock |-> s]
<1>1. /\ phase[s] = "open" /\ phase' = [phase EXCEPT ![s] = "destroyed"]
      /\ tasks' = Append(tasks, e) /\ e \in Op
      /\ UNCHANGED <<fdOf, eventMap, interest, ready, expired, batch, running, pc, event,
                     current>>
  BY DEF DestroyElsewhere, loopVars, Op
<1>2. \A op, other : Queued(op, other)' => Queued(op, other) \/ other = s
  <2> SUFFICES ASSUME NEW op, NEW other, Queued(op, other)'
               PROVE  Queued(op, other) \/ other = s
    OBVIOUS
  <2>1. tasks \in Seq(Op)
    BY DEF Inv, EventTypeOK
  <2>2. CASE In(running, op, other)
    BY <2>2 DEF Queued
  <2>3. CASE In(Append(tasks, e), op, other)
    BY <1>1, <2>1, <2>3, InAppend DEF Queued
  <2> QED
    BY <1>1, <2>2, <2>3 DEF Queued
<1>3. \A other \in Socks : FileOpen(other)' => FileOpen(other)
  BY <1>1, <1>2 DEF FileOpen, Inv, EventTypeOK
<1>4. \A other \in Socks : phase'[other] = "new" <=> phase[other] = "new"
  BY <1>1 DEF Inv, EventTypeOK
<1>5. NumbersDistinct' /\ Numbered' /\ NewUnknown'
  BY <1>1, <1>3, <1>4, KeepsFiles
<1>6. EventTypeOK'
  BY <1>1 DEF Inv, EventTypeOK
<1> QED
  BY <1>1, <1>5, <1>6 DEF Inv, RightCallback, MapMatchesKernel, BatchCurrent

LEMMA DestroyDetachedSafe ==
  ASSUME Inv, NEW s \in Socks, DestroyDetached(s)
  PROVE  Inv'
<1>1. /\ phase[s] = "detached" /\ phase' = [phase EXCEPT ![s] = "destroyed"]
      /\ UNCHANGED <<fdOf, eventMap, interest, ready, tasks, expired, batch, running, pc,
                     event, current>>
  BY DEF DestroyDetached, loopVars
<1>2. \A other \in Socks : FileOpen(other)' => FileOpen(other)
  BY <1>1 DEF FileOpen, Queued, Inv, EventTypeOK
<1>3. \A other \in Socks : phase'[other] = "new" <=> phase[other] = "new"
  BY <1>1 DEF Inv, EventTypeOK
<1>4. NumbersDistinct' /\ Numbered' /\ NewUnknown'
  BY <1>1, <1>2, <1>3, KeepsFiles
<1>5. EventTypeOK'
  BY <1>1 DEF Inv, EventTypeOK
<1> QED
  BY <1>1, <1>4, <1>5 DEF Inv, RightCallback, MapMatchesKernel, BatchCurrent

LEMMA BecomeReadySafe ==
  ASSUME Inv, NEW s \in Socks, BecomeReady(s)
  PROVE  Inv'
<1>1. /\ ready' = ready \cup {s}
      /\ UNCHANGED <<phase, fdOf, eventMap, interest, tasks, expired, batch, running, pc,
                     event, current>>
  BY DEF BecomeReady, loopVars
<1>2. NumbersDistinct' /\ Numbered' /\ NewUnknown'
  BY <1>1, KeepsFiles DEF FileOpen, Queued
<1>3. EventTypeOK'
  BY <1>1 DEF Inv, EventTypeOK
<1> QED
  BY <1>1, <1>2, <1>3 DEF Inv, RightCallback, MapMatchesKernel, BatchCurrent

(* Every event epoll_wait returns is about a watched file, whose callback   *)
(* the map has.                                                             *)
LEMMA EpollWaitSafe ==
  ASSUME Inv, EpollWait
  PROVE  Inv'
<1>1. /\ batch' = Reportable /\ ready' = {} /\ expired' = {}
      /\ pc = "wait" /\ pc' = "dispatch"
      /\ UNCHANGED <<phase, fdOf, eventMap, interest, tasks, running, event, current>>
  BY DEF EpollWait
<1>2. Reportable \subseteq interest \cup {Pipe}
  BY DEF Reportable
<1>3. NumbersDistinct' /\ Numbered' /\ NewUnknown'
  BY <1>1, <1>2, KeepsFiles DEF FileOpen, Queued
<1>4. EventTypeOK'
  BY <1>1, <1>2 DEF Inv, EventTypeOK
<1>5. BatchCurrent'
  BY <1>1, <1>2 DEF Inv, BatchCurrent, MapMatchesKernel
<1>6. MapMatchesKernel'
  BY <1>1 DEF Inv, MapMatchesKernel
<1> QED
  BY <1>1, <1>3, <1>4, <1>5, <1>6 DEF Inv, RightCallback

LEMMA SkipExpiredSafe ==
  ASSUME Inv, NEW s \in Socks, SkipExpired(s)
  PROVE  Inv'
<1>1. /\ batch' = batch \ {s}
      /\ UNCHANGED <<phase, fdOf, eventMap, interest, ready, expired, tasks, running, pc,
                     event, current>>
  BY DEF SkipExpired, TakeEvent
<1>2. NumbersDistinct' /\ Numbered' /\ NewUnknown'
  BY <1>1, KeepsFiles DEF FileOpen, Queued
<1>3. EventTypeOK'
  BY <1>1 DEF Inv, EventTypeOK
<1> QED
  BY <1>1, <1>2, <1>3 DEF Inv, RightCallback, MapMatchesKernel, BatchCurrent

LEMMA DispatchSafe ==
  ASSUME Inv, NEW s \in Socks, Dispatch(s)
  PROVE  Inv'
<1>1. /\ s \in batch /\ batch' = batch \ {s} /\ pc = "dispatch"
      /\ fdOf[s] \notin expired
      /\ UNCHANGED <<phase, fdOf, eventMap, ready, expired, tasks, running>>
  BY DEF Dispatch, TakeEvent
<1>2. s \in batch \ {Pipe} /\ s # None
  BY <1>1, SockAssumption
<1>3. eventMap[fdOf[s]] = s
  BY <1>1, <1>2 DEF Inv, BatchCurrent
<1>4. event' = s /\ current' = s /\ pc' = "callback" /\ interest' = interest
  BY <1>2, <1>3 DEF Dispatch
<1>5. \A other \in Socks : FileOpen(other)' => FileOpen(other)
  <2>1. fdOf[s] \in Fds
    BY <1>1 DEF Inv, NewUnknown, Numbered
  <2>2. FileOpen(s)
    BY <1>3, <2>1 DEF FileOpen
  <2> QED
    BY <1>1, <1>4, <2>2 DEF FileOpen, Queued
<1>6. NumbersDistinct' /\ Numbered' /\ NewUnknown'
  BY <1>1, <1>4, <1>5, KeepsFiles
<1>7. EventTypeOK'
  BY <1>1, <1>2, <1>4 DEF Inv, EventTypeOK
<1> QED
  BY <1>1, <1>4, <1>6, <1>7 DEF Inv, RightCallback, MapMatchesKernel, BatchCurrent

LEMMA CallbackReturnsSafe ==
  ASSUME Inv, CallbackReturns
  PROVE  Inv'
<1>1. /\ event' = None /\ current' = None /\ pc' = "dispatch"
      /\ UNCHANGED <<phase, fdOf, eventMap, interest, ready, expired, batch, tasks, running>>
  BY DEF CallbackReturns
<1>2. \A other \in Socks : FileOpen(other)' => FileOpen(other)
  BY <1>1, SockAssumption DEF FileOpen, Queued
<1>3. NumbersDistinct' /\ Numbered' /\ NewUnknown'
  BY <1>1, <1>2, KeepsFiles
<1>4. EventTypeOK'
  BY <1>1 DEF Inv, EventTypeOK
<1> QED
  BY <1>1, <1>3, <1>4 DEF Inv, RightCallback, MapMatchesKernel, BatchCurrent

LEMMA TakeTasksSafe ==
  ASSUME Inv, TakeTasks
  PROVE  Inv'
<1>1. /\ batch' = batch \ {Pipe} /\ pc = "dispatch" /\ pc' = "tasks"
      /\ running' = tasks /\ tasks' = <<>>
      /\ UNCHANGED <<phase, fdOf, eventMap, interest, ready, expired, event, current>>
  BY DEF TakeTasks, TakeEvent
<1>2. \A op, other : Queued(op, other)' => Queued(op, other)
  BY <1>1, InEmpty DEF Queued
<1>3. \A other \in Socks : FileOpen(other)' => FileOpen(other)
  BY <1>1, <1>2 DEF FileOpen
<1>4. NumbersDistinct' /\ Numbered' /\ NewUnknown'
  BY <1>1, <1>3, KeepsFiles
<1>5. EventTypeOK'
  BY <1>1 DEF Inv, EventTypeOK
<1> QED
  BY <1>1, <1>4, <1>5 DEF Inv, RightCallback, MapMatchesKernel, BatchCurrent

(* A queued call is about a file that the queue itself keeps open.          *)
LEMMA RunTaskSafe ==
  ASSUME Inv, RunQueued
  PROVE  Inv'
<1> DEFINE s == Head(running).sock
<1>1. /\ running \in Seq(Op) /\ running # <<>> /\ pc = "tasks"
      /\ running' = Tail(running)
      /\ UNCHANGED <<phase, fdOf, batch, tasks, pc, event, current>>
  BY DEF RunQueued, Inv, EventTypeOK
<1>2. Head(running) \in Op /\ s \in Socks /\ Queued(Head(running).op, s)
  BY <1>1, InHead DEF Op, Queued
<1>3. FileOpen(s)
  BY <1>2 DEF FileOpen, Op
<1>4. fdOf[s] \in Fds
  BY <1>2, <1>3 DEF Inv, NewUnknown, Numbered
<1>5. \A op, other : Queued(op, other)' => Queued(op, other)
  BY <1>1, InTail DEF Queued
<1>6. /\ MapMatchesKernel' /\ BatchCurrent'
      /\ eventMap' \in [Fds -> Socks \cup {None}]
      /\ interest' \subseteq interest \cup {s} /\ ready' \subseteq Socks
      /\ expired' \subseteq Fds
      /\ \A fd \in Fds : eventMap'[fd] # eventMap[fd] => eventMap'[fd] \in {s, None}
  <2>1. CASE Head(running).op = "add"
    <3>1. AddNow(s, fdOf[s]) /\ expired' = expired
      BY <2>1 DEF RunQueued
    <3>2. eventMap[fdOf[s]] \in {None, s}
      BY <1>2, <1>3, <1>4 DEF Inv, EventTypeOK, MapMatchesKernel, NumbersDistinct, FileOpen
    <3>3. /\ MapMatchesKernel' /\ BatchCurrent'
          /\ eventMap' \in [Fds -> Socks \cup {None}]
          /\ interest' = interest \cup {s} /\ ready' \subseteq Socks
          /\ \A fd \in Fds : eventMap'[fd] # eventMap[fd] => eventMap'[fd] = s
      <4>1. fdOf' = fdOf /\ UNCHANGED <<expired, batch>>
        BY <1>1, <3>1
      <4> HIDE DEF s
      <4> QED
        BY <1>2, <1>4, <3>1, <3>2, <4>1, AddNowSafe
    <3> QED
      BY <3>1, <3>3 DEF Inv, EventTypeOK
  <2>2. CASE Head(running).op = "del"
    <3>1. DelNow(s)
      BY <2>2 DEF RunQueued
    <3>2. /\ MapMatchesKernel' /\ BatchCurrent'
          /\ eventMap' \in [Fds -> Socks \cup {None}]
          /\ interest' \subseteq interest /\ ready' \subseteq ready /\ expired' \subseteq Fds
          /\ \A fd \in Fds : eventMap'[fd] # eventMap[fd] => eventMap'[fd] = None
      <4> HIDE DEF s
      <4> QED
        BY <1>1, <1>2, <1>3, <3>1, DelNowSafe
    <3> QED
      BY <3>2 DEF Inv, EventTypeOK
  <2> QED
    BY <1>2, <2>1, <2>2 DEF Op
<1> HIDE DEF s
<1>7. \A other \in Socks : FileOpen(other)' => FileOpen(other)
  BY <1>1, <1>3, <1>5, <1>6, SockAssumption DEF FileOpen
<1>8. NumbersDistinct' /\ Numbered' /\ NewUnknown'
  BY <1>1, <1>3, <1>6, <1>7, KeepsFiles
<1>9. EventTypeOK'
  BY <1>1, <1>2, <1>6 DEF Inv, EventTypeOK
<1> QED
  BY <1>1, <1>6, <1>8, <1>9 DEF Inv, RightCallback

LEMMA LoopMovesSafe ==
  ASSUME Inv, TasksDone \/ BatchDone
  PROVE  Inv'
<1>1. /\ pc \in {"tasks", "dispatch"} /\ pc' \in {"dispatch", "wait"}
      /\ UNCHANGED <<phase, fdOf, eventMap, interest, ready, expired, batch, tasks, running,
                     event, current>>
  BY DEF TasksDone, BatchDone
<1>2. NumbersDistinct' /\ Numbered' /\ NewUnknown'
  BY <1>1, KeepsFiles DEF FileOpen, Queued
<1>3. EventTypeOK'
  BY <1>1 DEF Inv, EventTypeOK
<1> QED
  BY <1>1, <1>2, <1>3 DEF Inv, RightCallback, MapMatchesKernel, BatchCurrent

LEMMA Inductive == Inv /\ [EventNext]_eventVars => Inv'
<1> SUFFICES ASSUME Inv, [EventNext]_eventVars PROVE Inv'
  OBVIOUS
<1>1. CASE UNCHANGED eventVars
  <2>1. NumbersDistinct' /\ Numbered' /\ NewUnknown'
    BY <1>1, KeepsFiles DEF eventVars, FileOpen, Queued
  <2> QED
    BY <1>1, <2>1 DEF eventVars, Inv, EventTypeOK, RightCallback, MapMatchesKernel, BatchCurrent
<1>2. CASE DispatchStep
  BY <1>2, EpollWaitSafe, CallbackReturnsSafe, TakeTasksSafe, RunTaskSafe, LoopMovesSafe,
     SkipExpiredSafe, DispatchSafe DEF DispatchStep
<1>3. ASSUME NEW s \in Socks, SockStep(s) PROVE Inv'
  <2>1. ASSUME NEW fd \in Fds, OpenOnLoop(s, fd) \/ OpenElsewhere(s, fd) PROVE Inv'
    BY <2>1, OpenOnLoopSafe, OpenElsewhereSafe
  <2>2. CASE DestroyOnLoop(s)
    BY <2>2, CloseOnLoopSafe DEF DestroyOnLoop
  <2>3. CASE DetachOnLoop(s)
    BY <2>3, CloseOnLoopSafe DEF DetachOnLoop
  <2>4. CASE DestroyElsewhere(s)
    BY <2>4, DestroyElsewhereSafe
  <2>5. CASE DestroyDetached(s)
    BY <2>5, DestroyDetachedSafe
  <2> QED
    BY <1>3, <2>1, <2>2, <2>3, <2>4, <2>5 DEF SockStep
<1>4. ASSUME NEW s \in Socks, BecomeReady(s) PROVE Inv'
  BY <1>4, BecomeReadySafe
<1> QED
  BY <1>1, <1>2, <1>3, <1>4 DEF EventNext

LEMMA Invariance == EventSpec => []Inv
  BY InvInit, Inductive, PTL DEF EventSpec

-----------------------------------------------------------------------------
(* The registration state of the loop is well formed for any number of      *)
(* sockets and descriptors (addEvent, delEvent and the dispatch loop).      *)
THEOREM TypeCorrect == EventSpec => []EventTypeOK
<1>1. Inv => EventTypeOK
  BY DEF Inv
<1> QED
  BY <1>1, Invariance, PTL

(* An event runs the callback of the file it is about, however often the    *)
(* number was deleted and reused since epoll_wait returned (runLoop's check *)
(* of _event_cache_expired), even when an early destruction is allowed.     *)
THEOREM DispatchCorrect == EventSpec => []RightCallback
<1>1. Inv => RightCallback
  BY DEF Inv
<1> QED
  BY <1>1, Invariance, PTL

(* _event_map and the kernel agree: SockFD closes its number only after     *)
(* delEvent has taken effect, because the queued call holds the SockNum.    *)
THEOREM MapCorrect == EventSpec => []MapMatchesKernel
<1>1. Inv => MapMatchesKernel
  BY DEF Inv
<1> QED
  BY <1>1, Invariance, PTL

-----------------------------------------------------------------------------
(* Nothing keeps the file of a destroyed SockFD open.  The queued delEvent  *)
(* of a socket comes after its addEvent, and a destroyed socket that is     *)
(* still known to the loop has one to come.                                 *)
Ordered(queue) ==
  \A i, j \in 1..Len(queue) :
    queue[i].op = "del" /\ queue[j].op = "add" /\ queue[i].sock = queue[j].sock => j < i

Registered(s) == \E fd \in Fds : eventMap[fd] = s

FileInv ==
  /\ running # <<>> => pc = "tasks"
  /\ Ordered(tasks) /\ Ordered(running)
  /\ \A s \in Socks :
       /\ In(running, "del", s) => ~In(tasks, "add", s)
       /\ Queued("add", s) => phase[s] \in {"open", "destroyed"}
       /\ Queued("del", s) => phase[s] = "destroyed"
       /\ phase[s] \notin {"new", "open"} /\ (Queued("add", s) \/ Registered(s)) => Queued("del", s)

LEMMA FileInit == EventInit => FileInv
<1> SUFFICES ASSUME EventInit PROVE FileInv
  OBVIOUS
<1>1. \A op, s : ~Queued(op, s)
  BY InEmpty DEF EventInit, Queued
<1>2. Ordered(<<>>)
  BY DEF Ordered
<1> QED
  BY <1>1, <1>2, InEmpty DEF EventInit, FileInv

LEMMA InAppended ==
  ASSUME NEW q \in Seq(Op), NEW e \in Op
  PROVE  /\ In(Append(q, e), e.op, e.sock)
         /\ \A op, s : In(q, op, s) => In(Append(q, e), op, s)
<1>1. In(Append(q, e), e.op, e.sock)
  <2>1. Len(q) + 1 \in 1..Len(Append(q, e)) /\ Append(q, e)[Len(q) + 1] = e
    OBVIOUS
  <2> QED
    BY <2>1 DEF In
<1>2. ASSUME NEW op, NEW s, In(q, op, s) PROVE In(Append(q, e), op, s)
  <2>1. PICK i \in 1..Len(q) : q[i].op = op /\ q[i].sock = s
    BY <1>2 DEF In
  <2>2. i \in 1..Len(Append(q, e)) /\ Append(q, e)[i] = q[i]
    OBVIOUS
  <2> QED
    BY <2>1, <2>2 DEF In
<1> QED
  BY <1>1, <1>2

LEMMA InRest ==
  ASSUME NEW q \in Seq(Op), q # <<>>, NEW op, NEW s, In(q, op, s)
  PROVE  In(Tail(q), op, s) \/ (Head(q).op = op /\ Head(q).sock = s)
<1>1. PICK i \in 1..Len(q) : q[i].op = op /\ q[i].sock = s
  BY DEF In
<1>2. CASE i = 1
  BY <1>1, <1>2
<1>3. CASE i # 1
  <2>1. i - 1 \in 1..Len(Tail(q)) /\ Tail(q)[i - 1] = q[i]
    BY <1>3
  <2> QED
    BY <1>1, <2>1 DEF In
<1> QED
  BY <1>2, <1>3

LEMMA OrderedAppend ==
  ASSUME NEW q \in Seq(Op), NEW e \in Op, Ordered(q), e.op = "add" => ~In(q, "del", e.sock)
  PROVE  Ordered(Append(q, e))
<1> SUFFICES ASSUME NEW i \in 1..Len(Append(q, e)), NEW j \in 1..Len(Append(q, e)),
                    Append(q, e)[i].op = "del", Append(q, e)[j].op = "add",
                    Append(q, e)[i].sock = Append(q, e)[j].sock
             PROVE  j < i
  BY DEF Ordered
<1>1. CASE i = Len(q) + 1
  <2>1. j # i
    OBVIOUS
  <2> QED
    BY <1>1, <2>1
<1>2. CASE i # Len(q) + 1 /\ j = Len(q) + 1
  <2>1. i \in 1..Len(q) /\ Append(q, e)[i] = q[i] /\ Append(q, e)[j] = e
    BY <1>2
  <2> QED
    BY <2>1 DEF In
<1>3. CASE i # Len(q) + 1 /\ j # Len(q) + 1
  <2>1. /\ i \in 1..Len(q) /\ Append(q, e)[i] = q[i]
        /\ j \in 1..Len(q) /\ Append(q, e)[j] = q[j]
    BY <1>3
  <2> QED
    BY <2>1 DEF Ordered
<1> QED
  BY <1>1, <1>2, <1>3

LEMMA OrderedTail ==
  ASSUME NEW q \in Seq(Op), q # <<>>, Ordered(q)
  PROVE  Ordered(Tail(q)) /\ (Head(q).op = "del" => ~In(Tail(q), "add", Head(q).sock))
<1>1. \A i \in 1..Len(Tail(q)) : i + 1 \in 1..Len(q) /\ Tail(q)[i] = q[i + 1]
  OBVIOUS
<1>2. Ordered(Tail(q))
  <2> SUFFICES ASSUME NEW i \in 1..Len(Tail(q)), NEW j \in 1..Len(Tail(q)),
                      Tail(q)[i].op = "del", Tail(q)[j].op = "add",
                      Tail(q)[i].sock = Tail(q)[j].sock
               PROVE  j < i
    BY DEF Ordered
  <2>1. j + 1 < i + 1
    BY <1>1 DEF Ordered
  <2> QED
    BY <2>1
<1>3. ASSUME Head(q).op = "del", In(Tail(q), "add", Head(q).sock) PROVE FALSE
  <2>1. PICK j \in 1..Len(Tail(q)) : Tail(q)[j].op = "add" /\ Tail(q)[j].sock = Head(q).sock
    BY <1>3 DEF In
  <2>2. 1 \in 1..Len(q) /\ q[1] = Head(q)
    OBVIOUS
  <2>3. j + 1 < 1
    BY <1>1, <1>3, <2>1, <2>2 DEF Ordered
  <2> QED
    BY <2>3
<1> QED
  BY <1>2, <1>3

(* The loop's steps that neither queue, run nor take a call and leave the   *)
(* registered callbacks alone.                                              *)
LEMMA FileKeeps ==
  ASSUME FileInv, UNCHANGED <<tasks, running, eventMap>>, running # <<>> => pc' = "tasks",
         \A s \in Socks :
           phase'[s] = phase[s] \/ (phase[s] = "detached" /\ phase'[s] = "destroyed")
  PROVE  FileInv'
<1>1. \A op, s : Queued(op, s)' = Queued(op, s)
  BY DEF Queued
<1>2. \A s \in Socks : Registered(s)' = Registered(s)
  BY DEF Registered
<1>3. /\ running' # <<>> => pc' = "tasks"
      /\ Ordered(tasks)' /\ Ordered(running)'
      /\ \A s \in Socks : In(running', "del", s) => ~In(tasks', "add", s)
  BY DEF FileInv
<1>4. ASSUME NEW s \in Socks
      PROVE  /\ Queued("add", s)' => phase'[s] \in {"open", "destroyed"}
             /\ Queued("del", s)' => phase'[s] = "destroyed"
             /\ phase'[s] \notin {"new", "open"} /\ (Queued("add", s) \/ Registered(s))'
                  => Queued("del", s)'
  BY <1>1, <1>2 DEF FileInv
<1> QED
  BY <1>3, <1>4 DEF FileInv

LEMMA FileOpenOnLoop ==
  ASSUME Inv, FileInv, NEW s \in Socks, NEW fd \in Fds, OpenOnLoop(s, fd)
  PROVE  FileInv'
<1>1. /\ phase[s] = "new" /\ phase' = [phase EXCEPT ![s] = "open"] /\ AddNow(s, fd)
      /\ UNCHANGED <<tasks, running, pc>>
  BY DEF OpenOnLoop, Open, loopVars
<1>2. \A op, other : Queued(op, other)' = Queued(op, other)
  BY <1>1 DEF Queued
<1>3. \A other \in Socks : other # s /\ Registered(other)' => Registered(other)
  <2> SUFFICES ASSUME NEW other \in Socks, other # s, NEW k \in Fds, eventMap'[k] = other
               PROVE  eventMap[k] = other
    BY DEF Registered
  <2> QED
    BY <1>1 DEF AddNow, Inv, EventTypeOK
<1>4. phase'[s] = "open" /\ \A other \in Socks : other # s => phase'[other] = phase[other]
  BY <1>1 DEF Inv, EventTypeOK
<1>5. ASSUME NEW other \in Socks
      PROVE  /\ Queued("add", other)' => phase'[other] \in {"open", "destroyed"}
             /\ Queued("del", other)' => phase'[other] = "destroyed"
             /\ phase'[other] \notin {"new", "open"} /\ (Queued("add", other) \/ Registered(other))'
                  => Queued("del", other)'
  BY <1>1, <1>2, <1>3, <1>4 DEF FileInv
<1> QED
  BY <1>1, <1>5 DEF FileInv

LEMMA FileOpenElsewhere ==
  ASSUME Inv, FileInv, NEW s \in Socks, NEW fd \in Fds, OpenElsewhere(s, fd)
  PROVE  FileInv'
<1> DEFINE e == [op |-> "add", sock |-> s]
<1>1. /\ phase[s] = "new" /\ phase' = [phase EXCEPT ![s] = "open"] /\ tasks' = Append(tasks, e)
      /\ UNCHANGED <<eventMap, running, pc>>
  BY DEF OpenElsewhere, Open, loopVars
<1>2. e \in Op /\ e.op = "add" /\ e.sock = s /\ tasks \in Seq(Op)
  BY DEF Op, Inv, EventTypeOK
<1> HIDE DEF e
<1>3. ~Queued("add", s) /\ ~Queued("del", s)
  BY <1>1 DEF FileInv
<1>4. /\ \A op, other : In(tasks', op, other) => In(tasks, op, other) \/ (op = "add" /\ other = s)
      /\ \A op, other : In(tasks, op, other) => In(tasks', op, other)
  BY <1>1, <1>2, InAppend, InAppended
<1>5. phase'[s] = "open" /\ \A other \in Socks : other # s => phase'[other] = phase[other]
  BY <1>1 DEF Inv, EventTypeOK
<1>6. Ordered(tasks')
  BY <1>1, <1>2, <1>3, OrderedAppend DEF FileInv, Queued
<1>7. \A op, other : /\ Queued(op, other)' => Queued(op, other) \/ (op = "add" /\ other = s)
                     /\ Queued(op, other) => Queued(op, other)'
  BY <1>1, <1>4 DEF Queued
<1>8. ASSUME NEW other \in Socks
      PROVE  /\ In(running', "del", other) => ~In(tasks', "add", other)
             /\ Queued("add", other)' => phase'[other] \in {"open", "destroyed"}
             /\ Queued("del", other)' => phase'[other] = "destroyed"
             /\ phase'[other] \notin {"new", "open"} /\ (Queued("add", other) \/ Registered(other))'
                  => Queued("del", other)'
  <2>1. CASE other = s
    BY <1>1, <1>3, <1>4, <1>5, <1>7, <2>1 DEF FileInv, Queued
  <2>2. CASE other # s
    <3>1. /\ \A op : Queued(op, other)' <=> Queued(op, other)
          /\ \A op : In(tasks', op, other) => In(tasks, op, other)
      BY <1>4, <1>7, <2>2
    <3>2. Registered(other)' = Registered(other)
      BY <1>1 DEF Registered
    <3> QED
      BY <1>1, <1>5, <2>2, <3>1, <3>2 DEF FileInv
  <2> QED
    BY <2>1, <2>2
<1> QED
  BY <1>1, <1>6, <1>8 DEF FileInv

(* delEvent on the loop thread leaves no callback of the socket, and no     *)
(* queued addEvent can bring it back.                                       *)
LEMMA DelNowForgets ==
  ASSUME Inv, NEW s \in Socks, FileOpen(s), DelNow(s), UNCHANGED <<fdOf, batch>>
  PROVE  /\ \A fd \in Fds : eventMap'[fd] # s
         /\ \A other \in Socks : Registered(other)' => Registered(other)
<1>1. /\ MapMatchesKernel' /\ eventMap' \in [Fds -> Socks \cup {None}]
      /\ \A fd \in Fds : eventMap'[fd] # eventMap[fd] => eventMap'[fd] = None
  BY DelNowSafe
<1>2. fdOf[s] \in Fds
  BY DEF Inv, NewUnknown, Numbered
<1>3. eventMap'[fdOf[s]] = None
  BY <1>2 DEF DelNow, Inv, EventTypeOK
<1>4. \A fd \in Fds : eventMap'[fd] # s
  BY <1>1, <1>3, SockAssumption DEF MapMatchesKernel
<1>5. \A other \in Socks : Registered(other)' => Registered(other)
  BY <1>1, SockAssumption DEF Registered
<1> QED
  BY <1>4, <1>5

LEMMA FileCloseOnLoop ==
  ASSUME Inv, FileInv, NEW s \in Socks, NEW new \in {"detached", "destroyed"},
         phase[s] = "open", ~Queued("add", s), phase' = [phase EXCEPT ![s] = new], DelNow(s),
         UNCHANGED <<fdOf, tasks, batch, running, pc, event, current>>
  PROVE  FileInv'
<1>1. FileOpen(s)
  BY DEF FileOpen
<1>2. ~Registered(s)' /\ \A other \in Socks : Registered(other)' => Registered(other)
  BY <1>1, DelNowForgets DEF Registered
<1>3. \A op, other : Queued(op, other)' = Queued(op, other)
  BY DEF Queued
<1>4. phase'[s] = new /\ \A other \in Socks : other # s => phase'[other] = phase[other]
  BY DEF Inv, EventTypeOK
<1>5. ~Queued("del", s)
  BY DEF FileInv
<1>6. ASSUME NEW other \in Socks
      PROVE  /\ Queued("add", other)' => phase'[other] \in {"open", "destroyed"}
             /\ Queued("del", other)' => phase'[other] = "destroyed"
             /\ phase'[other] \notin {"new", "open"} /\ (Queued("add", other) \/ Registered(other))'
                  => Queued("del", other)'
  <2>1. CASE other = s
    BY <1>2, <1>3, <1>5, <2>1
  <2>2. CASE other # s
    BY <1>2, <1>3, <1>4, <2>2 DEF FileInv
  <2> QED
    BY <2>1, <2>2
<1> QED
  BY <1>6 DEF FileInv

LEMMA FileDestroyElsewhere ==
  ASSUME Inv, FileInv, NEW s \in Socks, DestroyElsewhere(s)
  PROVE  FileInv'
<1> DEFINE e == [op |-> "del", sock |-> s]
<1>1. /\ phase[s] = "open" /\ phase' = [phase EXCEPT ![s] = "destroyed"]
      /\ tasks' = Append(tasks, e)
      /\ UNCHANGED <<eventMap, running, pc>>
  BY DEF DestroyElsewhere, loopVars
<1>2. e \in Op /\ e.op = "del" /\ e.sock = s /\ tasks \in Seq(Op)
  BY DEF Op, Inv, EventTypeOK
<1> HIDE DEF e
<1>3. /\ \A op, other : In(tasks', op, other) => In(tasks, op, other) \/ (op = "del" /\ other = s)
      /\ \A op, other : In(tasks, op, other) => In(tasks', op, other)
      /\ In(tasks', "del", s)
  BY <1>1, <1>2, InAppend, InAppended
<1>4. phase'[s] = "destroyed" /\ \A other \in Socks : other # s => phase'[other] = phase[other]
  BY <1>1 DEF Inv, EventTypeOK
<1>5. Ordered(tasks')
  BY <1>1, <1>2, OrderedAppend DEF FileInv
<1>6. /\ \A op, other : /\ Queued(op, other)' => Queued(op, other) \/ (op = "del" /\ other = s)
                        /\ Queued(op, other) => Queued(op, other)'
      /\ Queued("del", s)'
  BY <1>1, <1>3 DEF Queued
<1>7. \A other \in Socks : Registered(other)' = Registered(other)
  BY <1>1 DEF Registered
<1>8. ASSUME NEW other \in Socks
      PROVE  /\ In(running', "del", other) => ~In(tasks', "add", other)
             /\ Queued("add", other)' => phase'[other] \in {"open", "destroyed"}
             /\ Queued("del", other)' => phase'[other] = "destroyed"
             /\ phase'[other] \notin {"new", "open"} /\ (Queued("add", other) \/ Registered(other))'
                  => Queued("del", other)'
  <2>1. In(running', "del", other) => ~In(tasks', "add", other)
    BY <1>1, <1>3 DEF FileInv
  <2>2. CASE other = s
    BY <1>4, <1>6, <2>1, <2>2
  <2>3. CASE other # s
    BY <1>4, <1>6, <1>7, <2>1, <2>3 DEF FileInv
  <2> QED
    BY <2>2, <2>3
<1> QED
  BY <1>1, <1>5, <1>8 DEF FileInv

LEMMA FileTakeTasks ==
  ASSUME FileInv, TakeTasks
  PROVE  FileInv'
<1>1. /\ pc = "dispatch" /\ pc' = "tasks" /\ running' = tasks /\ tasks' = <<>>
      /\ UNCHANGED <<phase, eventMap>>
  BY DEF TakeTasks, TakeEvent
<1>2. running = <<>>
  BY <1>1 DEF FileInv
<1>3. \A op, s : Queued(op, s)' = Queued(op, s)
  BY <1>1, <1>2, InEmpty DEF Queued
<1>4. \A s \in Socks : Registered(s)' = Registered(s)
  BY <1>1 DEF Registered
<1>5. Ordered(<<>>) /\ \A s : ~In(tasks', "add", s)
  BY <1>1, InEmpty DEF Ordered
<1>6. ASSUME NEW s \in Socks
      PROVE  /\ Queued("add", s)' => phase'[s] \in {"open", "destroyed"}
             /\ Queued("del", s)' => phase'[s] = "destroyed"
             /\ phase'[s] \notin {"new", "open"} /\ (Queued("add", s) \/ Registered(s))'
                  => Queued("del", s)'
  BY <1>1, <1>3, <1>4 DEF FileInv
<1> QED
  BY <1>1, <1>5, <1>6 DEF FileInv

LEMMA FileRunTask ==
  ASSUME Inv, FileInv, RunQueued
  PROVE  FileInv'
<1>1. /\ running \in Seq(Op) /\ running # <<>> /\ pc = "tasks" /\ running' = Tail(running)
      /\ UNCHANGED <<phase, fdOf, batch, tasks, pc>>
  BY DEF RunQueued, Inv, EventTypeOK
<1>0. PICK s \in Socks, op \in {"add", "del"} : Head(running).sock = s /\ Head(running).op = op
  BY <1>1, InHead DEF Op
<1>2. In(running, op, s)
  BY <1>0, <1>1, InHead
<1>3. op = "add" => AddNow(s, fdOf[s])
  BY <1>0 DEF RunQueued
<1>4. op = "del" => DelNow(s)
  BY <1>0 DEF RunQueued
<1>5. /\ Ordered(running') /\ (op = "del" => ~In(running', "add", s))
      /\ \A o, other : In(running', o, other) => In(running, o, other)
      /\ \A o, other : In(running, o, other) => In(running', o, other) \/ (o = op /\ other = s)
  BY <1>0, <1>1, OrderedTail, InTail, InRest DEF FileInv
<1>6. FileOpen(s)
  BY <1>2 DEF FileOpen, Queued
<1>7. /\ \A o, other : Queued(o, other)' => Queued(o, other)
      /\ \A o, other : Queued(o, other) => Queued(o, other)' \/ (o = op /\ other = s)
  BY <1>1, <1>5 DEF Queued
<1>8. \A other \in Socks : other # s /\ Registered(other)' => Registered(other)
  <2>1. CASE op = "add"
    <3> SUFFICES ASSUME NEW other \in Socks, other # s, NEW k \in Fds, eventMap'[k] = other
                 PROVE  eventMap[k] = other
      BY DEF Registered
    <3> QED
      BY <1>3, <2>1 DEF AddNow, Inv, EventTypeOK
  <2>2. CASE op = "del"
    BY <1>1, <1>2, <1>4, <1>6, <2>2, DelNowForgets
  <2> QED
    BY <1>2, <2>1, <2>2
<1>9. op = "del" => ~Registered(s)' /\ ~Queued("add", s)'
  <2> SUFFICES ASSUME op = "del" PROVE ~Registered(s)' /\ ~Queued("add", s)'
    OBVIOUS
  <2>1. ~Registered(s)'
    BY <1>1, <1>2, <1>4, <1>6, DelNowForgets DEF Registered
  <2>2. ~In(tasks', "add", s)
    BY <1>1, <1>2 DEF FileInv
  <2> QED
    BY <1>5, <2>1, <2>2 DEF Queued
<1>10. op = "add" /\ phase[s] \notin {"new", "open"} => Queued("del", s)'
  BY <1>2, <1>7 DEF FileInv, Queued
<1>11. ASSUME NEW other \in Socks
       PROVE  /\ In(running', "del", other) => ~In(tasks', "add", other)
              /\ Queued("add", other)' => phase'[other] \in {"open", "destroyed"}
              /\ Queued("del", other)' => phase'[other] = "destroyed"
              /\ phase'[other] \notin {"new", "open"} /\ (Queued("add", other) \/ Registered(other))'
                   => Queued("del", other)'
  <2>1. /\ In(running', "del", other) => ~In(tasks', "add", other)
        /\ Queued("add", other)' => phase'[other] \in {"open", "destroyed"}
        /\ Queued("del", other)' => phase'[other] = "destroyed"
    BY <1>1, <1>5, <1>7 DEF FileInv
  <2>2. CASE other = s
    BY <1>1, <1>2, <1>9, <1>10, <2>1, <2>2
  <2>3. CASE other # s
    BY <1>1, <1>7, <1>8, <2>1, <2>3 DEF FileInv
  <2> QED
    BY <2>1, <2>2, <2>3
<1> QED
  BY <1>1, <1>5, <1>11 DEF FileInv

LEMMA FileInductive == ~EarlyClose /\ Inv /\ FileInv /\ [EventNext]_eventVars => FileInv'
<1> SUFFICES ASSUME ~EarlyClose, Inv, FileInv, [EventNext]_eventVars PROVE FileInv'
  OBVIOUS
<1>1. CASE UNCHANGED eventVars
  BY <1>1, FileKeeps DEF eventVars, FileInv
<1>2. CASE EpollWait \/ CallbackReturns \/ TasksDone \/ BatchDone
  <2>1. UNCHANGED <<tasks, running, eventMap, phase>> /\ running = <<>>
    BY <1>2 DEF EpollWait, CallbackReturns, TasksDone, BatchDone, FileInv
  <2> QED
    BY <2>1, FileKeeps
<1>3. ASSUME NEW s \in Socks, SkipExpired(s) \/ Dispatch(s) PROVE FileInv'
  <2>1. UNCHANGED <<tasks, running, eventMap, phase>> /\ running = <<>>
    BY <1>3 DEF SkipExpired, Dispatch, TakeEvent, FileInv
  <2> QED
    BY <2>1, FileKeeps
<1>4. CASE DispatchStep
  BY <1>2, <1>3, <1>4, FileTakeTasks, FileRunTask DEF DispatchStep
<1>5. ASSUME NEW s \in Socks, SockStep(s) PROVE FileInv'
  <2>1. ASSUME NEW fd \in Fds, OpenOnLoop(s, fd) \/ OpenElsewhere(s, fd) PROVE FileInv'
    BY <2>1, FileOpenOnLoop, FileOpenElsewhere
  <2>2. CASE DestroyOnLoop(s)
    BY <2>2, FileCloseOnLoop DEF DestroyOnLoop
  <2>3. CASE DetachOnLoop(s)
    BY <2>3, FileCloseOnLoop DEF DetachOnLoop
  <2>4. CASE DestroyElsewhere(s)
    BY <2>4, FileDestroyElsewhere
  <2>5. CASE DestroyDetached(s)
    <3>1. /\ UNCHANGED <<tasks, running, eventMap, pc>>
          /\ \A other \in Socks :
               phase'[other] = phase[other]
               \/ (phase[other] = "detached" /\ phase'[other] = "destroyed")
      BY <2>5 DEF DestroyDetached, loopVars, Inv, EventTypeOK
    <3>2. running # <<>> => pc' = "tasks"
      BY <3>1 DEF FileInv
    <3> QED
      BY <3>1, <3>2, FileKeeps
  <2> QED
    BY <1>5, <2>1, <2>2, <2>3, <2>4, <2>5 DEF SockStep
<1>6. ASSUME NEW s \in Socks, BecomeReady(s) PROVE FileInv'
  <2>1. UNCHANGED <<tasks, running, eventMap, phase, pc>>
    BY <1>6 DEF BecomeReady, loopVars
  <2> QED
    BY <2>1, FileKeeps DEF FileInv
<1> QED
  BY <1>1, <1>4, <1>5, <1>6 DEF EventNext

(* The file of a destroyed SockFD closes once the calls made about it have  *)
(* been carried out (~SockFD, addEvent, delEvent), if the loop thread       *)
(* destroys no SockFD whose addEvent another thread has queued and the loop *)
(* has not run: without that, the EventDispatchEarlyClose run shows a leak. *)
THEOREM FilesClosed == ~EarlyClose => (EventSpec => []NoLeakedFile)
<1> SUFFICES ASSUME ~EarlyClose PROVE EventSpec => []NoLeakedFile
  OBVIOUS
<1>1. FileInv => NoLeakedFile
  BY DEF FileInv, NoLeakedFile, FileOpen, Registered
<1>2. Inv /\ FileInv /\ [EventNext]_eventVars => FileInv'
  BY FileInductive
<1> QED
  BY <1>1, <1>2, FileInit, Invariance, PTL DEF EventSpec

-----------------------------------------------------------------------------
(* The timers.                                                              *)
(* An accepted task has a deadline.                                         *)
Dated == \A t \in Known \ {NoTask} : due[t] \in 0..Horizon

(* The copy is empty outside a flush.                                       *)
CopyEmpty == timerPc \in {"check", "sleep", "wait", "callback"} => copy = {}

(* What a flush starts or repeats is not due before the flush began, and    *)
(* the running task was.                                                    *)
FlushOrder ==
  /\ timerPc \in {"flush", "task"} => \A t \in map : now <= due[t]
  /\ active # NoTask => /\ due[active] <= now
                        /\ \A t \in copy : due[active] <= due[t]

(* The delay handed to epoll_wait reaches to the first deadline at most.    *)
DelayRight ==
  timerPc = "sleep" =>
    /\ map = {} => delay = -1
    /\ map # {} => delay >= 0
    /\ \A t \in map : delay <= due[t] - now

SleepInv == Horizon < IntSpan => SleepsInTime

TimerInv ==
  /\ DelayTypeOK /\ NoTimerLost /\ Dated /\ CopyEmpty /\ FlushOrder /\ DelayRight /\ SleepInv

LEMMA TimerInvInit == DelayInit => TimerInv
BY DelayedAssumption, TimeAssumption
   DEF DelayInit, TimerInv, DelayTypeOK, NoTimerLost, Dated, CopyEmpty, FlushOrder, DelayRight, SleepInv,
       SleepsInTime, Known, Armed

LEMMA TickSafe == ASSUME TimerInv, Tick PROVE TimerInv'
<1>1. /\ clock' = clock + 1 /\ clock < Horizon
      /\ UNCHANGED <<due, posted, map, copy, active, now, delay, wakeAt, timerPc, voided, done>>
  BY DEF Tick
<1>2. DelayTypeOK'
  BY <1>1, TimeAssumption DEF TimerInv, DelayTypeOK
<1>3. SleepInv'
  <2>1. clock \in Nat /\ now \in Nat /\ (wakeAt # Never => wakeAt \in Nat)
    BY TimeAssumption DEF TimerInv, DelayTypeOK
  <2>2. \A t \in map : due[t] \in Nat
    BY DelayedAssumption, TimeAssumption DEF TimerInv, DelayTypeOK, Dated, Known
  <2> QED
    BY <1>1, <2>1, <2>2 DEF TimerInv, SleepInv, SleepsInTime
<1> QED
  BY <1>1, <1>2, <1>3
     DEF TimerInv, NoTimerLost, Dated, CopyEmpty, FlushOrder, DelayRight, Known, Armed

(* doDelayTask arms a task that was nowhere, not due before the clock.      *)
LEMMA StartedFresh ==
  ASSUME TimerInv, NEW t \in Delayed, NEW d \in Delays, DoDelayTask(t, d)
  PROVE  /\ t \notin Known /\ t # NoTask
         /\ due' \in [Delayed -> 0..Horizon \cup {Never}]
         /\ due'[t] \in 0..Horizon /\ due'[t] >= clock
         /\ \A other \in Delayed : other # t => due'[other] = due[other]
<1>1. due[t] = Never /\ clock + d <= Horizon /\ due' = [due EXCEPT ![t] = clock + d]
  BY DEF DoDelayTask
<1>2. t # NoTask
  BY DelayedAssumption
<1>3. t \notin Known
  BY <1>1, <1>2, TimeAssumption DEF TimerInv, Dated
<1>4. clock + d \in 0..Horizon /\ clock + d >= clock
  BY <1>1, TimeAssumption DEF TimerInv, DelayTypeOK
<1> QED
  BY <1>1, <1>2, <1>3, <1>4 DEF TimerInv, DelayTypeOK

LEMMA PostSafe == ASSUME TimerInv, NEW t \in Delayed, NEW d \in Delays, Post(t, d) PROVE TimerInv'
<1>1. /\ DoDelayTask(t, d) /\ posted' = posted \cup {t}
      /\ UNCHANGED <<clock, map, copy, active, now, delay, wakeAt, timerPc, voided, done>>
  BY DEF Post
<1>2. /\ t \notin Known /\ t # NoTask
      /\ due' \in [Delayed -> 0..Horizon \cup {Never}]
      /\ due'[t] \in 0..Horizon /\ due'[t] >= clock
      /\ \A other \in Delayed : other # t => due'[other] = due[other]
  BY <1>1, StartedFresh
<1>3. DelayTypeOK'
  BY <1>1, <1>2 DEF TimerInv, DelayTypeOK
<1>4. NoTimerLost' /\ Dated'
  BY <1>1, <1>2 DEF TimerInv, NoTimerLost, Dated, Known, Armed, DelayTypeOK
<1>5. \A other \in Known : due'[other] = due[other] \/ other = NoTask
  BY <1>2 DEF TimerInv, DelayTypeOK, Known
<1>6. FlushOrder' /\ DelayRight' /\ CopyEmpty'
  BY <1>1, <1>5, DelayedAssumption DEF TimerInv, DelayTypeOK, FlushOrder, DelayRight, CopyEmpty, Known
<1>7. SleepInv'
  BY <1>1, <1>5, DelayedAssumption DEF TimerInv, DelayTypeOK, SleepInv, SleepsInTime, Known
<1> QED
  BY <1>3, <1>4, <1>6, <1>7 DEF TimerInv

LEMMA PostOnLoopSafe ==
  ASSUME TimerInv, NEW t \in Delayed, NEW d \in Delays, PostOnLoop(t, d) PROVE TimerInv'
<1>1. /\ DoDelayTask(t, d) /\ map' = map \cup {t} /\ timerPc \in {"task", "callback"}
      /\ UNCHANGED <<clock, posted, copy, active, now, delay, wakeAt, timerPc, voided, done>>
  BY DEF PostOnLoop
<1>2. /\ t \notin Known /\ t # NoTask
      /\ due' \in [Delayed -> 0..Horizon \cup {Never}]
      /\ due'[t] \in 0..Horizon /\ due'[t] >= clock
      /\ \A other \in Delayed : other # t => due'[other] = due[other]
  BY <1>1, StartedFresh
<1>3. DelayTypeOK'
  BY <1>1, <1>2 DEF TimerInv, DelayTypeOK
<1>4. NoTimerLost' /\ Dated'
  BY <1>1, <1>2 DEF TimerInv, NoTimerLost, Dated, Known, Armed, DelayTypeOK
<1>5. \A other \in Known : due'[other] = due[other] \/ other = NoTask
  BY <1>2 DEF TimerInv, DelayTypeOK, Known
<1>6. FlushOrder'
  <2>1. now <= due'[t]
    BY <1>2, TimeAssumption DEF TimerInv, DelayTypeOK
  <2> QED
    BY <1>1, <1>5, <2>1, DelayedAssumption DEF TimerInv, DelayTypeOK, FlushOrder, Known
<1>7. DelayRight' /\ CopyEmpty' /\ SleepInv'
  BY <1>1 DEF TimerInv, DelayRight, CopyEmpty, SleepInv, SleepsInTime
<1> QED
  BY <1>3, <1>4, <1>6, <1>7 DEF TimerInv

LEMMA CancelSafe == ASSUME TimerInv, NEW t \in Delayed, CancelDelayed(t) PROVE TimerInv'
BY DEF CancelDelayed, TimerInv, DelayTypeOK, NoTimerLost, Dated, CopyEmpty, FlushOrder, DelayRight, SleepInv,
       SleepsInTime, Known, Armed

LEMMA GetMinDelaySafe == ASSUME TimerInv, GetMinDelay PROVE TimerInv'
<1>1. /\ timerPc = "check" /\ now' = clock /\ copy = {} /\ active = NoTask
      /\ UNCHANGED <<clock, due, posted, active, wakeAt, voided, done>>
  BY DEF GetMinDelay, TimerInv, CopyEmpty, DelayTypeOK
<1>2. \A t \in map : due[t] \in 0..Horizon
  BY DelayedAssumption DEF TimerInv, DelayTypeOK, Dated, Known
<1>3. CASE \E t \in map : due[t] <= clock
  <2>1. copy' = map /\ map' = {} /\ timerPc' = "flush" /\ delay' = delay
    BY <1>3 DEF GetMinDelay
  <2> QED
    BY <1>1, <2>1 DEF TimerInv, DelayTypeOK, NoTimerLost, Dated, CopyEmpty, FlushOrder, DelayRight,
       SleepInv, SleepsInTime, Known, Armed
<1>4. CASE ~\E t \in map : due[t] <= clock
  <2>1. /\ timerPc' = "sleep" /\ map' = map /\ copy' = copy
        /\ map = {} => delay' = -1
        /\ map # {} => \E t \in map : Earliest(t, map) /\ delay' = due[t] - clock
    BY <1>4 DEF GetMinDelay
  <2>2. DelayRight' /\ delay' \in {-1} \cup 0..Horizon
    <3>1. CASE map = {}
      BY <2>1, <3>1 DEF DelayRight
    <3>2. CASE map # {}
      <4>1. PICK t \in map : Earliest(t, map) /\ delay' = due[t] - clock
        BY <2>1, <3>2
      <4>2. clock \in Nat /\ Horizon \in Nat /\ clock < due[t]
        BY <1>2, <1>4, TimeAssumption DEF TimerInv, DelayTypeOK
      <4>3. delay' \in 0..Horizon
        BY <1>2, <4>1, <4>2
      <4>4. \A other \in map : delay' <= due[other] - clock
        BY <1>2, <4>1, <4>2 DEF Earliest
      <4> QED
        BY <1>1, <2>1, <3>2, <4>3, <4>4 DEF DelayRight
    <3> QED
      BY <3>1, <3>2
  <2> QED
    BY <1>1, <2>1, <2>2 DEF TimerInv, DelayTypeOK, NoTimerLost, Dated, CopyEmpty, FlushOrder,
       SleepInv, SleepsInTime, Known, Armed
<1> QED
  BY <1>3, <1>4

LEMMA RunDelayedSafe == ASSUME TimerInv, NEW t \in Delayed, RunDelayed(t) PROVE TimerInv'
<1>1. /\ timerPc = "flush" /\ active = NoTask /\ t \in copy /\ t # NoTask
      /\ due[t] <= now /\ copy' = copy \ {t}
      /\ \A other \in copy : due[t] <= due[other]
      /\ UNCHANGED <<clock, due, posted, map, now, delay, wakeAt, voided>>
  BY DelayedAssumption DEF RunDelayed, Earliest, TimerInv, DelayTypeOK
<1>2. \/ done' = done \cup {t} /\ active' = NoTask /\ timerPc' = "flush"
      \/ active' = t /\ timerPc' = "task" /\ done' = done
  BY <1>1 DEF RunDelayed
<1>3. DelayTypeOK'
  BY <1>1, <1>2 DEF TimerInv, DelayTypeOK
<1>4. NoTimerLost'
  BY <1>1, <1>2, DelayedAssumption DEF TimerInv, DelayTypeOK, NoTimerLost, Known, Armed
<1>5. Dated'
  BY <1>1, <1>2 DEF TimerInv, Dated, Known
<1>6. CopyEmpty' /\ FlushOrder' /\ DelayRight' /\ SleepInv'
  BY <1>1, <1>2 DEF TimerInv, CopyEmpty, FlushOrder, DelayRight, SleepInv, SleepsInTime
<1> QED
  BY <1>3, <1>4, <1>5, <1>6 DEF TimerInv

LEMMA TaskReturnsSafe ==
  ASSUME TimerInv, NEW next \in Delays \cup {0}, TaskReturns(next) PROVE TimerInv'
<1>1. /\ timerPc = "task" /\ timerPc' = "flush" /\ active' = NoTask /\ active \in Delayed
      /\ active # NoTask
      /\ UNCHANGED <<clock, posted, copy, now, delay, wakeAt, voided>>
  BY DEF TaskReturns, TimerInv, DelayTypeOK
<1>2. CASE next = 0
  <2>1. done' = done \cup {active} /\ due' = due /\ map' = map
    BY <1>2 DEF TaskReturns
  <2>2. NoTimerLost'
    BY <1>1, <2>1, DelayedAssumption DEF TimerInv, DelayTypeOK, NoTimerLost, Known, Armed
  <2>3. DelayTypeOK' /\ Dated'
    BY <1>1, <2>1 DEF TimerInv, DelayTypeOK, Dated, Known
  <2> QED
    BY <1>1, <2>1, <2>2, <2>3 DEF TimerInv, CopyEmpty, FlushOrder, DelayRight, SleepInv,
       SleepsInTime
<1>3. CASE next # 0
  <2>1. /\ now + next <= Horizon
        /\ due' = [due EXCEPT ![active] = now + next]
        /\ map' = map \cup {active} /\ done' = done
    BY <1>3 DEF TaskReturns
  <2>2. now + next \in 0..Horizon /\ now <= now + next
    BY <2>1, TimeAssumption DEF TimerInv, DelayTypeOK
  <2>3. /\ due' \in [Delayed -> 0..Horizon \cup {Never}]
        /\ due'[active] = now + next
        /\ \A other \in Delayed : other # active => due'[other] = due[other]
    BY <1>1, <2>1, <2>2 DEF TimerInv, DelayTypeOK
  <2>4. DelayTypeOK'
    BY <1>1, <2>1, <2>3 DEF TimerInv, DelayTypeOK
  <2>5. NoTimerLost'
    BY <1>1, <2>1, <2>2, <2>3, DelayedAssumption DEF TimerInv, DelayTypeOK, NoTimerLost, Known, Armed
  <2>6. Dated'
    BY <1>1, <2>1, <2>2, <2>3 DEF TimerInv, DelayTypeOK, Dated, Known
  <2>7. FlushOrder'
    BY <1>1, <2>1, <2>2, <2>3 DEF TimerInv, DelayTypeOK, FlushOrder
  <2>8. CopyEmpty' /\ DelayRight' /\ SleepInv'
    BY <1>1 DEF CopyEmpty, DelayRight, SleepInv, SleepsInTime
  <2> QED
    BY <2>4, <2>5, <2>6, <2>7, <2>8 DEF TimerInv
<1> QED
  BY <1>2, <1>3

LEMMA FlushEndSafe == ASSUME TimerInv, FlushDelayedEnd PROVE TimerInv'
<1>1. /\ timerPc = "flush" /\ timerPc' = "sleep" /\ active = NoTask
      /\ map' = copy \cup map /\ copy' = {}
      /\ \A t \in copy : due[t] > now
      /\ UNCHANGED <<clock, due, posted, active, now, wakeAt, voided, done>>
      /\ map' = {} => delay' = -1
      /\ map' # {} => \E t \in map' : Earliest(t, map') /\ delay' = due[t] - now
  BY DEF FlushDelayedEnd, TimerInv, DelayTypeOK
<1>2. \A t \in map' : due[t] \in 0..Horizon /\ now <= due[t]
  BY <1>1, DelayedAssumption DEF TimerInv, DelayTypeOK, Dated, Known, FlushOrder
<1>3. DelayRight' /\ delay' \in {-1} \cup 0..Horizon
  <2>1. CASE map' = {}
    BY <1>1, <2>1 DEF DelayRight
  <2>2. CASE map' # {}
    <3>1. PICK t \in map' : Earliest(t, map') /\ delay' = due[t] - now
      BY <1>1, <2>2
    <3>2. now \in Nat /\ Horizon \in Nat
      BY TimeAssumption DEF TimerInv, DelayTypeOK
    <3>3. delay' \in 0..Horizon
      BY <1>2, <3>1, <3>2
    <3>4. \A other \in map' : delay' <= due[other] - now
      BY <1>2, <3>1, <3>2 DEF Earliest
    <3> QED
      BY <1>1, <2>2, <3>3, <3>4 DEF DelayRight
  <2> QED
    BY <2>1, <2>2
<1> QED
  BY <1>1, <1>3 DEF TimerInv, DelayTypeOK, NoTimerLost, Dated, CopyEmpty, FlushOrder, SleepInv,
     SleepsInTime, Known, Armed

(* The int keeps a delay below 2^31.                                        *)
LEMMA IntKeeps ==
  ASSUME NEW d \in Nat, d < IntSpan
  PROVE  ToInt(d) = d
<1>1. d % (2 * IntSpan) = d
  BY TimeAssumption
<1> QED
  BY <1>1 DEF ToInt

LEMMA IntRange == ASSUME NEW d \in Int PROVE ToInt(d) \in Int
<1>1. d % (2 * IntSpan) \in Int
  BY TimeAssumption
<1> QED
  BY <1>1, TimeAssumption DEF ToInt

LEMMA SleepSafe == ASSUME TimerInv, SleepInEpoll PROVE TimerInv'
<1>1. /\ timerPc = "sleep" /\ timerPc' = "wait"
      /\ wakeAt' = IF ToInt(delay) < 0 THEN Never ELSE clock + ToInt(delay)
      /\ UNCHANGED <<clock, due, posted, map, copy, active, now, delay, voided, done>>
  BY DEF SleepInEpoll
<1>2. DelayTypeOK'
  <2>1. ToInt(delay) \in Int
    BY IntRange, TimeAssumption DEF TimerInv, DelayTypeOK
  <2>2. wakeAt' \in {Never} \cup Nat
    BY <1>1, <2>1, TimeAssumption DEF TimerInv, DelayTypeOK
  <2> QED
    BY <1>1, <2>2 DEF TimerInv, DelayTypeOK
<1>3. SleepInv'
  <2> SUFFICES ASSUME Horizon < IntSpan, NEW t \in map
               PROVE  wakeAt' # Never /\ wakeAt' - due[t] <= clock - now
    BY <1>1 DEF SleepInv, SleepsInTime
  <2>1. delay \in Nat /\ delay < IntSpan /\ delay <= due[t] - now
    BY <1>1, TimeAssumption DEF TimerInv, DelayTypeOK, DelayRight
  <2>2. wakeAt' = clock + delay
    BY <1>1, <2>1, IntKeeps
  <2>3. due[t] \in Int /\ clock \in Nat /\ now \in Nat
    BY DelayedAssumption, TimeAssumption DEF TimerInv, DelayTypeOK, Dated, Known
  <2> QED
    BY <2>1, <2>2, <2>3, TimeAssumption
<1> QED
  BY <1>1, <1>2, <1>3
     DEF TimerInv, NoTimerLost, Dated, CopyEmpty, FlushOrder, DelayRight, Known, Armed

LEMMA WakeSafe ==
  ASSUME TimerInv, SleepTimeOut \/ RunPosted \/ FileEvent \/ CallbackEnds PROVE TimerInv'
<1>1. /\ timerPc \in {"wait", "callback"} /\ timerPc' \in {"check", "callback"}
      /\ \/ map' = map /\ posted' = posted
         \/ map' = map \cup posted /\ posted' = {}
      /\ UNCHANGED <<clock, due, copy, active, now, delay, wakeAt, voided, done>>
  BY DEF SleepTimeOut, RunPosted, FileEvent, CallbackEnds
<1>2. DelayTypeOK'
  BY <1>1 DEF TimerInv, DelayTypeOK
<1>3. NoTimerLost' /\ Dated'
  BY <1>1 DEF TimerInv, NoTimerLost, Dated, Known, Armed
<1>4. CopyEmpty' /\ FlushOrder' /\ DelayRight' /\ SleepInv'
  BY <1>1 DEF TimerInv, DelayTypeOK, CopyEmpty, FlushOrder, DelayRight, SleepInv, SleepsInTime
<1> QED
  BY <1>2, <1>3, <1>4 DEF TimerInv

LEMMA TimerInductive == TimerInv /\ [DelayNext]_delayVars => TimerInv'
<1> SUFFICES ASSUME TimerInv, [DelayNext]_delayVars PROVE TimerInv'
  OBVIOUS
<1>1. CASE UNCHANGED delayVars
  BY <1>1 DEF delayVars, TimerInv, DelayTypeOK, NoTimerLost, Dated, CopyEmpty, FlushOrder, DelayRight,
     SleepInv, SleepsInTime, Known, Armed
<1>2. CASE Tick
  BY <1>2, TickSafe
<1>3. CASE TimerStep \/ FileEvent
  BY <1>3, GetMinDelaySafe, FlushEndSafe, SleepSafe, WakeSafe, RunDelayedSafe,
     TaskReturnsSafe DEF TimerStep
<1>4. CASE \E t \in Delayed : DelayUserStep(t)
  BY <1>4, CancelSafe, PostSafe, PostOnLoopSafe DEF DelayUserStep
<1> QED
  BY <1>1, <1>2, <1>3, <1>4 DEF DelayNext

LEMMA TimerInvariance == DelaySpec => []TimerInv
  BY TimerInvInit, TimerInductive, PTL DEF DelaySpec

-----------------------------------------------------------------------------
(* The timers of a poller are well formed for any tasks and delays          *)
(* (doDelayTask, getMinDelay, flushDelayTask).                              *)
THEOREM TimersTyped == DelaySpec => []DelayTypeOK
<1>1. TimerInv => DelayTypeOK
  BY DEF TimerInv
<1> QED
  BY <1>1, TimerInvariance, PTL

(* flushDelayTask starts no task before its deadline and none after a later *)
(* one, whatever running tasks start, repeat or cancel.                     *)
THEOREM OrderCorrect == DelaySpec => []InDeadlineOrder
<1>1. TimerInv => InDeadlineOrder
  BY DelayedAssumption, TimeAssumption
     DEF TimerInv, InDeadlineOrder, DelayTypeOK, FlushOrder, Dated, Known
<1> QED
  BY <1>1, TimerInvariance, PTL

(* Swapping and merging _delay_task_map loses and duplicates no task.       *)
THEOREM NothingDropped == DelaySpec => []NoTimerLost
<1>1. TimerInv => NoTimerLost
  BY DEF TimerInv
<1> QED
  BY <1>1, TimerInvariance, PTL

(* When every delay fits the int that epoll_wait takes, the loop never      *)
(* sleeps past a deadline by more than the running tasks took.              *)
THEOREM SleepCorrect == ASSUME Horizon < IntSpan PROVE DelaySpec => []SleepsInTime
<1>1. TimerInv => SleepsInTime
  BY DEF TimerInv, SleepInv
<1> QED
  BY <1>1, TimerInvariance, PTL

-----------------------------------------------------------------------------
(* The handles of the epoll ports.                                          *)
CallOps == {"none", "create", "use", "close"}
Early == {"none", "init", "initialises", "go"}
Using == {"uses", "signals"}
Closing == {"closes", "destroys", "awaits", "poisons", "deletes"}
Destroyed == {"awaits", "poisons", "deletes"}
Held == {"uses", "closes", "destroys"}

PortMemory == [alive : BOOLEAN, handle : HandleValues \cup {NoHandle}, refs : Int,
               destroy : BOOLEAN, poison : BOOLEAN]
CallState == [op : CallOps, step : Early \cup {"adds"} \cup Using \cup Closing,
              handle : HandleValues \cup {NoHandle}, port : PortAddrs \cup {NoPort}]

HandlesTyped ==
  /\ initDone \in BOOLEAN /\ once \in {"none", "running", "complete"}
  /\ handleTree \in [HandleValues -> PortAddrs \cup {NoPort}]
  /\ portMem \in [PortAddrs -> PortMemory]
  /\ iocps \subseteq HandleValues /\ user \in [TreeUsers -> CallState]

(* A call has a port from the time it made or found it.                     *)
CallInv ==
  \A t \in TreeUsers :
    /\ user[t].step \in Early <=> user[t].port = NoPort
    /\ user[t].step = "none" <=> user[t].op = "none"
    /\ user[t].step = "adds" => user[t].op = "create"
    /\ user[t].step \in Using => user[t].op = "use"
    /\ user[t].step \in Closing => user[t].op = "close"
    /\ user[t].op \in {"use", "close"} => user[t].handle \in HandleValues

(* The tree is initialised once, before anything is made of it.             *)
OnceInv ==
  /\ initDone => once = "complete"
  /\ \A t \in TreeUsers : user[t].step = "initialises" => once = "running"
  /\ \A t, u \in TreeUsers : user[t].step = "initialises" /\ user[u].step = "initialises" => t = u
  /\ once # "complete" =>
       /\ \A t \in TreeUsers : user[t].step \in Early \ {"go"}
       /\ \A a \in PortAddrs : ~portMem[a].alive

(* Who has a port's address: it is there, and one thread makes or destroys  *)
(* it while the tree does not have it.                                      *)
OwnInv ==
  /\ \A t \in TreeUsers : user[t].port # NoPort => portMem[user[t].port].alive
  /\ \A t \in TreeUsers : user[t].step \in {"adds"} \cup Closing =>
       \A h \in HandleValues : handleTree[h] # user[t].port
  /\ \A t \in TreeUsers : user[t].step = "adds" =>
       user[t].handle \in HandleValues /\ portMem[user[t].port].handle = user[t].handle
  /\ \A t, u \in TreeUsers :
       /\ user[t].step \in {"adds"} \cup Closing /\ user[u].step \in {"adds"} \cup Closing
       /\ user[t].port = user[u].port
       => t = u

(* A handle's value belongs to one port at a time.                          *)
ValueInv ==
  /\ \A h \in HandleValues : handleTree[h] # NoPort =>
       portMem[handleTree[h]].alive /\ portMem[handleTree[h]].handle = h
  /\ \A a \in PortAddrs : portMem[a].alive => portMem[a].handle \in iocps \cup {NoHandle}
  /\ \A a, b \in PortAddrs :
       /\ portMem[a].alive /\ portMem[b].alive
       /\ portMem[a].handle = portMem[b].handle /\ portMem[a].handle # NoHandle
       => a = b
  /\ ~existed

(* No port is lost.                                                         *)
PortKnown(a) ==
  \/ \E h \in HandleValues : handleTree[h] = a
  \/ \E t \in TreeUsers : user[t].port = a /\ user[t].step \in {"adds"} \cup Closing
KnownInv == \A a \in PortAddrs : portMem[a].alive => PortKnown(a)

(* The reference lock.                                                      *)
CountInv == \A a \in PortAddrs : portMem[a].alive => portMem[a].refs = Cardinality(Holders(a))

LockInv ==
  /\ \A a \in PortAddrs : portMem[a].alive /\ portMem[a].destroy =>
       \E t \in TreeUsers : user[t].port = a /\ user[t].step \in Destroyed
  /\ \A a \in PortAddrs : portMem[a].alive /\ portMem[a].poison =>
       \E t \in TreeUsers : user[t].port = a /\ user[t].step = "deletes"
  /\ \A t \in TreeUsers : user[t].step \in {"signals", "poisons", "deletes"} =>
       Holders(user[t].port) = {}
  /\ \A t \in TreeUsers : user[t].step = "signals" =>
       \E u \in TreeUsers : user[u].port = user[t].port /\ user[u].step = "awaits"
  /\ \A t, u \in TreeUsers :
       user[t].step = "signals" /\ user[u].step = "signals" /\ user[t].port = user[u].port => t = u

HandlesInv ==
  /\ HandlesTyped /\ CallInv /\ OnceInv /\ OwnInv /\ ValueInv /\ KnownInv /\ CountInv /\ LockInv

LEMMA HandlesStart ==
  ASSUME HandleTreeAssumption, HandleInit
  PROVE  HandlesInv
<1>1. Unused \in CallState /\ FreeMem \in PortMemory
  BY DEF Unused, CallState, CallOps, Early, FreeMem, PortMemory
<1>2. \A t \in TreeUsers : user[t] = Unused
  BY DEF HandleInit
<1>3. \A a \in PortAddrs : portMem[a] = FreeMem
  BY DEF HandleInit
<1>4. HandlesTyped
  BY <1>1 DEF HandleInit, HandlesTyped
<1>5. CallInv /\ OnceInv
  BY <1>2, <1>3 DEF HandleInit, CallInv, OnceInv, Unused, FreeMem, Early, Using, Closing
<1>6. OwnInv /\ ValueInv /\ KnownInv
  BY <1>2, <1>3 DEF HandleInit, OwnInv, ValueInv, KnownInv, PortKnown, Unused, FreeMem, Closing
<1>7. CountInv /\ LockInv
  BY <1>2, <1>3 DEF CountInv, LockInv, Unused, FreeMem, Closing, Destroyed
<1> QED
  BY <1>4, <1>5, <1>6, <1>7 DEF HandlesInv

LEMMA HandlesSame ==
  ASSUME HandlesInv, UNCHANGED treeUseVars
  PROVE  HandlesInv'
<1>1. HandlesTyped' /\ CallInv' /\ OnceInv'
  BY DEF HandlesInv, treeUseVars, HandlesTyped, CallInv, OnceInv
<1>2. OwnInv' /\ ValueInv' /\ KnownInv'
  BY DEF HandlesInv, treeUseVars, OwnInv, ValueInv, KnownInv, PortKnown
<1>3. \A a : Holders(a)' = Holders(a)
  BY DEF treeUseVars, Holders
<1>4. CountInv' /\ LockInv'
  BY <1>3 DEF HandlesInv, treeUseVars, CountInv, LockInv
<1> QED
  BY <1>1, <1>2, <1>4 DEF HandlesInv

(* A call that has no port yet, or finds none, touches nothing.             *)
LEMMA EarlyKeeps ==
  ASSUME HandleTreeAssumption, HandlesInv, NEW t \in TreeUsers, NEW s \in CallState,
         user[t].step \in Early, s.step \in Early, s.port = NoPort,
         s.step = "none" <=> s.op = "none",
         s.op \in {"use", "close"} => s.handle \in HandleValues,
         user' = [user EXCEPT ![t] = s],
         UNCHANGED <<handleTree, portMem, iocps, existed>>
  PROVE  CallInv' /\ OwnInv' /\ ValueInv' /\ KnownInv' /\ CountInv' /\ LockInv'
<1>1. user' \in [TreeUsers -> CallState]
  BY DEF HandlesInv, HandlesTyped
<1>2. \A u \in TreeUsers : user'[u] = IF u = t THEN s ELSE user[u]
  BY DEF HandlesInv, HandlesTyped
<1>3. user[t].port = NoPort
  BY DEF HandlesInv, CallInv
<1>4. CallInv'
  BY <1>2 DEF HandlesInv, CallInv, Early, Using, Closing
<1>5. OwnInv'
  BY <1>2 DEF HandlesInv, OwnInv, Early, Closing
<1>6. ValueInv'
  BY DEF HandlesInv, ValueInv
<1>7. KnownInv'
  <2> SUFFICES ASSUME NEW a \in PortAddrs, portMem[a].alive
               PROVE  PortKnown(a)'
    BY DEF KnownInv
  <2>1. CASE \E h \in HandleValues : handleTree[h] = a
    BY <2>1 DEF PortKnown
  <2>2. CASE \E u \in TreeUsers : user[u].port = a /\ user[u].step \in {"adds"} \cup Closing
    BY <2>2, <1>2 DEF PortKnown, Early, Closing
  <2> QED
    BY <2>1, <2>2 DEF HandlesInv, KnownInv, PortKnown
<1>8. \A a : Holders(a)' = Holders(a)
  BY <1>2 DEF Holders, Early
<1>9. CountInv'
  BY <1>8 DEF HandlesInv, CountInv
<1>10. LockInv'
  <2>1. \A u \in TreeUsers : user'[u].step \notin Early => user'[u] = user[u]
    BY <1>2
  <2>2. \A u \in TreeUsers : user[u].step \notin Early => user'[u] = user[u]
    BY <1>2
  <2> QED
    BY <2>1, <2>2, <1>8 DEF HandlesInv, LockInv, Early, Destroyed
<1> QED
  BY <1>4, <1>5, <1>6, <1>7, <1>9, <1>10


LEMMA EnterCallKeeps ==
  ASSUME HandleTreeAssumption, HandlesInv, NEW t \in TreeUsers,
         NEW op \in {"create", "use", "close"}, NEW h \in HandleValues \cup {NoHandle},
         op \in {"use", "close"} => h \in HandleValues, EnterCall(t, op, h)
  PROVE  HandlesInv'
<1> DEFINE s == [Unused EXCEPT !.op = op, !.handle = h, !.step = "init"]
<1>1. user' = [user EXCEPT ![t] = s] /\ user[t].op = "none"
      /\ UNCHANGED <<initDone, once, handleTree, portMem, iocps, existed>>
  BY DEF EnterCall
<1>2. s \in CallState /\ s.op = op /\ s.handle = h /\ s.step = "init" /\ s.port = NoPort
  BY DEF Unused, CallState, CallOps, Early
<1>3. user[t].step = "none"
  BY <1>1 DEF HandlesInv, CallInv
<1> HIDE DEF s
<1>4. \A u \in TreeUsers : user'[u] = IF u = t THEN s ELSE user[u]
  BY <1>1 DEF HandlesInv, HandlesTyped
<1>5. HandlesTyped'
  BY <1>1, <1>2 DEF HandlesInv, HandlesTyped
<1>6. OnceInv'
  BY <1>1, <1>2, <1>4 DEF HandlesInv, OnceInv, Early
<1>7. CallInv' /\ OwnInv' /\ ValueInv' /\ KnownInv' /\ CountInv' /\ LockInv'
  <2>1. user[t].step \in Early /\ s.step \in Early /\ (s.step = "none" <=> s.op = "none")
    BY <1>2, <1>3 DEF Early
  <2>2. s.op \in {"use", "close"} => s.handle \in HandleValues
    BY <1>2
  <2>3. UNCHANGED <<handleTree, portMem, iocps, existed>>
    BY <1>1
  <2> QED
    BY <1>1, <1>2, <2>1, <2>2, <2>3, EarlyKeeps
<1> QED
  BY <1>5, <1>6, <1>7 DEF HandlesInv

LEMMA CallOnceKeeps ==
  ASSUME HandleTreeAssumption, HandlesInv, NEW t \in TreeUsers, CallOnce(t)
  PROVE  HandlesInv'
<1> DEFINE s == [user[t] EXCEPT !.step = IF initDone \/ once = "complete" THEN "go" ELSE "initialises"]
<1>1. user' = [user EXCEPT ![t] = s] /\ user[t].step = "init" /\ (initDone \/ once # "running")
      /\ UNCHANGED <<initDone, handleTree, portMem, iocps, existed>>
      /\ once' = IF initDone \/ once = "complete" THEN once ELSE "running"
  BY DEF CallOnce, At
<1>2. user[t] \in CallState /\ user[t].port = NoPort /\ user[t].op # "none"
      /\ (user[t].op \in {"use", "close"} => user[t].handle \in HandleValues)
  BY <1>1 DEF HandlesInv, HandlesTyped, CallInv, Early
<1>3. s \in CallState /\ s.op = user[t].op /\ s.handle = user[t].handle /\ s.port = NoPort
      /\ s.step = IF initDone \/ once = "complete" THEN "go" ELSE "initialises"
  BY <1>2 DEF CallState, Early
<1> HIDE DEF s
<1>4. \A u \in TreeUsers : user'[u] = IF u = t THEN s ELSE user[u]
  BY <1>1 DEF HandlesInv, HandlesTyped
<1>5. HandlesTyped'
  BY <1>1, <1>3 DEF HandlesInv, HandlesTyped
<1>6. OnceInv'
  BY <1>1, <1>3, <1>4 DEF HandlesInv, OnceInv, Early
<1>7. CallInv' /\ OwnInv' /\ ValueInv' /\ KnownInv' /\ CountInv' /\ LockInv'
  <2>1. user[t].step \in Early /\ s.step \in Early /\ (s.step = "none" <=> s.op = "none")
    BY <1>1, <1>2, <1>3 DEF Early
  <2>2. s.op \in {"use", "close"} => s.handle \in HandleValues
    BY <1>2, <1>3
  <2>3. UNCHANGED <<handleTree, portMem, iocps, existed>>
    BY <1>1
  <2> QED
    BY <1>1, <1>3, <2>1, <2>2, <2>3, EarlyKeeps
<1> QED
  BY <1>5, <1>6, <1>7 DEF HandlesInv

(* The tree is made empty when it is, no port was made before.              *)
LEMMA InitCallbackKeeps ==
  ASSUME HandleTreeAssumption, HandlesInv, NEW t \in TreeUsers, InitCallback(t)
  PROVE  HandlesInv'
<1>1. user[t].step = "initialises" /\ once = "running" /\ UNCHANGED <<portMem, iocps, existed>>
  BY DEF InitCallback, HandlesInv, OnceInv
<1>2. user[t] \in CallState /\ user[t].port = NoPort /\ user[t].op # "none"
      /\ (user[t].op \in {"use", "close"} => user[t].handle \in HandleValues)
  BY <1>1 DEF HandlesInv, HandlesTyped, CallInv, Early
<1>3. handleTree = [h \in HandleValues |-> NoPort]
  BY <1>1 DEF HandlesInv, HandlesTyped, OnceInv, ValueInv
<1>4. UNCHANGED <<handleTree, portMem, iocps, existed>>
  BY <1>1, <1>3 DEF InitCallback
<1>5. PICK s \in CallState :
        /\ user' = [user EXCEPT ![t] = s]
        /\ s.port = NoPort /\ s.step \in Early /\ (s.step = "none" <=> s.op = "none")
        /\ s.op \in {"use", "close"} => s.handle \in HandleValues
        /\ \/ s.step = "none" /\ once' = "none" /\ initDone' = initDone
           \/ s.step = "go" /\ once' = "complete" /\ initDone' = TRUE
  <2>1. CASE once' = "none" /\ GivesBack(t) /\ UNCHANGED <<initDone, handleTree>>
    <3>1. Unused \in CallState /\ Unused.port = NoPort /\ Unused.step = "none" /\ Unused.op = "none"
      BY DEF Unused, CallState, CallOps, Early
    <3> QED
      BY <2>1, <3>1 DEF GivesBack, Early
  <2>2. CASE once' = "complete" /\ initDone' = TRUE /\ At(t, "go")
    <3> DEFINE s == [user[t] EXCEPT !.step = "go"]
    <3>1. s \in CallState /\ s.op = user[t].op /\ s.handle = user[t].handle /\ s.port = NoPort
          /\ s.step = "go"
      BY <1>2 DEF CallState, Early
    <3>2. user' = [user EXCEPT ![t] = s]
      BY <2>2 DEF At
    <3> HIDE DEF s
    <3> QED
      BY <2>2, <3>1, <3>2, <1>2 DEF Early
  <2> QED
    BY <2>1, <2>2 DEF InitCallback
<1>6. \A u \in TreeUsers : user'[u] = IF u = t THEN s ELSE user[u]
  BY <1>5 DEF HandlesInv, HandlesTyped
<1>7. HandlesTyped'
  BY <1>4, <1>5 DEF HandlesInv, HandlesTyped
<1>8. OnceInv'
  BY <1>1, <1>4, <1>5, <1>6 DEF HandlesInv, OnceInv, Early
<1>9. CallInv' /\ OwnInv' /\ ValueInv' /\ KnownInv' /\ CountInv' /\ LockInv'
  <2>1. user[t].step \in Early
    BY <1>1 DEF Early
  <2> QED
    BY <1>4, <1>5, <2>1, EarlyKeeps
<1> QED
  BY <1>7, <1>8, <1>9 DEF HandlesInv


LEMMA OnceKeeps ==
  ASSUME HandlesInv, NEW t \in TreeUsers, NEW s \in CallState,
         user[t].step \notin {"none", "init", "initialises"}, s.step # "initialises",
         user' = [user EXCEPT ![t] = s], UNCHANGED <<initDone, once>>
  PROVE  OnceInv'
<1>1. \A u \in TreeUsers : user'[u] = IF u = t THEN s ELSE user[u]
  BY DEF HandlesInv, HandlesTyped
<1>2. once = "complete"
  BY DEF HandlesInv, OnceInv, Early
<1> QED
  BY <1>1, <1>2 DEF HandlesInv, OnceInv

LEMMA CallKeeps ==
  ASSUME HandlesInv, NEW t \in TreeUsers, NEW s \in CallState,
         s.step \in Early <=> s.port = NoPort, s.step = "none" <=> s.op = "none",
         s.step = "adds" => s.op = "create", s.step \in Using => s.op = "use",
         s.step \in Closing => s.op = "close",
         s.op \in {"use", "close"} => s.handle \in HandleValues,
         user' = [user EXCEPT ![t] = s]
  PROVE  CallInv'
<1>1. \A u \in TreeUsers : user'[u] = IF u = t THEN s ELSE user[u]
  BY DEF HandlesInv, HandlesTyped
<1> QED
  BY <1>1 DEF HandlesInv, CallInv

(* The calls inside a port, and one of them that comes, stays or goes.      *)
LEMMA HoldersCounted ==
  ASSUME HandleTreeAssumption, NEW a
  PROVE  IsFiniteSet(Holders(a)) /\ Cardinality(Holders(a)) \in Nat
<1>1. Holders(a) \subseteq TreeUsers
  BY DEF Holders
<1> QED
  BY <1>1, FS_Subset, FS_CardinalityType DEF HandleTreeAssumption

LEMMA HoldersStay ==
  ASSUME HandlesInv, NEW t \in TreeUsers, NEW s, NEW a, user' = [user EXCEPT ![t] = s],
         (user[t].port = a /\ user[t].step \in Held) <=> (s.port = a /\ s.step \in Held)
  PROVE  Holders(a)' = Holders(a)
<1>1. \A u \in TreeUsers : user'[u] = IF u = t THEN s ELSE user[u]
  BY DEF HandlesInv, HandlesTyped
<1> QED
  BY <1>1 DEF Holders, Held

LEMMA HoldersCome ==
  ASSUME HandleTreeAssumption, HandlesInv, NEW t \in TreeUsers, NEW s, NEW a,
         user' = [user EXCEPT ![t] = s],
         ~(user[t].port = a /\ user[t].step \in Held), s.port = a, s.step \in Held
  PROVE  Cardinality(Holders(a)') = Cardinality(Holders(a)) + 1
<1>1. \A u \in TreeUsers : user'[u] = IF u = t THEN s ELSE user[u]
  BY DEF HandlesInv, HandlesTyped
<1>2. Holders(a)' = Holders(a) \cup {t} /\ t \notin Holders(a)
  BY <1>1 DEF Holders, Held
<1> QED
  BY <1>2, HoldersCounted, FS_AddElement

LEMMA HoldersGo ==
  ASSUME HandleTreeAssumption, HandlesInv, NEW t \in TreeUsers, NEW s, NEW a,
         user' = [user EXCEPT ![t] = s],
         user[t].port = a, user[t].step \in Held, ~(s.port = a /\ s.step \in Held)
  PROVE  /\ Holders(a)' = Holders(a) \ {t} /\ t \in Holders(a)
         /\ Cardinality(Holders(a)') = Cardinality(Holders(a)) - 1
<1>1. \A u \in TreeUsers : user'[u] = IF u = t THEN s ELSE user[u]
  BY DEF HandlesInv, HandlesTyped
<1>2. Holders(a)' = Holders(a) \ {t} /\ t \in Holders(a)
  BY <1>1 DEF Holders, Held
<1> QED
  BY <1>2, HoldersCounted, FS_RemoveElement

(* The last one leaves nobody.                                              *)
LEMMA HoldersLast ==
  ASSUME HandleTreeAssumption, HandlesInv, NEW a \in PortAddrs, portMem[a].alive,
         NEW t \in Holders(a), portMem[a].refs <= 1
  PROVE  Holders(a) \ {t} = {} /\ portMem[a].refs = 1
<1>1. IsFiniteSet(Holders(a)) /\ portMem[a].refs = Cardinality(Holders(a))
  BY HoldersCounted DEF HandlesInv, CountInv
<1>2. IsFiniteSet(Holders(a) \ {t}) /\ Cardinality(Holders(a) \ {t}) = Cardinality(Holders(a)) - 1
  BY <1>1, FS_RemoveElement
<1>3. Cardinality(Holders(a) \ {t}) = 0
  BY <1>1, <1>2, FS_CardinalityType
<1>4. Holders(a) \ {t} = {}
  BY <1>2, <1>3, FS_EmptySet
<1> QED
  BY <1>1, <1>2, <1>3, <1>4, HoldersCounted

LEMMA PortNewKeeps ==
  ASSUME HandleTreeAssumption, HandlesInv, NEW t \in TreeUsers, PortNew(t)
  PROVE  HandlesInv'
<1>1. user[t].op = "create" /\ user[t].step = "go" /\ user[t] \in CallState /\ user[t].port = NoPort
      /\ UNCHANGED <<initDone, once, handleTree, existed>>
  BY DEF PortNew, HandlesInv, HandlesTyped, CallInv, Early
<1>2. CASE GivesBack(t) /\ UNCHANGED <<portMem, iocps>>
  <2>1. Unused \in CallState /\ Unused.port = NoPort /\ Unused.step = "none" /\ Unused.op = "none"
    BY DEF Unused, CallState, CallOps, Early
  <2>2. user' = [user EXCEPT ![t] = Unused] /\ user[t].step \in Early /\ Unused.step \in Early
    BY <1>1, <1>2, <2>1 DEF GivesBack, Early
  <2>3. OnceInv'
    BY <1>1, <2>1, <2>2, OnceKeeps
  <2>4. HandlesTyped'
    BY <1>1, <1>2, <2>1, <2>2 DEF HandlesInv, HandlesTyped
  <2>5. CallInv' /\ OwnInv' /\ ValueInv' /\ KnownInv' /\ CountInv' /\ LockInv'
    BY <1>1, <1>2, <2>1, <2>2, EarlyKeeps
  <2> QED
    BY <2>3, <2>4, <2>5 DEF HandlesInv
<1>3. ASSUME NEW a \in PortAddrs, NEW h \in HandleValues \ iocps, ~portMem[a].alive,
             portMem' = [portMem EXCEPT ![a] = [FreeMem EXCEPT !.alive = TRUE, !.handle = h]],
             iocps' = iocps \cup {h},
             user' = [user EXCEPT ![t].step = "adds", ![t].port = a, ![t].handle = h]
      PROVE  HandlesInv'
  <2> DEFINE s == [user[t] EXCEPT !.step = "adds", !.port = a, !.handle = h]
             m == [FreeMem EXCEPT !.alive = TRUE, !.handle = h]
  <2>1. user' = [user EXCEPT ![t] = s] /\ portMem' = [portMem EXCEPT ![a] = m]
    BY <1>3
  <2>2. s \in CallState /\ s.op = "create" /\ s.step = "adds" /\ s.port = a /\ s.handle = h
    BY <1>1 DEF CallState
  <2>3. m \in PortMemory /\ m.alive /\ m.handle = h /\ m.refs = 0 /\ ~m.destroy /\ ~m.poison
    <3>1. FreeMem \in PortMemory
      BY DEF FreeMem, PortMemory
    <3>2. m \in PortMemory
      BY <3>1 DEF PortMemory
    <3>3. m.alive /\ m.handle = h /\ m.refs = 0 /\ ~m.destroy /\ ~m.poison
      BY DEF FreeMem
    <3> QED
      BY <3>2, <3>3
  <2> HIDE DEF s, m
  <2>4. \A u \in TreeUsers : user'[u] = IF u = t THEN s ELSE user[u]
    BY <2>1 DEF HandlesInv, HandlesTyped
  <2>5. \A b \in PortAddrs : portMem'[b] = IF b = a THEN m ELSE portMem[b]
    BY <2>1 DEF HandlesInv, HandlesTyped
  <2>6. HandlesTyped'
    <3>1. portMem' \in [PortAddrs -> PortMemory] /\ user' \in [TreeUsers -> CallState]
      BY <2>1, <2>2, <2>3 DEF HandlesInv, HandlesTyped
    <3>2. iocps' \subseteq HandleValues
      BY <1>3 DEF HandlesInv, HandlesTyped
    <3> QED
      BY <1>1, <3>1, <3>2 DEF HandlesInv, HandlesTyped
  <2>7. a # NoPort
    BY DEF HandleTreeAssumption
  <2>8. CallInv'
    BY <2>1, <2>2, <2>7, CallKeeps DEF Early, Using, Closing
  <2>9. OnceInv'
    BY <1>1, <2>1, <2>2, OnceKeeps
  <2>10. (\A u \in TreeUsers : user[u].port # a) /\ \A g \in HandleValues : handleTree[g] # a
    BY <1>3, <2>7 DEF HandlesInv, OwnInv, ValueInv
  <2>11. OwnInv'
    <3>1. \A u \in TreeUsers : user'[u].port # NoPort => portMem'[user'[u].port].alive
      BY <2>2, <2>3, <2>4, <2>5 DEF HandlesInv, HandlesTyped, OwnInv, CallState
    <3>2. \A u \in TreeUsers : user'[u].step \in {"adds"} \cup Closing =>
            \A g \in HandleValues : handleTree'[g] # user'[u].port
      BY <1>1, <2>2, <2>4, <2>10 DEF HandlesInv, OwnInv
    <3>3. \A u \in TreeUsers : user'[u].step = "adds" =>
            user'[u].handle \in HandleValues /\ portMem'[user'[u].port].handle = user'[u].handle
      <4> SUFFICES ASSUME NEW u \in TreeUsers, user'[u].step = "adds"
                   PROVE  user'[u].handle \in HandleValues /\ portMem'[user'[u].port].handle = user'[u].handle
        OBVIOUS
      <4>1. CASE u = t
        BY <4>1, <2>2, <2>3, <2>4, <2>5
      <4>2. CASE u # t
        <5>1. user'[u] = user[u] /\ user[u] \in CallState
          BY <4>2, <2>4 DEF HandlesInv, HandlesTyped
        <5>2. user[u].port \in PortAddrs \ {a}
          BY <5>1, <2>10 DEF HandlesInv, CallInv, CallState, Early
        <5> QED
          BY <5>1, <5>2, <2>5 DEF HandlesInv, OwnInv
      <4> QED
        BY <4>1, <4>2
    <3>4. \A u, v \in TreeUsers :
            /\ user'[u].step \in {"adds"} \cup Closing /\ user'[v].step \in {"adds"} \cup Closing
            /\ user'[u].port = user'[v].port
            => u = v
      BY <2>2, <2>4, <2>10 DEF HandlesInv, OwnInv
    <3> QED
      BY <3>1, <3>2, <3>3, <3>4 DEF OwnInv
  <2>12. ValueInv'
    <3>1. \A g \in HandleValues : handleTree'[g] # NoPort =>
            portMem'[handleTree'[g]].alive /\ portMem'[handleTree'[g]].handle = g
      BY <1>1, <2>5, <2>10 DEF HandlesInv, HandlesTyped, ValueInv
    <3>2. \A b \in PortAddrs : portMem'[b].alive => portMem'[b].handle \in iocps' \cup {NoHandle}
      BY <1>3, <2>3, <2>5 DEF HandlesInv, ValueInv
    <3>3. \A b, c \in PortAddrs :
            /\ portMem'[b].alive /\ portMem'[c].alive
            /\ portMem'[b].handle = portMem'[c].handle /\ portMem'[b].handle # NoHandle
            => b = c
      BY <1>3, <2>3, <2>5 DEF HandlesInv, ValueInv
    <3> QED
      BY <3>1, <3>2, <3>3, <1>1 DEF HandlesInv, ValueInv
  <2>13. KnownInv'
    <3> SUFFICES ASSUME NEW b \in PortAddrs, portMem'[b].alive PROVE PortKnown(b)'
      BY DEF KnownInv
    <3>1. CASE b = a
      BY <3>1, <2>2, <2>4 DEF PortKnown
    <3>2. CASE b # a
      <4>1. PortKnown(b)
        BY <3>2, <2>5 DEF HandlesInv, KnownInv
      <4>2. \A u \in TreeUsers : user[u].port = b /\ user[u].step \in {"adds"} \cup Closing => user'[u] = user[u]
        BY <1>1, <2>4 DEF Closing
      <4> QED
        BY <1>1, <4>1, <4>2 DEF PortKnown
    <3> QED
      BY <3>1, <3>2
  <2>14. \A b : Holders(b)' = Holders(b)
    <3> TAKE b
    <3>1. user[t].step \notin Held /\ s.step \notin Held
      BY <1>1, <2>2 DEF Held
    <3> QED
      BY <2>1, <3>1, HoldersStay
  <2>15. CountInv'
    <3>1. Holders(a) = {}
      BY <2>10 DEF Holders
    <3>2. Cardinality(Holders(a)) = 0
      BY <3>1, FS_EmptySet
    <3> QED
      BY <2>3, <2>5, <2>14, <3>2 DEF HandlesInv, CountInv
  <2>16. LockInv'
    <3>1. \A u \in TreeUsers : user[u].step # "go" => user'[u] = user[u]
      BY <1>1, <2>4
    <3>2. \A u \in TreeUsers : user'[u].step # "adds" => user'[u] = user[u]
      BY <2>2, <2>4
    <3>3. \A b \in PortAddrs : portMem'[b].alive /\ portMem'[b].destroy =>
            \E u \in TreeUsers : user'[u].port = b /\ user'[u].step \in Destroyed
      BY <2>3, <2>5, <2>14, <3>1, <3>2 DEF HandlesInv, LockInv, Destroyed
    <3>4. \A b \in PortAddrs : portMem'[b].alive /\ portMem'[b].poison =>
            \E u \in TreeUsers : user'[u].port = b /\ user'[u].step = "deletes"
      BY <2>3, <2>5, <2>14, <3>1, <3>2 DEF HandlesInv, LockInv, Destroyed
    <3>5. \A u \in TreeUsers : user'[u].step \in {"signals", "poisons", "deletes"} =>
            Holders(user[u].port)' = {}
      BY <2>3, <2>5, <2>14, <3>1, <3>2 DEF HandlesInv, LockInv, Destroyed
    <3>6. \A u \in TreeUsers : user'[u].step = "signals" =>
            \E v \in TreeUsers : user'[v].port = user'[u].port /\ user'[v].step = "awaits"
      BY <2>3, <2>5, <2>14, <3>1, <3>2 DEF HandlesInv, LockInv, Destroyed
    <3>7. \A u, v \in TreeUsers :
            user'[u].step = "signals" /\ user'[v].step = "signals" /\ user'[u].port = user'[v].port => u = v
      BY <2>3, <2>5, <2>14, <3>1, <3>2 DEF HandlesInv, LockInv, Destroyed
    <3> QED
      BY <3>3, <3>4, <3>5, <3>6, <3>7 DEF LockInv
  <2> QED
    BY <2>6, <2>8, <2>9, <2>11, <2>12, <2>13, <2>15, <2>16 DEF HandlesInv
<1> QED
  BY <1>2, <1>3 DEF PortNew


LEMMA UnusedCall ==
  /\ Unused \in CallState /\ Unused.op = "none" /\ Unused.step = "none" /\ Unused.port = NoPort
  /\ Unused.handle = NoHandle
  BY DEF Unused, CallState, CallOps, Early

(* The thread t of a call with a port.                                      *)
LEMMA CallHasPort ==
  ASSUME HandleTreeAssumption, HandlesInv, NEW t \in TreeUsers, user[t].step \notin Early
  PROVE  /\ user[t] \in CallState /\ user[t].port \in PortAddrs /\ portMem[user[t].port].alive
         /\ user[t].port # NoPort /\ once = "complete" /\ portMem[user[t].port] \in PortMemory
<1>1. user[t] \in CallState /\ user[t].port # NoPort
  BY DEF HandlesInv, HandlesTyped, CallInv
<1>2. user[t].port \in PortAddrs
  BY <1>1 DEF CallState
<1> QED
  BY <1>1, <1>2 DEF HandlesInv, HandlesTyped, OwnInv, OnceInv

LEMMA TsTreeAddKeeps ==
  ASSUME HandleTreeAssumption, HandlesInv, NEW t \in TreeUsers, TsTreeAdd(t)
  PROVE  HandlesInv'
<1>1. user[t].step = "adds" /\ user' = [user EXCEPT ![t] = Unused]
      /\ UNCHANGED <<initDone, once, portMem, iocps>>
  BY DEF TsTreeAdd, GivesBack
<1>2. PICK a \in PortAddrs : a = user[t].port /\ portMem[a].alive /\ a # NoPort
  BY <1>1, CallHasPort DEF Early
<1>3. PICK h \in HandleValues : h = user[t].handle /\ portMem[a].handle = h
  BY <1>1, <1>2 DEF HandlesInv, OwnInv
<1>4. h # NoHandle
  BY DEF HandleTreeAssumption
<1>5. \A g \in HandleValues : handleTree[g] # a
  BY <1>1, <1>2 DEF HandlesInv, OwnInv
<1>6. handleTree[h] = NoPort
  <2> SUFFICES ASSUME handleTree[h] # NoPort PROVE FALSE
    OBVIOUS
  <2>1. handleTree[h] \in PortAddrs /\ portMem[handleTree[h]].alive /\ portMem[handleTree[h]].handle = h
    BY DEF HandlesInv, HandlesTyped, ValueInv
  <2>2. handleTree[h] = a
    BY <2>1, <1>2, <1>3, <1>4 DEF HandlesInv, ValueInv
  <2> QED
    BY <2>2, <1>5
<1>7. handleTree' = [handleTree EXCEPT ![h] = a] /\ existed' = existed
  BY <1>2, <1>3, <1>6 DEF TsTreeAdd
<1>8. \A g \in HandleValues : handleTree'[g] = IF g = h THEN a ELSE handleTree[g]
  BY <1>7 DEF HandlesInv, HandlesTyped
<1>9. \A u \in TreeUsers : user'[u] = IF u = t THEN Unused ELSE user[u]
  BY <1>1, UnusedCall DEF HandlesInv, HandlesTyped
<1>10. HandlesTyped'
  BY <1>1, <1>7, UnusedCall DEF HandlesInv, HandlesTyped
<1>11. CallInv'
  BY <1>1, UnusedCall, CallKeeps DEF Early, Using, Closing
<1>12. OnceInv'
  BY <1>1, UnusedCall, OnceKeeps
<1>13. OwnInv'
  <2>1. \A u \in TreeUsers : user'[u].port # NoPort => u # t /\ user'[u] = user[u]
    BY <1>9, UnusedCall
  <2>2. \A u \in TreeUsers : user'[u].step \in {"adds"} \cup Closing => u # t /\ user'[u] = user[u]
    BY <1>9, UnusedCall DEF Closing
  <2>3. \A u \in TreeUsers : user'[u].step \in {"adds"} \cup Closing => user[u].port # a
    BY <2>2, <1>1, <1>2 DEF HandlesInv, OwnInv
  <2>4. \A u \in TreeUsers : user'[u].port # NoPort => portMem'[user'[u].port].alive
    BY <2>1, <1>1 DEF HandlesInv, OwnInv
  <2>5. \A u \in TreeUsers : user'[u].step \in {"adds"} \cup Closing =>
          \A g \in HandleValues : handleTree'[g] # user'[u].port
    BY <2>2, <2>3, <1>8 DEF HandlesInv, OwnInv
  <2>6. \A u \in TreeUsers : user'[u].step = "adds" =>
          user'[u].handle \in HandleValues /\ portMem'[user'[u].port].handle = user'[u].handle
    BY <2>2, <1>1 DEF HandlesInv, OwnInv
  <2>7. \A u, v \in TreeUsers :
          /\ user'[u].step \in {"adds"} \cup Closing /\ user'[v].step \in {"adds"} \cup Closing
          /\ user'[u].port = user'[v].port
          => u = v
    BY <2>2 DEF HandlesInv, OwnInv
  <2> QED
    BY <2>4, <2>5, <2>6, <2>7 DEF OwnInv
<1>14. ValueInv'
  BY <1>1, <1>2, <1>3, <1>7, <1>8 DEF HandlesInv, ValueInv
<1>15. KnownInv'
  <2> SUFFICES ASSUME NEW b \in PortAddrs, portMem'[b].alive PROVE PortKnown(b)'
    BY DEF KnownInv
  <2>1. CASE b = a
    BY <2>1, <1>8 DEF PortKnown
  <2>2. CASE b # a
    <3>1. PortKnown(b)
      BY <1>1 DEF HandlesInv, KnownInv
    <3>2. \A g \in HandleValues : handleTree[g] = b => handleTree'[g] = b
      BY <1>2, <1>6, <1>8, <2>2 DEF HandleTreeAssumption
    <3>3. \A u \in TreeUsers : user[u].port = b => user'[u] = user[u]
      BY <1>2, <1>9, <2>2
    <3> QED
      BY <3>1, <3>2, <3>3 DEF PortKnown
  <2> QED
    BY <2>1, <2>2
<1>16. \A b : Holders(b)' = Holders(b)
  <2> TAKE b
  <2>1. user[t].step \notin Held /\ Unused.step \notin Held
    BY <1>1, UnusedCall DEF Held
  <2> QED
    BY <1>1, <2>1, HoldersStay
<1>17. CountInv'
  BY <1>1, <1>16 DEF HandlesInv, CountInv
<1>18. LockInv'
  <2>1. \A u \in TreeUsers : user[u].step # "adds" => user'[u] = user[u]
    BY <1>1, <1>9
  <2>2. \A u \in TreeUsers : user'[u].step # "none" => user'[u] = user[u]
    BY <1>9, UnusedCall
  <2>3. \A b \in PortAddrs : portMem'[b].alive /\ portMem'[b].destroy =>
          \E u \in TreeUsers : user'[u].port = b /\ user'[u].step \in Destroyed
    BY <1>1, <1>16, <2>1, <2>2 DEF HandlesInv, LockInv, Destroyed
  <2>4. \A b \in PortAddrs : portMem'[b].alive /\ portMem'[b].poison =>
          \E u \in TreeUsers : user'[u].port = b /\ user'[u].step = "deletes"
    BY <1>1, <1>16, <2>1, <2>2 DEF HandlesInv, LockInv, Destroyed
  <2>5. \A u \in TreeUsers : user'[u].step \in {"signals", "poisons", "deletes"} =>
          Holders(user[u].port)' = {}
    BY <1>1, <1>16, <2>1, <2>2 DEF HandlesInv, LockInv, Destroyed
  <2>6. \A u \in TreeUsers : user'[u].step = "signals" =>
          \E v \in TreeUsers : user'[v].port = user'[u].port /\ user'[v].step = "awaits"
    BY <1>1, <1>16, <2>1, <2>2 DEF HandlesInv, LockInv, Destroyed
  <2>7. \A u, v \in TreeUsers :
          user'[u].step = "signals" /\ user'[v].step = "signals" /\ user'[u].port = user'[v].port => u = v
    BY <1>1, <1>16, <2>1, <2>2 DEF HandlesInv, LockInv, Destroyed
  <2> QED
    BY <2>3, <2>4, <2>5, <2>6, <2>7 DEF LockInv
<1> QED
  BY <1>10, <1>11, <1>12, <1>13, <1>14, <1>15, <1>17, <1>18 DEF HandlesInv

(* A call that finds the port in the tree comes to use it or to close it.   *)
LEMMA TsTreeFindAndRefKeeps ==
  ASSUME HandleTreeAssumption, HandlesInv, NEW t \in TreeUsers, TsTreeFindAndRef(t)
  PROVE  HandlesInv'
<1>1. user[t].op = "use" /\ user[t].step = "go" /\ user[t] \in CallState /\ user[t].port = NoPort
      /\ user[t].handle \in HandleValues
      /\ UNCHANGED <<initDone, once, handleTree, iocps, existed>>
  BY DEF TsTreeFindAndRef, HandlesInv, HandlesTyped, CallInv, Early
<1>2. PICK h \in HandleValues : h = user[t].handle
  BY <1>1
<1>3. CASE handleTree[h] = NoPort
  <2>1. user' = [user EXCEPT ![t] = Unused] /\ UNCHANGED portMem
    BY <1>2, <1>3 DEF TsTreeFindAndRef, GivesBack
  <2>2. user[t].step \in Early /\ Unused.step \in Early
    BY <1>1, UnusedCall DEF Early
  <2>3. OnceInv'
    BY <1>1, <2>1, UnusedCall, OnceKeeps
  <2>4. HandlesTyped'
    BY <1>1, <2>1, UnusedCall DEF HandlesInv, HandlesTyped
  <2>5. CallInv' /\ OwnInv' /\ ValueInv' /\ KnownInv' /\ CountInv' /\ LockInv'
    BY <1>1, <2>1, <2>2, UnusedCall, EarlyKeeps
  <2> QED
    BY <2>3, <2>4, <2>5 DEF HandlesInv
<1>4. CASE handleTree[h] # NoPort
  <2>1. PICK a \in PortAddrs : a = handleTree[h] /\ portMem[a].alive /\ portMem[a].handle = h
    BY <1>4 DEF HandlesInv, HandlesTyped, ValueInv
  <2> DEFINE s == [user[t] EXCEPT !.step = "uses", !.port = a]
             m == [portMem[a] EXCEPT !.refs = @ + 1]
  <2>2. user' = [user EXCEPT ![t] = s] /\ portMem' = [portMem EXCEPT ![a] = m]
    BY <1>2, <1>4, <2>1 DEF TsTreeFindAndRef, AddRef
  <2>3. s \in CallState /\ s.op = "use" /\ s.step = "uses" /\ s.port = a /\ s.handle = h
    BY <1>1, <1>2 DEF CallState, Using
  <2>4. portMem[a] \in PortMemory
    BY DEF HandlesInv, HandlesTyped
  <2>5. m \in PortMemory /\ m.alive = portMem[a].alive /\ m.handle = portMem[a].handle
        /\ m.refs = portMem[a].refs + 1
        /\ m.destroy = portMem[a].destroy /\ m.poison = portMem[a].poison
    BY <2>4 DEF PortMemory
  <2> HIDE DEF s, m
  <2>6. a # NoPort
    BY DEF HandleTreeAssumption
  <2>7. \A u \in TreeUsers : user'[u] = IF u = t THEN s ELSE user[u]
    BY <2>2 DEF HandlesInv, HandlesTyped
  <2>8. \A b \in PortAddrs : portMem'[b] = IF b = a THEN m ELSE portMem[b]
    BY <2>2 DEF HandlesInv, HandlesTyped
  <2>9. \A b \in PortAddrs :
          /\ portMem'[b].alive = portMem[b].alive /\ portMem'[b].handle = portMem[b].handle
          /\ portMem'[b].destroy = portMem[b].destroy /\ portMem'[b].poison = portMem[b].poison
    BY <2>5, <2>8
  <2>10. HandlesTyped'
    BY <1>1, <2>2, <2>3, <2>5 DEF HandlesInv, HandlesTyped
  <2>11. CallInv'
    BY <1>2, <2>2, <2>3, <2>6, CallKeeps DEF Early, Using, Closing
  <2>12. OnceInv'
    BY <1>1, <2>2, <2>3, OnceKeeps
  <2>13. \A u \in TreeUsers : user'[u].step \in {"adds", "signals"} \cup Closing => user'[u] = user[u]
    BY <2>3, <2>7 DEF Closing
  <2>14. \A u \in TreeUsers : user[u].step \in {"adds", "signals"} \cup Closing => user'[u] = user[u]
    BY <1>1, <2>7 DEF Closing
  <2>15. OwnInv'
    <3>1. \A u \in TreeUsers : user'[u].port # NoPort => portMem'[user'[u].port].alive
      <4> SUFFICES ASSUME NEW u \in TreeUsers, user'[u].port # NoPort PROVE portMem'[user'[u].port].alive
        OBVIOUS
      <4>1. CASE u = t
        BY <4>1, <2>1, <2>3, <2>7, <2>9
      <4>2. CASE u # t
        <5>1. user'[u] = user[u] /\ user[u] \in CallState
          BY <4>2, <2>7 DEF HandlesInv, HandlesTyped
        <5>2. user[u].port \in PortAddrs
          BY <5>1 DEF CallState
        <5> QED
          BY <5>1, <5>2, <2>9 DEF HandlesInv, OwnInv
      <4> QED
        BY <4>1, <4>2
    <3>2. \A u \in TreeUsers : user'[u].step \in {"adds"} \cup Closing =>
            \A g \in HandleValues : handleTree'[g] # user'[u].port
      BY <1>1, <2>13 DEF HandlesInv, OwnInv
    <3>3. \A u \in TreeUsers : user'[u].step = "adds" =>
            user'[u].handle \in HandleValues /\ portMem'[user'[u].port].handle = user'[u].handle
      <4> SUFFICES ASSUME NEW u \in TreeUsers, user'[u].step = "adds"
                   PROVE  user'[u].handle \in HandleValues /\ portMem'[user'[u].port].handle = user'[u].handle
        OBVIOUS
      <4>1. user'[u] = user[u] /\ user[u].step = "adds"
        BY <2>13
      <4>2. user[u].port \in PortAddrs
        BY <4>1, CallHasPort DEF Early
      <4> QED
        BY <4>1, <4>2, <2>9 DEF HandlesInv, OwnInv
    <3>4. \A u, v \in TreeUsers :
            /\ user'[u].step \in {"adds"} \cup Closing /\ user'[v].step \in {"adds"} \cup Closing
            /\ user'[u].port = user'[v].port
            => u = v
      BY <2>13 DEF HandlesInv, OwnInv
    <3> QED
      BY <3>1, <3>2, <3>3, <3>4 DEF OwnInv
  <2>16. ValueInv'
    BY <1>1, <2>9 DEF HandlesInv, HandlesTyped, ValueInv
  <2>17. KnownInv'
    BY <1>1, <2>9, <2>14 DEF HandlesInv, KnownInv, PortKnown
  <2>18. \A b : b # a => Holders(b)' = Holders(b)
    <3> SUFFICES ASSUME NEW b, b # a PROVE Holders(b)' = Holders(b)
      OBVIOUS
    <3>1. ~(user[t].port = b /\ user[t].step \in Held) /\ ~(s.port = b /\ s.step \in Held)
      BY <1>1, <2>3 DEF Held
    <3> QED
      BY <2>2, <3>1, HoldersStay
  <2>19. Cardinality(Holders(a)') = Cardinality(Holders(a)) + 1
    BY <1>1, <2>2, <2>3, <2>6, HoldersCome DEF Held
  <2>20. CountInv'
    <3> SUFFICES ASSUME NEW b \in PortAddrs, portMem'[b].alive
                 PROVE  portMem'[b].refs = Cardinality(Holders(b)')
      BY DEF CountInv
    <3>1. portMem[b].refs = Cardinality(Holders(b))
      BY <2>9 DEF HandlesInv, CountInv
    <3> QED
      BY <3>1, <2>5, <2>8, <2>18, <2>19
  <2>21. LockInv'
    <3>1. \A u \in TreeUsers : user[u].step \in Closing \cup {"signals"} => user[u].port # a
      <4> SUFFICES ASSUME NEW u \in TreeUsers, user[u].step \in Closing \cup {"signals"}
                   PROVE  user[u].port # a
        OBVIOUS
      <4>1. CASE user[u].step \in Closing
        BY <4>1, <2>1 DEF HandlesInv, OwnInv
      <4>2. CASE user[u].step = "signals"
        <5>1. PICK v \in TreeUsers : user[v].port = user[u].port /\ user[v].step = "awaits"
          BY <4>2 DEF HandlesInv, LockInv
        <5> QED
          BY <5>1, <2>1 DEF HandlesInv, OwnInv, Closing
      <4> QED
        BY <4>1, <4>2
    <3>2. \A u \in TreeUsers : user'[u].step \in {"signals", "poisons", "deletes"} =>
            Holders(user[u].port)' = {}
      BY <3>1, <2>13, <2>18 DEF HandlesInv, LockInv, Closing
    <3>3. \A b \in PortAddrs : portMem'[b].alive /\ portMem'[b].destroy =>
            \E u \in TreeUsers : user'[u].port = b /\ user'[u].step \in Destroyed
      BY <2>9, <2>14 DEF HandlesInv, LockInv, Closing, Destroyed
    <3>4. \A b \in PortAddrs : portMem'[b].alive /\ portMem'[b].poison =>
            \E u \in TreeUsers : user'[u].port = b /\ user'[u].step = "deletes"
      BY <2>9, <2>14 DEF HandlesInv, LockInv, Closing
    <3>5. \A u \in TreeUsers : user'[u].step = "signals" =>
            \E v \in TreeUsers : user'[v].port = user'[u].port /\ user'[v].step = "awaits"
      BY <2>13, <2>14 DEF HandlesInv, LockInv, Closing
    <3>6. \A u, v \in TreeUsers :
            user'[u].step = "signals" /\ user'[v].step = "signals" /\ user'[u].port = user'[v].port => u = v
      BY <2>13 DEF HandlesInv, LockInv
    <3> QED
      BY <3>2, <3>3, <3>4, <3>5, <3>6, <2>13 DEF LockInv, Closing
  <2> QED
    BY <2>10, <2>11, <2>12, <2>15, <2>16, <2>17, <2>20, <2>21 DEF HandlesInv
<1> QED
  BY <1>3, <1>4


(* A step of a call inside a port, which goes on, or leaves it when it was  *)
(* used only.                                                               *)
LEMMA PortStepKeeps ==
  ASSUME HandleTreeAssumption, HandlesInv, NEW t \in TreeUsers, NEW a \in PortAddrs,
         a = user[t].port, user[t].step \in Using \cup Closing,
         NEW s \in CallState, NEW m \in PortMemory,
         \/ s = Unused /\ user[t].step \in Using
         \/ /\ s.port = a /\ s.op = user[t].op /\ s.handle = user[t].handle
            /\ \/ user[t].step \in Using /\ s.step \in Using
               \/ user[t].step \in Closing /\ s.step \in Closing,
         m.alive, m.handle = portMem[a].handle \/ user[t].step \in Closing,
         user' = [user EXCEPT ![t] = s], portMem' = [portMem EXCEPT ![a] = m],
         iocps' \subseteq HandleValues, UNCHANGED <<initDone, once, handleTree, existed>>
  PROVE  HandlesTyped' /\ CallInv' /\ OnceInv' /\ OwnInv' /\ KnownInv'
<1>1. \A u \in TreeUsers : user'[u] = IF u = t THEN s ELSE user[u]
  BY DEF HandlesInv, HandlesTyped
<1>2. \A b \in PortAddrs : portMem'[b] = IF b = a THEN m ELSE portMem[b]
  BY DEF HandlesInv, HandlesTyped
<1>3. a # NoPort /\ portMem[a].alive
  BY CallHasPort DEF Early, Using, Closing
<1>4. user[t].step \notin {"none", "init", "initialises"}
  BY DEF Using, Closing
<1>5. s.step \notin {"adds", "initialises"}
  BY UnusedCall DEF Using, Closing
<1>6. HandlesTyped'
  BY DEF HandlesInv, HandlesTyped
<1>7. CallInv'
  <2>1. CASE s = Unused
    BY <2>1, UnusedCall, CallKeeps DEF Early, Using, Closing
  <2>2. CASE s # Unused
    <3>1. s.port # NoPort /\ s.step \notin Early /\ s.op # "none" /\ s.step # "none"
      BY <1>3, <2>2 DEF HandlesInv, CallInv, Early, Using, Closing
    <3>2. (s.step \in Using => s.op = "use") /\ (s.step \in Closing => s.op = "close")
      BY <2>2 DEF HandlesInv, CallInv, Using, Closing
    <3>3. s.op \in {"use", "close"} => s.handle \in HandleValues
      BY <2>2 DEF HandlesInv, CallInv
    <3> QED
      BY <1>5, <3>1, <3>2, <3>3, CallKeeps
  <2> QED
    BY <2>1, <2>2
<1>8. OnceInv'
  BY <1>4, <1>5, OnceKeeps
<1>9. \A u \in TreeUsers : user'[u].step \in {"adds"} \cup Closing =>
        /\ user[u].step \in {"adds"} \cup Closing /\ user'[u].port = user[u].port
        /\ u # t => user'[u] = user[u]
  BY <1>1, <1>5, UnusedCall DEF Using, Closing
<1>10. \A b \in PortAddrs : portMem'[b].alive <=> portMem[b].alive
  BY <1>2, <1>3
<1>11. OwnInv'
  <2>1. \A u \in TreeUsers : user'[u].port # NoPort => portMem'[user'[u].port].alive
    <3> SUFFICES ASSUME NEW u \in TreeUsers, user'[u].port # NoPort PROVE portMem'[user'[u].port].alive
      OBVIOUS
    <3>1. user'[u].port = user[u].port
      BY <1>1, UnusedCall
    <3>2. user[u].port \in PortAddrs /\ portMem[user[u].port].alive
      BY <3>1 DEF HandlesInv, HandlesTyped, CallState, OwnInv
    <3> QED
      BY <3>1, <3>2, <1>10
  <2>2. \A u \in TreeUsers : user'[u].step \in {"adds"} \cup Closing =>
          \A g \in HandleValues : handleTree'[g] # user'[u].port
    BY <1>9 DEF HandlesInv, OwnInv
  <2>3. \A u \in TreeUsers : user'[u].step = "adds" =>
          user'[u].handle \in HandleValues /\ portMem'[user'[u].port].handle = user'[u].handle
    <3> SUFFICES ASSUME NEW u \in TreeUsers, user'[u].step = "adds"
                 PROVE  user'[u].handle \in HandleValues /\ portMem'[user'[u].port].handle = user'[u].handle
      OBVIOUS
    <3>1. u # t /\ user'[u] = user[u] /\ user[u].step = "adds"
      BY <1>1, <1>5
    <3>2. user[u].port \in PortAddrs
      BY <3>1, CallHasPort DEF Early
    <3>3. user[u].handle \in HandleValues /\ portMem[user[u].port].handle = user[u].handle
      BY <3>1 DEF HandlesInv, OwnInv
    <3>4. user[u].port = a => user[t].step \notin Closing
      BY <3>1 DEF HandlesInv, OwnInv
    <3> QED
      BY <3>1, <3>2, <3>3, <3>4, <1>2
  <2>4. \A u, v \in TreeUsers :
          /\ user'[u].step \in {"adds"} \cup Closing /\ user'[v].step \in {"adds"} \cup Closing
          /\ user'[u].port = user'[v].port
          => u = v
    BY <1>9 DEF HandlesInv, OwnInv
  <2> QED
    BY <2>1, <2>2, <2>3, <2>4 DEF OwnInv
<1>12. KnownInv'
  <2>1. \A u \in TreeUsers : user[u].step \in {"adds"} \cup Closing =>
          user'[u].step \in {"adds"} \cup Closing /\ user'[u].port = user[u].port
    BY <1>1 DEF Using, Closing
  <2> QED
    BY <1>10, <2>1 DEF HandlesInv, KnownInv, PortKnown
<1> QED
  BY <1>6, <1>7, <1>8, <1>11, <1>12

LEMMA ReflockUnrefKeeps ==
  ASSUME HandleTreeAssumption, HandlesInv, NEW t \in TreeUsers, ReflockUnref(t)
  PROVE  HandlesInv'
<1>1. user[t].step = "uses" /\ UNCHANGED <<initDone, once, handleTree, iocps, existed>>
  BY DEF ReflockUnref
<1>2. user[t].step \notin Early
  BY <1>1 DEF Early
<1>3. PICK a \in PortAddrs : a = user[t].port /\ portMem[a].alive /\ a # NoPort
                             /\ portMem[a] \in PortMemory /\ user[t] \in CallState
  BY <1>2, CallHasPort
<1>4. PICK last \in BOOLEAN : last <=> (portMem[a].refs = 1 /\ portMem[a].destroy)
  OBVIOUS
<1> DEFINE s == IF last THEN [user[t] EXCEPT !.step = "signals"] ELSE Unused
           m == [portMem[a] EXCEPT !.refs = @ - 1]
<1>5. user' = [user EXCEPT ![t] = s] /\ portMem' = [portMem EXCEPT ![a] = m]
  BY <1>3, <1>4 DEF ReflockUnref, At, GivesBack
<1>6. /\ s \in CallState
      /\ last => s.step = "signals" /\ s.op = user[t].op /\ s.port = a /\ s.handle = user[t].handle
      /\ ~last => s = Unused
  BY <1>3, UnusedCall DEF CallState, Using
<1>7. m \in PortMemory /\ m.alive = portMem[a].alive /\ m.handle = portMem[a].handle
      /\ m.refs = portMem[a].refs - 1
      /\ m.destroy = portMem[a].destroy /\ m.poison = portMem[a].poison
  <2>1. portMem[a] \in PortMemory
    BY <1>3
  <2> QED
    BY ONLY <2>1 DEF PortMemory
<1> HIDE DEF s, m
<1>8. \A u \in TreeUsers : user'[u] = IF u = t THEN s ELSE user[u]
  BY <1>5 DEF HandlesInv, HandlesTyped
<1>9. \A b \in PortAddrs : portMem'[b] = IF b = a THEN m ELSE portMem[b]
  BY <1>5 DEF HandlesInv, HandlesTyped
<1>10. \A b \in PortAddrs :
         /\ portMem'[b].alive = portMem[b].alive /\ portMem'[b].handle = portMem[b].handle
         /\ portMem'[b].destroy = portMem[b].destroy /\ portMem'[b].poison = portMem[b].poison
  BY <1>7, <1>9
<1>11. HandlesTyped' /\ CallInv' /\ OnceInv' /\ OwnInv' /\ KnownInv'
  <2>1. user[t].step \in Using \cup Closing
    BY <1>1 DEF Using
  <2>2. \/ s = Unused /\ user[t].step \in Using
        \/ /\ s.port = a /\ s.op = user[t].op /\ s.handle = user[t].handle
           /\ \/ user[t].step \in Using /\ s.step \in Using
              \/ user[t].step \in Closing /\ s.step \in Closing
    BY <1>1, <1>6 DEF Using
  <2>3. m.alive /\ m.handle = portMem[a].handle /\ iocps' \subseteq HandleValues
    BY <1>1, <1>3, <1>7 DEF HandlesInv, HandlesTyped
  <2> QED
    BY <1>1, <1>3, <1>5, <1>6, <1>7, <2>1, <2>2, <2>3, PortStepKeeps
<1>12. ValueInv'
  BY <1>1, <1>10 DEF HandlesInv, HandlesTyped, ValueInv
<1>13. \A b : b # a => Holders(b)' = Holders(b)
  <2> SUFFICES ASSUME NEW b, b # a PROVE Holders(b)' = Holders(b)
    OBVIOUS
  <2>1. ~(user[t].port = b /\ user[t].step \in Held) /\ ~(s.port = b /\ s.step \in Held)
    BY <1>3, <1>6, UnusedCall DEF Held
  <2> QED
    BY <1>5, <2>1, HoldersStay
<1>14. /\ Holders(a)' = Holders(a) \ {t} /\ t \in Holders(a)
       /\ Cardinality(Holders(a)') = Cardinality(Holders(a)) - 1
  <2>1. user[t].step \in Held /\ s.step \notin Held
    BY <1>1, <1>6, UnusedCall DEF Held
  <2> QED
    BY <1>3, <1>5, <2>1, HoldersGo
<1>15. CountInv'
  <2> SUFFICES ASSUME NEW b \in PortAddrs, portMem'[b].alive
               PROVE  portMem'[b].refs = Cardinality(Holders(b)')
    BY DEF CountInv
  <2>1. portMem[b].refs = Cardinality(Holders(b))
    BY <1>10 DEF HandlesInv, CountInv
  <2> QED
    BY <2>1, <1>7, <1>9, <1>13, <1>14
<1>16. LockInv'
  <2>1. \A u \in TreeUsers : user[u].step \in Closing \cup {"signals"} => user'[u] = user[u]
    BY <1>1, <1>8 DEF Closing
  <2>2. \A u \in TreeUsers : u # t /\ user'[u].step \in Closing \cup {"signals"} => user'[u] = user[u]
    BY <1>8
  <2>3. \A u \in TreeUsers : user'[u].step \in Closing => u # t
    BY <1>6, <1>8, UnusedCall DEF Closing
  <2>4. \A u \in TreeUsers : user[u].step \in {"signals", "poisons", "deletes"} => user[u].port # a
    BY <1>14 DEF HandlesInv, LockInv
  <2>5. user'[t].step = "signals" => last
    BY <1>6, <1>8, UnusedCall
  <2>6. ASSUME last
        PROVE  /\ Holders(a)' = {} /\ user'[t].port = a
               /\ \E v \in TreeUsers : user'[v].port = a /\ user'[v].step = "awaits"
    <3>1. portMem[a].refs <= 1
      BY <2>6, <1>4
    <3>2. Holders(a)' = {}
      BY <3>1, <1>3, <1>14, HoldersLast
    <3>3. PICK v \in TreeUsers : user[v].port = a /\ user[v].step \in Destroyed
      BY <2>6, <1>3, <1>4 DEF HandlesInv, LockInv
    <3>4. user[v].step = "awaits"
      BY <3>3, <2>4 DEF Destroyed
    <3> QED
      BY <2>6, <3>2, <3>3, <3>4, <2>1, <1>6, <1>8 DEF Closing
  <2>7. \A u \in TreeUsers : user'[u].step \in {"signals", "poisons", "deletes"} =>
          Holders(user[u].port)' = {}
    <3> SUFFICES ASSUME NEW u \in TreeUsers, user'[u].step \in {"signals", "poisons", "deletes"}
                 PROVE  Holders(user[u].port)' = {}
      OBVIOUS
    <3>1. CASE u = t
      <4>1. last
        BY <3>1, <2>3, <2>5 DEF Closing
      <4> QED
        BY <4>1, <3>1, <2>6
    <3>2. CASE u # t
      <4>1. user'[u] = user[u]
        BY <3>2, <1>8
      <4>2. user[u].port # a /\ Holders(user[u].port) = {}
        BY <4>1, <2>4 DEF HandlesInv, LockInv
      <4>3. Holders(user[u].port)' = {}
        BY <4>1, <4>2, <1>13
      <4> QED
        BY <4>1, <4>3
    <3> QED
      BY <3>1, <3>2
  <2>8. \A b \in PortAddrs : portMem'[b].alive /\ portMem'[b].destroy =>
          \E u \in TreeUsers : user'[u].port = b /\ user'[u].step \in Destroyed
    BY <1>10, <2>1 DEF HandlesInv, LockInv, Closing, Destroyed
  <2>9. \A b \in PortAddrs : portMem'[b].alive /\ portMem'[b].poison =>
          \E u \in TreeUsers : user'[u].port = b /\ user'[u].step = "deletes"
    BY <1>10, <2>1 DEF HandlesInv, LockInv, Closing
  <2>10. \A u \in TreeUsers : user'[u].step = "signals" =>
          \E v \in TreeUsers : user'[v].port = user'[u].port /\ user'[v].step = "awaits"
    BY <2>1, <2>2, <2>5, <2>6 DEF HandlesInv, LockInv, Closing
  <2>11. \A u, v \in TreeUsers :
          user'[u].step = "signals" /\ user'[v].step = "signals" /\ user'[u].port = user'[v].port => u = v
    BY <2>2, <2>4, <2>5, <2>6 DEF HandlesInv, LockInv
  <2> QED
    BY <2>7, <2>8, <2>9, <2>10, <2>11 DEF LockInv
<1> QED
  BY <1>11, <1>12, <1>15, <1>16 DEF HandlesInv


LEMMA TsTreeDelAndRefKeeps ==
  ASSUME HandleTreeAssumption, HandlesInv, NEW t \in TreeUsers, TsTreeDelAndRef(t)
  PROVE  HandlesInv'
<1>1. user[t].op = "close" /\ user[t].step = "go" /\ user[t] \in CallState /\ user[t].port = NoPort
      /\ user[t].handle \in HandleValues /\ UNCHANGED <<initDone, once, iocps, existed>>
  BY DEF TsTreeDelAndRef, HandlesInv, HandlesTyped, CallInv, Early
<1>2. PICK h \in HandleValues : h = user[t].handle
  BY <1>1
<1>3. CASE handleTree[h] = NoPort
  <2>1. user' = [user EXCEPT ![t] = Unused] /\ UNCHANGED <<handleTree, portMem>>
    BY <1>2, <1>3 DEF TsTreeDelAndRef, GivesBack
  <2>2. user[t].step \in Early /\ Unused.step \in Early
    BY <1>1, UnusedCall DEF Early
  <2>3. OnceInv'
    BY <1>1, <2>1, UnusedCall, OnceKeeps
  <2>4. HandlesTyped'
    BY <1>1, <2>1, UnusedCall DEF HandlesInv, HandlesTyped
  <2>5. CallInv' /\ OwnInv' /\ ValueInv' /\ KnownInv' /\ CountInv' /\ LockInv'
    BY <1>1, <2>1, <2>2, UnusedCall, EarlyKeeps
  <2> QED
    BY <2>3, <2>4, <2>5 DEF HandlesInv
<1>4. CASE handleTree[h] # NoPort
  <2>1. PICK a \in PortAddrs : a = handleTree[h] /\ portMem[a].alive /\ portMem[a].handle = h
    BY <1>4 DEF HandlesInv, HandlesTyped, ValueInv
  <2> DEFINE s == [user[t] EXCEPT !.step = "closes", !.port = a]
             m == [portMem[a] EXCEPT !.refs = @ + 1]
  <2>2. user' = [user EXCEPT ![t] = s] /\ portMem' = [portMem EXCEPT ![a] = m]
        /\ handleTree' = [handleTree EXCEPT ![h] = NoPort]
    BY <1>2, <1>4, <2>1 DEF TsTreeDelAndRef, AddRef
  <2>3. s \in CallState /\ s.op = "close" /\ s.step = "closes" /\ s.port = a /\ s.handle = h
    BY <1>1, <1>2 DEF CallState, Closing
  <2>4. portMem[a] \in PortMemory
    BY DEF HandlesInv, HandlesTyped
  <2>5. m \in PortMemory /\ m.alive = portMem[a].alive /\ m.handle = portMem[a].handle
        /\ m.refs = portMem[a].refs + 1
        /\ m.destroy = portMem[a].destroy /\ m.poison = portMem[a].poison
    BY ONLY <2>4 DEF PortMemory
  <2> HIDE DEF s, m
  <2>6. a # NoPort
    BY DEF HandleTreeAssumption
  <2>7. \A u \in TreeUsers : user'[u] = IF u = t THEN s ELSE user[u]
    BY <2>2 DEF HandlesInv, HandlesTyped
  <2>8. \A b \in PortAddrs : portMem'[b] = IF b = a THEN m ELSE portMem[b]
    BY <2>2 DEF HandlesInv, HandlesTyped
  <2>9. \A b \in PortAddrs :
          /\ portMem'[b].alive = portMem[b].alive /\ portMem'[b].handle = portMem[b].handle
          /\ portMem'[b].destroy = portMem[b].destroy /\ portMem'[b].poison = portMem[b].poison
    BY <2>5, <2>8
  <2>10. \A g \in HandleValues : handleTree'[g] = IF g = h THEN NoPort ELSE handleTree[g]
    BY <2>2 DEF HandlesInv, HandlesTyped
  <2>11. \A g \in HandleValues : handleTree'[g] # a
    BY <2>1, <2>6, <2>10 DEF HandlesInv, ValueInv
  <2>12. \A u \in TreeUsers : user[u].step \in Closing \cup {"adds", "signals"} => user[u].port # a
    <3> SUFFICES ASSUME NEW u \in TreeUsers, user[u].step \in Closing \cup {"adds", "signals"}
                 PROVE  user[u].port # a
      OBVIOUS
    <3>1. CASE user[u].step \in Closing \cup {"adds"}
      BY <3>1, <2>1 DEF HandlesInv, OwnInv
    <3>2. CASE user[u].step = "signals"
      <4>1. PICK v \in TreeUsers : user[v].port = user[u].port /\ user[v].step = "awaits"
        BY <3>2 DEF HandlesInv, LockInv
      <4> QED
        BY <4>1, <2>1 DEF HandlesInv, OwnInv, Closing
    <3> QED
      BY <3>1, <3>2
  <2>13. HandlesTyped'
    BY <1>1, <2>2, <2>3, <2>5 DEF HandlesInv, HandlesTyped
  <2>14. CallInv'
    BY <1>2, <2>2, <2>3, <2>6, CallKeeps DEF Early, Using, Closing
  <2>15. OnceInv'
    BY <1>1, <2>2, <2>3, OnceKeeps
  <2>16. \A u \in TreeUsers : u # t => user'[u] = user[u]
    BY <2>7
  <2>17. \A u \in TreeUsers : user[u].step \in Closing \cup {"adds", "signals"} => user'[u] = user[u]
    BY <1>1, <2>7 DEF Closing
  <2>18. \A u \in TreeUsers : user'[u].step \in {"adds", "signals", "awaits", "poisons", "deletes"} =>
           user'[u] = user[u]
    BY <2>3, <2>7
  <2>19. OwnInv'
    <3>1. \A u \in TreeUsers : user'[u].port # NoPort => portMem'[user'[u].port].alive
      <4> SUFFICES ASSUME NEW u \in TreeUsers, user'[u].port # NoPort PROVE portMem'[user'[u].port].alive
        OBVIOUS
      <4>1. CASE u = t
        BY <4>1, <2>1, <2>3, <2>7, <2>9
      <4>2. CASE u # t
        <5>1. user'[u] = user[u] /\ user[u] \in CallState
          BY <4>2, <2>7 DEF HandlesInv, HandlesTyped
        <5>2. user[u].port \in PortAddrs
          BY <5>1 DEF CallState
        <5> QED
          BY <5>1, <5>2, <2>9 DEF HandlesInv, OwnInv
      <4> QED
        BY <4>1, <4>2
    <3>2. \A u \in TreeUsers : user'[u].step \in {"adds"} \cup Closing =>
            \A g \in HandleValues : handleTree'[g] # user'[u].port
      <4> SUFFICES ASSUME NEW u \in TreeUsers, user'[u].step \in {"adds"} \cup Closing
                   PROVE  \A g \in HandleValues : handleTree'[g] # user'[u].port
        OBVIOUS
      <4>1. CASE u = t
        BY <4>1, <2>3, <2>7, <2>11
      <4>2. CASE u # t
        <5>1. user'[u] = user[u] /\ user[u].port # NoPort
          BY <4>2, <2>16 DEF HandlesInv, CallInv, Early, Closing
        <5> QED
          BY <5>1, <2>10 DEF HandlesInv, OwnInv
      <4> QED
        BY <4>1, <4>2
    <3>3. \A u \in TreeUsers : user'[u].step = "adds" =>
            user'[u].handle \in HandleValues /\ portMem'[user'[u].port].handle = user'[u].handle
      <4> SUFFICES ASSUME NEW u \in TreeUsers, user'[u].step = "adds"
                   PROVE  user'[u].handle \in HandleValues /\ portMem'[user'[u].port].handle = user'[u].handle
        OBVIOUS
      <4>1. user'[u] = user[u] /\ user[u].step = "adds"
        BY <2>18
      <4>2. user[u].port \in PortAddrs
        BY <4>1, CallHasPort DEF Early
      <4> QED
        BY <4>1, <4>2, <2>9 DEF HandlesInv, OwnInv
    <3>4. \A u, v \in TreeUsers :
            /\ user'[u].step \in {"adds"} \cup Closing /\ user'[v].step \in {"adds"} \cup Closing
            /\ user'[u].port = user'[v].port
            => u = v
      <4> SUFFICES ASSUME NEW u \in TreeUsers, NEW v \in TreeUsers, user'[u].port = user'[v].port,
                          user'[u].step \in {"adds"} \cup Closing, user'[v].step \in {"adds"} \cup Closing
                   PROVE  u = v
        OBVIOUS
      <4>1. CASE u = t \/ v = t
        BY <4>1, <2>3, <2>7, <2>12, <2>16
      <4>2. CASE u # t /\ v # t
        BY <4>2, <2>16 DEF HandlesInv, OwnInv
      <4> QED
        BY <4>1, <4>2
    <3> QED
      BY <3>1, <3>2, <3>3, <3>4 DEF OwnInv
  <2>20. ValueInv'
    <3>1. \A g \in HandleValues : handleTree'[g] # NoPort =>
            portMem'[handleTree'[g]].alive /\ portMem'[handleTree'[g]].handle = g
      BY <2>9, <2>10 DEF HandlesInv, HandlesTyped, ValueInv
    <3> QED
      BY <1>1, <3>1, <2>9 DEF HandlesInv, HandlesTyped, ValueInv
  <2>21. KnownInv'
    <3> SUFFICES ASSUME NEW b \in PortAddrs, portMem'[b].alive PROVE PortKnown(b)'
      BY DEF KnownInv
    <3>1. CASE b = a
      BY <3>1, <2>3, <2>7 DEF PortKnown, Closing
    <3>2. CASE b # a
      <4>1. PortKnown(b)
        BY <2>9 DEF HandlesInv, KnownInv
      <4>2. \A g \in HandleValues : handleTree[g] = b => handleTree'[g] = b
        BY <2>1, <2>10, <3>2
      <4> QED
        BY <4>1, <4>2, <2>17 DEF PortKnown
    <3> QED
      BY <3>1, <3>2
  <2>22. \A b : b # a => Holders(b)' = Holders(b)
    <3> SUFFICES ASSUME NEW b, b # a PROVE Holders(b)' = Holders(b)
      OBVIOUS
    <3>1. ~(user[t].port = b /\ user[t].step \in Held) /\ ~(s.port = b /\ s.step \in Held)
      BY <1>1, <2>3 DEF Held
    <3> QED
      BY <2>2, <3>1, HoldersStay
  <2>23. Cardinality(Holders(a)') = Cardinality(Holders(a)) + 1
    BY <1>1, <2>2, <2>3, <2>6, HoldersCome DEF Held
  <2>24. CountInv'
    <3> SUFFICES ASSUME NEW b \in PortAddrs, portMem'[b].alive
                 PROVE  portMem'[b].refs = Cardinality(Holders(b)')
      BY DEF CountInv
    <3>1. portMem[b].refs = Cardinality(Holders(b))
      BY <2>9 DEF HandlesInv, CountInv
    <3> QED
      BY <3>1, <2>5, <2>8, <2>22, <2>23
  <2>25. LockInv'
    <3>1. \A u \in TreeUsers : user'[u].step \in {"signals", "poisons", "deletes"} =>
            Holders(user[u].port)' = {}
      BY <2>12, <2>18, <2>22 DEF HandlesInv, LockInv, Closing
    <3>2. \A b \in PortAddrs : portMem'[b].alive /\ portMem'[b].destroy =>
            \E u \in TreeUsers : user'[u].port = b /\ user'[u].step \in Destroyed
      BY <2>9, <2>17 DEF HandlesInv, LockInv, Closing, Destroyed
    <3>3. \A b \in PortAddrs : portMem'[b].alive /\ portMem'[b].poison =>
            \E u \in TreeUsers : user'[u].port = b /\ user'[u].step = "deletes"
      BY <2>9, <2>17 DEF HandlesInv, LockInv, Closing
    <3>4. \A u \in TreeUsers : user'[u].step = "signals" =>
            \E v \in TreeUsers : user'[v].port = user'[u].port /\ user'[v].step = "awaits"
      BY <2>17, <2>18 DEF HandlesInv, LockInv, Closing
    <3>5. \A u, v \in TreeUsers :
            user'[u].step = "signals" /\ user'[v].step = "signals" /\ user'[u].port = user'[v].port => u = v
      BY <2>18 DEF HandlesInv, LockInv
    <3> QED
      BY <3>1, <3>2, <3>3, <3>4, <3>5 DEF LockInv
  <2> QED
    BY <2>13, <2>14, <2>15, <2>19, <2>20, <2>21, <2>24, <2>25 DEF HandlesInv
<1> QED
  BY <1>3, <1>4

(* The value of a handle that was closed is free for another port.          *)
LEMMA CloseIocpKeeps ==
  ASSUME HandleTreeAssumption, HandlesInv, NEW t \in TreeUsers, CloseIocp(t)
  PROVE  HandlesInv'
<1>1. user[t].step = "closes" /\ UNCHANGED <<initDone, once, handleTree, existed>>
  BY DEF CloseIocp
<1>2. user[t].step \notin Early
  BY <1>1 DEF Early
<1>3. PICK a \in PortAddrs : a = user[t].port /\ portMem[a].alive /\ a # NoPort
                             /\ portMem[a] \in PortMemory /\ user[t] \in CallState
  BY <1>2, CallHasPort
<1> DEFINE s == [user[t] EXCEPT !.step = "destroys"]
           m == [portMem[a] EXCEPT !.handle = NoHandle]
<1>4. user' = [user EXCEPT ![t] = s] /\ portMem' = [portMem EXCEPT ![a] = m]
      /\ iocps' = iocps \ {portMem[a].handle}
  BY <1>3 DEF CloseIocp, At
<1>5. s \in CallState /\ s.step = "destroys" /\ s.op = user[t].op /\ s.port = a /\ s.handle = user[t].handle
  BY <1>3 DEF CallState, Closing
<1>6. m \in PortMemory /\ m.alive = portMem[a].alive /\ m.handle = NoHandle /\ m.refs = portMem[a].refs
      /\ m.destroy = portMem[a].destroy /\ m.poison = portMem[a].poison
  <2>1. portMem[a] \in PortMemory
    BY <1>3
  <2> QED
    BY ONLY <2>1 DEF PortMemory
<1> HIDE DEF s, m
<1>7. \A u \in TreeUsers : user'[u] = IF u = t THEN s ELSE user[u]
  BY <1>4 DEF HandlesInv, HandlesTyped
<1>8. \A b \in PortAddrs : portMem'[b] = IF b = a THEN m ELSE portMem[b]
  BY <1>4 DEF HandlesInv, HandlesTyped
<1>9. \A b \in PortAddrs :
        /\ portMem'[b].alive = portMem[b].alive /\ portMem'[b].refs = portMem[b].refs
        /\ portMem'[b].destroy = portMem[b].destroy /\ portMem'[b].poison = portMem[b].poison
  BY <1>6, <1>8
<1>10. HandlesTyped' /\ CallInv' /\ OnceInv' /\ OwnInv' /\ KnownInv'
  <2>1. user[t].step \in Using \cup Closing /\ user[t].step \in Closing /\ s.step \in Closing
    BY <1>1, <1>5 DEF Closing
  <2>2. m.alive /\ iocps' \subseteq HandleValues
    BY <1>3, <1>4, <1>6 DEF HandlesInv, HandlesTyped
  <2>3. \/ s = Unused /\ user[t].step \in Using
        \/ /\ s.port = a /\ s.op = user[t].op /\ s.handle = user[t].handle
           /\ \/ user[t].step \in Using /\ s.step \in Using
              \/ user[t].step \in Closing /\ s.step \in Closing
    BY <1>5, <2>1
  <2> QED
    BY <1>1, <1>3, <1>4, <1>5, <1>6, <2>1, <2>2, <2>3, PortStepKeeps
<1>11. ValueInv'
  <2>1. \A g \in HandleValues : handleTree[g] # a
    BY <1>1, <1>3 DEF HandlesInv, OwnInv, Closing
  <2>2. \A g \in HandleValues : handleTree'[g] # NoPort =>
          portMem'[handleTree'[g]].alive /\ portMem'[handleTree'[g]].handle = g
    BY <1>1, <1>8, <2>1 DEF HandlesInv, HandlesTyped, ValueInv
  <2>3. \A b \in PortAddrs : portMem'[b].alive => portMem'[b].handle \in iocps' \cup {NoHandle}
    <3> SUFFICES ASSUME NEW b \in PortAddrs, portMem'[b].alive
                 PROVE  portMem'[b].handle \in iocps' \cup {NoHandle}
      OBVIOUS
    <3>1. CASE b = a
      BY <3>1, <1>6, <1>8
    <3>2. CASE b # a
      BY <3>2, <1>3, <1>4, <1>8 DEF HandlesInv, ValueInv
    <3> QED
      BY <3>1, <3>2
  <2>4. \A b, c \in PortAddrs :
          /\ portMem'[b].alive /\ portMem'[c].alive
          /\ portMem'[b].handle = portMem'[c].handle /\ portMem'[b].handle # NoHandle
          => b = c
    BY <1>3, <1>6, <1>8 DEF HandlesInv, ValueInv
  <2> QED
    BY <2>2, <2>3, <2>4, <1>1 DEF HandlesInv, ValueInv
<1>12. \A b : Holders(b)' = Holders(b)
  <2> TAKE b
  <2>1. (user[t].port = b /\ user[t].step \in Held) <=> (s.port = b /\ s.step \in Held)
    BY <1>1, <1>3, <1>5 DEF Held
  <2> QED
    BY <1>4, <2>1, HoldersStay
<1>13. CountInv'
  BY <1>9, <1>12 DEF HandlesInv, CountInv
<1>14. LockInv'
  <2>1. \A u \in TreeUsers : user[u].step # "closes" => user'[u] = user[u]
    BY <1>1, <1>7
  <2>2. \A u \in TreeUsers : user'[u].step # "destroys" => user'[u] = user[u]
    BY <1>5, <1>7
  <2>3. \A b \in PortAddrs : portMem'[b].alive /\ portMem'[b].destroy =>
          \E u \in TreeUsers : user'[u].port = b /\ user'[u].step \in Destroyed
    BY <1>9, <2>1 DEF HandlesInv, LockInv, Destroyed
  <2>4. \A b \in PortAddrs : portMem'[b].alive /\ portMem'[b].poison =>
          \E u \in TreeUsers : user'[u].port = b /\ user'[u].step = "deletes"
    BY <1>9, <2>1 DEF HandlesInv, LockInv
  <2>5. \A u \in TreeUsers : user'[u].step \in {"signals", "poisons", "deletes"} =>
          Holders(user[u].port)' = {}
    BY <1>12, <2>2 DEF HandlesInv, LockInv
  <2>6. \A u \in TreeUsers : user'[u].step = "signals" =>
          \E v \in TreeUsers : user'[v].port = user'[u].port /\ user'[v].step = "awaits"
    BY <2>1, <2>2 DEF HandlesInv, LockInv
  <2>7. \A u, v \in TreeUsers :
          user'[u].step = "signals" /\ user'[v].step = "signals" /\ user'[u].port = user'[v].port => u = v
    BY <2>2 DEF HandlesInv, LockInv
  <2> QED
    BY <2>3, <2>4, <2>5, <2>6, <2>7 DEF LockInv
<1> QED
  BY <1>10, <1>11, <1>13, <1>14 DEF HandlesInv


LEMMA ReflockUnrefAndDestroyKeeps ==
  ASSUME HandleTreeAssumption, HandlesInv, NEW t \in TreeUsers, ReflockUnrefAndDestroy(t)
  PROVE  HandlesInv'
<1>1. user[t].step = "destroys" /\ UNCHANGED <<initDone, once, handleTree, iocps, existed>>
  BY DEF ReflockUnrefAndDestroy
<1>2. user[t].step \notin Early
  BY <1>1 DEF Early
<1>3. PICK a \in PortAddrs : a = user[t].port /\ portMem[a].alive /\ a # NoPort
                             /\ portMem[a] \in PortMemory /\ user[t] \in CallState
  BY <1>2, CallHasPort
<1>4. PICK next \in {"awaits", "poisons"} : next = IF portMem[a].refs > 1 THEN "awaits" ELSE "poisons"
  OBVIOUS
<1> DEFINE s == [user[t] EXCEPT !.step = next]
           m == [portMem[a] EXCEPT !.refs = @ - 1, !.destroy = TRUE]
<1>5. user' = [user EXCEPT ![t] = s] /\ portMem' = [portMem EXCEPT ![a] = m]
  BY <1>3, <1>4 DEF ReflockUnrefAndDestroy, At
<1>6. s \in CallState /\ s.step = next /\ s.op = user[t].op /\ s.port = a /\ s.handle = user[t].handle
  BY <1>3, <1>4 DEF CallState, Closing
<1>7. m \in PortMemory /\ m.alive = portMem[a].alive /\ m.handle = portMem[a].handle
      /\ m.refs = portMem[a].refs - 1 /\ m.destroy /\ m.poison = portMem[a].poison
  <2>1. portMem[a] \in PortMemory
    BY <1>3
  <2>2. m \in PortMemory
    <3>1. [portMem[a] EXCEPT !.refs = @ - 1] \in PortMemory
      BY ONLY <2>1 DEF PortMemory
    <3>2. PICK n \in PortMemory : n = [portMem[a] EXCEPT !.refs = @ - 1]
      BY <3>1
    <3>3. [n EXCEPT !.destroy = TRUE] \in PortMemory
      BY ONLY n \in PortMemory DEF PortMemory
    <3>4. m = [n EXCEPT !.destroy = TRUE]
      BY <3>2
    <3> QED
      BY <3>3, <3>4
  <2>3. m.alive = portMem[a].alive /\ m.handle = portMem[a].handle
    BY ONLY <2>1 DEF PortMemory
  <2>4. m.refs = portMem[a].refs - 1
    BY ONLY <2>1 DEF PortMemory
  <2>5. m.destroy = TRUE /\ m.poison = portMem[a].poison
    BY ONLY <2>1 DEF PortMemory
  <2> QED
    BY <2>2, <2>3, <2>4, <2>5
<1> HIDE DEF s, m
<1>8. \A u \in TreeUsers : user'[u] = IF u = t THEN s ELSE user[u]
  BY <1>5 DEF HandlesInv, HandlesTyped
<1>9. \A b \in PortAddrs : portMem'[b] = IF b = a THEN m ELSE portMem[b]
  BY <1>5 DEF HandlesInv, HandlesTyped
<1>10. \A b \in PortAddrs :
         /\ portMem'[b].alive = portMem[b].alive /\ portMem'[b].handle = portMem[b].handle
         /\ portMem'[b].poison = portMem[b].poison
         /\ b # a => portMem'[b].destroy = portMem[b].destroy
  BY <1>7, <1>9
<1>11. HandlesTyped' /\ CallInv' /\ OnceInv' /\ OwnInv' /\ KnownInv'
  <2>1. user[t].step \in Using \cup Closing /\ user[t].step \in Closing /\ s.step \in Closing
    BY <1>1, <1>6 DEF Closing
  <2>2. m.alive /\ m.handle = portMem[a].handle /\ iocps' \subseteq HandleValues
    BY <1>1, <1>3, <1>7 DEF HandlesInv, HandlesTyped
  <2>3. \/ s = Unused /\ user[t].step \in Using
        \/ /\ s.port = a /\ s.op = user[t].op /\ s.handle = user[t].handle
           /\ \/ user[t].step \in Using /\ s.step \in Using
              \/ user[t].step \in Closing /\ s.step \in Closing
    BY <1>6, <2>1
  <2> QED
    BY <1>1, <1>3, <1>5, <1>6, <1>7, <2>1, <2>2, <2>3, PortStepKeeps
<1>12. ValueInv'
  BY <1>1, <1>10 DEF HandlesInv, HandlesTyped, ValueInv
<1>13. \A b : b # a => Holders(b)' = Holders(b)
  <2> SUFFICES ASSUME NEW b, b # a PROVE Holders(b)' = Holders(b)
    OBVIOUS
  <2>1. ~(user[t].port = b /\ user[t].step \in Held) /\ ~(s.port = b /\ s.step \in Held)
    BY <1>3, <1>6 DEF Held
  <2> QED
    BY <1>5, <2>1, HoldersStay
<1>14. /\ Holders(a)' = Holders(a) \ {t} /\ t \in Holders(a)
       /\ Cardinality(Holders(a)') = Cardinality(Holders(a)) - 1
  <2>1. user[t].step \in Held /\ s.step \notin Held
    BY <1>1, <1>4, <1>6 DEF Held
  <2> QED
    BY <1>3, <1>5, <2>1, HoldersGo
<1>15. CountInv'
  <2> SUFFICES ASSUME NEW b \in PortAddrs, portMem'[b].alive
               PROVE  portMem'[b].refs = Cardinality(Holders(b)')
    BY DEF CountInv
  <2>1. portMem[b].refs = Cardinality(Holders(b))
    BY <1>10 DEF HandlesInv, CountInv
  <2> QED
    BY <2>1, <1>7, <1>9, <1>13, <1>14
<1>16. LockInv'
  <2>1. \A u \in TreeUsers : user[u].step # "destroys" => user'[u] = user[u]
    BY <1>1, <1>8
  <2>2. \A u \in TreeUsers : u # t => user'[u] = user[u]
    BY <1>8
  <2>3. user'[t].step = next /\ user'[t].port = a
    BY <1>6, <1>8
  <2>4. \A u \in TreeUsers : user[u].step \in {"signals", "poisons", "deletes"} => user[u].port # a
    BY <1>14 DEF HandlesInv, LockInv
  <2>5. \A b \in PortAddrs : portMem'[b].alive /\ portMem'[b].destroy =>
          \E u \in TreeUsers : user'[u].port = b /\ user'[u].step \in Destroyed
    <3> SUFFICES ASSUME NEW b \in PortAddrs, portMem'[b].alive, portMem'[b].destroy
                 PROVE  \E u \in TreeUsers : user'[u].port = b /\ user'[u].step \in Destroyed
      OBVIOUS
    <3>1. CASE b = a
      BY <3>1, <1>4, <2>3 DEF Destroyed
    <3>2. CASE b # a
      BY <3>2, <1>10, <2>1 DEF HandlesInv, LockInv, Destroyed
    <3> QED
      BY <3>1, <3>2
  <2>6. \A b \in PortAddrs : portMem'[b].alive /\ portMem'[b].poison =>
          \E u \in TreeUsers : user'[u].port = b /\ user'[u].step = "deletes"
    BY <1>10, <2>1 DEF HandlesInv, LockInv
  <2>7. \A u \in TreeUsers : user'[u].step \in {"signals", "poisons", "deletes"} =>
          Holders(user[u].port)' = {}
    <3> SUFFICES ASSUME NEW u \in TreeUsers, user'[u].step \in {"signals", "poisons", "deletes"}
                 PROVE  Holders(user[u].port)' = {}
      OBVIOUS
    <3>1. CASE u = t
      <4>1. portMem[a].refs <= 1
        BY <3>1, <1>3, <1>4, <2>3 DEF PortMemory
      <4>2. Holders(a)' = {}
        BY <4>1, <1>3, <1>14, HoldersLast
      <4> QED
        BY <4>2, <3>1, <2>3
    <3>2. CASE u # t
      <4>1. user'[u] = user[u]
        BY <3>2, <1>8
      <4>2. user[u].port # a /\ Holders(user[u].port) = {}
        BY <4>1, <2>4 DEF HandlesInv, LockInv
      <4>3. Holders(user[u].port)' = {}
        BY <4>1, <4>2, <1>13
      <4> QED
        BY <4>1, <4>3
    <3> QED
      BY <3>1, <3>2
  <2>8. \A u \in TreeUsers : user'[u].step = "signals" => u # t
    BY <1>4, <2>3
  <2>9. \A u \in TreeUsers : user'[u].step = "signals" =>
          \E v \in TreeUsers : user'[v].port = user'[u].port /\ user'[v].step = "awaits"
    BY <2>1, <2>2, <2>8 DEF HandlesInv, LockInv
  <2>10. \A u, v \in TreeUsers :
          user'[u].step = "signals" /\ user'[v].step = "signals" /\ user'[u].port = user'[v].port => u = v
    BY <2>2, <2>8 DEF HandlesInv, LockInv
  <2> QED
    BY <2>5, <2>6, <2>7, <2>9, <2>10 DEF LockInv
<1> QED
  BY <1>11, <1>12, <1>15, <1>16 DEF HandlesInv

(* The call that ended last meets the one that closes: the first leaves.    *)
LEMMA KeyedEventKeeps ==
  ASSUME HandleTreeAssumption, HandlesInv, NEW t \in TreeUsers, NEW other \in TreeUsers,
         KeyedEvent(t, other)
  PROVE  HandlesInv'
<1>1. user[t].step = "signals" /\ user[other].step = "awaits" /\ user[t].port = user[other].port
      /\ UNCHANGED <<initDone, once, handleTree, portMem, iocps, existed>>
  BY DEF KeyedEvent
<1>2. PICK a \in PortAddrs : a = user[t].port /\ portMem[a].alive /\ a # NoPort
  BY <1>1, CallHasPort DEF Early
<1> DEFINE s == [user[other] EXCEPT !.step = "poisons"]
<1>3. t # other /\ user' = [user EXCEPT ![t] = Unused, ![other] = s]
  BY <1>1 DEF KeyedEvent
<1>4. s \in CallState /\ s.step = "poisons" /\ s.op = user[other].op /\ s.port = a
      /\ s.handle = user[other].handle
  BY <1>1, <1>2 DEF HandlesInv, HandlesTyped, CallState, Closing
<1> HIDE DEF s
<1>5. \A u \in TreeUsers : user'[u] = IF u = t THEN Unused ELSE IF u = other THEN s ELSE user[u]
  BY <1>3 DEF HandlesInv, HandlesTyped
<1>6. HandlesTyped'
  BY <1>1, <1>3, <1>4, UnusedCall DEF HandlesInv, HandlesTyped
<1>7. user[other].op = "close" /\ user[other].handle \in HandleValues
  BY <1>1 DEF HandlesInv, CallInv, Closing
<1>8. CallInv'
  <2> SUFFICES ASSUME NEW u \in TreeUsers
               PROVE  /\ user'[u].step \in Early <=> user'[u].port = NoPort
                      /\ user'[u].step = "none" <=> user'[u].op = "none"
                      /\ user'[u].step = "adds" => user'[u].op = "create"
                      /\ user'[u].step \in Using => user'[u].op = "use"
                      /\ user'[u].step \in Closing => user'[u].op = "close"
                      /\ user'[u].op \in {"use", "close"} => user'[u].handle \in HandleValues
    BY DEF CallInv
  <2>1. CASE u = t
    BY <2>1, <1>5, UnusedCall DEF Early, Using, Closing
  <2>2. CASE u = other
    BY <2>2, <1>2, <1>3, <1>4, <1>5, <1>7 DEF Early, Using, Closing
  <2>3. CASE u # t /\ u # other
    BY <2>3, <1>5 DEF HandlesInv, CallInv
  <2> QED
    BY <2>1, <2>2, <2>3
<1>9. once = "complete"
  BY <1>1 DEF HandlesInv, OnceInv, Early
<1>10. OnceInv'
  BY <1>1, <1>4, <1>5, <1>9, UnusedCall DEF HandlesInv, OnceInv
<1>11. \A u \in TreeUsers : user'[u].step \in {"adds"} \cup Closing =>
         /\ user[u].step \in {"adds"} \cup Closing /\ user'[u].port = user[u].port
         /\ user'[u].handle = user[u].handle /\ (user'[u].step = "adds" => user[u].step = "adds")
  BY <1>1, <1>2, <1>4, <1>5, UnusedCall DEF Closing
<1>12. \A u \in TreeUsers : user'[u].port # NoPort => user'[u].port = user[u].port
  BY <1>1, <1>2, <1>4, <1>5, UnusedCall
<1>13. OwnInv'
  BY <1>1, <1>11, <1>12 DEF HandlesInv, OwnInv
<1>14. ValueInv'
  BY <1>1 DEF HandlesInv, ValueInv
<1>15. KnownInv'
  <2>1. \A u \in TreeUsers : user[u].step \in {"adds"} \cup Closing =>
          user'[u].step \in {"adds"} \cup Closing /\ user'[u].port = user[u].port
    BY <1>1, <1>2, <1>4, <1>5 DEF Closing
  <2> QED
    BY <1>1, <2>1 DEF HandlesInv, KnownInv, PortKnown
<1>16. \A b : Holders(b)' = Holders(b)
  BY <1>1, <1>4, <1>5, UnusedCall DEF Holders
<1>17. CountInv'
  BY <1>1, <1>16 DEF HandlesInv, CountInv
<1>18. LockInv'
  <2>1. \A u \in TreeUsers : user'[u].step = "signals" => u # t /\ user'[u] = user[u]
    BY <1>4, <1>5, UnusedCall
  <2>2. \A u \in TreeUsers : user'[u].step = "signals" => user'[u].port # a
    BY <1>1, <1>2, <2>1 DEF HandlesInv, LockInv
  <2>3. \A u \in TreeUsers : user[u].step \in Destroyed =>
          user'[u].step \in Destroyed /\ user'[u].port = user[u].port
    BY <1>1, <1>2, <1>4, <1>5 DEF Destroyed
  <2>4. \A b \in PortAddrs : portMem'[b].alive /\ portMem'[b].destroy =>
          \E u \in TreeUsers : user'[u].port = b /\ user'[u].step \in Destroyed
    BY <1>1, <2>3 DEF HandlesInv, LockInv
  <2>5. \A u \in TreeUsers : user[u].step = "deletes" => user'[u] = user[u]
    BY <1>1, <1>5
  <2>6. \A b \in PortAddrs : portMem'[b].alive /\ portMem'[b].poison =>
          \E u \in TreeUsers : user'[u].port = b /\ user'[u].step = "deletes"
    BY <1>1, <2>5 DEF HandlesInv, LockInv
  <2>7. \A u \in TreeUsers : user'[u].step \in {"signals", "poisons", "deletes"} =>
          Holders(user[u].port)' = {}
    <3> SUFFICES ASSUME NEW u \in TreeUsers, user'[u].step \in {"signals", "poisons", "deletes"}
                 PROVE  Holders(user[u].port)' = {}
      OBVIOUS
    <3>1. Holders(a) = {}
      BY <1>1, <1>2 DEF HandlesInv, LockInv
    <3>2. CASE u = other
      BY <3>1, <3>2, <1>3, <1>4, <1>5, <1>16
    <3>3. CASE u # other
      <4>1. user'[u] = user[u]
        BY <3>3, <1>5, UnusedCall
      <4>2. Holders(user[u].port) = {}
        BY <4>1 DEF HandlesInv, LockInv
      <4>3. Holders(user[u].port)' = {}
        BY <4>1, <4>2, <1>16
      <4> QED
        BY <4>3
    <3> QED
      BY <3>2, <3>3
  <2>8. \A u \in TreeUsers : user'[u].step = "signals" =>
          \E v \in TreeUsers : user'[v].port = user'[u].port /\ user'[v].step = "awaits"
    <3> SUFFICES ASSUME NEW u \in TreeUsers, user'[u].step = "signals"
                 PROVE  \E v \in TreeUsers : user'[v].port = user'[u].port /\ user'[v].step = "awaits"
      OBVIOUS
    <3>1. PICK v \in TreeUsers : user[v].port = user[u].port /\ user[v].step = "awaits"
      BY <2>1 DEF HandlesInv, LockInv
    <3>2. v # other /\ v # t
      BY <3>1, <1>1, <1>2, <2>1, <2>2
    <3> QED
      BY <3>1, <3>2, <2>1, <1>5
  <2>9. \A u, v \in TreeUsers :
          user'[u].step = "signals" /\ user'[v].step = "signals" /\ user'[u].port = user'[v].port => u = v
    BY <2>1 DEF HandlesInv, LockInv
  <2> QED
    BY <2>4, <2>6, <2>7, <2>8, <2>9 DEF LockInv
<1> QED
  BY <1>6, <1>8, <1>10, <1>13, <1>14, <1>15, <1>17, <1>18 DEF HandlesInv

LEMMA PoisonKeeps ==
  ASSUME HandleTreeAssumption, HandlesInv, NEW t \in TreeUsers, Poison(t)
  PROVE  HandlesInv'
<1>1. user[t].step = "poisons" /\ UNCHANGED <<initDone, once, handleTree, iocps, existed>>
  BY DEF Poison
<1>2. user[t].step \notin Early
  BY <1>1 DEF Early
<1>3. PICK a \in PortAddrs : a = user[t].port /\ portMem[a].alive /\ a # NoPort
                             /\ portMem[a] \in PortMemory /\ user[t] \in CallState
  BY <1>2, CallHasPort
<1> DEFINE s == [user[t] EXCEPT !.step = "deletes"]
           m == [portMem[a] EXCEPT !.poison = TRUE]
<1>4. user' = [user EXCEPT ![t] = s] /\ portMem' = [portMem EXCEPT ![a] = m]
  BY <1>3 DEF Poison, At
<1>5. s \in CallState /\ s.step = "deletes" /\ s.op = user[t].op /\ s.port = a /\ s.handle = user[t].handle
  BY <1>3 DEF CallState, Closing
<1>6. m \in PortMemory /\ m.alive = portMem[a].alive /\ m.handle = portMem[a].handle
      /\ m.refs = portMem[a].refs /\ m.destroy = portMem[a].destroy /\ m.poison
  <2>1. portMem[a] \in PortMemory
    BY <1>3
  <2>2. m \in PortMemory /\ m.poison
    BY ONLY <2>1 DEF PortMemory
  <2>3. m.alive = portMem[a].alive /\ m.handle = portMem[a].handle
    BY ONLY <2>1 DEF PortMemory
  <2>4. m.refs = portMem[a].refs /\ m.destroy = portMem[a].destroy
    BY ONLY <2>1 DEF PortMemory
  <2> QED
    BY <2>2, <2>3, <2>4
<1> HIDE DEF s, m
<1>7. \A u \in TreeUsers : user'[u] = IF u = t THEN s ELSE user[u]
  BY <1>4 DEF HandlesInv, HandlesTyped
<1>8. \A b \in PortAddrs : portMem'[b] = IF b = a THEN m ELSE portMem[b]
  BY <1>4 DEF HandlesInv, HandlesTyped
<1>9. \A b \in PortAddrs :
        /\ portMem'[b].alive = portMem[b].alive /\ portMem'[b].handle = portMem[b].handle
        /\ portMem'[b].refs = portMem[b].refs /\ portMem'[b].destroy = portMem[b].destroy
        /\ b # a => portMem'[b].poison = portMem[b].poison
  BY <1>6, <1>8
<1>10. HandlesTyped' /\ CallInv' /\ OnceInv' /\ OwnInv' /\ KnownInv'
  <2>1. user[t].step \in Using \cup Closing /\ user[t].step \in Closing /\ s.step \in Closing
    BY <1>1, <1>5 DEF Closing
  <2>2. m.alive /\ m.handle = portMem[a].handle /\ iocps' \subseteq HandleValues
    BY <1>1, <1>3, <1>6 DEF HandlesInv, HandlesTyped
  <2>3. \/ s = Unused /\ user[t].step \in Using
        \/ /\ s.port = a /\ s.op = user[t].op /\ s.handle = user[t].handle
           /\ \/ user[t].step \in Using /\ s.step \in Using
              \/ user[t].step \in Closing /\ s.step \in Closing
    BY <1>5, <2>1
  <2> QED
    BY <1>1, <1>3, <1>4, <1>5, <1>6, <2>1, <2>2, <2>3, PortStepKeeps
<1>11. ValueInv'
  BY <1>1, <1>9 DEF HandlesInv, HandlesTyped, ValueInv
<1>12. \A b : Holders(b)' = Holders(b)
  <2> TAKE b
  <2>1. user[t].step \notin Held /\ s.step \notin Held
    BY <1>1, <1>5 DEF Held
  <2> QED
    BY <1>4, <2>1, HoldersStay
<1>13. CountInv'
  BY <1>9, <1>12 DEF HandlesInv, CountInv
<1>14. LockInv'
  <2>1. \A u \in TreeUsers : u # t => user'[u] = user[u]
    BY <1>7
  <2>2. user'[t].step = "deletes" /\ user'[t].port = a
    BY <1>5, <1>7
  <2>3. \A b \in PortAddrs : portMem'[b].alive /\ portMem'[b].destroy =>
          \E u \in TreeUsers : user'[u].port = b /\ user'[u].step \in Destroyed
    <3> SUFFICES ASSUME NEW b \in PortAddrs, portMem'[b].alive, portMem'[b].destroy
                 PROVE  \E u \in TreeUsers : user'[u].port = b /\ user'[u].step \in Destroyed
      OBVIOUS
    <3>1. PICK u \in TreeUsers : user[u].port = b /\ user[u].step \in Destroyed
      BY <1>9 DEF HandlesInv, LockInv
    <3> QED
      BY <3>1, <1>3, <2>1, <2>2 DEF Destroyed
  <2>4. \A b \in PortAddrs : portMem'[b].alive /\ portMem'[b].poison =>
          \E u \in TreeUsers : user'[u].port = b /\ user'[u].step = "deletes"
    <3> SUFFICES ASSUME NEW b \in PortAddrs, portMem'[b].alive, portMem'[b].poison
                 PROVE  \E u \in TreeUsers : user'[u].port = b /\ user'[u].step = "deletes"
      OBVIOUS
    <3>1. CASE b = a
      BY <3>1, <2>2
    <3>2. CASE b # a
      <4>1. PICK u \in TreeUsers : user[u].port = b /\ user[u].step = "deletes"
        BY <3>2, <1>9 DEF HandlesInv, LockInv
      <4> QED
        BY <4>1, <1>1, <2>1
    <3> QED
      BY <3>1, <3>2
  <2>5. \A u \in TreeUsers : user'[u].step \in {"signals", "poisons", "deletes"} =>
          Holders(user[u].port)' = {}
    <3> SUFFICES ASSUME NEW u \in TreeUsers, user'[u].step \in {"signals", "poisons", "deletes"}
                 PROVE  Holders(user[u].port)' = {}
      OBVIOUS
    <3>1. user[u].step \in {"signals", "poisons", "deletes"} /\ user'[u].port = user[u].port
      BY <1>1, <1>3, <2>1, <2>2
    <3>2. Holders(user[u].port) = {}
      BY <3>1 DEF HandlesInv, LockInv
    <3> QED
      BY <3>1, <3>2, <1>12
  <2>6. \A u \in TreeUsers : user'[u].step = "signals" =>
          \E v \in TreeUsers : user'[v].port = user'[u].port /\ user'[v].step = "awaits"
    <3> SUFFICES ASSUME NEW u \in TreeUsers, user'[u].step = "signals"
                 PROVE  \E v \in TreeUsers : user'[v].port = user'[u].port /\ user'[v].step = "awaits"
      OBVIOUS
    <3>1. u # t /\ user'[u] = user[u]
      BY <2>1, <2>2
    <3>2. PICK v \in TreeUsers : user[v].port = user[u].port /\ user[v].step = "awaits"
      BY <3>1 DEF HandlesInv, LockInv
    <3> QED
      BY <3>1, <3>2, <1>1, <2>1
  <2>7. \A u, v \in TreeUsers :
          user'[u].step = "signals" /\ user'[v].step = "signals" /\ user'[u].port = user'[v].port => u = v
    BY <2>1, <2>2 DEF HandlesInv, LockInv
  <2> QED
    BY <2>3, <2>4, <2>5, <2>6, <2>7 DEF LockInv
<1> QED
  BY <1>10, <1>11, <1>13, <1>14 DEF HandlesInv

(* Nobody has the address of a port that is freed.                          *)
LEMMA FreePortKeeps ==
  ASSUME HandleTreeAssumption, HandlesInv, NEW t \in TreeUsers, FreePort(t)
  PROVE  HandlesInv'
<1>1. user[t].step = "deletes" /\ UNCHANGED <<initDone, once, handleTree, iocps, existed>>
      /\ user' = [user EXCEPT ![t] = Unused]
  BY DEF FreePort, GivesBack
<1>2. PICK a \in PortAddrs : a = user[t].port /\ portMem[a].alive /\ a # NoPort
  BY <1>1, CallHasPort DEF Early
<1>3. portMem' = [portMem EXCEPT ![a] = FreeMem] /\ FreeMem \in PortMemory /\ ~FreeMem.alive
  BY <1>2 DEF FreePort, FreeMem, PortMemory
<1>4. \A u \in TreeUsers : user'[u] = IF u = t THEN Unused ELSE user[u]
  BY <1>1 DEF HandlesInv, HandlesTyped
<1>5. \A b \in PortAddrs : portMem'[b] = IF b = a THEN FreeMem ELSE portMem[b]
  BY <1>3 DEF HandlesInv, HandlesTyped
<1>6. \A b \in PortAddrs : portMem'[b].alive => b # a /\ portMem'[b] = portMem[b]
  BY <1>3, <1>5
<1>7. HandlesTyped'
  BY <1>1, <1>3, UnusedCall DEF HandlesInv, HandlesTyped
<1>8. CallInv'
  BY <1>1, UnusedCall, CallKeeps DEF Early, Using, Closing
<1>9. OnceInv'
  BY <1>1, UnusedCall, OnceKeeps
<1>10. \A u \in TreeUsers : u # t => user[u].port # a
  <2> SUFFICES ASSUME NEW u \in TreeUsers, u # t, user[u].port = a PROVE FALSE
    OBVIOUS
  <2>1. user[u].step \in Using \cup Closing \cup {"adds"}
    BY <1>2 DEF HandlesInv, HandlesTyped, CallInv, CallState
  <2>2. CASE user[u].step \in Closing \cup {"adds"}
    BY <2>2, <1>1, <1>2 DEF HandlesInv, OwnInv, Closing
  <2>3. CASE user[u].step = "uses"
    <3>1. u \in Holders(a)
      BY <2>3 DEF Holders
    <3> QED
      BY <3>1, <1>1, <1>2 DEF HandlesInv, LockInv
  <2>4. CASE user[u].step = "signals"
    <3>1. PICK v \in TreeUsers : user[v].port = a /\ user[v].step = "awaits"
      BY <2>4 DEF HandlesInv, LockInv
    <3> QED
      BY <3>1, <1>1, <1>2 DEF HandlesInv, OwnInv, Closing
  <2> QED
    BY <2>1, <2>2, <2>3, <2>4 DEF Using
<1>11. \A g \in HandleValues : handleTree[g] # a
  BY <1>1, <1>2 DEF HandlesInv, OwnInv, Closing
<1>12. \A u \in TreeUsers : user'[u].port # NoPort => u # t /\ user'[u] = user[u] /\ user[u].port # a
  BY <1>4, <1>10, UnusedCall
<1>13. \A u \in TreeUsers : user'[u].step \notin Early => u # t /\ user'[u] = user[u] /\ user[u].port # a
  BY <1>4, <1>10, UnusedCall DEF Early
<1>14. OwnInv'
  <2>1. \A u \in TreeUsers : user'[u].port # NoPort => portMem'[user'[u].port].alive
    BY <1>5, <1>12 DEF HandlesInv, HandlesTyped, CallState, OwnInv
  <2>2. \A u \in TreeUsers : user'[u].step \in {"adds"} \cup Closing =>
          \A g \in HandleValues : handleTree'[g] # user'[u].port
    BY <1>1, <1>13 DEF HandlesInv, OwnInv, Early, Closing
  <2>3. \A u \in TreeUsers : user'[u].step = "adds" =>
          user'[u].handle \in HandleValues /\ portMem'[user'[u].port].handle = user'[u].handle
    <3> SUFFICES ASSUME NEW u \in TreeUsers, user'[u].step = "adds"
                 PROVE  user'[u].handle \in HandleValues /\ portMem'[user'[u].port].handle = user'[u].handle
      OBVIOUS
    <3>1. user'[u] = user[u] /\ user[u].step = "adds" /\ user[u].port # a
      BY <1>13 DEF Early
    <3>2. user[u].port \in PortAddrs
      BY <3>1, CallHasPort DEF Early
    <3> QED
      BY <3>1, <3>2, <1>5 DEF HandlesInv, OwnInv
  <2>4. \A u, v \in TreeUsers :
          /\ user'[u].step \in {"adds"} \cup Closing /\ user'[v].step \in {"adds"} \cup Closing
          /\ user'[u].port = user'[v].port
          => u = v
    BY <1>13 DEF HandlesInv, OwnInv, Early, Closing
  <2> QED
    BY <2>1, <2>2, <2>3, <2>4 DEF OwnInv
<1>15. ValueInv'
  <2>1. \A g \in HandleValues : handleTree'[g] # NoPort =>
          portMem'[handleTree'[g]].alive /\ portMem'[handleTree'[g]].handle = g
    BY <1>1, <1>5, <1>11 DEF HandlesInv, HandlesTyped, ValueInv
  <2> QED
    BY <1>1, <1>6, <2>1 DEF HandlesInv, ValueInv
<1>16. KnownInv'
  <2> SUFFICES ASSUME NEW b \in PortAddrs, portMem'[b].alive PROVE PortKnown(b)'
    BY DEF KnownInv
  <2>1. b # a /\ PortKnown(b)
    BY <1>6 DEF HandlesInv, KnownInv
  <2>2. \A u \in TreeUsers : user[u].port = b => user'[u] = user[u]
    BY <1>2, <1>4, <2>1
  <2> QED
    BY <1>1, <2>1, <2>2 DEF PortKnown
<1>17. \A b : b # a => Holders(b)' = Holders(b)
  <2> SUFFICES ASSUME NEW b, b # a PROVE Holders(b)' = Holders(b)
    OBVIOUS
  <2>1. user[t].step \notin Held /\ Unused.step \notin Held
    BY <1>1, UnusedCall DEF Held
  <2> QED
    BY <1>1, <2>1, HoldersStay
<1>18. CountInv'
  BY <1>6, <1>17 DEF HandlesInv, CountInv
<1>19. LockInv'
  <2>1. \A u \in TreeUsers : user[u].port # a => user'[u] = user[u]
    BY <1>2, <1>4
  <2>2. \A b \in PortAddrs : portMem'[b].alive /\ portMem'[b].destroy =>
          \E u \in TreeUsers : user'[u].port = b /\ user'[u].step \in Destroyed
    BY <1>6, <2>1 DEF HandlesInv, LockInv
  <2>3. \A b \in PortAddrs : portMem'[b].alive /\ portMem'[b].poison =>
          \E u \in TreeUsers : user'[u].port = b /\ user'[u].step = "deletes"
    BY <1>6, <2>1 DEF HandlesInv, LockInv
  <2>4. \A u \in TreeUsers : user'[u].step \in {"signals", "poisons", "deletes"} =>
          Holders(user[u].port)' = {}
    BY <1>13, <1>17 DEF HandlesInv, LockInv, Early
  <2>5. \A u \in TreeUsers : user'[u].step = "signals" =>
          \E v \in TreeUsers : user'[v].port = user'[u].port /\ user'[v].step = "awaits"
    <3> SUFFICES ASSUME NEW u \in TreeUsers, user'[u].step = "signals"
                 PROVE  \E v \in TreeUsers : user'[v].port = user'[u].port /\ user'[v].step = "awaits"
      OBVIOUS
    <3>1. user'[u] = user[u] /\ user[u].port # a
      BY <1>13 DEF Early
    <3>2. PICK v \in TreeUsers : user[v].port = user[u].port /\ user[v].step = "awaits"
      BY <3>1 DEF HandlesInv, LockInv
    <3> QED
      BY <3>1, <3>2, <2>1
  <2>6. \A u, v \in TreeUsers :
          user'[u].step = "signals" /\ user'[v].step = "signals" /\ user'[u].port = user'[v].port => u = v
    BY <1>13 DEF HandlesInv, LockInv, Early
  <2> QED
    BY <2>2, <2>3, <2>4, <2>5, <2>6 DEF LockInv
<1> QED
  BY <1>7, <1>8, <1>9, <1>14, <1>15, <1>16, <1>18, <1>19 DEF HandlesInv

LEMMA HandlesStep ==
  ASSUME HandleTreeAssumption, HandlesInv, [HandleNext]_treeUseVars
  PROVE  HandlesInv'
<1>1. CASE UNCHANGED treeUseVars
  BY <1>1, HandlesSame
<1>2. ASSUME NEW t \in TreeUsers, TreeUse(t)
      PROVE  HandlesInv'
  <2>1. CASE EnterCall(t, "create", NoHandle)
    BY <2>1, EnterCallKeeps
  <2>2. ASSUME NEW h \in HandleValues, NEW op \in {"use", "close"}, EnterCall(t, op, h)
        PROVE  HandlesInv'
    BY <2>2, EnterCallKeeps
  <2>3. CASE CallOnce(t) \/ InitCallback(t) \/ PortNew(t) \/ TsTreeAdd(t)
    BY <2>3, CallOnceKeeps, InitCallbackKeeps, PortNewKeeps, TsTreeAddKeeps
  <2>4. CASE TsTreeFindAndRef(t) \/ ReflockUnref(t) \/ TsTreeDelAndRef(t) \/ CloseIocp(t)
    BY <2>4, TsTreeFindAndRefKeeps, ReflockUnrefKeeps, TsTreeDelAndRefKeeps, CloseIocpKeeps
  <2>5. CASE ReflockUnrefAndDestroy(t) \/ Poison(t) \/ FreePort(t)
    BY <2>5, ReflockUnrefAndDestroyKeeps, PoisonKeeps, FreePortKeeps
  <2>6. CASE \E other \in TreeUsers : KeyedEvent(t, other)
    BY <2>6, KeyedEventKeeps
  <2> QED
    BY <1>2, <2>1, <2>2, <2>3, <2>4, <2>5, <2>6 DEF TreeUse
<1> QED
  BY <1>1, <1>2 DEF HandleNext

(* One closer at most, counted.                                             *)
LEMMA OneAtMost ==
  ASSUME NEW S, \A x, y \in S : x = y
  PROVE  Cardinality(S) <= 1
<1>1. CASE S = {}
  BY <1>1, FS_EmptySet
<1>2. CASE S # {}
  <2>1. PICK x \in S : S = {x}
    BY <1>2
  <2> QED
    BY <2>1, FS_Singleton
<1> QED
  BY <1>1, <1>2

LEMMA HandlesInvSafe ==
  ASSUME HandleTreeAssumption, HandlesInv
  PROVE  HandlesSafe
<1>1. ASSUME NEW a \in PortAddrs
      PROVE  /\ portMem[a].alive => portMem[a].refs = Cardinality(Holders(a))
             /\ ~portMem[a].alive \/ portMem[a].poison =>
                  ~ \E t \in TreeUsers : user[t].port = a /\ user[t].step \in {"uses", "signals", "refs"}
             /\ Cardinality(Closers(a)) <= 1
             /\ (\E t \in TreeUsers : user[t].port = a /\ user[t].step = "signals") =>
                  \E t \in Closers(a) : user[t].step = "awaits"
             /\ portMem[a].alive =>
                  \/ \E h \in HandleValues : handleTree[h] = a
                  \/ \E t \in TreeUsers : user[t].port = a /\ user[t].op \in {"create", "close"}
  <2>1. a # NoPort
    BY DEF HandleTreeAssumption
  <2>2. \A t \in Closers(a) : t \in TreeUsers /\ user[t].port = a /\ user[t].step \in Closing
    BY <2>1 DEF Closers, HandlesInv, HandlesTyped, CallInv, CallState, Using
  <2>3. \A t, u \in Closers(a) : t = u
    BY <2>2 DEF HandlesInv, OwnInv
  <2>4. Cardinality(Closers(a)) <= 1
    BY <2>3, OneAtMost
  <2>5. \A t \in TreeUsers : user[t].port = a => portMem[a].alive /\ user[t].step # "refs"
    BY <2>1 DEF HandlesInv, HandlesTyped, OwnInv, CallState, Early, Using, Closing
  <2>6. ASSUME portMem[a].alive, portMem[a].poison, NEW t \in TreeUsers, user[t].port = a,
               user[t].step \in {"uses", "signals"}
        PROVE  FALSE
    <3>1. PICK v \in TreeUsers : user[v].port = a /\ user[v].step = "deletes"
      BY <2>6 DEF HandlesInv, LockInv
    <3>2. CASE user[t].step = "uses"
      <4>1. t \in Holders(a)
        BY <3>2, <2>6 DEF Holders
      <4> QED
        BY <4>1, <3>1 DEF HandlesInv, LockInv
    <3>3. CASE user[t].step = "signals"
      <4>1. PICK w \in TreeUsers : user[w].port = a /\ user[w].step = "awaits"
        BY <3>3, <2>6 DEF HandlesInv, LockInv
      <4> QED
        BY <4>1, <3>1 DEF HandlesInv, OwnInv, Closing
    <3> QED
      BY <2>6, <3>2, <3>3
  <2>7. ~portMem[a].alive \/ portMem[a].poison =>
          ~ \E t \in TreeUsers : user[t].port = a /\ user[t].step \in {"uses", "signals", "refs"}
    BY <2>5, <2>6
  <2>8. (\E t \in TreeUsers : user[t].port = a /\ user[t].step = "signals") =>
          \E t \in Closers(a) : user[t].step = "awaits"
    BY DEF HandlesInv, LockInv, CallInv, Closers, Closing
  <2>9. portMem[a].alive =>
          \/ \E h \in HandleValues : handleTree[h] = a
          \/ \E t \in TreeUsers : user[t].port = a /\ user[t].op \in {"create", "close"}
    BY DEF HandlesInv, KnownInv, PortKnown, CallInv
  <2>10. portMem[a].alive => portMem[a].refs = Cardinality(Holders(a))
    BY DEF HandlesInv, CountInv
  <2> QED
    BY <2>4, <2>7, <2>8, <2>9, <2>10
<1>2. \A h \in HandleValues : handleTree[h] # NoPort =>
        portMem[handleTree[h]].alive /\ portMem[handleTree[h]].handle = h
  BY DEF HandlesInv, ValueInv
<1>3. ~existed
  BY DEF HandlesInv, ValueInv
<1> QED
  BY <1>1, <1>2, <1>3 DEF HandlesSafe

(* However many threads create, use and close epoll ports, and however      *)
(* Windows gives handles and memory again: a port is there while a call     *)
(* uses it, one thread destroys it after them all, a handle leads to the    *)
(* port it was opened for, and no port is lost.                             *)
THEOREM HandlesAreSafe == HandleSpec => []HandlesSafe
<1>1. HandleInit => HandlesInv
  BY HandlesStart, HandleTreeAssumption
<1>2. HandlesInv /\ [HandleNext]_treeUseVars => HandlesInv'
  BY HandlesStep, HandleTreeAssumption
<1>3. HandlesInv => HandlesSafe
  BY HandlesInvSafe, HandleTreeAssumption
<1> QED
  BY <1>1, <1>2, <1>3, PTL DEF HandleSpec

=============================================================================
