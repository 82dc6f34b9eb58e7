--------------------------------- MODULE Kcp ---------------------------------
(***************************************************************************)
(* The two ends of a KCP conversation (src/src/Network/Kcp.{h,cpp}, in the *)
(* message mode) and the datagrams between them, which the network loses,  *)
(* repeats and delivers in any order.                                      *)
(*                                                                         *)
(* A message is cut into fragments of _mss; a fragment's payload is <<m,   *)
(* i>>, part i of message m.  _snd_buf and _rcv_buf are sorted by sequence *)
(* number, so they are sets here; so is the list of acknowledgements due.  *)
(* A datagram carries one packet: packets that travel together could also  *)
(* have travelled apart.                                                   *)
(*                                                                         *)
(* What depends on measured time is left open: any segment on its way may  *)
(* time out or be resent early, and the congestion window has any size.    *)
(***************************************************************************)
EXTENDS Naturals, Sequences, FiniteSets

CONSTANTS
  Client, Server,  \* the ends; the client picks the conversation's number
  Messages,        \* of each end, how many fragments its messages have
  SndWnd,          \* _snd_wnd
  RcvWnd,          \* _rcv_wnd
  Uninit,          \* values of a header field that was never set
  Junk             \* payload that was never set

Ends == {Client, Server}
Peer(e) == IF e = Client THEN Server ELSE Client

ASSUME EndsAssumption == Client # Server
ASSUME MessageAssumption == Messages \in [Ends -> Seq(1 .. RcvWnd)]
ASSUME WindowAssumption == /\ SndWnd \in Nat \ {0} /\ RcvWnd \in Nat \ {0} /\ Uninit \subseteq Nat

VARIABLES
  sent,      \* messages given to send()
  sndQueue,  \* _snd_queue
  sndBuf,    \* _snd_buf: segments under way
  sndNxt,    \* _snd_nxt
  sndUna,    \* _snd_una
  rmtWnd,    \* _rmt_wnd
  probing,   \* _probe_wait # 0
  tell,      \* _probe has IKCP_ASK_TELL
  conv,      \* _conv_init
  rcvNxt,    \* _rcv_nxt
  rcvBuf,    \* _rcv_buf: segments that came before an earlier one
  rcvQueue,  \* _rcv_queue: segments of a message that is not complete
  acks,      \* _acklist
  read,      \* what onRead was given (history)
  net        \* datagrams under way

sndVars == <<sent, sndQueue, sndBuf, sndNxt, sndUna>>
wndVars == <<rmtWnd, probing, tell, conv>>
rcvVars == <<rcvNxt, rcvBuf, rcvQueue, acks, read>>
vars == <<sndVars, wndVars, rcvVars, net>>

Fragments == [frg : Nat, data : Nat \X Nat]
Segments == [sn : Nat, frg : Nat, data : Nat \X Nat]

Least(S) == CHOOSE n \in S : \A other \in S : n <= other
Smaller(m, n) == IF m <= n THEN m ELSE n
Sns(buf) == {seg.sn : seg \in buf}

Init ==
  /\ sent = [e \in Ends |-> 0]
  /\ sndQueue = [e \in Ends |-> <<>>] /\ sndBuf = [e \in Ends |-> {}]
  /\ sndNxt = [e \in Ends |-> 0] /\ sndUna = [e \in Ends |-> 0]
  /\ rmtWnd = [e \in Ends |-> RcvWnd]
  /\ probing = [e \in Ends |-> FALSE] /\ tell = [e \in Ends |-> FALSE]
  /\ conv = [e \in Ends |-> e = Client]
  /\ rcvNxt = [e \in Ends |-> 0]
  /\ rcvBuf = [e \in Ends |-> {}] /\ rcvQueue = [e \in Ends |-> <<>>]
  /\ acks = [e \in Ends |-> {}]
  /\ read = [e \in Ends |-> <<>>]
  /\ net = {}

-----------------------------------------------------------------------------
(* send(): the message's fragments, numbered down to 0.                     *)

Send(e) ==
  /\ conv[e]
  /\ sent[e] < Len(Messages[e])
  /\ LET m == sent[e] + 1
         count == Messages[e][m]
     IN  sndQueue' = [sndQueue EXCEPT ![e] = @ \o
                        [i \in 1 .. count |-> [frg |-> count - i, data |-> <<m, i>>]]]
  /\ sent' = [sent EXCEPT ![e] = @ + 1]
  /\ UNCHANGED <<sndBuf, sndNxt, sndUna, wndVars, rcvVars, net>>

-----------------------------------------------------------------------------
(* update(), called by the timer and by a send() that flushes.              *)

Packet(e, cmd, body, wnd, una) ==
  [to |-> Peer(e), cmd |-> cmd, body |-> body, wnd |-> wnd, una |-> una]

(* Acknowledgements and data say how much the end can take, and from where. *)
Stamped(e, cmd, body) == Packet(e, cmd, body, RcvWnd - Len(rcvQueue[e]), rcvNxt[e])

(* Probes and window updates are sent with whatever their header held.      *)
Unstamped(e, cmd) == {Packet(e, cmd, 0, wnd, una) : wnd \in Uninit, una \in Uninit}

(* sendProbePacket: what was asked for is told, and an end that was told 0  *)
(* asks again after a while.                                                *)
Tells(e) == IF tell[e] THEN {{p} : p \in Unstamped(e, "tell")} ELSE {{}}
Asks(e) == {{}} \cup IF rmtWnd[e] = 0 /\ probing[e] THEN {{p} : p \in Unstamped(e, "ask")}
                    ELSE {}

(* sortSendQueue: how many segments the window has room for, at least one.  *)
Fitting(e, cwnd) ==
  LET window == Smaller(cwnd, Smaller(SndWnd, rmtWnd[e]))
      end == sndUna[e] + (IF window = 0 THEN 1 ELSE window)
  IN  IF sndNxt[e] >= end THEN 0 ELSE Smaller(Len(sndQueue[e]), end - sndNxt[e])

(* Mutant: numbers start at the first segment that is not acknowledged.     *)
NumberedFromUna(e, k) ==
  {[sn |-> sndUna[e] + i - 1, frg |-> sndQueue[e][i].frg, data |-> sndQueue[e][i].data] :
     i \in 1 .. k}

(* The first segments of the queue are given their numbers.                 *)
Numbered(e, k) ==
  {[sn |-> sndNxt[e] + i - 1, frg |-> sndQueue[e][i].frg, data |-> sndQueue[e][i].data] :
     i \in 1 .. k}

(* sendSendQueue sends what is new and what is due again.                   *)
Update(e, resent) ==
  \E k \in {Fitting(e, cwnd) : cwnd \in 1 .. SndWnd} :
    LET moved == Numbered(e, k)
    IN  /\ sndQueue' = [sndQueue EXCEPT ![e] = SubSeq(@, k + 1, Len(@))]
        /\ sndBuf' = [sndBuf EXCEPT ![e] = @ \cup moved]
        /\ sndNxt' = [sndNxt EXCEPT ![e] = @ + k]
        /\ \E asked \in Asks(e), told \in Tells(e) :
             net' = net \cup {Stamped(e, "ack", sn) : sn \in acks[e]} \cup asked \cup told
                        \cup {Stamped(e, "push", seg) : seg \in moved \cup resent}
        /\ acks' = [acks EXCEPT ![e] = {}]
        /\ tell' = [tell EXCEPT ![e] = FALSE]
        /\ probing' = [probing EXCEPT ![e] = rmtWnd[e] = 0]
        /\ UNCHANGED <<sent, sndUna, rmtWnd, conv, rcvNxt, rcvBuf, rcvQueue, read>>

-----------------------------------------------------------------------------
(* input()                                                                  *)

(* Mutant: _una is taken for the last segment received.                     *)
DropThroughUna(buf, una) == {seg \in buf : seg.sn > una}

(* dropCacheByUna and dropCacheByAck.                                       *)
DropByUna(buf, una) == {seg \in buf : seg.sn >= una}
DropByAck(buf, sn) == {seg \in buf : seg.sn # sn}

Acknowledge(e, p) ==
  LET left == DropByUna(sndBuf[e], p.una)
      buf == IF p.cmd = "ack" THEN DropByAck(left, p.body) ELSE left
  IN  /\ sndBuf' = [sndBuf EXCEPT ![e] = buf]
      /\ sndUna' = [sndUna EXCEPT ![e] = Least(Sns(buf) \cup {sndNxt[e]})]

(* sortRecvBuf: the number of the first segment that is missing.            *)
FirstMissing(nxt, buf) ==
  Least({sn \in {nxt} \cup {seg.sn + 1 : seg \in buf} :
           sn >= nxt /\ sn \notin Sns(buf)})

Ordered(buf, from, to) ==
  [i \in 1 .. to - from |-> CHOOSE seg \in buf : seg.sn = from + i - 1]

(* Mutant: one fragment more is waited for.                                 *)
CompleteLater(q) == q # <<>> /\ Len(q) > q[1].frg + 1

(* peeksize: all fragments of the message at the front are there.           *)
Complete(q) == q # <<>> /\ Len(q) >= q[1].frg + 1

(* The buffer is created anew for each fragment, and each fragment is       *)
(* copied to its beginning.                                                 *)
Merge(q) == [i \in 1 .. Len(q) |-> IF i = 1 THEN q[Len(q)].data ELSE Junk]

(* onData hands over every message that is complete.                        *)
ReadAll[q \in Seq(Segments)] ==
  IF ~Complete(q) THEN [buffers |-> <<>>, rest |-> q]
  ELSE LET last == Least({i \in 1 .. Len(q) : q[i].frg = 0 \/ i = Len(q)})
           more == ReadAll[SubSeq(q, last + 1, Len(q))]
       IN  [buffers |-> <<Merge(SubSeq(q, 1, last))>> \o more.buffers, rest |-> more.rest]

Accept(e, seg) == seg.sn < rcvNxt[e] + RcvWnd

(* Mutant: only what is new is acknowledged.                                *)
HandleCmdPushOnce(e, seg) ==
  /\ acks' = IF Accept(e, seg) /\ seg.sn >= rcvNxt[e] THEN [acks EXCEPT ![e] = @ \cup {seg.sn}] ELSE acks
  /\ LET new == Accept(e, seg) /\ seg.sn >= rcvNxt[e] /\ seg.sn \notin Sns(rcvBuf[e])
         buf == IF new THEN rcvBuf[e] \cup {seg} ELSE rcvBuf[e]
         nxt == FirstMissing(rcvNxt[e], buf)
         queue == rcvQueue[e] \o Ordered(buf, rcvNxt[e], nxt)
         result == ReadAll[queue]
     IN  /\ rcvBuf' = [rcvBuf EXCEPT ![e] = {s \in buf : s.sn >= nxt}]
         /\ rcvNxt' = [rcvNxt EXCEPT ![e] = nxt]
         /\ rcvQueue' = [rcvQueue EXCEPT ![e] = result.rest]
         /\ read' = [read EXCEPT ![e] = @ \o result.buffers]
         /\ tell' = [tell EXCEPT ![e] =
                       @ \/ (Len(queue) >= RcvWnd /\ Len(result.rest) < RcvWnd)]

(* handleCmdPush: acknowledged unless it is beyond the window, kept if new. *)
HandleCmdPush(e, seg) ==
  /\ acks' = IF Accept(e, seg) THEN [acks EXCEPT ![e] = @ \cup {seg.sn}] ELSE acks
  /\ LET new == Accept(e, seg) /\ seg.sn >= rcvNxt[e] /\ seg.sn \notin Sns(rcvBuf[e])
         buf == IF new THEN rcvBuf[e] \cup {seg} ELSE rcvBuf[e]
         nxt == FirstMissing(rcvNxt[e], buf)
         queue == rcvQueue[e] \o Ordered(buf, rcvNxt[e], nxt)
         result == ReadAll[queue]
     IN  /\ rcvBuf' = [rcvBuf EXCEPT ![e] = {s \in buf : s.sn >= nxt}]
         /\ rcvNxt' = [rcvNxt EXCEPT ![e] = nxt]
         /\ rcvQueue' = [rcvQueue EXCEPT ![e] = result.rest]
         /\ read' = [read EXCEPT ![e] = @ \o result.buffers]
         /\ tell' = [tell EXCEPT ![e] =
                       @ \/ (Len(queue) >= RcvWnd /\ Len(result.rest) < RcvWnd)]

(* A datagram arrives, and may arrive again.                                *)
Input(e, p, again) ==
  /\ p \in net /\ p.to = e
  /\ net' = IF again THEN net ELSE net \ {p}
  /\ conv' = [conv EXCEPT ![e] = TRUE]
  /\ rmtWnd' = [rmtWnd EXCEPT ![e] = p.wnd]
  /\ Acknowledge(e, p)
  /\ IF p.cmd = "push" THEN HandleCmdPush(e, p.body)
     ELSE /\ tell' = [tell EXCEPT ![e] = @ \/ p.cmd = "ask"]
          /\ UNCHANGED rcvVars
  /\ UNCHANGED <<sent, sndQueue, sndNxt, probing>>

Lose(p) ==
  /\ p \in net
  /\ net' = net \ {p}
  /\ UNCHANGED <<sndVars, wndVars, rcvVars>>

-----------------------------------------------------------------------------
Next ==
  \/ \E e \in Ends :
       \/ Send(e)
       \/ \E resent \in SUBSET sndBuf[e] : Update(e, resent)
       \/ \E p \in net, again \in BOOLEAN : Input(e, p, again)
  \/ \E p \in net : Lose(p)

Spec == Init /\ [][Next]_vars

(* The timers fire, and what is not acknowledged is resent.  No kind of     *)
(* datagram is lost for ever: the segment an end misses, one it has and the *)
(* peer still resends, and news for its _snd_buf each arrive in the end.    *)
ResendsAll(e) == Update(e, sndBuf[e])

Missing(e, p) == p.cmd = "push" /\ p.body.sn = rcvNxt[e]
Resent(e, p) == p.cmd = "push" /\ p.body.sn < rcvNxt[e] /\ p.body \in sndBuf[Peer(e)]
News(e, p) == p.una > sndUna[e] \/ (p.cmd = "ack" /\ p.body \in Sns(sndBuf[e]))

Arrives(e, Kind(_, _)) == \E p \in net : p.to = e /\ Kind(e, p) /\ Input(e, p, FALSE)

Fairness ==
  \A e \in Ends :
    /\ WF_vars(ResendsAll(e))
    /\ SF_vars(Arrives(e, Missing)) /\ SF_vars(Arrives(e, Resent)) /\ SF_vars(Arrives(e, News))

FairSpec == Spec /\ Fairness

-----------------------------------------------------------------------------
(* Properties.                                                              *)

TypeOK ==
  /\ sent \in [Ends -> Nat]
  /\ \A e \in Ends :
       /\ sent[e] <= Len(Messages[e])
       /\ sndQueue[e] \in Seq(Fragments)
       /\ sndBuf[e] \subseteq Segments /\ rcvBuf[e] \subseteq Segments
       /\ Cardinality(Sns(rcvBuf[e])) = Cardinality(rcvBuf[e])
       /\ rcvNxt[e] \notin Sns(rcvBuf[e])
       /\ rcvQueue[e] \in Seq(Segments) /\ Len(rcvQueue[e]) <= RcvWnd
       /\ sndUna[e] = Least(Sns(sndBuf[e]) \cup {sndNxt[e]})
       /\ acks[e] \subseteq Nat
  /\ sndNxt \in [Ends -> Nat] /\ rcvNxt \in [Ends -> Nat] /\ rmtWnd \in [Ends -> Nat]
  /\ probing \in [Ends -> BOOLEAN] /\ tell \in [Ends -> BOOLEAN] /\ conv \in [Ends -> BOOLEAN]
  /\ \A p \in net : p.to \in Ends /\ p.cmd \in {"push", "ack", "ask", "tell"}

(* Whatever the network does, each buffer given to onRead is one message,   *)
(* the messages come in the order they were sent and each once: every       *)
(* buffer has its message's size, holds no other message's payload, and     *)
(* what waits in _rcv_queue is the beginning of the next message.           *)
MessagesInOrder ==
  \A e \in Ends :
    /\ \A m \in 1 .. Len(read[e]) :
         /\ Len(read[e][m]) = Messages[Peer(e)][m]
         /\ \A i \in 1 .. Len(read[e][m]) : read[e][m][i] # Junk => read[e][m][i][1] = m
    /\ \A i \in 1 .. Len(rcvQueue[e]) : rcvQueue[e][i].data = <<Len(read[e]) + 1, i>>

(* _snd_buf is the only copy: the sender drops a segment only when the peer *)
(* has it (dropCacheByUna, dropCacheByAck).                                 *)
OnlyReceivedDropped ==
  \A e \in Ends : \A sn \in 0 .. sndNxt[e] - 1 :
    sn \in Sns(sndBuf[e]) \/ sn < rcvNxt[Peer(e)] \/ sn \in Sns(rcvBuf[Peer(e)])

(* A message is handed over as it was sent (onData, "merge fragment").      *)
DeliversWhatWasSent ==
  \A e \in Ends : \A m \in 1 .. Len(read[e]) :
    read[e][m] = [i \in 1 .. Messages[Peer(e)][m] |-> <<m, i>>]

(* Every message accepted is read, though each datagram may be lost, and    *)
(* the sender learns of it and stops resending: again and again all that    *)
(* was accepted has been read and acknowledged.                             *)
AllRead ==
  []<>\A e \in Ends :
        Len(read[Peer(e)]) = sent[e] /\ sndQueue[e] = <<>> /\ sndBuf[e] = {}

=============================================================================
