------------------------------- MODULE Buffers -------------------------------
(***************************************************************************)
(* The three ways to send a list of buffers, src/src/Network/BufferSock.cpp*)
(* BufferSendMsg ("msg": one stream, several buffers a call), BufferSendTo *)
(* ("to": one buffer a call) and BufferSendMMsg ("mmsg": several datagrams *)
(* a call).  The kernel takes what it likes of what a call offers.  Buffers*)
(* are numbered and a byte is its buffer and place.                        *)
(***************************************************************************)
EXTENDS Naturals, Sequences, FiniteSets

CONSTANTS
  ListLengths, \* numbers of buffers
  MaxLen,      \* bound: bytes of a buffer
  IovMax       \* IOV_MAX

ASSUME BufferListAssumption ==
  ListLengths \cup {MaxLen, IovMax} \subseteq Nat \ {0}

VARIABLES
  sendKind,
  lens,     \* the size of each buffer
  parts,    \* _iovec from _iovec_off on, or _hdrvec: [left, got]
  pktList,  \* _pkt_list
  remain,   \* _remain_size (not of "to")
  offset,   \* _offset of "to"
  calls,    \* "none", or the bytes sent by the call of send under way
  answer,   \* the last result of send, 0 for -1
  wire,     \* the bytes the kernel took
  results      \* the calls of the result callback: [pkt, ok]

listVars == <<sendKind, lens, parts, pktList, remain, offset, calls, answer, wire, results>>

SumOf(s) ==
  LET upTo[n \in 0 .. Len(s)] == IF n = 0 THEN 0 ELSE upTo[n - 1] + s[n]
  IN  upTo[Len(s)]

Sub(s, n) == SubSeq(s, n + 1, Len(s))
Lefts == [i \in DOMAIN parts |-> parts[i].left]

ListInit ==
  /\ sendKind \in {"msg", "to", "mmsg"}
  /\ \E n \in ListLengths : lens \in [1 .. n -> 1 .. MaxLen]
  /\ parts = [i \in DOMAIN lens |-> [left |-> lens[i], got |-> 0]]
  /\ pktList = [i \in DOMAIN lens |-> i]
  /\ remain = SumOf(lens) /\ offset = 0
  /\ calls = "none" /\ answer = 0 /\ wire = <<>> /\ results = <<>>

(* The next n bytes of buffer p.                                            *)
Bytes(p, n) ==
  LET from == Len(SelectSeq(wire, LAMBDA b : b[1] = p))
  IN  [k \in 1 .. n |-> <<p, from + k>>]

(* n bytes from the front of the buffers: those sent in full, and the rest  *)
(* of the next one.                                                         *)
RECURSIVE Stream(_, _)
Stream(n, i) ==
  IF n = 0 THEN <<>>
  ELSE IF n <= Lefts[i] THEN Bytes(pktList[i], n)
  ELSE Bytes(pktList[i], Lefts[i]) \o Stream(n - Lefts[i], i + 1)

Successes(n) == [i \in 1 .. n |-> [pkt |-> pktList[i], ok |-> TRUE]]

IsEmpty == IF sendKind = "to" THEN pktList = <<>> ELSE remain = 0

-----------------------------------------------------------------------------
(* send up to its loop.                                                     *)
Send ==
  /\ calls = "none" /\ ~IsEmpty
  /\ calls' = "sends" /\ answer' = 0
  /\ UNCHANGED <<sendKind, lens, parts, pktList, remain, offset, wire, results>>

(* Mutant: a buffer that just ended is counted as begun.                    *)
WholeNot(n) ==
  CHOOSE k \in 0 .. Len(parts) :
    /\ SumOf(SubSeq(Lefts, 1, k)) < n \/ k = 0
    /\ k < Len(parts) => SumOf(SubSeq(Lefts, 1, k + 1)) >= n

(* How many buffers n bytes complete (reOffset).                            *)
Whole(n) ==
  CHOOSE k \in 0 .. Len(parts) :
    /\ SumOf(SubSeq(Lefts, 1, k)) <= n
    /\ k < Len(parts) => SumOf(SubSeq(Lefts, 1, k + 1)) > n

(* send_l and reOffset, or sendCompleted when nothing remains.              *)
SendMsg(n) ==
  LET k == Whole(n)
      rest == n - SumOf(SubSeq(Lefts, 1, k))
  IN  /\ sendKind = "msg" /\ n <= SumOf(SubSeq(Lefts, 1, IF Len(parts) > IovMax THEN IovMax ELSE Len(parts)))
      /\ wire' = wire \o Stream(n, 1)
      /\ remain' = remain - n
      /\ IF n >= remain
         THEN results' = results \o Successes(Len(pktList)) /\ pktList' = <<>> /\ UNCHANGED parts
         ELSE /\ results' = results \o Successes(k) /\ pktList' = Sub(pktList, k)
              /\ parts' = [Sub(parts, k) EXCEPT ![1].left = @ - rest]
      /\ UNCHANGED offset

SendTo(n) ==
  LET front == pktList[1]
      ends == offset + n = lens[front]
  IN  /\ sendKind = "to" /\ n <= lens[front] - offset
      /\ wire' = wire \o Bytes(front, n)
      /\ offset' = IF ends THEN 0 ELSE offset + n
      /\ pktList' = IF ends THEN Tail(pktList) ELSE pktList
      /\ results' = IF ends THEN results \o Successes(1) ELSE results
      /\ UNCHANGED <<parts, remain>>

(* sendmmsg reports in msg_len what it took of the first datagrams, and the *)
(* loop of reOffset goes on while a datagram is complete, wherever the      *)
(* kernel stopped.                                                          *)
SendMMsg(n) ==
  LET took == [i \in DOMAIN parts |->
                 LET before == SumOf(SubSeq(Lefts, 1, i - 1))
                 IN  IF n <= before THEN parts[i].got
                     ELSE IF n - before < Lefts[i] THEN n - before ELSE Lefts[i]]
      k == CHOOSE j \in 0 .. Len(parts) :
             /\ \A i \in 1 .. j : took[i] = Lefts[i]
             /\ j = Len(parts) \/ took[j + 1] # Lefts[j + 1]
  IN  /\ sendKind = "mmsg" /\ n <= SumOf(Lefts)
      /\ wire' = wire \o Stream(n, 1)
      /\ remain' = remain - SumOf(SubSeq(took, 1, k)) - (IF k < Len(parts) THEN took[k + 1] ELSE 0)
      /\ results' = results \o Successes(k) /\ pktList' = Sub(pktList, k)
      /\ parts' = [i \in 1 .. Len(parts) - k |->
                     [left |-> Lefts[i + k] - (IF i = 1 THEN took[k + 1] ELSE 0), got |-> took[i + k]]]
      /\ UNCHANGED offset

KernelTakes ==
  /\ calls = "sends" /\ ~IsEmpty
  /\ \E n \in 1 .. SumOf(lens) : SendMsg(n) \/ SendTo(n) \/ SendMMsg(n)
  /\ answer' = answer + Len(wire') - Len(wire)
  /\ UNCHANGED <<sendKind, lens, calls>>

(* The kernel takes nothing more, or there is nothing more: send returns.   *)
SendReturns ==
  /\ calls = "sends"
  /\ calls' = "none"
  /\ UNCHANGED <<sendKind, lens, parts, pktList, remain, offset, answer, wire, results>>

(* ~BufferCallBack                                                          *)
DropList ==
  /\ calls = "none" /\ calls' = "dropped"
  /\ results' = results \o [i \in DOMAIN pktList |-> [pkt |-> pktList[i], ok |-> FALSE]]
  /\ pktList' = <<>>
  /\ UNCHANGED <<sendKind, lens, parts, remain, offset, answer, wire>>

ListNext == Send \/ KernelTakes \/ SendReturns \/ DropList

ListSpec == ListInit /\ [][ListNext]_listVars

-----------------------------------------------------------------------------
(* Properties.                                                              *)

OnWire(p) == Len(SelectSeq(wire, LAMBDA b : b[1] = p))

(* However the kernel divides what it is offered, the bytes go out once and *)
(* in order, every buffer is results of once and in order, of success exactly  *)
(* when its last byte is out, and a list is empty exactly when every byte   *)
(* is (send, reOffset, sendFrontSuccess, sendCompleted, empty).             *)
ListSentExactly ==
  /\ \A k \in 2 .. Len(wire) :
       \/ wire[k][1] = wire[k - 1][1] /\ wire[k][2] = wire[k - 1][2] + 1
       \/ wire[k][1] = wire[k - 1][1] + 1 /\ wire[k][2] = 1 /\ wire[k - 1][2] = lens[wire[k - 1][1]]
  /\ wire # <<>> => wire[1] = <<1, 1>>
  /\ \A i \in DOMAIN results : results[i].pkt = i /\ (results[i].ok <=> OnWire(i) = lens[i])
  /\ calls = "dropped" => Len(results) = Len(lens)
  /\ calls # "dropped" => (\A i \in DOMAIN lens : OnWire(i) = lens[i] <=> i <= Len(results))
  /\ calls # "dropped" => (IsEmpty <=> Len(wire) = SumOf(lens))

-----------------------------------------------------------------------------
(***************************************************************************)
(* What UDP sockets are read into (src/src/Network/BufferSock.cpp), shared *)
(* by those of a thread.  On Linux recvmmsg fills several buffers, else    *)
(* recvfrom fills one; the reader may move some of them away, and the next *)
(* call makes new ones for them.  Datagrams and buffers are numbered.      *)
(***************************************************************************)
CONSTANTS
  Counts, Capacities,             \* what create may be asked for
  DefaultCount, DefaultCapacity,  \* kPacketCount, kBufferCapacity (32, 4096)
  MaxTotal,     \* kMaxTotalBufferBytes (64 MB)
  SizeSpan,     \* 2^64: a size_t
  MaxDatagrams  \* bound: datagrams that arrive

ASSUME RecvAssumption ==
  /\ Counts \cup Capacities \subseteq 0 .. SizeSpan - 1 /\ MaxDatagrams \in Nat
  /\ DefaultCount \in Nat \ {0} /\ DefaultCapacity \in Nat \ {0, 1} /\ MaxTotal < SizeSpan
  /\ DefaultCount * DefaultCapacity <= MaxTotal

NoBuf == 0
MaxSlots == CHOOSE n \in Counts \cup {DefaultCount} : \A m \in Counts \cup {DefaultCount} : m <= n
SlotNrs == 1 .. MaxSlots
Buffers == 1 .. MaxSlots + MaxDatagrams

VARIABLES
  reads,     \* "recvmmsg" or "recvfrom", with the number of buffers and their capacity
  slot,      \* _buffers
  iovBase,   \* iov_base of each message: the buffer the kernel writes to
  content,   \* the datagram in each buffer
  lastCount, \* _last_count
  newest,    \* buffers made
  arrived,   \* datagrams that the kernel has queued
  read,      \* datagrams read
  kept       \* what the readers moved away: [buf, datagram]

recvVars == <<reads, slot, iovBase, content, lastCount, newest, arrived, read, kept>>

(* SocketRecvBuffer::create: 0 is the default, and so is what is too much.  *)
(* Mutant: the product is not protected from overflow.                      *)
ConfiguredUnchecked(n, c) ==
  LET count == IF n = 0 THEN DefaultCount ELSE n
      capacity == IF c = 0 THEN DefaultCapacity ELSE c
  IN IF capacity < 2 \/ (count * capacity) % SizeSpan > MaxTotal
     THEN [count |-> DefaultCount, capacity |-> DefaultCapacity]
     ELSE [count |-> count, capacity |-> capacity]
Configured(n, c) ==
  LET count == IF n = 0 THEN DefaultCount ELSE n
      capacity == IF c = 0 THEN DefaultCapacity ELSE c
  IN IF \/ capacity < 2 \/ count > (SizeSpan - 1) \div capacity
        \/ (count * capacity) % SizeSpan > MaxTotal
     THEN [count |-> DefaultCount, capacity |-> DefaultCapacity]
     ELSE [count |-> count, capacity |-> capacity]

(* recvfrom has one buffer of the whole size, made when it is needed.       *)
RecvInit ==
  /\ \E n \in Counts, c \in Capacities :
       LET as == Configured(n, c)
       IN \/ /\ reads = [by |-> "recvmmsg", count |-> as.count, capacity |-> as.capacity]
             /\ slot = [i \in SlotNrs |-> IF i <= as.count THEN i ELSE NoBuf]
             /\ newest = as.count
          \/ /\ reads = [by |-> "recvfrom", count |-> 1, capacity |-> as.count * as.capacity]
             /\ slot = [i \in SlotNrs |-> NoBuf] /\ newest = 0
  /\ iovBase = slot
  /\ content = [b \in Buffers |-> 0] /\ lastCount = 0
  /\ arrived = 0 /\ read = 0 /\ kept = {}

Arrives ==
  /\ arrived < MaxDatagrams
  /\ arrived' = arrived + 1
  /\ UNCHANGED <<reads, slot, iovBase, content, lastCount, newest, read, kept>>

(* recvmmsg looks at the buffers of its last call, recvfrom at its own.     *)
Missing(i) ==
  /\ slot[i] = NoBuf
  /\ i <= IF reads.by = "recvmmsg" THEN lastCount ELSE 1

(* The number of the new buffer of a slot that was moved from.              *)
Fresh(i) == newest + Cardinality({j \in 1 .. i : slot[j] = NoBuf})

(* Mutant: the message still points to the buffer that was moved away.      *)
ReallocSlotOnly ==
  /\ slot' = [i \in SlotNrs |-> IF Missing(i) THEN Fresh(i) ELSE slot[i]]
  /\ UNCHANGED iovBase

Realloc ==
  /\ slot' = [i \in SlotNrs |-> IF Missing(i) THEN Fresh(i) ELSE slot[i]]
  /\ iovBase' = [i \in SlotNrs |-> IF Missing(i) THEN Fresh(i) ELSE iovBase[i]]

(* recvFromSocket; the reader then moves some of the buffers away.          *)
Recv ==
  LET waiting == arrived - read
      count == IF waiting < reads.count THEN waiting ELSE reads.count
  IN  /\ waiting > 0
      /\ Realloc
      /\ newest' = newest + Cardinality({i \in SlotNrs : Missing(i)})
      /\ content' = [b \in Buffers |->
                       IF \E i \in 1 .. count : iovBase'[i] = b
                       THEN read + CHOOSE i \in 1 .. count : iovBase'[i] = b ELSE content[b]]
      /\ lastCount' = count /\ read' = read + count
      /\ UNCHANGED <<reads, arrived, kept>>

(* EAGAIN: no message, and the count of the next call is -1.                *)
RecvNothing ==
  /\ arrived = read /\ lastCount > 0
  /\ Realloc
  /\ newest' = newest + Cardinality({i \in SlotNrs : Missing(i)})
  /\ lastCount' = 0
  /\ UNCHANGED <<reads, content, arrived, read, kept>>

Moves(i) ==
  /\ i <= lastCount /\ slot[i] # NoBuf
  /\ kept' = kept \cup {[buf |-> slot[i], datagram |-> read - lastCount + i]}
  /\ slot' = [slot EXCEPT ![i] = NoBuf]
  /\ UNCHANGED <<reads, iovBase, content, lastCount, newest, arrived, read>>

RecvNext == Arrives \/ Recv \/ RecvNothing \/ \E i \in SlotNrs : Moves(i)

RecvSpec == RecvInit /\ [][RecvNext]_recvVars

-----------------------------------------------------------------------------
(* Properties.                                                              *)

(* A buffer that a reader moved away keeps its datagram for ever, and the   *)
(* buffers of the last call hold the last datagrams in order, each a buffer *)
(* of its own (recvFromSocket, getBuffer); whatever sizes were asked for,   *)
(* all buffers together stay below the limit and each holds a byte and the  *)
(* zero behind it (create).                                                 *)
MovedBufferKept ==
  /\ \A k \in kept : content[k.buf] = k.datagram
  /\ \A i \in 1 .. lastCount : slot[i] # NoBuf => content[slot[i]] = read - lastCount + i
  /\ reads.by = "recvmmsg" => \A i \in 1 .. reads.count : slot[i] = NoBuf => i <= lastCount
  /\ reads.count * reads.capacity <= MaxTotal /\ reads.capacity >= 2
  /\ \A k, m \in kept : k.buf = m.buf <=> k.datagram = m.datagram

=============================================================================
