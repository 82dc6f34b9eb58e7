------------------------------ MODULE KcpStream ------------------------------
(* How KCP cuts what is sent into packets, in the message mode and in the   *)
(* stream mode, and how packets share datagrams (src/src/Network/Kcp.cpp:   *)
(* send, mergeSendQueue, sendPacket, flushPool, KcpPacket::parse).          *)
(* Payload is a sequence of numbered units.                                 *)
EXTENDS Naturals, Sequences

CONSTANTS
  PayloadMax, HeaderSize,  \* _mss and HEADER_SIZE; _mtu is their sum
  FragmentMax,             \* IKCP_WND_RCV
  BufLens, MaxGiven,       \* sizes of what is given to send(), and of all of it
  Lost                     \* payload that was never set

ASSUME StreamAssumption == /\ {PayloadMax, HeaderSize} \subseteq Nat \ {0}
                           /\ FragmentMax \in Nat /\ MaxGiven \in Nat /\ BufLens \subseteq Nat

VARIABLES
  streaming,  \* _stream
  given,      \* units accepted (history)
  packets,    \* _snd_queue
  sentOff,    \* the packets that were numbered and sent (history)
  datagrams   \* what onWrite was given

streamVars == <<streaming, given, packets, sentOff, datagrams>>

StreamInit ==
  /\ streaming \in BOOLEAN
  /\ given = 0 /\ packets = <<>> /\ sentOff = <<>> /\ datagrams = <<>>

-----------------------------------------------------------------------------
(* mergeSendQueue: what fits goes into the first packet of the queue, which *)
(* gets a larger buffer: what was in the old one is gone.                   *)
Extended(len) ==
  IF ~streaming \/ packets = <<>> THEN 0
  ELSE LET room == PayloadMax - Len(packets[1].data) IN IF len <= room THEN len ELSE room

Merged(units) ==
  IF units = <<>> THEN packets
  ELSE <<[frg |-> 0, data |-> [i \in DOMAIN packets[1].data |-> Lost] \o units]>> \o Tail(packets)


(* FragmentsOf of a message count down to 0, those of a stream are all 0.     *)
FragmentsOf(units) ==
  LET count == (Len(units) + PayloadMax - 1) \div PayloadMax
      End(i) == IF i = count THEN Len(units) ELSE i * PayloadMax
  IN [i \in 1 .. count |->
        [frg |-> IF streaming THEN 0 ELSE count - i,
         data |-> SubSeq(units, (i - 1) * PayloadMax + 1, End(i))]]

SendBuffer(len) ==
  /\ 0 < len /\ len < PayloadMax * FragmentMax /\ given + len <= MaxGiven
  /\ given' = given + len
  /\ LET units == [i \in 1 .. len |-> given + i]
         n == Extended(len)
     IN packets' = Merged(SubSeq(units, 1, n)) \o FragmentsOf(SubSeq(units, n + 1, len))
  /\ UNCHANGED <<streaming, sentOff, datagrams>>

-----------------------------------------------------------------------------
(* A packet's bytes: its header says how many follow it.                    *)
Bytes(p) == <<[frg |-> p.frg, len |-> Len(p.data)]>>
              \o [i \in 1 .. HeaderSize - 1 |-> "header"] \o p.data

(* sendPacket: a packet that no longer fits starts a new datagram; update() *)
(* ends with flushPool.                                                     *)
Pooled(k) ==
  LET pools[i \in 0 .. k] ==
        IF i = 0 THEN [full |-> <<>>, pool |-> <<>>]
        ELSE LET before == pools[i - 1]
                 bytes == Bytes(packets[i])
             IN IF Len(before.pool) + Len(bytes) > PayloadMax + HeaderSize
                THEN [full |-> Append(before.full, before.pool), pool |-> bytes]
                ELSE [before EXCEPT !.pool = @ \o bytes]
  IN Append(pools[k].full, pools[k].pool)

(* update() sends what the window has room for.                             *)
SendPackets(k) ==
  /\ k <= Len(packets)
  /\ datagrams' = datagrams \o Pooled(k)
  /\ sentOff' = sentOff \o SubSeq(packets, 1, k)
  /\ packets' = SubSeq(packets, k + 1, Len(packets))
  /\ UNCHANGED <<streaming, given>>

StreamNext ==
  \/ \E len \in BufLens : SendBuffer(len)
  \/ \E k \in 1 .. Len(packets) : SendPackets(k)

StreamSpec == StreamInit /\ [][StreamNext]_streamVars

-----------------------------------------------------------------------------
(* The peer's loop over KcpPacket::parse, which ends at what is not whole.  *)
Parsed(bytes) ==
  LET from[i \in 1 .. Len(bytes) + 1] ==
        IF i + HeaderSize - 1 > Len(bytes) \/ i + HeaderSize - 1 + bytes[i].len > Len(bytes)
        THEN <<>>
        ELSE LET end == i + HeaderSize - 1 + bytes[i].len
             IN <<[frg |-> bytes[i].frg, data |-> SubSeq(bytes, i + HeaderSize, end)]>>
                  \o from[end + 1]
  IN from[1]

Joined(Part(_), n) ==
  LET first[i \in 0 .. n] == IF i = 0 THEN <<>> ELSE first[i - 1] \o Part(i) IN first[n]

Received == LET ParsedAt(i) == Parsed(datagrams[i]) IN Joined(ParsedAt, Len(datagrams))
Payload == LET all == sentOff \o packets
               DataAt(i) == all[i].data
           IN Joined(DataAt, Len(all))

=============================================================================
