------------------------------ MODULE KcpPacing ------------------------------
(* When the sender of a KCP conversation sends a segment again, and how     *)
(* many it keeps under way (src/src/Network/Kcp.cpp): the estimate of the   *)
(* round trip, the time-outs of the segments, fast resending, and the       *)
(* congestion window.  Kcp.tla leaves all of this open.  What the peer      *)
(* acknowledges is any of what was sent.                                    *)
EXTENDS Integers, FiniteSets

CONSTANTS
  Settings,     \* records of mode, fastresend, conserve and nocwnd
  SndWndSize, Windows,             \* _snd_wnd, and values of the peer's _wnd
  Interval, MinRto, DefRto, MaxRto, ThreshMin, Mss, FastLimit, DeadLink,
  TimeSpan,     \* 2^32: the clock is a uint32_t
  Starts,       \* when a conversation may start
  Rtts,         \* round trips measured
  MaxSegs, MaxTicks, MaxInputs

ASSUME PacingAssumption ==
  /\ \A s \in Settings : s.mode \in {"normal", "fast", "nodelay"} /\ s.fastresend \in Nat
  /\ Windows \subseteq Nat /\ Rtts \subseteq Nat /\ Starts \subseteq Nat
  /\ TimeSpan \in Nat \ {0} /\ Mss \in Nat \ {0}
  /\ SndWndSize \in Nat /\ Interval \in Nat /\ ThreshMin \in Nat /\ MaxTicks \in Nat
  /\ MinRto \in Nat /\ DefRto \in Nat /\ MaxRto \in Nat
  /\ 1 <= MinRto /\ MinRto <= DefRto /\ MinRto <= MaxRto

VARIABLES
  settings,
  start, time,          \* the instant it started, and now
  unsent,               \* _snd_queue, its length
  segs,                 \* _snd_buf, by sequence number
  una, nxt,             \* _snd_una, _snd_nxt
  srtt, rttval, rto,    \* _rx_srtt, _rx_rttval, _rx_rto
  cwnd, incr, ssthresh, rmt,
  dead,                 \* onErr was called
  inputs,               \* datagrams so far
  updated               \* sendSendQueue has just run (history)

rttVars == <<srtt, rttval, rto>>
cwndVars == <<cwnd, incr, ssthresh>>
paceVars == <<settings, start, time, unsent, segs, una, nxt, rttVars, cwndVars, rmt, dead,
              inputs, updated>>

Lesser(m, n) == IF m <= n THEN m ELSE n
Greater(m, n) == IF m >= n THEN m ELSE n
Clock(t) == t % TimeSpan

PaceInit ==
  /\ settings \in Settings
  /\ start \in Starts /\ time = start
  /\ unsent = 0 /\ segs = [sn \in {} |-> 0] /\ una = 0 /\ nxt = 0
  /\ srtt = 0 /\ rttval = 0 /\ rto = DefRto
  /\ cwnd = 1 /\ incr = 0 /\ ssthresh = ThreshMin /\ rmt = SndWndSize
  /\ dead = FALSE /\ inputs = 0 /\ updated = FALSE

Tick ==
  /\ time < start + MaxTicks
  /\ time' = time + 1 /\ updated' = FALSE
  /\ UNCHANGED <<settings, start, unsent, segs, una, nxt, rttVars, cwndVars, rmt, dead, inputs>>

Enqueue ==
  /\ nxt + unsent < MaxSegs
  /\ unsent' = unsent + 1 /\ updated' = FALSE
  /\ UNCHANGED <<settings, start, time, segs, una, nxt, rttVars, cwndVars, rmt, dead, inputs>>

-----------------------------------------------------------------------------
(* sendSendQueue.  due is the instant that resendts stands for.             *)

Fresh == [xmit |-> 0, rto |-> 0, resendts |-> 0, due |-> 0, fastack |-> 0, ts |-> 0]

(* Mutant: a segment waits one unit longer than its resendts.               *)
TimedOutLater(seg) == seg.xmit > 0 /\ Clock(time) > seg.resendts
TimedOut(seg) == seg.xmit > 0 /\ Clock(time) >= seg.resendts

ResentFast(seg) ==
  /\ seg.xmit > 0 /\ ~TimedOut(seg)
  /\ settings.fastresend > 0 /\ seg.fastack >= settings.fastresend
  /\ seg.xmit <= FastLimit \/ FastLimit <= 0

(* "_delay_mode == DelayMode::DELAY_MODE_NORMAL == 0" is the other modes:   *)
(* the normal mode, which Kcp.h:166 says doubles, adds a half.              *)
Backoff(seg) ==
  IF settings.mode # "normal" THEN seg.rto + Greater(seg.rto, rto) ELSE seg.rto + rto \div 2

SentNow(seg, newRto, wait) ==
  [xmit |-> seg.xmit + 1, rto |-> newRto, resendts |-> Clock(time + wait), due |-> time + wait,
   fastack |-> seg.fastack, ts |-> Clock(time)]

Transmitted(seg) ==
  IF seg.xmit = 0 THEN SentNow(seg, rto, rto + IF settings.mode = "normal" THEN rto \div 8 ELSE 0)
  ELSE IF TimedOut(seg) THEN SentNow(seg, Backoff(seg), seg.rto)
  ELSE IF ResentFast(seg) THEN [SentNow(seg, seg.rto, seg.rto) EXCEPT !.fastack = 0]
  ELSE seg

Window == LET wnd == Lesser(SndWndSize, rmt) IN IF settings.nocwnd THEN wnd ELSE Lesser(cwnd, wnd)

(* Mutant: after a time-out the count of bytes stays.                       *)
DecreaseCwndKeepsIncr(change, lost) ==
  /\ ssthresh' = IF lost THEN Greater(Window \div 2, ThreshMin)
                 ELSE IF change THEN Greater((nxt' - una) \div 2, ThreshMin) ELSE ssthresh
  /\ cwnd' = IF lost THEN 1 ELSE IF change THEN ssthresh' + settings.fastresend
             ELSE Greater(cwnd, 1)
  /\ incr' = IF change THEN cwnd' * Mss ELSE incr

DecreaseCwnd(change, lost) ==
  /\ ssthresh' = IF lost THEN Greater(Window \div 2, ThreshMin)
                 ELSE IF change THEN Greater((nxt' - una) \div 2, ThreshMin) ELSE ssthresh
  /\ cwnd' = IF lost THEN 1 ELSE IF change THEN ssthresh' + settings.fastresend
             ELSE Greater(cwnd, 1)
  /\ incr' = IF lost \/ change \/ cwnd < 1 THEN cwnd' * Mss ELSE incr

SendSendQueue ==
  LET room == una + Greater(1, Window) - nxt
      k == IF room <= 0 THEN 0 ELSE Lesser(unsent, room)
      all == [sn \in DOMAIN segs \cup nxt .. nxt + k - 1 |->
                IF sn < nxt THEN segs[sn] ELSE Fresh]
      Any(Kind(_)) == \E sn \in DOMAIN all : Kind(all[sn])
  IN /\ unsent' = unsent - k /\ nxt' = nxt + k
     /\ segs' = [sn \in DOMAIN all |-> Transmitted(all[sn])]
     /\ dead' = (dead \/ \E sn \in DOMAIN all :
                   segs'[sn].xmit > all[sn].xmit /\ segs'[sn].xmit >= DeadLink)
     /\ DecreaseCwnd(Any(ResentFast), Any(TimedOut))
     /\ updated' = TRUE
     /\ UNCHANGED <<settings, start, time, una, rttVars, rmt, inputs>>

-----------------------------------------------------------------------------
(* input: a datagram with one acknowledgement, or two (p = q is one).       *)

(* updateRtt, for what each acknowledgement measures in turn.               *)
UpdateRtt(e, rtt) ==
  LET delta == IF rtt >= e.srtt THEN rtt - e.srtt ELSE e.srtt - rtt
      new == IF e.srtt = 0 THEN [srtt |-> rtt, rttval |-> rtt \div 2]
             ELSE [rttval |-> (3 * e.rttval + delta) \div 4,
                   srtt |-> Greater(1, (7 * e.srtt + rtt) \div 8)]
  IN [srtt |-> new.srtt, rttval |-> new.rttval,
      rto |-> Lesser(Greater(MinRto, new.srtt + Greater(Interval, 4 * new.rttval)), MaxRto)]

(* The last acknowledgement of a datagram counts for updateFastAck if it is *)
(* newer than the others; a conservative sender looks at its time too.      *)
Latest(a, b) == IF b.sn > a.sn /\ (~settings.conserve \/ b.ts > a.ts) THEN b ELSE a

FastAcked(all, ack) ==
  IF ack.sn < una' \/ ack.sn >= nxt THEN all
  ELSE [sn \in DOMAIN all |->
          IF sn < ack.sn /\ (~settings.conserve \/ ack.ts > all[sn].ts)
          THEN [all[sn] EXCEPT !.fastack = @ + 1] ELSE all[sn]]

(* Mutant: the window grows beyond the peer's.                              *)
IncreaseCwndPastRmt ==
  LET slow == cwnd < ssthresh
      base == Greater(incr, Mss)
      grown == IF slow THEN incr + Mss ELSE base + (Mss * Mss) \div base + Mss \div 16
      wider == IF slow THEN cwnd + 1
               ELSE IF (cwnd + 1) * Mss <= grown THEN (grown + Mss - 1) \div Mss ELSE cwnd
  IN cwnd' = wider /\ incr' = grown

(* increaseCwnd: by one, or by about one per window.                        *)
IncreaseCwnd ==
  LET slow == cwnd < ssthresh
      base == Greater(incr, Mss)
      grown == IF slow THEN incr + Mss ELSE base + (Mss * Mss) \div base + Mss \div 16
      wider == IF slow THEN cwnd + 1
               ELSE IF (cwnd + 1) * Mss <= grown THEN (grown + Mss - 1) \div Mss ELSE cwnd
  IN IF cwnd >= rmt' THEN UNCHANGED <<cwnd, incr>>
     ELSE IF wider > rmt' THEN cwnd' = rmt' /\ incr' = rmt' * Mss
     ELSE cwnd' = wider /\ incr' = grown

Acks == [sn : 0 .. nxt - 1, rtt : Rtts]

AckInput(p, q, upTo, wnd) ==
  LET Ack(a) == [sn |-> a.sn, ts |-> Clock(time - a.rtt)]
      left == [sn \in {s \in DOMAIN segs : s >= upTo /\ s # p.sn /\ s # q.sn} |-> segs[sn]]
      first == UpdateRtt([srtt |-> srtt, rttval |-> rttval], p.rtt)
      e == IF p = q THEN first ELSE UpdateRtt(first, q.rtt)
  IN /\ inputs < MaxInputs /\ inputs' = inputs + 1
     /\ rmt' = wnd
     /\ una' = CHOOSE n \in DOMAIN left \cup {nxt} : \A m \in DOMAIN left : n <= m
     /\ srtt' = e.srtt /\ rttval' = e.rttval /\ rto' = e.rto
     /\ segs' = FastAcked(left, Latest(Ack(p), Ack(q)))
     /\ IF una' > una THEN IncreaseCwnd ELSE UNCHANGED <<cwnd, incr>>
     /\ updated' = FALSE
     /\ UNCHANGED <<settings, start, time, unsent, nxt, ssthresh, dead>>

PaceNext ==
  \/ Tick \/ Enqueue \/ SendSendQueue
  \/ \E p, q \in Acks, upTo \in una .. nxt, wnd \in Windows : AckInput(p, q, upTo, wnd)

PaceSpec == PaceInit /\ [][PaceNext]_paceVars

-----------------------------------------------------------------------------
(* Properties.                                                              *)

(* Once update() has run no segment is due: "the timestamp at which the     *)
(* packet is next resent" (_resendts, Kcp.h) is kept.                       *)
ResentWhenDue == updated => \A sn \in DOMAIN segs : segs[sn].due > time

(* The window and the count of bytes behind it agree, whatever grew or      *)
(* reduced them and in which order; a window that grows stays within what   *)
(* the peer takes, and time-outs are kept in their bounds.                  *)
WindowAgrees ==
  /\ updated => cwnd >= 1
  /\ (cwnd - 1) * Mss <= incr /\ incr < (cwnd + 1) * Mss
  /\ MinRto <= rto /\ rto <= Greater(DefRto, MaxRto)

(* KCP resends what is due, and its congestion window agrees with what it   *)
(* is computed from (sendSendQueue, updateRtt, increaseCwnd, decreaseCwnd). *)
PacedWell == ResentWhenDue /\ WindowAgrees
=============================================================================
