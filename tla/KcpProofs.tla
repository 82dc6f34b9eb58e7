------------------------------ MODULE KcpProofs ------------------------------
(* Theorems about Kcp, for any windows and messages and whatever the network*)
(* loses, repeats or delays: messages are read in the order they were sent, *)
(* and the sender keeps what its peer does not have.  Theorems about        *)
(* KcpPacing: what is due is sent again, and the window is what it counts.  *)
EXTENDS Kcp, KcpPacing, Integers, SequenceTheorems, WellFoundedInduction, TLAPS

-----------------------------------------------------------------------------
(* Where the fragments of e's messages lie among its sequence numbers: o[m] *)
(* is the number of the first fragment of message m, and the last entry is  *)
(* the number that follows all messages given to send().                    *)
Offsets(e, o) ==
  /\ o \in Seq(Nat) /\ Len(o) = sent[e] + 1 /\ o[1] = 0 /\ sent[e] <= Len(Messages[e])
  /\ \A m \in 1 .. sent[e] : o[m + 1] = o[m] + Messages[e][m]
  /\ \A m, n \in 1 .. sent[e] + 1 : m < n => o[m] + Messages[e][m] <= o[n]

(* x is the fragment with number sn.                                        *)
Lies(e, o, sn, x) ==
  \E m \in 1 .. Len(o) - 1 : \E i \in 1 .. Messages[e][m] :
    sn = o[m] + i - 1 /\ x.data = <<m, i>> /\ x.frg = Messages[e][m] - i

(* What e has not numbered yet, and the segments that it has.               *)
Unnumbered(e, o) ==
  /\ sndNxt[e] + Len(sndQueue[e]) = o[sent[e] + 1]
  /\ \A j \in 1 .. Len(sndQueue[e]) : Lies(e, o, sndNxt[e] + j - 1, sndQueue[e][j])

OfEnd(e, o, seg) == Lies(e, o, seg.sn, seg) /\ seg.sn < sndNxt[e]

Genuine(e, o) ==
  /\ \A seg \in sndBuf[e] \cup rcvBuf[Peer(e)] : OfEnd(e, o, seg)
  /\ \A p \in net : p.to = Peer(e) /\ p.cmd = "push" => OfEnd(e, o, p.body)

(* An end has the segment with number sn.                                   *)
Got(e, sn) == sn < rcvNxt[e] \/ sn \in Sns(rcvBuf[e])

Kept(e) == \A sn \in 0 .. sndNxt[e] - 1 : sn \in Sns(sndBuf[e]) \/ Got(Peer(e), sn)

(* What tells the sender to drop a segment tells the truth.                 *)
Truthful(e) ==
  /\ \A sn \in acks[e] : Got(e, sn)
  /\ \A p \in net : p.to = Peer(e) =>
       /\ p.una <= rcvNxt[e]
       /\ p.cmd = "ack" => Got(e, p.body)

(* What e was sent by its peer: whole messages, and the beginning of one.   *)
Reading(e, o) ==
  LET m == Len(read[e]) + 1
  IN /\ m <= sent[Peer(e)] + 1
     /\ rcvNxt[e] = o[m] + Len(rcvQueue[e])
     /\ rcvQueue[e] # <<>> => /\ m <= sent[Peer(e)]
                             /\ Len(rcvQueue[e]) < Messages[Peer(e)][m]
     /\ \A i \in 1 .. Len(rcvQueue[e]) :
          /\ rcvQueue[e][i].data = <<m, i>>
          /\ rcvQueue[e][i].frg = Messages[Peer(e)][m] - i

(* A buffer stands for message m.                                           *)
StandsFor(buffer, e, m) ==
  /\ Len(buffer) = Messages[e][m]
  /\ \A i \in 1 .. Len(buffer) : buffer[i] # Junk => buffer[i][1] = m

Buffers == Seq(Nat \X Nat \cup {Junk})

AsSent(e) ==
  \A m \in 1 .. Len(read[e]) : StandsFor(read[e][m], Peer(e), m)

KcpTyped ==
  /\ sent \in [Ends -> Nat] /\ sndQueue \in [Ends -> Seq(Fragments)]
  /\ sndBuf \in [Ends -> SUBSET Segments] /\ sndNxt \in [Ends -> Nat] /\ sndUna \in [Ends -> Nat]
  /\ rmtWnd \in [Ends -> Int]
  /\ rcvNxt \in [Ends -> Nat] /\ rcvBuf \in [Ends -> SUBSET Segments]
  /\ rcvQueue \in [Ends -> Seq(Segments)] /\ acks \in [Ends -> SUBSET Nat]
  /\ read \in [Ends -> Seq(Buffers)]
  /\ \A p \in net : /\ p.to \in Ends /\ p.wnd \in Int /\ p.una \in Nat
                    /\ p.cmd = "push" => p.body \in Segments
                    /\ p.cmd = "ack" => p.body \in Nat

(* From one end to its peer.                                                *)
Way(e, o) ==
  /\ Offsets(e, o) /\ Unnumbered(e, o) /\ Genuine(e, o)
  /\ Reading(Peer(e), o) /\ AsSent(Peer(e))

KcpInv ==
  /\ KcpTyped
  /\ \E offsets \in [Ends -> Seq(Nat)] : \A e \in Ends : Way(e, offsets[e])

KeepInv == \A e \in Ends : Kept(e) /\ Truthful(e)

-----------------------------------------------------------------------------
(* Induction over the natural numbers, in the form of least elements.       *)
LEMMA LeastIs ==
  ASSUME NEW S \in SUBSET Nat, S # {}
  PROVE  Least(S) \in S /\ \A n \in S : Least(S) <= n
  <1> DEFINE R == OpToRel(<, Nat)
  <1>1. IsWellFoundedOn(R, Nat)
    BY NatLessThanWellFounded
  <1> HIDE DEF R
  <1>2. PICK x \in S : \A y \in S : <<y, x>> \notin R
    BY <1>1, WFMin
  <1>3. \A y \in S : ~(y < x)
    BY <1>2 DEF R, OpToRel
  <1>4. x \in S /\ \A n \in S : x <= n
    BY <1>3
  <1> QED
    BY <1>4 DEF Least

-----------------------------------------------------------------------------
(* ReadAll is a function that satisfies its equation: what it reads gets    *)
(* shorter with every message.                                              *)
LastOf(q) == Least({i \in 1 .. Len(q) : q[i].frg = 0 \/ i = Len(q)})
RestOf(q) == SubSeq(q, LastOf(q) + 1, Len(q))
ReadOf(f, q) ==
  IF ~Complete(q) THEN [buffers |-> <<>>, rest |-> q]
  ELSE [buffers |-> <<Merge(SubSeq(q, 1, LastOf(q)))>> \o f[RestOf(q)].buffers,
        rest |-> f[RestOf(q)].rest]
Short(n) == {q \in Seq(Segments) : Len(q) < n}
Partial(g, n) == g = [q \in Short(n) |-> ReadOf(g, q)]

LEMMA LastIs ==
  ASSUME NEW q \in Seq(Segments), Complete(q)
  PROVE  /\ LastOf(q) \in 1 .. Len(q) /\ RestOf(q) \in Short(Len(q))
         /\ Len(RestOf(q)) = Len(q) - LastOf(q)
         /\ \A i \in 1 .. Len(RestOf(q)) : RestOf(q)[i] = q[LastOf(q) + i]
         /\ q[LastOf(q)].frg = 0 \/ LastOf(q) = Len(q)
         /\ \A i \in 1 .. Len(q) : q[i].frg = 0 => LastOf(q) <= i
  <1> DEFINE S == {i \in 1 .. Len(q) : q[i].frg = 0 \/ i = Len(q)}
  <1>1. q # <<>> /\ Len(q) \in Nat /\ Len(q) > 0
    BY DEF Complete
  <1>2. S \in SUBSET Nat /\ Len(q) \in S
    BY <1>1
  <1>3. LastOf(q) \in S /\ \A i \in S : LastOf(q) <= i
    BY <1>2, LeastIs DEF LastOf
  <1> PICK k : k = LastOf(q)
    OBVIOUS
  <1>4. k \in 1 .. Len(q) /\ (q[k].frg = 0 \/ k = Len(q))
        /\ \A i \in 1 .. Len(q) : q[i].frg = 0 => k <= i
    BY <1>3
  <1>5. /\ SubSeq(q, k + 1, Len(q)) \in Seq(Segments) /\ Len(SubSeq(q, k + 1, Len(q))) = Len(q) - k
        /\ \A i \in 1 .. Len(q) - k : SubSeq(q, k + 1, Len(q))[i] = q[k + i]
    BY <1>1, <1>4
  <1> QED
    BY <1>1, <1>4, <1>5 DEF RestOf, Short

LEMMA ReadOfSame ==
  ASSUME NEW q \in Seq(Segments), NEW f, NEW g, \A r \in Short(Len(q)) : f[r] = g[r]
  PROVE  ReadOf(f, q) = ReadOf(g, q)
  <1>1. CASE Complete(q)
    <2>1. f[RestOf(q)] = g[RestOf(q)]
      BY <1>1, LastIs
    <2> QED
      BY <1>1, <2>1 DEF ReadOf
  <1>2. CASE ~Complete(q)
    BY <1>2 DEF ReadOf
  <1> QED
    BY <1>1, <1>2

LEMMA PartialsAgree ==
  ASSUME NEW m \in Nat, NEW n \in Nat, NEW g, NEW h, Partial(g, m), Partial(h, n),
         NEW q \in Short(m) \cap Short(n)
  PROVE  g[q] = h[q]
  <1> DEFINE T == {k \in Nat : \E r \in Short(m) \cap Short(n) : Len(r) = k /\ g[r] # h[r]}
  <1>1. CASE T = {}
    <2>1. Len(q) \in Nat
      BY DEF Short
    <2> QED
      BY <1>1, <2>1
  <1>2. CASE T # {}
    <2>1. PICK k \in T : \A j \in T : k <= j
      BY <1>2, LeastIs
    <2>2. PICK r \in Short(m) \cap Short(n) : Len(r) = k /\ g[r] # h[r]
      BY <2>1
    <2>3. ASSUME NEW s \in Short(Len(r)) PROVE g[s] = h[s]
      <3>1. s \in Seq(Segments) /\ Len(s) \in Nat /\ Len(s) < Len(r) /\ Len(r) \in Nat
        BY <2>2, <2>3 DEF Short
      <3>2. s \in Short(m) \cap Short(n)
        BY <3>1 DEF Short
      <3>3. Len(s) \notin T
        BY <2>1, <2>2, <3>1
      <3> QED
        BY <3>1, <3>2, <3>3
    <2>4. r \in Seq(Segments)
      BY DEF Short
    <2>5. g[r] = ReadOf(g, r) /\ h[r] = ReadOf(h, r)
      BY DEF Partial
    <2>6. ReadOf(g, r) = ReadOf(h, r)
      BY <2>3, <2>4, ReadOfSame
    <2> QED
      BY <2>2, <2>5, <2>6
  <1> QED
    BY <1>1, <1>2

LEMMA PartialExists == \A n \in Nat : \E g : Partial(g, n)
  <1> DEFINE T == {n \in Nat : ~\E g : Partial(g, n)}
  <1> SUFFICES ASSUME T # {} PROVE FALSE
    OBVIOUS
  <1>1. PICK n \in T : \A k \in T : n <= k
    BY LeastIs
  <1>2. CASE n = 0
    <2>1. Short(0) = {}
      BY DEF Short
    <2>2. \A g : [q \in Short(0) |-> ReadOf(g, q)] = [q \in {} |-> 0]
      BY <2>1
    <2>3. Partial([q \in {} |-> 0], 0)
      BY <2>2 DEF Partial
    <2> QED
      BY <1>1, <1>2, <2>3
  <1>3. CASE n # 0
    <2>1. n - 1 \in Nat /\ n - 1 \notin T
      BY <1>1, <1>3
    <2>2. PICK g : Partial(g, n - 1)
      BY <2>1
    <2> DEFINE h == [q \in Short(n) |-> ReadOf(g, q)]
    <2>3. ASSUME NEW q \in Short(n) PROVE ReadOf(g, q) = ReadOf(h, q)
      <3>1. q \in Seq(Segments) /\ Len(q) \in Nat /\ Len(q) < n
        BY DEF Short
      <3>2. ASSUME NEW r \in Short(Len(q)) PROVE g[r] = h[r]
        <4>1. r \in Short(n - 1) /\ r \in Short(n)
          BY <3>1 DEF Short
        <4>2. g[r] = ReadOf(g, r)
          BY <2>2, <4>1 DEF Partial
        <4> QED
          BY <4>1, <4>2
      <3> HIDE DEF h
      <3> QED
        BY <3>1, <3>2, ReadOfSame
    <2>4. h = [q \in Short(n) |-> ReadOf(h, q)]
      BY <2>3
    <2> HIDE DEF h
    <2>5. Partial(h, n)
      BY <2>4 DEF Partial
    <2> QED
      BY <1>1, <2>5
  <1> QED
    BY <1>2, <1>3

LEMMA ReadAllDef == \A q \in Seq(Segments) : ReadAll[q] = ReadOf(ReadAll, q)
  <1> DEFINE G(q) == CHOOSE g : Partial(g, Len(q))
             f == [q \in Seq(Segments) |-> ReadOf(G(q), q)]
  <1>1. ASSUME NEW q \in Seq(Segments) PROVE Partial(G(q), Len(q))
    BY <1>1, PartialExists
  <1> HIDE DEF G
  <1>2. ASSUME NEW q \in Seq(Segments) PROVE ReadOf(G(q), q) = ReadOf(f, q)
    <2>1. ASSUME NEW r \in Short(Len(q)) PROVE G(q)[r] = f[r]
      <3>1. r \in Seq(Segments) /\ Len(r) \in Nat /\ Len(r) < Len(q) /\ Len(q) \in Nat
        BY <1>2, <2>1 DEF Short
      <3>2. Partial(G(q), Len(q)) /\ Partial(G(r), Len(r))
        BY <1>1, <3>1
      <3>3. G(q)[r] = ReadOf(G(q), r)
        BY <2>1, <3>2 DEF Partial
      <3>4. ASSUME NEW s \in Short(Len(r)) PROVE G(q)[s] = G(r)[s]
        <4>1. s \in Short(Len(q)) \cap Short(Len(r))
          BY <3>1, <3>4 DEF Short
        <4> QED
          BY <3>1, <3>2, <4>1, PartialsAgree
      <3>5. ReadOf(G(q), r) = ReadOf(G(r), r)
        BY <3>1, <3>4, ReadOfSame
      <3> QED
        BY <3>1, <3>3, <3>5
    <2> HIDE DEF f
    <2> QED
      BY <2>1, ReadOfSame
  <1>3. f = [q \in Seq(Segments) |-> ReadOf(f, q)]
    BY <1>2
  <1> HIDE DEF f
  <1>4. \E g : g = [q \in Seq(Segments) |-> ReadOf(g, q)]
    BY <1>3
  <1>5. ReadAll = CHOOSE g : g = [q \in Seq(Segments) |-> ReadOf(g, q)]
    BY DEF ReadAll, ReadOf, LastOf, RestOf
  <1>6. ReadAll = [q \in Seq(Segments) |-> ReadOf(ReadAll, q)]
    BY <1>4, <1>5
  <1> QED
    BY <1>6

-----------------------------------------------------------------------------
(* A number is the number of one fragment.                                  *)
LEMMA ElementIs ==
  ASSUME NEW S, NEW s \in Seq(S), NEW i \in 1 .. Len(s)
  PROVE  s[i] \in S
  OBVIOUS

LEMMA SuffixIs ==
  ASSUME NEW S, NEW s \in Seq(S), NEW k \in Nat, k <= Len(s)
  PROVE  /\ SubSeq(s, k + 1, Len(s)) \in Seq(S) /\ Len(SubSeq(s, k + 1, Len(s))) = Len(s) - k
         /\ \A j \in 1 .. Len(s) - k : SubSeq(s, k + 1, Len(s))[j] = s[k + j]
  OBVIOUS

LEMMA Apart ==
  ASSUME NEW a \in Nat, NEW b \in Nat, NEW size \in Nat, NEW i \in 1 .. size, NEW j \in Nat,
         j >= 1, a + size <= b
  PROVE  a + i - 1 # b + j - 1
  OBVIOUS

LEMMA SizesAre ==
  ASSUME NEW e \in Ends, NEW o, Offsets(e, o), sent[e] \in Nat
  PROVE  /\ \A m \in 1 .. sent[e] : Messages[e][m] \in Nat /\ Messages[e][m] >= 1
         /\ \A m \in 1 .. sent[e] + 1 : o[m] \in Nat
         /\ Len(o) - 1 = sent[e]
  <1>1. /\ Messages[e] \in Seq(1 .. RcvWnd) /\ sent[e] <= Len(Messages[e]) /\ RcvWnd \in Nat
        /\ o \in Seq(Nat) /\ Len(o) = sent[e] + 1
    BY MessageAssumption, WindowAssumption DEF Offsets
  <1>2. ASSUME NEW m \in 1 .. sent[e] PROVE Messages[e][m] \in 1 .. RcvWnd
    <2>1. m \in 1 .. Len(Messages[e]) /\ Messages[e] \in Seq(1 .. RcvWnd)
      BY <1>1
    <2> QED
      BY <2>1, ElementIs
  <1>3. ASSUME NEW m \in 1 .. sent[e] + 1 PROVE o[m] \in Nat
    <2>1. m \in 1 .. Len(o) /\ o \in Seq(Nat)
      BY <1>1
    <2> QED
      BY <2>1, ElementIs
  <1>4. Len(o) - 1 = sent[e]
    BY <1>1
  <1>5. ASSUME NEW m \in 1 .. sent[e] PROVE Messages[e][m] \in Nat /\ Messages[e][m] >= 1
    <2>1. Messages[e][m] \in 1 .. RcvWnd
      BY <1>2
    <2>2. RcvWnd \in Nat
      BY <1>1
    <2> QED
      BY ONLY <2>1, <2>2
  <1> QED
    BY <1>3, <1>4, <1>5

LEMMA LiesOnce ==
  ASSUME NEW e \in Ends, NEW o, Offsets(e, o), sent[e] \in Nat,
         NEW m \in 1 .. sent[e], NEW i \in 1 .. Messages[e][m],
         NEW n \in 1 .. sent[e], NEW j \in 1 .. Messages[e][n], o[m] + i - 1 = o[n] + j - 1
  PROVE  m = n /\ i = j
  <1>1. /\ Messages[e][m] \in Nat /\ Messages[e][n] \in Nat /\ o[m] \in Nat /\ o[n] \in Nat
        /\ m \in 1 .. sent[e] + 1 /\ n \in 1 .. sent[e] + 1
    <2>1. m \in 1 .. sent[e] + 1 /\ n \in 1 .. sent[e] + 1
      OBVIOUS
    <2> QED
      BY <2>1, SizesAre
  <1>2. /\ m < n => o[m] + Messages[e][m] <= o[n]
        /\ n < m => o[n] + Messages[e][n] <= o[m]
    BY <1>1 DEF Offsets
  <1>3. m \in Nat /\ n \in Nat /\ i \in Nat /\ j \in Nat /\ i >= 1 /\ j >= 1
    BY <1>1
  <1>4. ~(m < n)
    BY <1>1, <1>2, <1>3, Apart
  <1>5. ~(n < m)
    BY <1>1, <1>2, <1>3, Apart
  <1>6. m = n
    BY <1>3, <1>4, <1>5
  <1> QED
    BY <1>1, <1>3, <1>6

LEMMA LiesAt ==
  ASSUME NEW e \in Ends, NEW o, Offsets(e, o), sent[e] \in Nat,
         NEW m \in 1 .. sent[e], NEW i \in 1 .. Messages[e][m],
         NEW x, Lies(e, o, o[m] + i - 1, x)
  PROVE  x.data = <<m, i>> /\ x.frg = Messages[e][m] - i
  <1>1. Len(o) - 1 = sent[e]
    BY SizesAre
  <1>2. PICK n \in 1 .. sent[e] : \E j \in 1 .. Messages[e][n] :
          o[m] + i - 1 = o[n] + j - 1 /\ x.data = <<n, j>> /\ x.frg = Messages[e][n] - j
    BY <1>1 DEF Lies
  <1>3. PICK j \in 1 .. Messages[e][n] :
          o[m] + i - 1 = o[n] + j - 1 /\ x.data = <<n, j>> /\ x.frg = Messages[e][n] - j
    BY <1>2
  <1>4. m = n /\ i = j
    BY <1>3, LiesOnce
  <1> QED
    BY <1>3, <1>4

-----------------------------------------------------------------------------
(* ReadAll takes q, what follows message m - 1, apart into whole messages   *)
(* and the beginning of one.                                                *)
Follows(e, o, m, q) == \A i \in 1 .. Len(q) : Lies(e, o, o[m] + i - 1, q[i])

BeginningOf(e, m, q) ==
  /\ q # <<>> => m <= sent[e] /\ Len(q) < Messages[e][m]
  /\ \A i \in 1 .. Len(q) : q[i].data = <<m, i>> /\ q[i].frg = Messages[e][m] - i

ReadWell(e, o, m, q, r) ==
  /\ r.buffers \in Seq(Buffers) /\ r.rest \in Seq(Segments)
  /\ m + Len(r.buffers) <= sent[e] + 1
  /\ o[m] + Len(q) = o[m + Len(r.buffers)] + Len(r.rest)
  /\ BeginningOf(e, m + Len(r.buffers), r.rest)
  /\ \A j \in 1 .. Len(r.buffers) : StandsFor(r.buffers[j], e, m + j - 1)

LEMMA FrontIs ==
  ASSUME NEW e \in Ends, NEW o, Offsets(e, o), sent[e] \in Nat, NEW m \in 1 .. sent[e] + 1,
         NEW q \in Seq(Segments), Follows(e, o, m, q), q # <<>>
  PROVE  /\ m \in 1 .. sent[e]
         /\ q[1].frg = Messages[e][m] - 1
         /\ \A i \in 1 .. Len(q) : i <= Messages[e][m] =>
              q[i].data = <<m, i>> /\ q[i].frg = Messages[e][m] - i
  <1>1. 1 \in 1 .. Len(q) /\ Len(q) \in Nat
    OBVIOUS
  <1>2. Lies(e, o, o[m], q[1])
    <2>1. o[m] + 1 - 1 = o[m]
      BY SizesAre
    <2> QED
      BY <1>1, <2>1 DEF Follows
  <1>3. m \in 1 .. sent[e]
    <2> SUFFICES ASSUME m = sent[e] + 1 PROVE FALSE
      OBVIOUS
    <2>1. PICK n \in 1 .. sent[e] : \E i \in 1 .. Messages[e][n] : o[m] = o[n] + i - 1
      BY <1>2, SizesAre DEF Lies
    <2>2. n \in 1 .. sent[e] + 1 /\ n < m /\ n \in Nat
      OBVIOUS
    <2>3. o[n] \in Nat /\ o[m] \in Nat /\ Messages[e][n] \in Nat
      BY <2>2, SizesAre
    <2>4. o[n] + Messages[e][n] <= o[m]
      BY <2>2 DEF Offsets
    <2>5. PICK i \in 1 .. Messages[e][n] : o[m] = o[n] + i - 1
      BY <2>1
    <2>6. i \in Nat /\ i <= Messages[e][n]
      BY <2>3
    <2> QED
      BY ONLY <2>3, <2>4, <2>5, <2>6
  <1>4. Messages[e][m] \in Nat /\ Messages[e][m] >= 1
    BY <1>3, SizesAre
  <1>5. ASSUME NEW i \in 1 .. Len(q), i <= Messages[e][m]
        PROVE  q[i].data = <<m, i>> /\ q[i].frg = Messages[e][m] - i
    <2>1. i \in 1 .. Messages[e][m] /\ Lies(e, o, o[m] + i - 1, q[i])
      BY <1>4, <1>5 DEF Follows
    <2> QED
      BY <1>3, <2>1, LiesAt
  <1> QED
    BY <1>1, <1>3, <1>4, <1>5

(* A message that is complete at the front of q, and what follows it.       *)
LEMMA FirstSize ==
  ASSUME NEW e \in Ends, NEW o, Offsets(e, o), sent[e] \in Nat, NEW m \in 1 .. sent[e] + 1,
         NEW q \in Seq(Segments), Follows(e, o, m, q), Complete(q)
  PROVE  m \in 1 .. sent[e] /\ LastOf(q) = Messages[e][m] /\ Messages[e][m] \in 1 .. Len(q)
  <1>1. q # <<>> /\ Len(q) >= q[1].frg + 1 /\ Len(q) \in Nat
    BY DEF Complete
  <1>2. /\ m \in 1 .. sent[e] /\ q[1].frg = Messages[e][m] - 1
        /\ \A i \in 1 .. Len(q) : i <= Messages[e][m] =>
             q[i].data = <<m, i>> /\ q[i].frg = Messages[e][m] - i
    BY <1>1, FrontIs
  <1>3. Messages[e][m] \in Nat /\ Messages[e][m] >= 1
    BY <1>2, SizesAre
  <1>4. Messages[e][m] \in 1 .. Len(q)
    BY <1>1, <1>2, <1>3
  <1>5. q[Messages[e][m]].frg = 0
    BY <1>2, <1>3, <1>4
  <1>6. LastOf(q) \in 1 .. Len(q) /\ LastOf(q) <= Messages[e][m]
        /\ (q[LastOf(q)].frg = 0 \/ LastOf(q) = Len(q))
    BY <1>4, <1>5, LastIs
  <1>7. q[LastOf(q)].frg = Messages[e][m] - LastOf(q)
    BY <1>2, <1>6
  <1>8. LastOf(q) = Messages[e][m]
    BY <1>1, <1>3, <1>4, <1>6, <1>7
  <1> QED
    BY <1>2, <1>4, <1>8

LEMMA FirstRead ==
  ASSUME NEW e \in Ends, NEW o, Offsets(e, o), sent[e] \in Nat, NEW m \in 1 .. sent[e] + 1,
         NEW q \in Seq(Segments), Follows(e, o, m, q), Complete(q)
  PROVE  LET first == Merge(SubSeq(q, 1, LastOf(q)))
         IN  first \in Buffers /\ StandsFor(first, e, m)
  <1> DEFINE M == Messages[e][m]
             front == SubSeq(q, 1, M)
             first == Merge(front)
  <1>1. m \in 1 .. sent[e] /\ LastOf(q) = M /\ M \in 1 .. Len(q)
    BY FirstSize
  <1> HIDE DEF M
  <1>2. q # <<>> /\ M \in Nat /\ M >= 1 /\ Len(q) \in Nat /\ m \in Nat
    BY <1>1
  <1>3. \A i \in 1 .. Len(q) : i <= M => q[i].data = <<m, i>>
    BY <1>2, FrontIs DEF M
  <1>4. front \in Seq(Segments) /\ Len(front) = M /\ front[M] = q[M]
    BY <1>1, <1>2
  <1> HIDE DEF front
  <1>5. first = [i \in 1 .. M |-> IF i = 1 THEN front[M].data ELSE Junk]
    BY <1>4 DEF Merge
  <1>6. front[M].data = <<m, M>>
    BY <1>1, <1>2, <1>3, <1>4
  <1>7. first = [i \in 1 .. M |-> IF i = 1 THEN <<m, M>> ELSE Junk]
    BY <1>5, <1>6
  <1> HIDE DEF first
  <1>8. <<m, M>> \in Nat \X Nat
    BY <1>2
  <1>9. first \in Seq(Nat \X Nat \cup {Junk}) /\ Len(first) = M
    BY <1>2, <1>7, <1>8
  <1>10. \A i \in 1 .. M : first[i] # Junk => first[i][1] = m
    BY <1>7
  <1>11. Len(first) = Messages[e][m]
    BY <1>9 DEF M
  <1>12. first = Merge(SubSeq(q, 1, LastOf(q)))
    BY <1>1 DEF first, front
  <1> QED
    BY <1>9, <1>10, <1>11, <1>12 DEF StandsFor, Buffers

LEMMA RestFollows ==
  ASSUME NEW e \in Ends, NEW o, Offsets(e, o), sent[e] \in Nat, NEW m \in 1 .. sent[e] + 1,
         NEW q \in Seq(Segments), Follows(e, o, m, q), Complete(q)
  PROVE  /\ m + 1 \in 1 .. sent[e] + 1 /\ RestOf(q) \in Seq(Segments)
         /\ Len(RestOf(q)) \in Nat /\ Len(RestOf(q)) < Len(q)
         /\ Follows(e, o, m + 1, RestOf(q))
         /\ o[m + 1] + Len(RestOf(q)) = o[m] + Len(q)
  <1> DEFINE M == Messages[e][m]
             rest == RestOf(q)
  <1>1. m \in 1 .. sent[e] /\ LastOf(q) = M /\ M \in 1 .. Len(q)
    BY FirstSize
  <1>2. rest \in Seq(Segments) /\ Len(rest) = Len(q) - M /\ \A i \in 1 .. Len(rest) : rest[i] = q[M + i]
    BY <1>1, LastIs DEF Short
  <1>3. o[m + 1] = o[m] + M /\ m + 1 \in 1 .. sent[e] + 1
    BY <1>1 DEF Offsets
  <1>4. o[m] \in Nat /\ o[m + 1] \in Nat
    BY <1>3, SizesAre
  <1> HIDE DEF M, rest
  <1>5. Len(q) \in Nat /\ M \in Nat /\ M >= 1 /\ Len(rest) \in Nat /\ Len(rest) < Len(q)
    BY <1>1, <1>2
  <1>6. ASSUME NEW i \in 1 .. Len(rest) PROVE Lies(e, o, o[m + 1] + i - 1, rest[i])
    <2>1. M + i \in 1 .. Len(q) /\ o[m] + (M + i) - 1 = o[m + 1] + i - 1
      BY <1>2, <1>3, <1>4, <1>5
    <2>2. rest[i] = q[M + i]
      BY <1>2
    <2> QED
      BY <2>1, <2>2 DEF Follows
  <1>7. o[m + 1] + Len(rest) = o[m] + Len(q)
    BY <1>2, <1>3, <1>4, <1>5
  <1> QED
    BY <1>2, <1>3, <1>5, <1>6, <1>7 DEF Follows, rest

LEMMA FirstThenRest ==
  ASSUME NEW e \in Ends, NEW o, Offsets(e, o), sent[e] \in Nat, NEW m \in 1 .. sent[e] + 1,
         NEW q \in Seq(Segments), Follows(e, o, m, q), Complete(q),
         NEW r, ReadWell(e, o, m + 1, RestOf(q), r),
         NEW first \in Buffers, StandsFor(first, e, m)
  PROVE  ReadWell(e, o, m, q, [buffers |-> <<first>> \o r.buffers, rest |-> r.rest])
  <1> DEFINE n == Len(r.buffers)
             all == <<first>> \o r.buffers
  <1>1. /\ r.buffers \in Seq(Buffers) /\ r.rest \in Seq(Segments)
        /\ m + 1 + n <= sent[e] + 1
        /\ o[m + 1] + Len(RestOf(q)) = o[m + 1 + n] + Len(r.rest)
        /\ BeginningOf(e, m + 1 + n, r.rest)
        /\ \A j \in 1 .. n : StandsFor(r.buffers[j], e, m + 1 + j - 1)
    BY DEF ReadWell
  <1>2. /\ n \in Nat /\ all \in Seq(Buffers) /\ Len(all) = n + 1 /\ all[1] = first
        /\ \A j \in 1 .. n : all[j + 1] = r.buffers[j]
    BY <1>1
  <1> HIDE DEF n, all
  <1>3. m + Len(all) = m + 1 + n
    BY <1>2
  <1>4. ASSUME NEW j \in 1 .. Len(all) PROVE StandsFor(all[j], e, m + j - 1)
    <2>1. CASE j = 1
      <3>1. m + j - 1 = m
        BY <2>1
      <3> QED
        BY <1>2, <2>1, <3>1
    <2>2. CASE j # 1
      <3> j \in Nat /\ j >= 1 /\ j <= n + 1 /\ m \in Nat /\ n \in Nat
        BY <1>2
      <3>1. j - 1 \in 1 .. n /\ (j - 1) + 1 = j /\ m + 1 + (j - 1) - 1 = m + j - 1
        BY <2>2
      <3>2. StandsFor(r.buffers[j - 1], e, m + 1 + (j - 1) - 1)
        BY <1>1, <3>1
      <3>3. all[j] = r.buffers[j - 1]
        BY <1>2, <3>1
      <3> QED
        BY <3>1, <3>2, <3>3
    <2> QED
      BY <2>1, <2>2
  <1>5. o[m] + Len(q) = o[m + Len(all)] + Len(r.rest)
    BY <1>1, <1>3, RestFollows
  <1>6. BeginningOf(e, m + Len(all), r.rest) /\ m + Len(all) <= sent[e] + 1
    BY <1>1, <1>3
  <1> DEFINE R == [buffers |-> all, rest |-> r.rest]
  <1>7. R.buffers = all /\ R.rest = r.rest
    OBVIOUS
  <1> HIDE DEF R
  <1>8. ReadWell(e, o, m, q, R)
    BY <1>1, <1>2, <1>4, <1>5, <1>6, <1>7 DEF ReadWell
  <1> QED
    BY <1>8 DEF R, all

LEMMA BeginningStays ==
  ASSUME NEW e \in Ends, NEW o, Offsets(e, o), sent[e] \in Nat, NEW m \in 1 .. sent[e] + 1,
         NEW q \in Seq(Segments), Follows(e, o, m, q), ~Complete(q)
  PROVE  ReadWell(e, o, m, q, [buffers |-> <<>>, rest |-> q])
  <1>1. Len(q) \in Nat /\ o[m] \in Nat /\ m \in Nat
    BY SizesAre
  <1>2. BeginningOf(e, m, q)
    <2>1. CASE q = <<>>
      BY <2>1 DEF BeginningOf
    <2>2. CASE q # <<>>
      <3>1. /\ m \in 1 .. sent[e] /\ q[1].frg = Messages[e][m] - 1
            /\ \A i \in 1 .. Len(q) : i <= Messages[e][m] =>
                 q[i].data = <<m, i>> /\ q[i].frg = Messages[e][m] - i
        BY <2>2, FrontIs
      <3>2. Messages[e][m] \in Nat
        BY <3>1, SizesAre
      <3>3. Len(q) < Messages[e][m]
        BY <1>1, <2>2, <3>1, <3>2 DEF Complete
      <3>4. \A i \in 1 .. Len(q) : i <= Messages[e][m]
        BY <1>1, <3>2, <3>3
      <3> QED
        BY <3>1, <3>3, <3>4 DEF BeginningOf
    <2> QED
      BY <2>1, <2>2
  <1> DEFINE R == [buffers |-> <<>>, rest |-> q]
  <1>3. R.buffers = <<>> /\ R.rest = q
    OBVIOUS
  <1> HIDE DEF R
  <1>4. R.buffers \in Seq(Buffers) /\ Len(R.buffers) = 0 /\ m + Len(R.buffers) = m
    BY <1>3
  <1>5. ReadWell(e, o, m, q, R)
    BY <1>1, <1>2, <1>3, <1>4 DEF ReadWell
  <1> QED
    BY <1>5 DEF R

LEMMA ReadAllIs ==
  ASSUME NEW e \in Ends, NEW o, Offsets(e, o), sent[e] \in Nat, NEW m \in 1 .. sent[e] + 1,
         NEW q \in Seq(Segments), Follows(e, o, m, q)
  PROVE  ReadWell(e, o, m, q, ReadAll[q])
  <1> DEFINE Bad(n) == \E k \in 1 .. sent[e] + 1 : \E s \in Seq(Segments) :
                         Len(s) = n /\ Follows(e, o, k, s) /\ ~ReadWell(e, o, k, s, ReadAll[s])
             T == {n \in Nat : Bad(n)}
  <1> SUFFICES ASSUME T # {} PROVE FALSE
    OBVIOUS
  <1>1. PICK n \in T : \A other \in T : n <= other
    BY LeastIs
  <1>2. PICK k \in 1 .. sent[e] + 1 : \E s \in Seq(Segments) :
          Len(s) = n /\ Follows(e, o, k, s) /\ ~ReadWell(e, o, k, s, ReadAll[s])
    BY <1>1
  <1>3. PICK s \in Seq(Segments) :
          Len(s) = n /\ Follows(e, o, k, s) /\ ~ReadWell(e, o, k, s, ReadAll[s])
    BY <1>2
  <1>4. ReadAll[s] = ReadOf(ReadAll, s)
    BY ReadAllDef
  <1>5. CASE ~Complete(s)
    <2>1. ReadAll[s] = [buffers |-> <<>>, rest |-> s]
      BY <1>4, <1>5 DEF ReadOf
    <2>2. ReadWell(e, o, k, s, [buffers |-> <<>>, rest |-> s])
      BY <1>3, <1>5, BeginningStays
    <2> QED
      BY <1>3, <2>1, <2>2
  <1>6. CASE Complete(s)
    <2>1. /\ k + 1 \in 1 .. sent[e] + 1 /\ RestOf(s) \in Seq(Segments)
          /\ Len(RestOf(s)) \in Nat /\ Len(RestOf(s)) < Len(s)
          /\ Follows(e, o, k + 1, RestOf(s))
      BY <1>3, <1>6, RestFollows
    <2>2. Len(RestOf(s)) \notin T
      BY <1>1, <1>3, <2>1
    <2>3. ReadWell(e, o, k + 1, RestOf(s), ReadAll[RestOf(s)])
      BY <2>1, <2>2
    <2> DEFINE first == Merge(SubSeq(s, 1, LastOf(s)))
    <2>4. first \in Buffers /\ StandsFor(first, e, k)
      BY <1>3, <1>6, FirstRead
    <2>5. ReadAll[s] = [buffers |-> <<first>> \o ReadAll[RestOf(s)].buffers,
                        rest |-> ReadAll[RestOf(s)].rest]
      BY <1>4, <1>6 DEF ReadOf
    <2> HIDE DEF first
    <2>6. ReadWell(e, o, k, s, ReadAll[s])
      BY <1>3, <1>6, <2>3, <2>4, <2>5, FirstThenRest
    <2> QED
      BY <1>3, <2>6
  <1> QED
    BY <1>5, <1>6

-----------------------------------------------------------------------------
(* What comes out of the buffer of segments that came early.                *)
LEMMA FirstMissingIs ==
  ASSUME NEW next \in Nat, NEW buf \in SUBSET Segments, NEW bound \in Nat,
         \A seg \in buf : seg.sn < bound
  PROVE  LET f == FirstMissing(next, buf)
         IN  f \in Nat /\ f >= next /\ \A n \in next .. f - 1 : n \in Sns(buf)
  <1> DEFINE U == {n \in Nat : n >= next /\ n \notin Sns(buf)}
             S == {sn \in {next} \cup {seg.sn + 1 : seg \in buf} : sn >= next /\ sn \notin Sns(buf)}
  <1>1. \A seg \in buf : seg.sn \in Nat
    BY DEF Segments
  <1>2. bound + next \in U
    BY <1>1 DEF Sns
  <1>3. PICK l \in U : \A n \in U : l <= n
    BY <1>2, LeastIs
  <1>4. l \in S
    <2>1. CASE l = next
      BY <1>3, <2>1
    <2>2. CASE l # next
      <3>1. l \in Nat /\ l - 1 \in Nat /\ l - 1 >= next /\ l - 1 \notin U
        BY <1>3, <2>2
      <3>2. l - 1 \in Sns(buf)
        BY <3>1
      <3>3. PICK seg \in buf : seg.sn = l - 1
        BY <3>2 DEF Sns
      <3>4. l = seg.sn + 1
        BY <3>1, <3>3
      <3> QED
        BY <1>3, <3>4
    <2> QED
      BY <2>1, <2>2
  <1>5. S \in SUBSET Nat /\ S \subseteq U
    BY <1>1
  <1>6. Least(S) \in S /\ \A n \in S : Least(S) <= n
    BY <1>4, <1>5, LeastIs
  <1> HIDE DEF S, U
  <1>7. Least(S) \in Nat /\ l \in Nat /\ l <= Least(S) /\ Least(S) <= l
    BY <1>3, <1>4, <1>5, <1>6
  <1>8. Least(S) = l
    BY <1>7
  <1>9. FirstMissing(next, buf) = l
    BY <1>8 DEF FirstMissing, S
  <1>10. l \in Nat /\ l >= next
    BY <1>3 DEF U
  <1>11. \A n \in next .. l - 1 : n \in Sns(buf)
    <2>1. ASSUME NEW n \in next .. l - 1 PROVE n \in Sns(buf)
      <3>1. n \in Nat /\ n >= next /\ ~(l <= n)
        BY <1>10
      <3>2. n \notin U
        BY <1>3, <3>1
      <3> QED
        BY <3>1, <3>2 DEF U
    <2> QED
      BY <2>1
  <1> QED
    BY <1>9, <1>10, <1>11

LEMMA OrderedIs ==
  ASSUME NEW from \in Nat, NEW to \in Nat, from <= to, NEW buf \in SUBSET Segments,
         \A n \in from .. to - 1 : n \in Sns(buf)
  PROVE  /\ Ordered(buf, from, to) \in Seq(Segments)
         /\ Len(Ordered(buf, from, to)) = to - from
         /\ \A i \in 1 .. to - from :
              Ordered(buf, from, to)[i] \in buf /\ Ordered(buf, from, to)[i].sn = from + i - 1
  <1> DEFINE At(i) == CHOOSE seg \in buf : seg.sn = from + i - 1
  <1>1. to - from \in Nat
    OBVIOUS
  <1>2. ASSUME NEW i \in 1 .. to - from PROVE At(i) \in buf /\ At(i).sn = from + i - 1
    <2>1. from + i - 1 \in from .. to - 1
      OBVIOUS
    <2>2. \E seg \in buf : seg.sn = from + i - 1
      BY <2>1 DEF Sns
    <2> QED
      BY <2>2
  <1>3. Ordered(buf, from, to) = [i \in 1 .. to - from |-> At(i)]
    BY DEF Ordered
  <1> HIDE DEF At
  <1>4. \A i \in 1 .. to - from : At(i) \in Segments
    BY <1>2
  <1>5. [i \in 1 .. to - from |-> At(i)] \in Seq(Segments)
    BY <1>1, <1>4
  <1>6. Len([i \in 1 .. to - from |-> At(i)]) = to - from
    BY <1>1
  <1> QED
    BY <1>2, <1>3, <1>5, <1>6

-----------------------------------------------------------------------------
LEMMA Ways ==
  ASSUME NEW e \in Ends
  PROVE  /\ Peer(e) \in Ends /\ Peer(Peer(e)) = e /\ Peer(e) # e
         /\ \A d \in Ends : d = e \/ d = Peer(e)
  BY EndsAssumption DEF Ends, Peer

(* What was read is the beginning of what was sent.                         *)
NextOf(e) == Len(read[e]) + 1
QueueWith(e, buf) == rcvQueue[e] \o Ordered(buf, rcvNxt[e], FirstMissing(rcvNxt[e], buf))

LEMMA ConcatIs ==
  ASSUME NEW S, NEW s \in Seq(S), NEW r \in Seq(S)
  PROVE  /\ s \o r \in Seq(S) /\ Len(s \o r) = Len(s) + Len(r)
         /\ \A i \in 1 .. Len(s) : (s \o r)[i] = s[i]
         /\ \A i \in 1 .. Len(r) : (s \o r)[Len(s) + i] = r[i]
         /\ Len(s) \in Nat /\ Len(r) \in Nat
  OBVIOUS

LEMMA QueueFollows ==
  ASSUME NEW e \in Ends, NEW o, KcpTyped, Offsets(Peer(e), o), Reading(e, o), AsSent(e),
         NEW buf \in SUBSET Segments, \A seg \in buf : OfEnd(Peer(e), o, seg)
  PROVE  LET next == FirstMissing(rcvNxt[e], buf)
             queue == QueueWith(e, buf)
         IN  /\ next \in Nat /\ next >= rcvNxt[e] /\ \A n \in rcvNxt[e] .. next - 1 : n \in Sns(buf)
             /\ NextOf(e) \in 1 .. sent[Peer(e)] + 1
             /\ queue \in Seq(Segments) /\ next = o[NextOf(e)] + Len(queue)
             /\ Follows(Peer(e), o, NextOf(e), queue)
  <1> DEFINE d == Peer(e)
             m == NextOf(e)
             next == FirstMissing(rcvNxt[e], buf)
             old == rcvQueue[e]
             new == Ordered(buf, rcvNxt[e], next)
             from == rcvNxt[e]
  <1>1. d \in Ends /\ from \in Nat /\ sndNxt[d] \in Nat /\ sent[d] \in Nat /\ old \in Seq(Segments)
        /\ read[e] \in Seq(Buffers)
    BY Ways DEF KcpTyped
  <1>2. \A seg \in buf : seg.sn < sndNxt[d]
    BY DEF OfEnd
  <1>3. next \in Nat /\ next >= from /\ \A n \in from .. next - 1 : n \in Sns(buf)
    BY <1>1, <1>2, FirstMissingIs
  <1>4. m \in Nat /\ m >= 1 /\ m <= sent[d] + 1
    BY <1>1 DEF Reading, NextOf
  <1>5. m \in 1 .. sent[d] + 1
    BY <1>1, <1>4
  <1>6. o[m] \in Nat /\ Len(o) - 1 = sent[d] /\ \A k \in 1 .. sent[d] : Messages[d][k] \in Nat
    BY <1>1, <1>5, SizesAre
  <1>7. /\ from = o[m] + Len(old)
        /\ old # <<>> => m <= sent[d]
        /\ old # <<>> => Len(old) < Messages[d][m]
        /\ \A i \in 1 .. Len(old) : old[i].data = <<m, i>> /\ old[i].frg = Messages[d][m] - i
    BY DEF Reading, NextOf
  <1> HIDE DEF next, old, new, from, m, d
  <1>8. /\ new \in Seq(Segments) /\ Len(new) = next - from
        /\ \A i \in 1 .. next - from : new[i] \in buf /\ new[i].sn = from + i - 1
    BY <1>1, <1>3, OrderedIs DEF new, from, next
  <1> DEFINE queue == old \o new
  <1>9. /\ queue \in Seq(Segments) /\ Len(queue) = Len(old) + Len(new)
        /\ \A i \in 1 .. Len(old) : queue[i] = old[i]
        /\ \A i \in 1 .. Len(new) : queue[Len(old) + i] = new[i]
        /\ Len(old) \in Nat /\ Len(new) \in Nat
    BY <1>1, <1>8, ConcatIs
  <1> HIDE DEF queue
  <1>10. next = o[m] + Len(queue)
    <2>1. PICK a \in Nat, b \in Nat : a = Len(old) /\ b = Len(new)
      BY <1>9
    <2>2. from = o[m] + a /\ b = next - from
      BY <1>7, <1>8, <2>1
    <2>3. next = o[m] + (a + b)
      BY <1>3, <1>6, <2>2
    <2>4. Len(queue) = a + b
      BY <1>9, <2>1, Zenon
    <2> QED
      BY <2>3, <2>4, Zenon
  <1>11. ASSUME NEW i \in 1 .. Len(queue) PROVE Lies(d, o, o[m] + i - 1, queue[i])
    <2>1. CASE i <= Len(old)
      <3>1. i \in 1 .. Len(old) /\ old # <<>>
        BY <1>1, <1>9, <2>1
      <3>2. m \in 1 .. Len(o) - 1 /\ i \in 1 .. Messages[d][m]
        <4>1. m \in 1 .. sent[d]
          BY <1>4, <1>7, <3>1, <1>1
        <4>2. Messages[d][m] \in Nat /\ Len(old) < Messages[d][m]
          BY <1>6, <1>7, <3>1, <4>1
        <4> QED
          BY <1>6, <1>9, <3>1, <4>1, <4>2
      <3>3. queue[i].data = <<m, i>> /\ queue[i].frg = Messages[d][m] - i
        BY <1>7, <1>9, <3>1
      <3> QED
        BY <3>2, <3>3 DEF Lies
    <2>2. CASE ~(i <= Len(old))
      <3>0. i \in Nat /\ i <= Len(old) + Len(new) /\ ~(i <= Len(old)) /\ from = o[m] + Len(old)
            /\ Len(old) \in Nat /\ Len(new) \in Nat /\ o[m] \in Nat
        BY <1>6, <1>7, <1>9, <2>2
      <3> PICK j \in 1 .. Len(new) : i = Len(old) + j
        <4>1. i - Len(old) \in 1 .. Len(new) /\ i = Len(old) + (i - Len(old))
          BY <3>0
        <4> QED
          BY <4>1
      <3>1. j \in 1 .. Len(new) /\ i = Len(old) + j /\ from + j - 1 = o[m] + i - 1
        BY <3>0
      <3>2. queue[i] = new[j] /\ new[j] \in buf /\ new[j].sn = from + j - 1
        BY <1>8, <1>9, <3>1
      <3>3. Lies(d, o, new[j].sn, new[j])
        BY <3>2 DEF OfEnd, d
      <3> QED
        BY <3>1, <3>2, <3>3
    <2> QED
      BY <2>1, <2>2
  <1>12. Follows(d, o, m, queue)
    BY <1>11 DEF Follows
  <1>13. queue = QueueWith(e, buf)
    BY DEF queue, old, new, next, from, QueueWith
  <1> QED
    BY <1>3, <1>5, <1>9, <1>10, <1>12, <1>13 DEF d, m, next, from

-----------------------------------------------------------------------------
(* A step that adds nothing to the way from d keeps it.                     *)
KeepsWay(d) ==
  /\ sent'[d] = sent[d] /\ sndQueue'[d] = sndQueue[d] /\ sndNxt'[d] = sndNxt[d]
  /\ sndBuf'[d] \subseteq sndBuf[d] /\ rcvBuf'[Peer(d)] \subseteq rcvBuf[Peer(d)]
  /\ rcvNxt'[Peer(d)] = rcvNxt[Peer(d)] /\ rcvQueue'[Peer(d)] = rcvQueue[Peer(d)]
  /\ read'[Peer(d)] = read[Peer(d)]
  /\ \A p \in net' : p.to = Peer(d) /\ p.cmd = "push" => p \in net

LEMMA WayKept ==
  ASSUME NEW d \in Ends, NEW o, Way(d, o), KeepsWay(d)
  PROVE  Way(d, o)'
  <1>1. Offsets(d, o)'
    BY DEF Way, KeepsWay, Offsets
  <1>2. Unnumbered(d, o)'
    BY DEF Way, KeepsWay, Unnumbered, Lies
  <1>3. Genuine(d, o)'
    BY DEF Way, KeepsWay, Genuine, OfEnd
  <1>4. Reading(Peer(d), o)'
    BY Ways DEF Way, KeepsWay, Reading
  <1>5. AsSent(Peer(d))'
    BY DEF Way, KeepsWay, AsSent, StandsFor
  <1> QED
    BY <1>1, <1>2, <1>3, <1>4, <1>5 DEF Way

LEMMA LoseWell ==
  ASSUME KcpTyped, NEW d \in Ends, NEW p, Lose(p)
  PROVE  KcpTyped' /\ KeepsWay(d)
  BY DEF Lose, sndVars, wndVars, rcvVars, KcpTyped, KeepsWay

-----------------------------------------------------------------------------
(* send()                                                                   *)
Longer(e, o) == Append(o, o[sent[e] + 1] + Messages[e][sent[e] + 1])

LEMMA LongerIs ==
  ASSUME NEW e \in Ends, NEW o, Offsets(e, o), sent[e] \in Nat, Send(e), sent'[e] = sent[e] + 1,
         NEW new, new = Longer(e, o)
  PROVE  /\ Offsets(e, new)'
         /\ \A m \in 1 .. sent[e] + 1 : new[m] = o[m]
         /\ \A sn, x : Lies(e, o, sn, x) => Lies(e, new, sn, x)
         /\ Len(new) = sent[e] + 2
  <1> DEFINE n == sent[e] + 1
             size == Messages[e][n]
  <1>1. /\ o \in Seq(Nat) /\ Len(o) = n /\ o[1] = 0
        /\ \A m \in 1 .. n : o[m] \in Nat
        /\ \A m \in 1 .. n - 1 : Messages[e][m] \in Nat
    <2>1. n - 1 = sent[e]
      OBVIOUS
    <2>2. o \in Seq(Nat) /\ Len(o) = n /\ o[1] = 0
      BY DEF Offsets
    <2> QED
      BY <2>1, <2>2, SizesAre
  <1>2. n \in Nat /\ n >= 1 /\ n <= Len(Messages[e]) /\ Messages[e] \in Seq(1 .. RcvWnd)
    <2>1. Len(Messages[e]) \in Nat /\ Messages[e] \in Seq(1 .. RcvWnd)
      BY MessageAssumption
    <2>2. sent[e] < Len(Messages[e])
      BY DEF Send
    <2> QED
      BY <2>1, <2>2
  <1>3. size \in 1 .. RcvWnd
    <2>1. n \in 1 .. Len(Messages[e])
      BY <1>2
    <2> QED
      BY <1>2, <2>1, ElementIs
  <1>4. size \in Nat /\ size >= 1
    BY <1>3, WindowAssumption
  <1>5. /\ \A m \in 1 .. n - 1 : o[m + 1] = o[m] + Messages[e][m]
        /\ \A m, k \in 1 .. n : m < k => o[m] + Messages[e][m] <= o[k]
    <2>1. n - 1 = sent[e]
      OBVIOUS
    <2> QED
      BY <2>1 DEF Offsets
  <1>6. new = Append(o, o[n] + size)
    BY DEF Longer
  <1>0. n = sent'[e]
    OBVIOUS
  <1> HIDE DEF n, size
  <1>7. /\ new \in Seq(Nat) /\ Len(new) = n + 1 /\ new[n + 1] = o[n] + size
        /\ \A m \in 1 .. n : new[m] = o[m]
    <2>1. o[n] + size \in Nat
      BY <1>1, <1>2, <1>4
    <2> QED
      BY <1>1, <1>6, <2>1, AppendProperties
  <1>8. ASSUME NEW m \in 1 .. n PROVE new[m + 1] = new[m] + Messages[e][m]
    <2>1. CASE m = n
      BY <1>2, <1>7, <2>1 DEF size
    <2>2. CASE m # n
      <3>1. m \in 1 .. n - 1 /\ m + 1 \in 1 .. n
        BY <1>2, <2>2
      <3> QED
        BY <1>5, <1>7, <3>1
    <2> QED
      BY <2>1, <2>2
  <1>9. ASSUME NEW m \in 1 .. n + 1, NEW k \in 1 .. n + 1, m < k
        PROVE  new[m] + Messages[e][m] <= new[k]
    <2>1. m \in 1 .. n /\ m \in Nat /\ k \in Nat /\ new[m] = o[m] /\ o[m] \in Nat
      BY <1>1, <1>2, <1>7, <1>9
    <2>2. CASE k \in 1 .. n
      BY <1>5, <1>7, <1>9, <2>1, <2>2
    <2>3. CASE k = n + 1 /\ m = n
      BY <1>1, <1>4, <1>7, <2>1, <2>3 DEF size
    <2>4. CASE k = n + 1 /\ m # n
      <3>1. m < n /\ n \in 1 .. n /\ m \in 1 .. n - 1
        BY <1>2, <2>1, <2>4
      <3>2. o[m] + Messages[e][m] <= o[n] /\ Messages[e][m] \in Nat /\ o[n] \in Nat
        BY <1>1, <1>5, <2>1, <3>1
      <3> QED
        <4>1. new[k] = o[n] + size /\ new[m] = o[m]
          BY <1>7, <2>1, <2>4
        <4> QED
          BY <1>4, <2>1, <3>2, <4>1
    <2> QED
      BY <1>2, <1>9, <2>2, <2>3, <2>4
  <1>10. Offsets(e, new)'
    <2>1. 1 \in 1 .. n
      BY <1>2
    <2>2. new[1] = 0
      BY <1>1, <1>7, <2>1
    <2> QED
      BY <1>0, <1>2, <1>7, <1>8, <1>9, <2>2 DEF Offsets
  <1>11. ASSUME NEW sn, NEW x, Lies(e, o, sn, x) PROVE Lies(e, new, sn, x)
    <2>1. PICK m \in 1 .. n - 1 : \E i \in 1 .. Messages[e][m] :
            sn = o[m] + i - 1 /\ x.data = <<m, i>> /\ x.frg = Messages[e][m] - i
      BY <1>1, <1>11 DEF Lies
    <2>2. m \in 1 .. Len(new) - 1 /\ new[m] = o[m]
      BY <1>2, <1>7
    <2> QED
      BY <2>1, <2>2 DEF Lies
  <1>12. Len(new) = sent[e] + 2
    BY <1>7 DEF n
  <1> QED
    BY <1>7, <1>10, <1>11, <1>12 DEF n

Parts(e) ==
  LET m == sent[e] + 1
      size == Messages[e][m]
  IN  [i \in 1 .. size |-> [frg |-> size - i, data |-> <<m, i>>]]

LEMMA SendTyped ==
  ASSUME KcpTyped, NEW e \in Ends, Send(e)
  PROVE  /\ KcpTyped' /\ KeepsWay(Peer(e)) /\ Parts(e) \in Seq(Fragments)
         /\ sent'[e] = sent[e] + 1 /\ sent[e] \in Nat
  <1> DEFINE m == sent[e] + 1
             size == Messages[e][m]
             added == [i \in 1 .. size |-> [frg |-> size - i, data |-> <<m, i>>]]
  <1>1. sent[e] \in Nat /\ m \in 1 .. Len(Messages[e]) /\ Messages[e] \in Seq(1 .. RcvWnd)
    <2>1. Messages[e] \in Seq(1 .. RcvWnd) /\ Len(Messages[e]) \in Nat /\ sent[e] \in Nat
      BY MessageAssumption DEF KcpTyped
    <2>2. sent[e] < Len(Messages[e])
      BY DEF Send
    <2> QED
      BY <2>1, <2>2
  <1>2. size \in 1 .. RcvWnd
    BY <1>1, ElementIs
  <1>3. size \in Nat /\ m \in Nat
    BY <1>1, <1>2, WindowAssumption
  <1>4. ASSUME NEW i \in 1 .. size PROVE [frg |-> size - i, data |-> <<m, i>>] \in Fragments
    <2>1. size - i \in Nat /\ i \in Nat
      BY <1>3
    <2> HIDE DEF m, size
    <2> QED
      BY <1>3, <2>1 DEF Fragments
  <1>5. added \in Seq(Fragments)
    BY <1>3, <1>4
  <1>10. Parts(e) \in Seq(Fragments)
    BY <1>5 DEF Parts
  <1>6. sndQueue' = [sndQueue EXCEPT ![e] = @ \o added] /\ sent' = [sent EXCEPT ![e] = @ + 1]
    BY DEF Send
  <1> HIDE DEF added
  <1>7. sndQueue' \in [Ends -> Seq(Fragments)] /\ sent' \in [Ends -> Nat] /\ sent'[e] = sent[e] + 1
    <2>1. sndQueue[e] \o added \in Seq(Fragments)
      BY <1>5, ConcatIs DEF KcpTyped
    <2> QED
      BY <1>1, <1>6, <2>1 DEF KcpTyped
  <1>8. KcpTyped'
    BY <1>7 DEF Send, wndVars, rcvVars, KcpTyped
  <1>9. KeepsWay(Peer(e))
    BY <1>6, Ways DEF Send, wndVars, rcvVars, KcpTyped, KeepsWay
  <1> QED
    BY <1>1, <1>7, <1>8, <1>9, <1>10

LEMMA SendWell ==
  ASSUME KcpTyped, NEW e \in Ends, NEW o, Way(e, o), Send(e),
         NEW new, new = Longer(e, o)
  PROVE  Way(e, new)'
  <1> DEFINE n == sent[e] + 1
             size == Messages[e][n]
             old == sndQueue[e]
             added == [i \in 1 .. size |-> [frg |-> size - i, data |-> <<n, i>>]]
  <1>1. /\ Offsets(e, o) /\ Unnumbered(e, o) /\ Genuine(e, o) /\ Reading(Peer(e), o)
        /\ AsSent(Peer(e)) /\ sent[e] \in Nat /\ sent'[e] = n
    BY SendTyped DEF Way
  <1>2. /\ Offsets(e, new)' /\ \A m \in 1 .. n : new[m] = o[m]
        /\ \A sn, x : Lies(e, o, sn, x) => Lies(e, new, sn, x)
        /\ Len(new) = n + 1
    BY <1>1, LongerIs
  <1>3. /\ sndNxt'[e] = sndNxt[e] /\ sndBuf' = sndBuf /\ rcvBuf' = rcvBuf /\ net' = net
        /\ rcvNxt' = rcvNxt /\ rcvQueue' = rcvQueue /\ read' = read
    BY DEF Send, wndVars, rcvVars
  <1>4. sndQueue'[e] = old \o added
    BY DEF Send, KcpTyped
  <1>5. Genuine(e, new)'
    <2>1. ASSUME NEW seg, OfEnd(e, o, seg) PROVE OfEnd(e, new, seg)'
      <3>1. Lies(e, o, seg.sn, seg) /\ seg.sn < sndNxt'[e]
        BY <1>3, <2>1 DEF OfEnd
      <3>2. Lies(e, new, seg.sn, seg)
        BY <1>2, <3>1
      <3> QED
        BY <3>1, <3>2 DEF OfEnd, Lies
    <2> QED
      BY <1>1, <1>3, <2>1 DEF Genuine
  <1>6. Reading(Peer(e), new)'
    <2> DEFINE m == Len(read[Peer(e)]) + 1
    <2>1. m \in Nat /\ m >= 1
      BY Ways DEF KcpTyped
    <2>2. /\ m <= n /\ rcvNxt[Peer(e)] = o[m] + Len(rcvQueue[Peer(e)])
          /\ rcvQueue[Peer(e)] # <<>> => m <= sent[e]
          /\ rcvQueue[Peer(e)] # <<>> => Len(rcvQueue[Peer(e)]) < Messages[e][m]
          /\ \A i \in 1 .. Len(rcvQueue[Peer(e)]) :
                /\ rcvQueue[Peer(e)][i].data = <<m, i>>
                /\ rcvQueue[Peer(e)][i].frg = Messages[e][m] - i
      BY <1>1, Ways DEF Reading
    <2>3. new[m] = o[m] /\ m <= sent'[e] + 1 /\ (m <= sent[e] => m <= sent'[e])
      BY <1>1, <1>2, <2>1, <2>2
    <2>4. m = Len(read'[Peer(e)]) + 1
      BY <1>3
    <2> HIDE DEF m
    <2> QED
      BY <1>3, <2>2, <2>3, <2>4, Ways DEF Reading
  <1>7. AsSent(Peer(e))'
    BY <1>1, <1>3 DEF AsSent, StandsFor
  <1>8. Unnumbered(e, new)'
    <2>1. /\ n \in 1 .. Len(Messages[e]) /\ Messages[e] \in Seq(1 .. RcvWnd)
      <3>1. Messages[e] \in Seq(1 .. RcvWnd) /\ Len(Messages[e]) \in Nat
        BY MessageAssumption
      <3>2. sent[e] < Len(Messages[e])
        BY DEF Send
      <3> QED
        BY <1>1, <3>1, <3>2
    <2>2. size \in Nat /\ n \in Nat /\ n >= 1
      <3>1. size \in 1 .. RcvWnd
        BY <2>1, ElementIs
      <3> QED
        BY <1>1, <3>1, WindowAssumption
    <2>3. /\ old \in Seq(Fragments) /\ Len(old) \in Nat /\ sndNxt[e] \in Nat
          /\ sndNxt[e] + Len(old) = o[n] /\ o[n] \in Nat
      <3>1. n \in 1 .. sent[e] + 1
        BY <1>1
      <3> QED
        BY <1>1, <3>1, SizesAre DEF KcpTyped, Unnumbered
    <2>4. \A j \in 1 .. Len(old) : Lies(e, o, sndNxt[e] + j - 1, old[j])
      BY <1>1 DEF Unnumbered
    <2> HIDE DEF size, n, old
    <2>5. /\ Len(old \o added) = Len(old) + size
          /\ \A j \in 1 .. Len(old) : (old \o added)[j] = old[j]
          /\ \A i \in 1 .. size : (old \o added)[Len(old) + i] = added[i]
      <3>1. added \in Seq(Fragments)
        BY SendTyped DEF Parts, size, n
      <3>2. Len(added) = size
        BY <2>2
      <3> HIDE DEF added
      <3>3. /\ Len(old \o added) = Len(old) + Len(added)
            /\ \A j \in 1 .. Len(old) : (old \o added)[j] = old[j]
            /\ \A i \in 1 .. Len(added) : (old \o added)[Len(old) + i] = added[i]
        BY ONLY <2>3, <3>1, ConcatIs
      <3> QED
        BY <3>2, <3>3
    <2>6. \A i \in 1 .. size : added[i].frg = size - i /\ added[i].data = <<n, i>>
      OBVIOUS
    <2> HIDE DEF added
    <2>7. new[n] = o[n] /\ new[n + 1] = o[n] + size
      <3>1. n \in 1 .. sent'[e] /\ n \in 1 .. n
        BY <1>1, <2>2
      <3>2. new[n + 1] = new[n] + Messages[e][n]
        BY <1>2, <3>1 DEF Offsets
      <3> QED
        BY <1>2, <3>1, <3>2 DEF size
    <2>8. ASSUME NEW j \in 1 .. Len(old) + size
          PROVE  Lies(e, new, sndNxt[e] + j - 1, (old \o added)[j])
      <3>1. CASE j <= Len(old)
        <4>1. j \in 1 .. Len(old)
          BY <2>2, <2>3, <3>1
        <4> QED
          BY <1>2, <2>4, <2>5, <4>1
      <3>2. CASE ~(j <= Len(old))
        <4>1. j - Len(old) \in 1 .. size /\ j = Len(old) + (j - Len(old))
          BY <2>2, <2>3, <3>2
        <4>2. PICK i \in 1 .. size : j = Len(old) + i
          BY <4>1
        <4>3. sndNxt[e] + j - 1 = new[n] + i - 1
          BY <2>2, <2>3, <2>7, <4>2
        <4>4. n \in 1 .. Len(new) - 1 /\ i \in 1 .. Messages[e][n]
          BY <1>2, <2>2 DEF size
        <4>5. (old \o added)[j].data = <<n, i>> /\ (old \o added)[j].frg = Messages[e][n] - i
          BY <2>5, <2>6, <4>2 DEF size
        <4> QED
          BY <4>3, <4>4, <4>5 DEF Lies
      <3> QED
        BY <3>1, <3>2
    <2>9. sndNxt[e] + (Len(old) + size) = new[n + 1]
      BY <2>2, <2>3, <2>7
    <2>10. sndQueue'[e] = old \o added /\ Len(sndQueue'[e]) = Len(old) + size
      BY <1>4, <2>5
    <2>11. sndNxt'[e] + Len(sndQueue'[e]) = new[sent'[e] + 1]
      BY <1>1, <1>3, <2>9, <2>10
    <2>12. \A j \in 1 .. Len(sndQueue'[e]) : Lies(e, new, sndNxt'[e] + j - 1, sndQueue'[e][j])
      BY <1>3, <2>8, <2>10
    <2> QED
      BY <2>11, <2>12 DEF Unnumbered, Lies
  <1> QED
    BY <1>2, <1>5, <1>6, <1>7, <1>8 DEF Way

-----------------------------------------------------------------------------
(* update()                                                                 *)
LEMMA FittingIs ==
  ASSUME KcpTyped, NEW e \in Ends, NEW wide \in 1 .. SndWnd
  PROVE  Fitting(e, wide) \in 0 .. Len(sndQueue[e])
  <1> DEFINE window == Smaller(wide, Smaller(SndWnd, rmtWnd[e]))
             end == sndUna[e] + (IF window = 0 THEN 1 ELSE window)
  <1>1. SndWnd \in Int /\ rmtWnd[e] \in Int /\ sndUna[e] \in Nat /\ sndNxt[e] \in Nat
        /\ sndQueue[e] \in Seq(Fragments)
    BY WindowAssumption DEF KcpTyped
  <1>2. window \in Int
    BY <1>1 DEF Smaller
  <1> HIDE DEF window
  <1>3. end \in Int /\ Len(sndQueue[e]) \in Nat
    BY <1>1, <1>2
  <1>4. Fitting(e, wide) = IF sndNxt[e] >= end THEN 0 ELSE Smaller(Len(sndQueue[e]), end - sndNxt[e])
    BY DEF Fitting, window
  <1> HIDE DEF end
  <1> QED
    BY <1>1, <1>3, <1>4 DEF Smaller

(* What is sent: news of what e has, segments that e keeps, and probes.     *)
Sends(e, p) ==
  \/ \E sn \in acks[e] : p = Stamped(e, "ack", sn)
  \/ \E seg \in sndBuf'[e] : p = Stamped(e, "push", seg)
  \/ \E cmd \in {"ask", "tell"}, wnd \in Uninit, head \in Uninit : p = Packet(e, cmd, 0, wnd, head)

Moves(e, k) ==
  /\ k \in 0 .. Len(sndQueue[e])
  /\ sndQueue' = [sndQueue EXCEPT ![e] = SubSeq(@, k + 1, Len(@))]
  /\ sndBuf' = [sndBuf EXCEPT ![e] = @ \cup Numbered(e, k)]
  /\ sndNxt' = [sndNxt EXCEPT ![e] = @ + k]
  /\ \A p \in net' : p \in net \/ Sends(e, p)
  /\ acks' = [acks EXCEPT ![e] = {}]
  /\ UNCHANGED <<sent, sndUna, rmtWnd, rcvNxt, rcvBuf, rcvQueue, read>>

LEMMA UpdateIs ==
  ASSUME KcpTyped, NEW e \in Ends, NEW resent \in SUBSET sndBuf[e], Update(e, resent)
  PROVE  \E k \in Nat : Moves(e, k)
  <1>1. PICK k \in {Fitting(e, wide) : wide \in 1 .. SndWnd} :
          /\ sndQueue' = [sndQueue EXCEPT ![e] = SubSeq(@, k + 1, Len(@))]
          /\ sndBuf' = [sndBuf EXCEPT ![e] = @ \cup Numbered(e, k)]
          /\ sndNxt' = [sndNxt EXCEPT ![e] = @ + k]
          /\ \E asked \in Asks(e), told \in Tells(e) :
               net' = net \cup {Stamped(e, "ack", sn) : sn \in acks[e]} \cup asked \cup told
                          \cup {Stamped(e, "push", seg) : seg \in Numbered(e, k) \cup resent}
          /\ acks' = [acks EXCEPT ![e] = {}]
          /\ UNCHANGED <<sent, sndUna, rmtWnd, rcvNxt, rcvBuf, rcvQueue, read>>
    BY DEF Update
  <1>2. k \in 0 .. Len(sndQueue[e]) /\ k \in Nat
    BY <1>1, FittingIs
  <1>3. PICK asked \in Asks(e), told \in Tells(e) :
          net' = net \cup {Stamped(e, "ack", sn) : sn \in acks[e]} \cup asked \cup told
                     \cup {Stamped(e, "push", seg) : seg \in Numbered(e, k) \cup resent}
    BY <1>1
  <1>4. \A p \in asked \cup told : \E cmd \in {"ask", "tell"}, wnd \in Uninit, head \in Uninit :
          p = Packet(e, cmd, 0, wnd, head)
    BY <1>3 DEF Asks, Tells, Unstamped
  <1>5. sndBuf'[e] = sndBuf[e] \cup Numbered(e, k)
    BY <1>1 DEF KcpTyped
  <1>6. ASSUME NEW p \in net' PROVE p \in net \/ Sends(e, p)
    BY <1>3, <1>4, <1>5 DEF Sends
  <1> QED
    BY <1>1, <1>2, <1>6 DEF Moves

LEMMA NumberedAre ==
  ASSUME KcpTyped, NEW e \in Ends, NEW k \in Nat, k <= Len(sndQueue[e]), NEW seg \in Numbered(e, k)
  PROVE  /\ seg \in Segments
         /\ \E i \in 1 .. k : /\ i \in 1 .. Len(sndQueue[e]) /\ seg.sn = sndNxt[e] + i - 1
                             /\ seg.frg = sndQueue[e][i].frg /\ seg.data = sndQueue[e][i].data
  <1>1. sndQueue[e] \in Seq(Fragments) /\ sndNxt[e] \in Nat /\ Len(sndQueue[e]) \in Nat
    BY DEF KcpTyped
  <1>2. PICK i \in 1 .. k :
          seg = [sn |-> sndNxt[e] + i - 1, frg |-> sndQueue[e][i].frg, data |-> sndQueue[e][i].data]
    BY DEF Numbered
  <1>3. i \in 1 .. Len(sndQueue[e]) /\ sndNxt[e] + i - 1 \in Nat
    BY <1>1
  <1>4. sndQueue[e][i] \in Fragments
    BY <1>1, <1>3, ElementIs
  <1>5. sndQueue[e][i].frg \in Nat /\ sndQueue[e][i].data \in Nat \X Nat
    BY <1>4 DEF Fragments
  <1>6. seg \in Segments
    BY <1>2, <1>3, <1>5 DEF Segments
  <1> QED
    BY <1>2, <1>3, <1>6

LEMMA UpdateTyped ==
  ASSUME KcpTyped, NEW e \in Ends, NEW k \in Nat, Moves(e, k)
  PROVE  KcpTyped' /\ KeepsWay(Peer(e))
  <1>1. k <= Len(sndQueue[e]) /\ sndQueue[e] \in Seq(Fragments) /\ Len(sndQueue[e]) \in Nat
    BY DEF Moves, KcpTyped
  <1>2. sndQueue' \in [Ends -> Seq(Fragments)]
    <2>1. SubSeq(sndQueue[e], k + 1, Len(sndQueue[e])) \in Seq(Fragments)
      BY <1>1
    <2> QED
      BY <2>1 DEF Moves, KcpTyped
  <1>3. sndBuf' \in [Ends -> SUBSET Segments]
    <2>1. Numbered(e, k) \subseteq Segments
      BY <1>1, NumberedAre
    <2> QED
      BY <2>1 DEF Moves, KcpTyped
  <1>4. sndNxt' \in [Ends -> Nat] /\ acks' \in [Ends -> SUBSET Nat]
    BY DEF Moves, KcpTyped
  <1>5. Peer(e) \in Ends /\ RcvWnd - Len(rcvQueue[e]) \in Int /\ rcvNxt[e] \in Nat /\ acks[e] \subseteq Nat
        /\ sndBuf'[e] \subseteq Segments /\ Uninit \subseteq Nat
    BY <1>3, Ways, WindowAssumption DEF KcpTyped
  <1>6. ASSUME NEW p, Sends(e, p)
        PROVE  /\ p.to = Peer(e) /\ p.to \in Ends /\ p.wnd \in Int /\ p.una \in Nat
               /\ p.cmd = "push" => p.body \in Segments
               /\ p.cmd = "ack" => p.body \in Nat
    <2>1. CASE \E sn \in acks[e] : p = Stamped(e, "ack", sn)
      BY <1>5, <2>1 DEF Stamped, Packet
    <2>2. CASE \E seg \in sndBuf'[e] : p = Stamped(e, "push", seg)
      BY <1>5, <2>2 DEF Stamped, Packet
    <2>3. CASE \E cmd \in {"ask", "tell"}, wnd \in Uninit, head \in Uninit :
                 p = Packet(e, cmd, 0, wnd, head)
      BY <1>5, <2>3 DEF Packet
    <2> QED
      BY <1>6, <2>1, <2>2, <2>3 DEF Sends
  <1>7. KcpTyped'
    BY <1>2, <1>3, <1>4, <1>6 DEF Moves, KcpTyped
  <1>8. KeepsWay(Peer(e))
    <2>1. \A p \in net' : p.to = e => p \in net
      BY <1>6, Ways DEF Moves
    <2> QED
      BY <2>1, Ways DEF Moves, KcpTyped, KeepsWay
  <1> QED
    BY <1>7, <1>8

LEMMA UpdateWell ==
  ASSUME KcpTyped, NEW e \in Ends, NEW o, Way(e, o), NEW k \in Nat, Moves(e, k)
  PROVE  Way(e, o)'
  <1>1. /\ Offsets(e, o) /\ Unnumbered(e, o) /\ Genuine(e, o) /\ Reading(Peer(e), o)
        /\ AsSent(Peer(e))
    BY DEF Way
  <1>2. /\ k <= Len(sndQueue[e]) /\ sndQueue[e] \in Seq(Fragments) /\ Len(sndQueue[e]) \in Nat
        /\ sndNxt[e] \in Nat /\ sent[e] \in Nat
    BY DEF Moves, KcpTyped
  <1>3. /\ sndNxt'[e] = sndNxt[e] + k /\ sndBuf'[e] = sndBuf[e] \cup Numbered(e, k)
        /\ sndQueue'[e] = SubSeq(sndQueue[e], k + 1, Len(sndQueue[e]))
        /\ sent' = sent /\ rcvBuf' = rcvBuf /\ rcvNxt' = rcvNxt /\ rcvQueue' = rcvQueue /\ read' = read
    BY DEF Moves, KcpTyped
  <1>4. Offsets(e, o)' /\ Reading(Peer(e), o)' /\ AsSent(Peer(e))'
    BY <1>1, <1>3 DEF Offsets, Reading, AsSent, StandsFor
  <1>5. Unnumbered(e, o)'
    <2>1. /\ Len(sndQueue'[e]) = Len(sndQueue[e]) - k
          /\ \A j \in 1 .. Len(sndQueue[e]) - k : sndQueue'[e][j] = sndQueue[e][k + j]
      <3>1. sndQueue[e] \in Seq(Fragments) /\ k <= Len(sndQueue[e])
        BY <1>2
      <3>2. PICK q : q = sndQueue[e] /\ q \in Seq(Fragments) /\ k <= Len(q)
        BY <3>1
      <3>3. /\ Len(SubSeq(q, k + 1, Len(q))) = Len(q) - k
            /\ \A j \in 1 .. Len(q) - k : SubSeq(q, k + 1, Len(q))[j] = q[k + j]
        BY ONLY <3>2, SuffixIs, k \in Nat
      <3> QED
        BY <1>3, <3>2, <3>3
    <2>2. sndNxt'[e] + Len(sndQueue'[e]) = o[sent'[e] + 1]
      <3>1. sndNxt[e] + Len(sndQueue[e]) = o[sent[e] + 1]
        BY <1>1 DEF Unnumbered
      <3>2. sndNxt'[e] + Len(sndQueue'[e]) = sndNxt[e] + Len(sndQueue[e])
        BY <1>2, <1>3, <2>1
      <3> QED
        BY <1>3, <3>1, <3>2
    <2>3. ASSUME NEW j \in 1 .. Len(sndQueue'[e])
          PROVE  Lies(e, o, sndNxt'[e] + j - 1, sndQueue'[e][j])
      <3>0. /\ j \in Nat /\ j >= 1 /\ j <= Len(sndQueue[e]) - k /\ k \in Nat /\ sndNxt[e] \in Nat
            /\ Len(sndQueue[e]) \in Nat /\ sndNxt'[e] = sndNxt[e] + k
        BY <1>2, <1>3, <2>1
      <3>1. k + j \in 1 .. Len(sndQueue[e]) /\ sndNxt[e] + (k + j) - 1 = sndNxt'[e] + j - 1
        BY <3>0
      <3>2. sndQueue'[e][j] = sndQueue[e][k + j]
        BY <2>1
      <3>3. Lies(e, o, sndNxt[e] + (k + j) - 1, sndQueue[e][k + j])
        BY <1>1, <3>1 DEF Unnumbered
      <3> QED
        BY <3>1, <3>2, <3>3
    <2> QED
      BY <2>2, <2>3 DEF Unnumbered, Lies
  <1>6. ASSUME NEW seg, OfEnd(e, o, seg), seg.sn \in Nat PROVE OfEnd(e, o, seg)'
    <2>1. Lies(e, o, seg.sn, seg)
      BY <1>6 DEF OfEnd
    <2>2. seg.sn < sndNxt'[e]
      <3>1. seg.sn < sndNxt[e]
        BY <1>6 DEF OfEnd
      <3> QED
        BY <1>2, <1>3, <1>6, <3>1
    <2> QED
      BY <2>1, <2>2 DEF OfEnd, Lies
  <1>7. ASSUME NEW seg \in Numbered(e, k) PROVE OfEnd(e, o, seg)'
    <2>1. PICK i \in 1 .. k : /\ i \in 1 .. Len(sndQueue[e]) /\ seg.sn = sndNxt[e] + i - 1
                              /\ seg.frg = sndQueue[e][i].frg /\ seg.data = sndQueue[e][i].data
      BY <1>2, NumberedAre
    <2>2. Lies(e, o, sndNxt[e] + i - 1, sndQueue[e][i])
      BY <1>1, <2>1 DEF Unnumbered
    <2>3. Lies(e, o, seg.sn, seg)
      BY <2>1, <2>2 DEF Lies
    <2>4. seg.sn < sndNxt'[e]
      BY <1>2, <1>3, <2>1
    <2> QED
      BY <2>3, <2>4 DEF OfEnd, Lies
  <1>8. ASSUME NEW seg \in sndBuf'[e] PROVE OfEnd(e, o, seg)'
    <2>1. CASE seg \in sndBuf[e]
      <3>1. seg.sn \in Nat
        BY <2>1 DEF KcpTyped, Segments
      <3> QED
        BY <1>1, <1>6, <2>1, <3>1 DEF Genuine
    <2> QED
      BY <1>3, <1>7, <1>8, <2>1
  <1>9. ASSUME NEW seg \in rcvBuf'[Peer(e)] PROVE OfEnd(e, o, seg)'
    <2>1. seg \in rcvBuf[Peer(e)] /\ seg.sn \in Nat
      BY <1>3, <1>9, Ways DEF KcpTyped, Segments
    <2> QED
      BY <1>1, <1>6, <2>1 DEF Genuine
  <1>10. ASSUME NEW p \in net', p.to = Peer(e), p.cmd = "push" PROVE OfEnd(e, o, p.body)'
    <2>1. CASE p \in net
      <3>1. p.body.sn \in Nat
        BY <1>10, <2>1 DEF KcpTyped, Segments
      <3> QED
        BY <1>1, <1>6, <1>10, <2>1, <3>1 DEF Genuine
    <2>2. CASE Sends(e, p)
      <3>1. \E seg \in sndBuf'[e] : p.body = seg
        BY <1>10, <2>2 DEF Sends, Stamped, Packet
      <3> QED
        BY <1>8, <3>1
    <2> QED
      BY <1>10, <2>1, <2>2 DEF Moves
  <1>11. Genuine(e, o)'
    BY <1>8, <1>9, <1>10 DEF Genuine
  <1> QED
    BY <1>4, <1>5, <1>11 DEF Way

-----------------------------------------------------------------------------
(* input(): what e drops, and what it takes.                                *)
LEMMA AcknowledgeTyped ==
  ASSUME KcpTyped, NEW e \in Ends, NEW p \in net, Acknowledge(e, p)
  PROVE  /\ sndBuf' \in [Ends -> SUBSET Segments] /\ sndUna' \in [Ends -> Nat]
         /\ sndBuf'[e] \subseteq sndBuf[e] /\ sndBuf'[Peer(e)] = sndBuf[Peer(e)]
         /\ \A seg \in sndBuf[e] : seg \in sndBuf'[e] \/ seg.sn < p.una
                                 \/ (p.cmd = "ack" /\ seg.sn = p.body)
  <1> DEFINE left == DropByUna(sndBuf[e], p.una)
             buf == IF p.cmd = "ack" THEN DropByAck(left, p.body) ELSE left
  <1>1. sndBuf' = [sndBuf EXCEPT ![e] = buf]
        /\ sndUna' = [sndUna EXCEPT ![e] = Least(Sns(buf) \cup {sndNxt[e]})]
    BY DEF Acknowledge
  <1>2. buf \subseteq sndBuf[e] /\ sndBuf[e] \subseteq Segments /\ sndNxt[e] \in Nat /\ p.una \in Nat
    BY DEF KcpTyped, DropByUna, DropByAck
  <1>3. \A seg \in sndBuf[e] : seg \in buf \/ seg.sn < p.una \/ (p.cmd = "ack" /\ seg.sn = p.body)
    <2>1. \A seg \in sndBuf[e] : seg.sn \in Nat
      BY <1>2 DEF Segments
    <2> QED
      BY <1>2, <2>1 DEF DropByUna, DropByAck
  <1> HIDE DEF left, buf
  <1>4. Sns(buf) \cup {sndNxt[e]} \in SUBSET Nat
    BY <1>2 DEF Sns, Segments
  <1>5. Least(Sns(buf) \cup {sndNxt[e]}) \in Nat
    BY <1>4, LeastIs
  <1> QED
    BY <1>1, <1>2, <1>3, <1>5, Ways DEF KcpTyped

(* Only e's side changes; buf is what it has, with the segment that came.   *)
Takes(e, seg, buf) ==
  /\ buf = rcvBuf[e] \/ buf = rcvBuf[e] \cup {seg}
  /\ acks' = acks \/ (acks' = [acks EXCEPT ![e] = @ \cup {seg.sn}]
                     /\ (seg.sn < rcvNxt[e] \/ seg.sn \in Sns(buf)))
  /\ rcvNxt' = [rcvNxt EXCEPT ![e] = FirstMissing(rcvNxt[e], buf)]
  /\ rcvBuf' = [rcvBuf EXCEPT ![e] = {s \in buf : s.sn >= FirstMissing(rcvNxt[e], buf)}]
  /\ rcvQueue' = [rcvQueue EXCEPT ![e] = ReadAll[QueueWith(e, buf)].rest]
  /\ read' = [read EXCEPT ![e] = @ \o ReadAll[QueueWith(e, buf)].buffers]

LEMMA PushTakes ==
  ASSUME KcpTyped, NEW e \in Ends, NEW seg \in Segments, HandleCmdPush(e, seg)
  PROVE  \E buf : Takes(e, seg, buf)
  <1> DEFINE new == Accept(e, seg) /\ seg.sn >= rcvNxt[e] /\ seg.sn \notin Sns(rcvBuf[e])
             buf == IF new THEN rcvBuf[e] \cup {seg} ELSE rcvBuf[e]
  <1>1. /\ rcvNxt' = [rcvNxt EXCEPT ![e] = FirstMissing(rcvNxt[e], buf)]
        /\ rcvBuf' = [rcvBuf EXCEPT ![e] = {s \in buf : s.sn >= FirstMissing(rcvNxt[e], buf)}]
        /\ rcvQueue' = [rcvQueue EXCEPT ![e] = ReadAll[QueueWith(e, buf)].rest]
        /\ read' = [read EXCEPT ![e] = @ \o ReadAll[QueueWith(e, buf)].buffers]
    BY DEF HandleCmdPush, QueueWith
  <1>2. buf = rcvBuf[e] \/ buf = rcvBuf[e] \cup {seg}
    OBVIOUS
  <1>3. acks' = acks \/ (acks' = [acks EXCEPT ![e] = @ \cup {seg.sn}]
                        /\ (seg.sn < rcvNxt[e] \/ seg.sn \in Sns(buf)))
    <2>1. CASE ~Accept(e, seg)
      BY <2>1 DEF HandleCmdPush
    <2>2. CASE Accept(e, seg)
      <3>1. acks' = [acks EXCEPT ![e] = @ \cup {seg.sn}]
        BY <2>2 DEF HandleCmdPush
      <3>2. seg.sn < rcvNxt[e] \/ seg.sn \in Sns(buf)
        <4>1. seg.sn \in Nat /\ rcvNxt[e] \in Nat
          BY DEF Segments, KcpTyped
        <4>2. seg.sn < rcvNxt[e] \/ seg.sn \in Sns(rcvBuf[e]) \/ new
          BY <2>2, <4>1
        <4> QED
          BY <4>2 DEF Sns
      <3> QED
        BY <3>1, <3>2
    <2> QED
      BY <2>1, <2>2
  <1> HIDE DEF buf
  <1> QED
    BY <1>1, <1>2, <1>3 DEF Takes

LEMMA TakesWell ==
  ASSUME KcpTyped, NEW e \in Ends, NEW o, Way(Peer(e), o), NEW seg \in Segments,
         OfEnd(Peer(e), o, seg), NEW buf, Takes(e, seg, buf), sent' = sent, sndNxt' = sndNxt
  PROVE  /\ rcvNxt' \in [Ends -> Nat] /\ rcvBuf' \in [Ends -> SUBSET Segments]
         /\ rcvQueue' \in [Ends -> Seq(Segments)] /\ acks' \in [Ends -> SUBSET Nat]
         /\ read' \in [Ends -> Seq(Buffers)]
         /\ Reading(e, o)' /\ AsSent(e)' /\ \A s \in rcvBuf'[e] : OfEnd(Peer(e), o, s)
         /\ rcvNxt'[e] >= rcvNxt[e] /\ \A sn \in Nat : Got(e, sn) => Got(e, sn)'
         /\ \A sn \in acks'[e] : sn \in acks[e] \/ Got(e, sn)'
  <1> DEFINE d == Peer(e)
             next == FirstMissing(rcvNxt[e], buf)
             queue == QueueWith(e, buf)
             r == ReadAll[queue]
             m == NextOf(e)
             n == m + Len(r.buffers)
  <1>1. /\ d \in Ends /\ Offsets(d, o) /\ Genuine(d, o) /\ Reading(e, o) /\ AsSent(e) /\ Peer(d) = e
        /\ sent[d] \in Nat /\ rcvNxt[e] \in Nat
    BY Ways DEF Way, KcpTyped
  <1>2. buf \in SUBSET Segments /\ rcvBuf[e] \subseteq buf
    BY DEF Takes, KcpTyped
  <1>3. \A s \in buf : OfEnd(d, o, s)
    BY <1>1 DEF Takes, Genuine
  <1>4. /\ next \in Nat /\ next >= rcvNxt[e] /\ \A sn \in rcvNxt[e] .. next - 1 : sn \in Sns(buf)
        /\ m \in 1 .. sent[d] + 1
        /\ queue \in Seq(Segments) /\ next = o[m] + Len(queue)
        /\ Follows(d, o, m, queue)
    BY <1>1, <1>2, <1>3, QueueFollows
  <1>5. ReadWell(d, o, m, queue, r)
    BY <1>1, <1>4, ReadAllIs
  <1>6. /\ rcvNxt' = [rcvNxt EXCEPT ![e] = next]
        /\ rcvBuf' = [rcvBuf EXCEPT ![e] = {s \in buf : s.sn >= next}]
        /\ rcvQueue' = [rcvQueue EXCEPT ![e] = r.rest]
        /\ read' = [read EXCEPT ![e] = @ \o r.buffers]
        /\ sent' = sent
    BY DEF Takes
  <1>7. m = Len(read[e]) + 1 /\ read[e] \in Seq(Buffers)
        /\ \A k \in 1 .. Len(read[e]) : StandsFor(read[e][k], d, k)
    BY <1>1 DEF NextOf, AsSent, KcpTyped
  <1> HIDE DEF d, next, queue, r, m, n
  <1>8. /\ r.buffers \in Seq(Buffers) /\ r.rest \in Seq(Segments)
        /\ n <= sent[d] + 1 /\ o[m] + Len(queue) = o[n] + Len(r.rest)
        /\ BeginningOf(d, n, r.rest)
        /\ \A j \in 1 .. Len(r.buffers) : StandsFor(r.buffers[j], d, m + j - 1)
    BY <1>5 DEF ReadWell, n
  <1>9. /\ rcvNxt' \in [Ends -> Nat] /\ rcvBuf' \in [Ends -> SUBSET Segments]
        /\ rcvQueue' \in [Ends -> Seq(Segments)]
        /\ rcvNxt'[e] = next /\ rcvQueue'[e] = r.rest
        /\ rcvBuf'[e] = {s \in buf : s.sn >= next}
    BY <1>2, <1>4, <1>6, <1>8 DEF KcpTyped
  <1>10. acks' \in [Ends -> SUBSET Nat]
    <2>1. seg.sn \in Nat /\ acks \in [Ends -> SUBSET Nat]
      BY DEF Segments, KcpTyped
    <2>2. CASE acks' = [acks EXCEPT ![e] = @ \cup {seg.sn}]
      BY <2>1, <2>2
    <2> QED
      BY <2>1, <2>2 DEF Takes
  <1> DEFINE all == read[e] \o r.buffers
  <1>11. /\ all \in Seq(Buffers) /\ Len(all) = Len(read[e]) + Len(r.buffers)
         /\ \A k \in 1 .. Len(read[e]) : all[k] = read[e][k]
         /\ \A k \in 1 .. Len(r.buffers) : all[Len(read[e]) + k] = r.buffers[k]
         /\ Len(read[e]) \in Nat /\ Len(r.buffers) \in Nat
    <2>1. read[e] \in Seq(Buffers) /\ r.buffers \in Seq(Buffers)
      BY <1>7, <1>8
    <2> QED
      BY ONLY <2>1, ConcatIs
  <1> HIDE DEF all
  <1>21. PICK a \in Nat, b \in Nat : a = Len(read[e]) /\ b = Len(r.buffers)
    BY <1>11
  <1>22. m = a + 1 /\ n = m + b
    BY <1>7, <1>21 DEF n
  <1>23. PICK l \in Nat : l = Len(all) /\ l = a + b
    <2>1. Len(all) = a + b
      BY <1>11, <1>21, Zenon
    <2>2. a + b \in Nat
      OBVIOUS
    <2> QED
      BY <2>1, <2>2, Zenon
  <1>12. n = l + 1 /\ n \in Nat /\ m \in Nat /\ l = a + b
    BY <1>22, <1>23
  <1>13. ASSUME NEW k \in 1 .. Len(all) PROVE StandsFor(all[k], d, k)
    <2>0. k \in 1 .. l
      BY <1>23
    <2>1. CASE k \in 1 .. a
      BY <1>7, <1>11, <1>21, <2>1
    <2>2. CASE k \notin 1 .. a
      <3>1. k - a \in 1 .. b /\ k = a + (k - a)
        BY <1>12, <2>0, <2>2
      <3>2. PICK j \in 1 .. b : k = a + j
        BY <3>1
      <3>3. m + j - 1 = k
        BY <1>22, <3>2
      <3>4. all[k] = r.buffers[j] /\ StandsFor(r.buffers[j], d, m + j - 1)
        BY <1>8, <1>11, <1>21, <3>2
      <3> QED
        BY <3>3, <3>4
    <2> QED
      BY <2>1, <2>2
  <1>14. read'[e] = all /\ read' \in [Ends -> Seq(Buffers)]
    <2>1. read' = [read EXCEPT ![e] = all]
      BY <1>6 DEF all
    <2> QED
      BY <1>11, <2>1 DEF KcpTyped
  <1>15. AsSent(e)'
    <2>1. \A k \in 1 .. Len(read'[e]) : StandsFor(read'[e][k], d, k)
      BY <1>13, <1>14
    <2> QED
      BY <2>1 DEF AsSent, StandsFor, d
  <1>16. Reading(e, o)'
    <2>1. n = Len(read'[e]) + 1
      BY <1>12, <1>14, <1>23
    <2>2. next = o[n] + Len(r.rest)
      BY <1>4, <1>8
    <2>3. /\ r.rest # <<>> => n <= sent[d] /\ Len(r.rest) < Messages[d][n]
          /\ \A i \in 1 .. Len(r.rest) : r.rest[i].data = <<n, i>> /\ r.rest[i].frg = Messages[d][n] - i
      BY <1>8 DEF BeginningOf
    <2> QED
      BY <1>6, <1>8, <1>9, <2>1, <2>2, <2>3 DEF Reading, d
  <1>17. \A s \in rcvBuf'[e] : OfEnd(d, o, s)
    BY <1>3, <1>9
  <1>18. ASSUME NEW sn \in Nat, sn < rcvNxt[e] \/ sn \in Sns(buf) PROVE Got(e, sn)'
    <2>1. CASE sn < next
      BY <1>9, <2>1 DEF Got
    <2>2. CASE ~(sn < next)
      <3>1. sn \in Sns(buf) /\ sn >= next
        BY <1>1, <1>4, <1>18, <2>2
      <3>2. PICK s \in buf : s.sn = sn
        BY <3>1 DEF Sns
      <3>3. s \in rcvBuf'[e]
        BY <1>9, <3>1, <3>2
      <3> QED
        BY <3>2, <3>3 DEF Got, Sns
    <2> QED
      BY <2>1, <2>2
  <1>19. \A sn \in Nat : Got(e, sn) => Got(e, sn)'
    <2>1. ASSUME NEW sn \in Nat, Got(e, sn) PROVE Got(e, sn)'
      <3>1. sn < rcvNxt[e] \/ sn \in Sns(buf)
        BY <1>2, <2>1 DEF Got, Sns
      <3> QED
        BY <1>18, <3>1
    <2> QED
      BY <2>1
  <1>20. \A sn \in acks'[e] : sn \in acks[e] \/ Got(e, sn)'
    <2>1. CASE acks' = acks
      BY <2>1
    <2>2. CASE acks' # acks
      <3>1. acks'[e] = acks[e] \cup {seg.sn} /\ (seg.sn < rcvNxt[e] \/ seg.sn \in Sns(buf))
        BY <2>2 DEF Takes, KcpTyped
      <3>2. Got(e, seg.sn)'
        BY <1>18, <3>1 DEF Segments
      <3> QED
        BY <3>1, <3>2
    <2> QED
      BY <2>1, <2>2
  <1> QED
    BY <1>4, <1>9, <1>10, <1>14, <1>15, <1>16, <1>17, <1>19, <1>20 DEF d

(* What e has it keeps, and it acknowledges nothing else.                   *)
HasMore(e) ==
  /\ rcvNxt'[e] >= rcvNxt[e] /\ \A sn \in Nat : Got(e, sn) => Got(e, sn)'
  /\ \A sn \in acks'[e] : sn \in acks[e] \/ Got(e, sn)'

LEMMA SameHasMore ==
  ASSUME KcpTyped, NEW e \in Ends, rcvNxt'[e] = rcvNxt[e], rcvBuf'[e] = rcvBuf[e],
         acks'[e] \subseteq acks[e]
  PROVE  HasMore(e)
  <1>1. rcvNxt[e] \in Nat
    BY DEF KcpTyped
  <1> QED
    BY <1>1 DEF HasMore, Got

LEMMA InputWell ==
  ASSUME KcpTyped, NEW e \in Ends, NEW o, Way(Peer(e), o), NEW p \in net, NEW again \in BOOLEAN,
         Input(e, p, again)
  PROVE  KcpTyped' /\ Way(Peer(e), o)' /\ KeepsWay(e) /\ HasMore(e)
  <1>1. /\ p.to = e /\ net' \subseteq net /\ rmtWnd' = [rmtWnd EXCEPT ![e] = p.wnd]
        /\ Acknowledge(e, p) /\ sent' = sent /\ sndQueue' = sndQueue /\ sndNxt' = sndNxt
    BY DEF Input
  <1>2. /\ sndBuf' \in [Ends -> SUBSET Segments] /\ sndUna' \in [Ends -> Nat]
        /\ sndBuf'[e] \subseteq sndBuf[e] /\ sndBuf'[Peer(e)] = sndBuf[Peer(e)]
    BY <1>1, AcknowledgeTyped
  <1>3. rmtWnd' \in [Ends -> Int]
    BY <1>1 DEF KcpTyped
  <1>4. Peer(e) \in Ends /\ Peer(Peer(e)) = e /\ Peer(e) # e
    BY Ways
  <1>5. Offsets(Peer(e), o)' /\ Unnumbered(Peer(e), o)'
    BY <1>1, <1>4 DEF Way, Offsets, Unnumbered, Lies
  <1>6. ASSUME p.cmd # "push" PROVE /\ KcpTyped' /\ Way(Peer(e), o)' /\ KeepsWay(e) /\ HasMore(e)
    <2>1. rcvNxt' = rcvNxt /\ rcvBuf' = rcvBuf /\ rcvQueue' = rcvQueue /\ acks' = acks /\ read' = read
      BY <1>6 DEF Input, rcvVars
    <2>2. KcpTyped'
      BY <1>1, <1>2, <1>3, <2>1 DEF KcpTyped
    <2>3. KeepsWay(Peer(e)) /\ KeepsWay(e)
      BY <1>1, <1>2, <1>4, <2>1 DEF KeepsWay
    <2>4. Way(Peer(e), o)'
      BY <1>4, <2>3, WayKept
    <2> QED
      BY <2>1, <2>2, <2>3, <2>4, SameHasMore
  <1>7. ASSUME p.cmd = "push" PROVE /\ KcpTyped' /\ Way(Peer(e), o)' /\ KeepsWay(e) /\ HasMore(e)
    <2>1. p.body \in Segments /\ OfEnd(Peer(e), o, p.body) /\ HandleCmdPush(e, p.body)
      BY <1>1, <1>4, <1>7 DEF Input, KcpTyped, Way, Genuine
    <2>2. PICK buf : Takes(e, p.body, buf)
      BY <2>1, PushTakes
    <2>3. /\ rcvNxt' \in [Ends -> Nat] /\ rcvBuf' \in [Ends -> SUBSET Segments]
          /\ rcvQueue' \in [Ends -> Seq(Segments)] /\ acks' \in [Ends -> SUBSET Nat]
          /\ read' \in [Ends -> Seq(Buffers)]
          /\ Reading(e, o)' /\ AsSent(e)' /\ \A s \in rcvBuf'[e] : OfEnd(Peer(e), o, s)
          /\ HasMore(e)
      BY <1>1, <2>1, <2>2, TakesWell DEF HasMore
    <2>4. KcpTyped'
      BY <1>1, <1>2, <1>3, <2>3 DEF KcpTyped
    <2>5. KeepsWay(e)
      <3>1. /\ rcvNxt'[Peer(e)] = rcvNxt[Peer(e)] /\ rcvQueue'[Peer(e)] = rcvQueue[Peer(e)]
            /\ read'[Peer(e)] = read[Peer(e)] /\ rcvBuf'[Peer(e)] = rcvBuf[Peer(e)]
        BY <1>4, <2>2 DEF Takes, KcpTyped
      <3> QED
        BY <1>1, <1>2, <3>1 DEF KeepsWay
    <2>6. Genuine(Peer(e), o)'
      <3>1. \A seg \in sndBuf'[Peer(e)] \cup rcvBuf'[e] : OfEnd(Peer(e), o, seg)
        BY <1>2, <1>4, <2>3 DEF Way, Genuine
      <3>2. \A x \in net' : x.to = e /\ x.cmd = "push" => OfEnd(Peer(e), o, x.body)
        BY <1>1, <1>4 DEF Way, Genuine
      <3> QED
        BY <1>1, <1>4, <3>1, <3>2 DEF Genuine, OfEnd, Lies
    <2>7. Way(Peer(e), o)'
      BY <1>4, <1>5, <2>3, <2>6 DEF Way
    <2> QED
      BY <2>3, <2>4, <2>5, <2>7
  <1> QED
    BY <1>6, <1>7

-----------------------------------------------------------------------------
LEMMA KcpStarts == Init => KcpInv
  <1> SUFFICES ASSUME Init PROVE KcpInv
    OBVIOUS
  <1>1. KcpTyped
    BY WindowAssumption DEF Init, KcpTyped
  <1> DEFINE offsets == [e \in Ends |-> <<0>>]
  <1>2. offsets \in [Ends -> Seq(Nat)]
    OBVIOUS
  <1>3. ASSUME NEW e \in Ends PROVE Way(e, <<0>>)
    <2>1. /\ sent[e] = 0 /\ sndQueue[e] = <<>> /\ sndBuf[e] = {} /\ sndNxt[e] = 0 /\ net = {}
          /\ Peer(e) \in Ends /\ Peer(Peer(e)) = e
          /\ rcvNxt[Peer(e)] = 0 /\ rcvBuf[Peer(e)] = {} /\ rcvQueue[Peer(e)] = <<>>
          /\ read[Peer(e)] = <<>>
      BY Ways DEF Init
    <2>2. Offsets(e, <<0>>)
      <3>1. Len(Messages[e]) \in Nat
        BY MessageAssumption
      <3> QED
        BY <2>1, <3>1 DEF Offsets
    <2>3. Unnumbered(e, <<0>>)
      BY <2>1 DEF Unnumbered
    <2>4. Genuine(e, <<0>>)
      BY <2>1 DEF Genuine
    <2>5. Reading(Peer(e), <<0>>)
      BY <2>1 DEF Reading
    <2>6. AsSent(Peer(e))
      BY <2>1 DEF AsSent
    <2> QED
      BY <2>2, <2>3, <2>4, <2>5, <2>6 DEF Way
  <1>4. \A e \in Ends : Way(e, offsets[e])
    BY <1>3
  <1> QED
    BY <1>1, <1>2, <1>4 DEF KcpInv

LEMMA KcpSteps == KcpInv /\ [Next]_vars => KcpInv'
  <1> SUFFICES ASSUME KcpInv, [Next]_vars PROVE KcpInv'
    OBVIOUS
  <1>1. KcpTyped
    BY DEF KcpInv
  <1>2. PICK offsets \in [Ends -> Seq(Nat)] : \A e \in Ends : Way(e, offsets[e])
    BY DEF KcpInv
  <1>3. ASSUME KcpTyped', \A e \in Ends : Way(e, offsets[e])' PROVE KcpInv'
    BY <1>2, <1>3 DEF KcpInv
  <1>4. ASSUME NEW e \in Ends, Send(e) PROVE KcpInv'
    <2>1. KcpTyped' /\ KeepsWay(Peer(e)) /\ sent'[e] = sent[e] + 1 /\ sent[e] \in Nat
      BY <1>1, <1>4, SendTyped
    <2>2. PICK new : new = Longer(e, offsets[e])
      OBVIOUS
    <2>3. Way(e, new)'
      BY <1>1, <1>2, <1>4, <2>2, SendWell
    <2>4. Way(Peer(e), offsets[Peer(e)])'
      BY <1>2, <2>1, Ways, WayKept
    <2>5. new \in Seq(Nat)
      BY <2>3 DEF Way, Offsets
    <2>6. PICK next \in [Ends -> Seq(Nat)] : next = [offsets EXCEPT ![e] = new]
      BY <1>2, <2>5
    <2>7. next[e] = new /\ next[Peer(e)] = offsets[Peer(e)]
      BY <1>2, <2>6, Ways
    <2>8. \A d \in Ends : Way(d, next[d])'
      BY <2>3, <2>4, <2>7, Ways
    <2> QED
      BY <2>1, <2>8 DEF KcpInv
  <1>5. ASSUME NEW e \in Ends, NEW resent \in SUBSET sndBuf[e], Update(e, resent) PROVE KcpInv'
    <2>1. PICK k \in Nat : Moves(e, k)
      BY <1>1, <1>5, UpdateIs
    <2>2. KcpTyped' /\ KeepsWay(Peer(e))
      BY <1>1, <2>1, UpdateTyped
    <2>3. Way(e, offsets[e])'
      BY <1>1, <1>2, <2>1, UpdateWell
    <2>4. Way(Peer(e), offsets[Peer(e)])'
      BY <1>2, <2>2, Ways, WayKept
    <2> QED
      BY <1>3, <2>2, <2>3, <2>4, Ways
  <1>6. ASSUME NEW e \in Ends, NEW p \in net, NEW again \in BOOLEAN, Input(e, p, again) PROVE KcpInv'
    <2>1. KcpTyped' /\ Way(Peer(e), offsets[Peer(e)])' /\ KeepsWay(e)
      <3>1. Way(Peer(e), offsets[Peer(e)])
        BY <1>2, Ways
      <3> QED
        BY <1>1, <1>6, <3>1, InputWell
    <2>2. Way(e, offsets[e])'
      BY <1>2, <2>1, WayKept
    <2> QED
      BY <1>3, <2>1, <2>2, Ways
  <1>7. ASSUME NEW p \in net, Lose(p) PROVE KcpInv'
    <2>1. KcpTyped' /\ \A d \in Ends : KeepsWay(d)
      <3>1. Client \in Ends
        BY DEF Ends
      <3>2. ASSUME NEW d \in Ends PROVE KcpTyped' /\ KeepsWay(d)
        BY <1>1, <1>7, LoseWell
      <3> QED
        BY <3>1, <3>2
    <2>2. \A d \in Ends : Way(d, offsets[d])'
      BY <1>2, <2>1, WayKept
    <2> QED
      BY <1>3, <2>1, <2>2
  <1>8. ASSUME UNCHANGED vars PROVE KcpInv'
    <2>1. KcpTyped' /\ \A d \in Ends : KeepsWay(d)
      BY <1>1, <1>8 DEF vars, sndVars, wndVars, rcvVars, KcpTyped, KeepsWay
    <2>2. \A d \in Ends : Way(d, offsets[d])'
      BY <1>2, <2>1, WayKept
    <2> QED
      BY <1>3, <2>1, <2>2
  <1> QED
    BY <1>4, <1>5, <1>6, <1>7, <1>8 DEF Next

LEMMA KcpHolds == Spec => []KcpInv
  BY KcpStarts, KcpSteps, PTL DEF Spec

(* Whatever the network loses, repeats or delays, and whatever the header   *)
(* of a probe holds, each buffer that onRead is given has the size of one   *)
(* message and no payload of another, in the order the messages were sent.  *)
THEOREM InOrder == Spec => []MessagesInOrder
  <1>1. KcpInv => MessagesInOrder
    <2> SUFFICES ASSUME KcpInv PROVE MessagesInOrder
      OBVIOUS
    <2>1. PICK offsets \in [Ends -> Seq(Nat)] : \A e \in Ends : Way(e, offsets[e])
      BY DEF KcpInv
    <2>2. ASSUME NEW e \in Ends
          PROVE  /\ \A m \in 1 .. Len(read[e]) : StandsFor(read[e][m], Peer(e), m)
                 /\ \A i \in 1 .. Len(rcvQueue[e]) : rcvQueue[e][i].data = <<Len(read[e]) + 1, i>>
      <3>1. Peer(e) \in Ends /\ Peer(Peer(e)) = e
        BY Ways
      <3>2. Reading(e, offsets[Peer(e)]) /\ AsSent(e)
        BY <2>1, <3>1 DEF Way
      <3> QED
        BY <3>2 DEF Reading, AsSent
    <2> QED
      BY <2>2 DEF MessagesInOrder, StandsFor
  <1> QED
    BY <1>1, KcpHolds, PTL

-----------------------------------------------------------------------------
(* The sender's copy.                                                       *)
LEMMA TruthStays ==
  ASSUME NEW e \in Ends, KcpTyped, KcpTyped', Truthful(e), HasMore(e),
         \A p \in net' : p.to = Peer(e) => \/ p \in net
                                         \/ /\ p.una <= rcvNxt'[e]
                                            /\ p.cmd = "ack" => Got(e, p.body)'
  PROVE  Truthful(e)'
  <1>1. /\ rcvNxt[e] \in Nat /\ rcvNxt'[e] \in Nat /\ rcvNxt'[e] >= rcvNxt[e] /\ acks[e] \subseteq Nat
        /\ \A p \in net : p.una \in Nat /\ (p.cmd = "ack" => p.body \in Nat)
        /\ \A sn \in Nat : Got(e, sn) => Got(e, sn)'
        /\ \A sn \in acks'[e] : sn \in acks[e] \/ Got(e, sn)'
    BY DEF KcpTyped, HasMore
  <1>2. \A sn \in acks'[e] : Got(e, sn)'
    BY <1>1 DEF Truthful
  <1>3. ASSUME NEW p \in net', p.to = Peer(e)
        PROVE  p.una <= rcvNxt'[e] /\ (p.cmd = "ack" => Got(e, p.body)')
    <2>1. CASE p \in net
      <3>1. p.una <= rcvNxt[e] /\ (p.cmd = "ack" => Got(e, p.body))
        BY <1>3, <2>1 DEF Truthful
      <3> QED
        BY <1>1, <2>1, <3>1
    <2> QED
      BY <1>3, <2>1
  <1> QED
    BY <1>2, <1>3 DEF Truthful, Got

LEMMA CopyStays ==
  ASSUME NEW e \in Ends, KcpTyped, KcpTyped', Kept(e),
         \A sn \in Nat : Got(Peer(e), sn) => Got(Peer(e), sn)',
         \A sn \in 0 .. sndNxt'[e] - 1 : sn < sndNxt[e] \/ sn \in Sns(sndBuf'[e]),
         \A sn \in Nat : sn \in Sns(sndBuf[e]) => sn \in Sns(sndBuf'[e]) \/ Got(Peer(e), sn)'
  PROVE  Kept(e)'
  <1>1. sndNxt[e] \in Nat /\ sndNxt'[e] \in Nat
    BY DEF KcpTyped
  <1>2. ASSUME NEW sn \in 0 .. sndNxt'[e] - 1 PROVE sn \in Sns(sndBuf'[e]) \/ Got(Peer(e), sn)'
    <2>1. CASE sn < sndNxt[e]
      <3>1. sn \in 0 .. sndNxt[e] - 1 /\ sn \in Nat
        BY <1>1, <2>1
      <3>2. sn \in Sns(sndBuf[e]) \/ Got(Peer(e), sn)
        BY <3>1 DEF Kept
      <3> QED
        BY <3>1, <3>2
    <2> QED
      BY <1>2, <2>1
  <1> QED
    BY <1>2 DEF Kept, Got, Sns

LEMMA KeepSteps ==
  ASSUME Uninit \subseteq {0}
  PROVE  KcpInv /\ KcpInv' /\ KeepInv /\ [Next]_vars => KeepInv'
  <1> SUFFICES ASSUME KcpInv, KcpInv', KeepInv, [Next]_vars PROVE KeepInv'
    OBVIOUS
  <1>1. KcpTyped /\ KcpTyped' /\ \A d \in Ends : Kept(d) /\ Truthful(d)
    BY DEF KcpInv, KeepInv
  <1>2. PICK offsets \in [Ends -> Seq(Nat)] : \A d \in Ends : Way(d, offsets[d])
    BY DEF KcpInv
  <1>3. ASSUME net' \subseteq net, sndNxt' = sndNxt, sndBuf' = sndBuf, rcvNxt' = rcvNxt, rcvBuf' = rcvBuf,
               acks' = acks
        PROVE  KeepInv'
    <2>1. ASSUME NEW d \in Ends PROVE HasMore(d)
      BY <1>1, <1>3, SameHasMore
    <2>2. ASSUME NEW d \in Ends PROVE Truthful(d)'
      BY <1>1, <1>3, <2>1, TruthStays
    <2>3. ASSUME NEW d \in Ends PROVE Kept(d)'
      BY <1>1, <1>3 DEF Kept, Got, Sns
    <2> QED
      BY <2>2, <2>3 DEF KeepInv
  <1>4. ASSUME NEW e \in Ends, Send(e) PROVE KeepInv'
    BY <1>3, <1>4 DEF Send, wndVars, rcvVars
  <1>5. ASSUME NEW e \in Ends, NEW resent \in SUBSET sndBuf[e], Update(e, resent) PROVE KeepInv'
    <2>1. PICK k \in Nat : Moves(e, k)
      BY <1>1, <1>5, UpdateIs
    <2>2. /\ rcvNxt' = rcvNxt /\ rcvBuf' = rcvBuf /\ acks' = [acks EXCEPT ![e] = {}]
          /\ sndNxt' = [sndNxt EXCEPT ![e] = @ + k]
          /\ sndBuf' = [sndBuf EXCEPT ![e] = @ \cup Numbered(e, k)]
          /\ \A p \in net' : p \in net \/ Sends(e, p)
      BY <2>1 DEF Moves
    <2>3. \A d \in Ends : acks'[d] \subseteq acks[d]
      BY <1>1, <2>2 DEF KcpTyped
    <2>4. ASSUME NEW d \in Ends PROVE HasMore(d)
      BY <1>1, <2>2, <2>3, SameHasMore
    <2>5. ASSUME NEW p, Sends(e, p)
          PROVE  p.to = Peer(e) /\ p.una <= rcvNxt'[e] /\ (p.cmd = "ack" => Got(e, p.body)')
      <3>1. rcvNxt[e] \in Nat /\ rcvNxt'[e] = rcvNxt[e] /\ \A sn \in acks[e] : Got(e, sn)'
        BY <1>1, <2>2 DEF Truthful, Got, KcpTyped
      <3>2. CASE \E sn \in acks[e] : p = Stamped(e, "ack", sn)
        BY <3>1, <3>2 DEF Stamped, Packet
      <3>3. CASE \E seg \in sndBuf'[e] : p = Stamped(e, "push", seg)
        BY <3>1, <3>3 DEF Stamped, Packet
      <3>4. CASE \E cmd \in {"ask", "tell"}, wnd \in Uninit, head \in Uninit :
                   p = Packet(e, cmd, 0, wnd, head)
        <4>1. p.to = Peer(e) /\ p.una = 0 /\ p.cmd # "ack"
          BY <3>4 DEF Packet
        <4> QED
          BY <3>1, <4>1
      <3> QED
        BY <2>5, <3>2, <3>3, <3>4 DEF Sends
    <2>6. ASSUME NEW d \in Ends PROVE Truthful(d)'
      <3>1. \A p \in net' : p.to = Peer(d) => \/ p \in net
                                             \/ /\ p.una <= rcvNxt'[d]
                                                /\ p.cmd = "ack" => Got(d, p.body)'
        BY <2>2, <2>5, Ways
      <3> QED
        BY <1>1, <2>4, <3>1, TruthStays
    <2>7. Kept(e)'
      <3>1. sndNxt[e] \in Nat /\ sndNxt'[e] = sndNxt[e] + k
            /\ sndBuf'[e] = sndBuf[e] \cup Numbered(e, k)
        BY <1>1, <2>2 DEF KcpTyped
      <3>2. ASSUME NEW sn \in 0 .. sndNxt'[e] - 1, ~(sn < sndNxt[e]) PROVE sn \in Sns(sndBuf'[e])
        <4>1. PICK i \in 1 .. k : sn = sndNxt[e] + i - 1
          <5>1. sn - sndNxt[e] + 1 \in 1 .. k /\ sn = sndNxt[e] + (sn - sndNxt[e] + 1) - 1
            BY <3>1, <3>2
          <5> QED
            BY <5>1
        <4>2. PICK seg \in Numbered(e, k) : seg.sn = sn
          <5>1. [sn |-> sndNxt[e] + i - 1, frg |-> sndQueue[e][i].frg, data |-> sndQueue[e][i].data]
                  \in Numbered(e, k)
            BY <4>1 DEF Numbered
          <5> QED
            BY <4>1, <5>1
        <4> QED
          BY <3>1, <4>2 DEF Sns
      <3>3. \A sn \in Nat : sn \in Sns(sndBuf[e]) => sn \in Sns(sndBuf'[e])
        BY <3>1 DEF Sns
      <3>4. \A sn \in Nat : Got(Peer(e), sn) => Got(Peer(e), sn)'
        BY <2>2 DEF Got
      <3> QED
        BY <1>1, <3>2, <3>3, <3>4, CopyStays
    <2>8. Kept(Peer(e))'
      <3>1. sndNxt'[Peer(e)] = sndNxt[Peer(e)] /\ sndBuf'[Peer(e)] = sndBuf[Peer(e)]
        BY <1>1, <2>2, Ways DEF KcpTyped
      <3> QED
        BY <1>1, <2>2, <3>1, Ways DEF Kept, Got, Sns
    <2> QED
      BY <2>6, <2>7, <2>8, Ways DEF KeepInv
  <1>6. ASSUME NEW e \in Ends, NEW p \in net, NEW again \in BOOLEAN, Input(e, p, again) PROVE KeepInv'
    <2>1. KeepsWay(e) /\ HasMore(e)
      <3>1. Way(Peer(e), offsets[Peer(e)])
        BY <1>2, Ways
      <3> QED
        BY <1>1, <1>6, <3>1, InputWell
    <2>2. p.to = e /\ net' \subseteq net /\ Acknowledge(e, p) /\ sndNxt' = sndNxt
      BY <1>6 DEF Input
    <2>3. /\ sndBuf'[e] \subseteq sndBuf[e] /\ sndBuf'[Peer(e)] = sndBuf[Peer(e)]
          /\ \A seg \in sndBuf[e] : seg \in sndBuf'[e] \/ seg.sn < p.una
                                  \/ (p.cmd = "ack" /\ seg.sn = p.body)
      BY <1>1, <2>2, AcknowledgeTyped
    <2>4. /\ rcvNxt'[Peer(e)] = rcvNxt[Peer(e)] /\ rcvBuf'[Peer(e)] = rcvBuf[Peer(e)]
          /\ acks'[Peer(e)] = acks[Peer(e)]
      <3>1. CASE p.cmd # "push"
        BY <1>6, <3>1 DEF Input, rcvVars
      <3>2. CASE p.cmd = "push"
        <4>1. HandleCmdPush(e, p.body)
          BY <1>6, <3>2 DEF Input
        <4>2. p.body \in Segments
          BY <1>1, <3>2 DEF KcpTyped
        <4>3. PICK buf : Takes(e, p.body, buf)
          BY <1>1, <4>1, <4>2, PushTakes
        <4> QED
          BY <1>1, <4>3, Ways DEF Takes, KcpTyped
      <3> QED
        BY <3>1, <3>2
    <2>5. HasMore(Peer(e))
      BY <1>1, <2>4, Ways, SameHasMore
    <2>6. ASSUME NEW d \in Ends PROVE Truthful(d)'
      <3>1. Truthful(d) /\ HasMore(d)
        BY <1>1, <2>1, <2>5, Ways
      <3>2. \A x \in net' : x \in net
        BY <2>2
      <3> QED
        BY <1>1, <3>1, <3>2, TruthStays
    <2>7. Kept(e)'
      <3>1. p.una <= rcvNxt[Peer(e)] /\ (p.cmd = "ack" => Got(Peer(e), p.body))
        BY <1>1, <2>2, Ways DEF Truthful
      <3>2. p.una \in Nat /\ rcvNxt[Peer(e)] \in Nat /\ \A seg \in sndBuf[e] : seg.sn \in Nat
        <4>1. p.una \in Nat
          BY <1>1 DEF KcpTyped
        <4>2. rcvNxt[Peer(e)] \in Nat
          BY <1>1, Ways DEF KcpTyped
        <4>3. sndBuf[e] \subseteq Segments
          BY <1>1 DEF KcpTyped
        <4> QED
          BY <4>1, <4>2, <4>3 DEF Segments
      <3>3. \A sn \in Nat : Got(Peer(e), sn) => Got(Peer(e), sn)'
        BY <2>4 DEF Got
      <3>4. ASSUME NEW sn \in Nat, sn \in Sns(sndBuf[e]) PROVE sn \in Sns(sndBuf'[e]) \/ Got(Peer(e), sn)'
        <4>1. PICK seg \in sndBuf[e] : seg.sn = sn
          BY <3>4 DEF Sns
        <4>2. CASE seg \in sndBuf'[e]
          BY <4>1, <4>2 DEF Sns
        <4>3. CASE seg.sn < p.una
          <5>1. sn < rcvNxt[Peer(e)]
            BY <3>1, <3>2, <4>1, <4>3
          <5> QED
            BY <3>3, <5>1 DEF Got
        <4>4. CASE p.cmd = "ack" /\ seg.sn = p.body
          BY <3>1, <3>3, <4>1, <4>4
        <4> QED
          BY <2>3, <4>2, <4>3, <4>4
      <3>5. \A sn \in 0 .. sndNxt'[e] - 1 : sn < sndNxt[e]
        <4>1. sndNxt[e] \in Nat /\ sndNxt'[e] = sndNxt[e]
          BY <1>1, <2>2 DEF KcpTyped
        <4> QED
          BY <4>1
      <3> QED
        BY <1>1, <3>3, <3>4, <3>5, CopyStays
    <2>8. Kept(Peer(e))'
      <3>1. \A sn \in Nat : Got(e, sn) => Got(e, sn)'
        BY <2>1 DEF HasMore
      <3>2. \A sn \in 0 .. sndNxt'[Peer(e)] - 1 : sn < sndNxt[Peer(e)]
        <4>1. sndNxt[Peer(e)] \in Nat /\ sndNxt'[Peer(e)] = sndNxt[Peer(e)]
          BY <1>1, <2>2, Ways DEF KcpTyped
        <4> QED
          BY <4>1
      <3>3. \A sn \in Nat : sn \in Sns(sndBuf[Peer(e)]) => sn \in Sns(sndBuf'[Peer(e)])
        BY <2>3
      <3> QED
        BY <1>1, <3>1, <3>2, <3>3, Ways, CopyStays
    <2> QED
      BY <2>6, <2>7, <2>8, Ways DEF KeepInv
  <1>7. ASSUME NEW p \in net, Lose(p) PROVE KeepInv'
    BY <1>3, <1>7 DEF Lose, sndVars, rcvVars
  <1>8. ASSUME UNCHANGED vars PROVE KeepInv'
    BY <1>3, <1>8 DEF vars, sndVars, rcvVars
  <1> QED
    BY <1>4, <1>5, <1>6, <1>7, <1>8 DEF Next

(* When a probe's header holds nothing or zeros, the sender drops only what *)
(* its peer has, though acknowledgements are lost, repeated and overtaken.  *)
THEOREM NothingDropped == Uninit \subseteq {0} => (Spec => []OnlyReceivedDropped)
  <1> SUFFICES ASSUME Uninit \subseteq {0} PROVE Spec => []OnlyReceivedDropped
    OBVIOUS
  <1>1. Init => KeepInv
    <2> SUFFICES ASSUME Init PROVE KeepInv
      OBVIOUS
    <2>1. ASSUME NEW e \in Ends PROVE Kept(e) /\ Truthful(e)
      BY DEF Init, Kept, Truthful
    <2> QED
      BY <2>1 DEF KeepInv
  <1>2. KcpInv /\ KcpInv' /\ KeepInv /\ [Next]_vars => KeepInv'
    BY KeepSteps
  <1>3. KeepInv => OnlyReceivedDropped
    BY DEF KeepInv, Kept, Got, OnlyReceivedDropped
  <1>4. Spec => []KcpInv
    BY KcpHolds
  <1> QED
    BY <1>1, <1>2, <1>3, <1>4, PTL DEF Spec

-----------------------------------------------------------------------------
(* KcpPacing.  Every segment of _snd_buf was sent, resendts is the instant  *)
(* it is due on a clock that wraps, and a time-out is at least one tick.    *)
PacedSegs == [xmit : Nat, rto : Nat, resendts : Nat, due : Nat, fastack : Nat, ts : Nat]
SentSeg(seg) == seg.xmit >= 1 /\ seg.rto >= 1 /\ seg.resendts = seg.due % TimeSpan

PaceTyped ==
  /\ settings \in Settings /\ time \in Nat /\ start \in Starts /\ time <= start + MaxTicks
  /\ unsent \in Nat /\ una \in Nat /\ nxt \in Nat
  /\ DOMAIN segs \subseteq 0 .. nxt - 1 /\ segs \in [DOMAIN segs -> PacedSegs]
  /\ srtt \in Nat /\ rttval \in Nat /\ rto \in Nat /\ ssthresh \in Nat /\ rmt \in Nat
  /\ updated \in BOOLEAN
SegsInv == \A sn \in DOMAIN segs : SentSeg(segs[sn]) /\ (updated => segs[sn].due > time)
WindowIs(c, i) == c \in Nat /\ i \in Nat /\ c >= 1 /\ (c - 1) * Mss <= i /\ i < (c + 1) * Mss
RtoIs(r) == MinRto <= r /\ r <= Greater(DefRto, MaxRto)
PaceInv == PaceTyped /\ SegsInv /\ WindowIs(cwnd, incr) /\ RtoIs(rto)

(* The clock does not wrap while a conversation lasts.                      *)
NoWrap == \A s \in Starts : s + MaxTicks < TimeSpan

LEMMA GreaterIs ==
  ASSUME NEW m \in Nat, NEW n \in Nat
  PROVE  Greater(m, n) \in Nat /\ Greater(m, n) >= m /\ Greater(m, n) >= n
         /\ Lesser(m, n) \in Nat /\ Lesser(m, n) <= m /\ Lesser(m, n) <= n
         /\ (Greater(m, n) = m \/ Greater(m, n) = n) /\ (Lesser(m, n) = m \/ Lesser(m, n) = n)
  BY DEF Greater, Lesser

LEMMA PacingConstants ==
  ASSUME PacingAssumption
  PROVE  /\ TimeSpan \in Nat /\ TimeSpan >= 1 /\ Mss \in Nat /\ Mss >= 1
         /\ SndWndSize \in Nat /\ Interval \in Nat /\ MinRto \in Nat /\ DefRto \in Nat /\ MaxRto \in Nat
         /\ ThreshMin \in Nat /\ MaxTicks \in Nat
         /\ 1 <= MinRto /\ MinRto <= DefRto /\ MinRto <= MaxRto
  BY DEF PacingAssumption

LEMMA PaceInit_Inv == PacingAssumption /\ PaceInit => PaceInv
<1> SUFFICES ASSUME PacingAssumption, PaceInit PROVE PaceInv
  OBVIOUS
<1>1. DOMAIN segs = {}
  BY DEF PaceInit
<1>2. WindowIs(1, 0)
  BY DEF WindowIs, PacingAssumption
<1>3. RtoIs(DefRto)
  BY GreaterIs DEF RtoIs, PacingAssumption
<1>4. segs \in [DOMAIN segs -> PacedSegs]
  BY <1>1 DEF PaceInit
<1>5. settings \in Settings /\ time \in Nat /\ start \in Starts /\ time <= start + MaxTicks
  BY DEF PaceInit, PacingAssumption
<1>6. PaceTyped
  BY <1>1, <1>4, <1>5 DEF PaceInit, PaceTyped, PacingAssumption
<1> QED
  BY <1>1, <1>2, <1>3, <1>6 DEF PaceInit, PaceInv, SegsInv

LEMMA TickKeeps == PacingAssumption /\ PaceInv /\ Tick => PaceInv'
<1> SUFFICES ASSUME PacingAssumption, PaceInv, Tick PROVE PaceInv'
  OBVIOUS
<1>1. time' \in Nat /\ time' <= start + MaxTicks /\ start \in Nat
  BY DEF Tick, PaceInv, PaceTyped, PacingAssumption
<1>2. PaceTyped'
  BY <1>1 DEF Tick, PaceInv, PaceTyped, rttVars, cwndVars
<1> QED
  BY <1>2 DEF Tick, PaceInv, SegsInv, rttVars, cwndVars

LEMMA EnqueueKeeps == PacingAssumption /\ PaceInv /\ Enqueue => PaceInv'
<1> SUFFICES ASSUME PacingAssumption, PaceInv, Enqueue PROVE PaceInv'
  OBVIOUS
<1>1. unsent' \in Nat /\ updated' = FALSE
  BY DEF Enqueue, PaceInv, PaceTyped
<1>2. UNCHANGED <<settings, start, time, segs, una, nxt, srtt, rttval, rto, cwnd, incr, ssthresh, rmt>>
  BY DEF Enqueue, rttVars, cwndVars
<1>3. PaceTyped'
  BY <1>1, <1>2 DEF PaceInv, PaceTyped
<1> QED
  BY <1>1, <1>2, <1>3 DEF PaceInv, SegsInv

(* A segment that was sent now is due later.                                *)
LEMMA SentNowIs ==
  ASSUME PacingAssumption, time \in Nat, NEW seg \in PacedSegs, NEW r \in Nat, r >= 1, NEW wait \in Nat, wait >= 1
  PROVE  LET s == SentNow(seg, r, wait)
         IN s \in PacedSegs /\ SentSeg(s) /\ s.due > time
<1> DEFINE s == SentNow(seg, r, wait)
<1>1. Clock(time + wait) \in Nat /\ Clock(time) \in Nat /\ time + wait \in Nat /\ seg.xmit + 1 \in Nat
      /\ seg.fastack \in Nat
  BY DEF Clock, PacingAssumption, PacedSegs
<1>2. /\ s.xmit = seg.xmit + 1 /\ s.rto = r /\ s.resendts = Clock(time + wait) /\ s.due = time + wait
      /\ s.ts = Clock(time) /\ s.fastack = seg.fastack
  BY DEF SentNow, PacedSegs
<1>3. s = [xmit |-> seg.xmit + 1, rto |-> r, resendts |-> Clock(time + wait), due |-> time + wait,
           fastack |-> seg.fastack, ts |-> Clock(time)]
  BY DEF SentNow
<1>4. s \in PacedSegs
  BY <1>1, <1>3 DEF PacedSegs
<1>5. seg.xmit \in Nat
  BY DEF PacedSegs
<1> HIDE DEF s
<1>6. SentSeg(s) /\ s.due > time
  BY <1>2, <1>5 DEF SentSeg, Clock
<1> QED
  BY <1>4, <1>6 DEF s

LEMMA FreshIs == Fresh \in PacedSegs /\ Fresh.xmit = 0
  BY DEF Fresh, PacedSegs

(* A segment that is not due is left as it is.                              *)
LEMMA TransmittedIs ==
  ASSUME PacingAssumption, NoWrap, PaceInv, NEW seg \in PacedSegs, seg.xmit = 0 \/ SentSeg(seg)
  PROVE  Transmitted(seg) \in PacedSegs /\ SentSeg(Transmitted(seg)) /\ Transmitted(seg).due > time
<1>1. time \in Nat /\ time < TimeSpan /\ rto \in Nat /\ rto >= 1 /\ TimeSpan \in Nat
      /\ seg.xmit \in Nat /\ seg.rto \in Nat /\ seg.due \in Nat /\ seg.resendts \in Nat /\ settings \in Settings
  BY DEF PaceInv, PaceTyped, NoWrap, PacingAssumption, RtoIs, PacedSegs
<1>2. CASE seg.xmit = 0
  <2>1. PICK wait \in Nat : wait = (rto + IF settings.mode = "normal" THEN rto \div 8 ELSE 0) /\ wait >= 1
    BY <1>1
  <2>2. Transmitted(seg) = SentNow(seg, rto, wait)
    BY <1>2, <2>1 DEF Transmitted
  <2> QED
    BY <1>1, <2>1, <2>2, SentNowIs
<1>3. CASE seg.xmit # 0 /\ TimedOut(seg)
  <2>1. PICK r \in Nat : r = Backoff(seg) /\ r >= 1
    <3>1. SentSeg(seg)
      BY <1>3
    <3>2. seg.rto >= 1
      BY <3>1 DEF SentSeg
    <3>3. Greater(seg.rto, rto) \in Nat
      BY <1>1, GreaterIs
    <3>4. rto \div 2 \in Nat
      BY <1>1
    <3> QED
      BY <1>1, <3>2, <3>3, <3>4 DEF Backoff
  <2>2. Transmitted(seg) = SentNow(seg, r, seg.rto)
    BY <1>3, <2>1 DEF Transmitted
  <2>3. seg.rto >= 1
    BY <1>3 DEF SentSeg
  <2> QED
    BY <1>1, <2>1, <2>2, <2>3, SentNowIs
<1>4. CASE seg.xmit # 0 /\ ~TimedOut(seg) /\ ResentFast(seg)
  <2>1. PICK s : s = SentNow(seg, seg.rto, seg.rto)
    OBVIOUS
  <2>0. seg.rto >= 1
    BY <1>4 DEF SentSeg
  <2>2. s \in PacedSegs /\ SentSeg(s) /\ s.due > time
    BY <1>1, <2>0, <2>1, SentNowIs
  <2>3. PICK z : z = [s EXCEPT !.fastack = 0]
    OBVIOUS
  <2>4. z \in PacedSegs /\ z.xmit = s.xmit /\ z.rto = s.rto /\ z.resendts = s.resendts /\ z.due = s.due
    BY ONLY <2>2, <2>3 DEF PacedSegs
  <2>5. Transmitted(seg) = z
    BY <1>4, <2>1, <2>3 DEF Transmitted
  <2> QED
    BY <2>2, <2>4, <2>5 DEF SentSeg
<1>5. CASE seg.xmit # 0 /\ ~TimedOut(seg) /\ ~ResentFast(seg)
  <2>1. Transmitted(seg) = seg /\ SentSeg(seg)
    BY <1>5 DEF Transmitted
  <2>2. ~(Clock(time) >= seg.resendts) /\ Clock(time) = time
    BY <1>1, <1>5 DEF TimedOut, Clock
  <2>3. CASE seg.due < TimeSpan
    <3>1. seg.resendts = seg.due
      BY <1>1, <2>1, <2>3 DEF SentSeg
    <3> QED
      BY <1>1, <2>1, <2>2, <3>1
  <2>4. CASE seg.due >= TimeSpan
    BY <1>1, <2>1, <2>4
  <2> QED
    BY <1>1, <2>3, <2>4
<1> QED
  BY <1>2, <1>3, <1>4, <1>5

LEMMA TimesIs ==
  ASSUME NEW c \in Nat, NEW m \in Nat
  PROVE  c * m \in Nat /\ (c - 1) * m = c * m - m /\ (c + 1) * m = c * m + m
  OBVIOUS

(* What sendSendQueue leaves of the window.                                 *)
LEMMA DecreaseCwndIs ==
  ASSUME PacingAssumption, PaceInv, nxt' \in Nat, NEW change \in BOOLEAN, NEW lost \in BOOLEAN,
         change => settings.fastresend > 0, DecreaseCwnd(change, lost)
  PROVE  ssthresh' \in Nat /\ WindowIs(cwnd', incr')
<1>1. Mss \in Nat /\ Mss >= 1 /\ ThreshMin \in Nat /\ settings.fastresend \in Nat
  BY PacingConstants DEF PaceInv, PaceTyped, PacingAssumption
<1>2. cwnd \in Nat /\ incr \in Nat /\ cwnd >= 1 /\ ssthresh \in Nat /\ una \in Nat
  BY DEF PaceInv, PaceTyped, WindowIs
<1>3. \A n \in Int : Greater(n, ThreshMin) \in Nat
  BY <1>1 DEF Greater
<1>4. Window \in Int
  BY <1>2, PacingConstants DEF Window, Lesser, PaceInv, PaceTyped
<1>5. Window \div 2 \in Int /\ (nxt' - una) \div 2 \in Int
  BY <1>2, <1>4
<1>6. ssthresh' \in Nat
  BY <1>2, <1>3, <1>5 DEF DecreaseCwnd
<1>7. CASE lost
  <2>1. cwnd' = 1 /\ incr' = 1 * Mss
    BY <1>7 DEF DecreaseCwnd
  <2> QED
    BY <1>1, <1>6, <2>1 DEF WindowIs
<1>8. CASE ~lost /\ change
  <2>1. cwnd' = ssthresh' + settings.fastresend /\ incr' = cwnd' * Mss
    BY <1>8 DEF DecreaseCwnd
  <2>2. PICK c : c = cwnd'
    OBVIOUS
  <2>3. PICK i : i = incr'
    OBVIOUS
  <2>4. c \in Nat /\ c >= 1 /\ i = c * Mss
    BY <1>1, <1>6, <1>8, <2>1, <2>2, <2>3
  <2>5. WindowIs(c, i)
    BY <1>1, <2>4, TimesIs DEF WindowIs
  <2> QED
    BY <1>6, <2>2, <2>3, <2>5
<1>9. CASE ~lost /\ ~change
  <2>1. cwnd' = cwnd /\ incr' = incr
    BY <1>2, <1>9 DEF DecreaseCwnd, Greater
  <2> QED
    BY <1>6, <2>1 DEF PaceInv, WindowIs
<1> QED
  BY <1>7, <1>8, <1>9

(* All that is under way, and what is sent for the first time.              *)
LEMMA SendSendQueueKeeps == PacingAssumption /\ NoWrap /\ PaceInv /\ SendSendQueue => PaceInv'
<1> SUFFICES ASSUME PacingAssumption, NoWrap, PaceInv, SendSendQueue PROVE PaceInv'
  OBVIOUS
<1> DEFINE room == una + Greater(1, Window) - nxt
           k == IF room <= 0 THEN 0 ELSE Lesser(unsent, room)
           all == [sn \in DOMAIN segs \cup nxt .. nxt + k - 1 |->
                     IF sn < nxt THEN segs[sn] ELSE Fresh]
           change == \E sn \in DOMAIN all : ResentFast(all[sn])
           lost == \E sn \in DOMAIN all : TimedOut(all[sn])
<1>1. /\ unsent' = unsent - k /\ nxt' = nxt + k
      /\ segs' = [sn \in DOMAIN all |-> Transmitted(all[sn])]
      /\ DecreaseCwnd(change, lost)
      /\ updated' = TRUE
      /\ UNCHANGED <<settings, start, time, una, srtt, rttval, rto, rmt>>
  BY DEF SendSendQueue, rttVars
<1>2. una \in Nat /\ nxt \in Nat /\ unsent \in Nat /\ cwnd \in Nat /\ rmt \in Nat
      /\ DOMAIN segs \subseteq 0 .. nxt - 1 /\ segs \in [DOMAIN segs -> PacedSegs]
  BY DEF PaceInv, PaceTyped, WindowIs
<1>3. room \in Int
  <2>1. Window \in Int
    BY <1>2, PacingConstants DEF Window, Lesser
  <2>2. Greater(1, Window) \in Int
    BY <2>1 DEF Greater
  <2> QED
    BY <1>2, <2>2
<1> HIDE DEF room
<1>4. k \in Nat /\ k <= unsent
  BY <1>2, <1>3 DEF Lesser
<1> HIDE DEF k
<1>5. DOMAIN all \subseteq 0 .. nxt + k - 1
  BY <1>2, <1>4
<1>6. ASSUME NEW sn \in DOMAIN all
      PROVE  all[sn] \in PacedSegs /\ (all[sn].xmit = 0 \/ SentSeg(all[sn]))
  <2>1. CASE sn < nxt
    <3>1. sn \in DOMAIN segs /\ all[sn] = segs[sn]
      BY <1>2, <1>4, <2>1
    <3> QED
      BY <1>2, <3>1 DEF PaceInv, SegsInv
  <2>2. CASE ~(sn < nxt)
    <3>1. all[sn] = Fresh
      BY <2>2
    <3> QED
      BY <3>1, FreshIs
  <2> QED
    BY <2>1, <2>2
<1>7. change => settings.fastresend > 0
  BY DEF ResentFast
<1>8. change \in BOOLEAN /\ lost \in BOOLEAN
  OBVIOUS
<1> HIDE DEF all, change, lost
<1>9. unsent' \in Nat /\ nxt' \in Nat
  BY <1>1, <1>2, <1>4
<1>10. ssthresh' \in Nat /\ WindowIs(cwnd', incr')
  BY <1>1, <1>7, <1>8, <1>9, DecreaseCwndIs
<1>11. DOMAIN segs' = DOMAIN all /\ DOMAIN segs' \subseteq 0 .. nxt' - 1
  <2>1. DOMAIN segs' = DOMAIN all
    BY <1>1
  <2>2. nxt' - 1 = nxt + k - 1
    BY <1>1, <1>2, <1>4
  <2> QED
    BY <1>5, <2>1, <2>2
<1>12. ASSUME NEW sn \in DOMAIN segs'
       PROVE  segs'[sn] \in PacedSegs /\ SentSeg(segs'[sn]) /\ segs'[sn].due > time
  <2>1. segs'[sn] = Transmitted(all[sn])
    BY <1>1, <1>11
  <2>2. all[sn] \in PacedSegs /\ (all[sn].xmit = 0 \/ SentSeg(all[sn]))
    BY <1>6, <1>11
  <2> QED
    BY <2>1, <2>2, TransmittedIs
<1>13. segs' \in [DOMAIN segs' -> PacedSegs]
  BY <1>1, <1>11, <1>12
<1>14. SegsInv'
  BY <1>1, <1>12 DEF SegsInv
<1>15. PaceTyped'
  BY <1>1, <1>9, <1>10, <1>11, <1>13 DEF PaceInv, PaceTyped
<1>16. RtoIs(rto')
  BY <1>1 DEF PaceInv
<1> QED
  BY <1>10, <1>14, <1>15, <1>16 DEF PaceInv

(* What one acknowledgement leaves of the estimate of the round trip.       *)
Estimate(e) == e.srtt \in Nat /\ e.rttval \in Nat

LEMMA UpdateRttIs ==
  ASSUME PacingAssumption, NEW e, Estimate(e), NEW rtt \in Nat
  PROVE  LET u == UpdateRtt(e, rtt) IN Estimate(u) /\ u.rto \in Nat /\ RtoIs(u.rto)
<1> DEFINE delta == IF rtt >= e.srtt THEN rtt - e.srtt ELSE e.srtt - rtt
           new == IF e.srtt = 0 THEN [srtt |-> rtt, rttval |-> rtt \div 2]
                  ELSE [rttval |-> (3 * e.rttval + delta) \div 4,
                        srtt |-> Greater(1, (7 * e.srtt + rtt) \div 8)]
           u == UpdateRtt(e, rtt)
<1>1. delta \in Nat
  BY DEF Estimate
<1> HIDE DEF delta
<1>2. new.srtt \in Nat /\ new.rttval \in Nat
  <2>1. CASE e.srtt = 0
    BY <2>1
  <2>2. CASE e.srtt # 0
    <3>1. (3 * e.rttval + delta) \div 4 \in Nat /\ (7 * e.srtt + rtt) \div 8 \in Nat
      BY <1>1 DEF Estimate
    <3>2. new.rttval = (3 * e.rttval + delta) \div 4 /\ new.srtt = Greater(1, (7 * e.srtt + rtt) \div 8)
      BY <2>2
    <3> QED
      BY <3>1, <3>2, GreaterIs
  <2> QED
    BY <2>1, <2>2
<1>3. u.srtt = new.srtt /\ u.rttval = new.rttval
      /\ u.rto = Lesser(Greater(MinRto, new.srtt + Greater(Interval, 4 * new.rttval)), MaxRto)
  BY DEF UpdateRtt, delta
<1> HIDE DEF new, u
<1>4. PICK m : m = new.srtt + Greater(Interval, 4 * new.rttval)
  OBVIOUS
<1>5. m \in Nat
  BY <1>2, <1>4, PacingConstants DEF Greater
<1>6. u.rto \in Nat /\ RtoIs(u.rto)
  BY <1>3, <1>4, <1>5, PacingConstants DEF Greater, Lesser, RtoIs
<1> QED
  BY <1>2, <1>3, <1>6 DEF Estimate, u

(* The segments that stay, with what was counted for fast resending.        *)
LEMMA FastAckedIs ==
  ASSUME NEW all, all \in [DOMAIN all -> PacedSegs], \A sn \in DOMAIN all : SentSeg(all[sn]), NEW ack
  PROVE  LET f == FastAcked(all, ack)
         IN /\ DOMAIN f = DOMAIN all /\ f \in [DOMAIN f -> PacedSegs]
            /\ \A sn \in DOMAIN f : SentSeg(f[sn])
<1> DEFINE f == FastAcked(all, ack)
<1>1. CASE ack.sn < una' \/ ack.sn >= nxt
  BY <1>1 DEF FastAcked
<1>2. CASE ~(ack.sn < una' \/ ack.sn >= nxt)
  <2>1. f = [sn \in DOMAIN all |->
               IF sn < ack.sn /\ (~settings.conserve \/ ack.ts > all[sn].ts)
               THEN [all[sn] EXCEPT !.fastack = @ + 1] ELSE all[sn]]
    BY <1>2 DEF FastAcked
  <2> HIDE DEF f
  <2>2. DOMAIN f = DOMAIN all
    BY <2>1
  <2>3. ASSUME NEW sn \in DOMAIN f PROVE f[sn] \in PacedSegs /\ SentSeg(f[sn])
    <3>1. PICK s \in PacedSegs : s = all[sn] /\ SentSeg(s)
      BY <2>2
    <3>2. PICK z : z = [s EXCEPT !.fastack = s.fastack + 1]
      OBVIOUS
    <3>3. z \in PacedSegs /\ z.xmit = s.xmit /\ z.rto = s.rto /\ z.resendts = s.resendts /\ z.due = s.due
      BY ONLY <3>2, s \in PacedSegs DEF PacedSegs
    <3>4. SentSeg(z)
      BY <3>1, <3>3 DEF SentSeg
    <3>5. f[sn] = z \/ f[sn] = s
      BY <2>1, <2>2, <3>1, <3>2
    <3> QED
      BY <3>1, <3>3, <3>4, <3>5
  <2>4. f \in [DOMAIN f -> PacedSegs]
    BY <2>1, <2>2, <2>3
  <2> QED
    BY <2>2, <2>3, <2>4 DEF f
<1> QED
  BY <1>1, <1>2

(* The window grows by a segment, or to what the count of bytes makes.      *)
LEMMA IncreaseCwndIs ==
  ASSUME PacingAssumption, PaceInv, rmt' \in Nat, IncreaseCwnd
  PROVE  WindowIs(cwnd', incr')
<1> DEFINE slow == cwnd < ssthresh
           base == Greater(incr, Mss)
           grown == IF slow THEN incr + Mss ELSE base + (Mss * Mss) \div base + Mss \div 16
           wider == IF slow THEN cwnd + 1
                    ELSE IF (cwnd + 1) * Mss <= grown THEN (grown + Mss - 1) \div Mss ELSE cwnd
<1>1. Mss \in Nat /\ Mss >= 1
  BY PacingConstants
<1>2. cwnd \in Nat /\ incr \in Nat /\ cwnd >= 1 /\ ssthresh \in Nat
      /\ (cwnd - 1) * Mss <= incr /\ incr < (cwnd + 1) * Mss
  BY DEF PaceInv, PaceTyped, WindowIs
<1>3. CASE cwnd >= rmt'
  <2>1. cwnd' = cwnd /\ incr' = incr
    BY <1>3 DEF IncreaseCwnd
  <2> QED
    BY <2>1 DEF PaceInv, WindowIs
<1>4. CASE ~(cwnd >= rmt')
  <2>1. IF wider > rmt' THEN cwnd' = rmt' /\ incr' = rmt' * Mss ELSE cwnd' = wider /\ incr' = grown
    BY <1>4 DEF IncreaseCwnd
  <2>2. WindowIs(wider, grown)
    <3>1. CASE slow
      <4>1. wider = cwnd + 1 /\ grown = incr + Mss
        BY <3>1
      <4>2. cwnd * Mss \in Nat /\ (cwnd - 1) * Mss = cwnd * Mss - Mss /\ (cwnd + 1) * Mss = cwnd * Mss + Mss
        BY <1>1, <1>2, TimesIs
      <4>3. ((cwnd + 1) - 1) * Mss = cwnd * Mss /\ ((cwnd + 1) + 1) * Mss = cwnd * Mss + Mss + Mss
        BY <1>1, <1>2
      <4>4. WindowIs(cwnd + 1, incr + Mss)
        BY <1>1, <1>2, <4>2, <4>3 DEF WindowIs
      <4> QED
        BY <4>1, <4>4
    <3>2. CASE ~slow
      <4>0. incr \in Nat
        BY <1>2
      <4>1. base \in Nat /\ base >= 1 /\ base >= incr
        BY ONLY <1>1, <4>0 DEF Greater
      <4>2. grown = base + (Mss * Mss) \div base + Mss \div 16
        BY <3>2
      <4> HIDE DEF base
      <4>3. PICK square \in Nat : square = Mss * Mss
        BY <1>1
      <4>4. square \div base \in Nat /\ Mss \div 16 \in Nat
        BY <1>1, <4>1
      <4>5. grown \in Nat /\ grown >= incr
        BY <1>2, <4>1, <4>2, <4>3, <4>4
      <4>6. wider = IF (cwnd + 1) * Mss <= grown THEN (grown + Mss - 1) \div Mss ELSE cwnd
        BY <3>2
      <4> HIDE DEF grown
      <4>7. CASE (cwnd + 1) * Mss <= grown
        <5>1. PICK w : w = (grown + Mss - 1) \div Mss
          OBVIOUS
        <5>2. w \in Nat /\ w * Mss <= grown + Mss - 1 /\ grown + Mss - 1 < w * Mss + Mss
          BY <1>1, <4>5, <5>1
        <5>3. w * Mss \in Nat /\ (w - 1) * Mss = w * Mss - Mss /\ (w + 1) * Mss = w * Mss + Mss
          BY <1>1, <5>2, TimesIs
        <5>4. w >= 1
          <6>1. (cwnd + 1) * Mss = cwnd * Mss + Mss /\ cwnd * Mss \in Nat
            BY <1>1, <1>2, TimesIs
          <6>2. SUFFICES ASSUME w = 0 PROVE FALSE
            BY <5>2
          <6>3. w * Mss = 0
            BY <1>1, <6>2
          <6> QED
            BY <1>1, <4>5, <4>7, <5>2, <6>1, <6>3
        <5>5. WindowIs(w, grown)
          BY <1>1, <4>5, <5>2, <5>3, <5>4 DEF WindowIs
        <5> QED
          BY <4>6, <4>7, <5>1, <5>5
      <4>8. CASE ~((cwnd + 1) * Mss <= grown)
        <5>1. wider = cwnd
          BY <4>6, <4>8
        <5>2. (cwnd + 1) * Mss \in Nat /\ (cwnd - 1) * Mss \in Int
          BY <1>1, <1>2, TimesIs
        <5>3. WindowIs(cwnd, grown)
          BY <1>2, <4>5, <4>8, <5>2 DEF WindowIs
        <5> QED
          BY <5>1, <5>3
      <4> QED
        BY <4>7, <4>8
    <3> QED
      BY <3>1, <3>2
  <2> HIDE DEF wider, grown
  <2>3. CASE wider > rmt'
    <3>1. cwnd' = rmt' /\ incr' = rmt' * Mss
      BY <2>1, <2>3
    <3>2. PICK r : r = rmt' /\ r \in Nat /\ r >= 1
      BY <1>2, <1>4
    <3>3. PICK i : i = r * Mss
      OBVIOUS
    <3>4. i \in Nat /\ (r - 1) * Mss = i - Mss /\ (r + 1) * Mss = i + Mss
      BY ONLY <1>1, <3>2, <3>3, TimesIs
    <3>5. i - Mss <= i /\ i < i + Mss
      BY <1>1, <3>4
    <3>6. WindowIs(r, i)
      BY ONLY <3>2, <3>4, <3>5 DEF WindowIs
    <3> QED
      BY <3>1, <3>2, <3>3, <3>6
  <2>4. CASE ~(wider > rmt')
    BY <2>1, <2>2, <2>4
  <2> QED
    BY <2>3, <2>4
<1> QED
  BY <1>3, <1>4

LEMMA AckInputKeeps ==
  ASSUME PacingAssumption, PaceInv, NEW p \in Acks, NEW q \in Acks, NEW upTo, NEW wnd \in Windows,
         AckInput(p, q, upTo, wnd)
  PROVE  PaceInv'
<1> DEFINE Ack(a) == [sn |-> a.sn, ts |-> Clock(time - a.rtt)]
           left == [sn \in {s \in DOMAIN segs : s >= upTo /\ s # p.sn /\ s # q.sn} |-> segs[sn]]
           first == UpdateRtt([srtt |-> srtt, rttval |-> rttval], p.rtt)
           e == IF p = q THEN first ELSE UpdateRtt(first, q.rtt)
<1>1. /\ rmt' = wnd
      /\ una' = CHOOSE n \in DOMAIN left \cup {nxt} : \A m \in DOMAIN left : n <= m
      /\ srtt' = e.srtt /\ rttval' = e.rttval /\ rto' = e.rto
      /\ segs' = FastAcked(left, Latest(Ack(p), Ack(q)))
      /\ (IncreaseCwnd \/ UNCHANGED <<cwnd, incr>>)
      /\ updated' = FALSE
      /\ UNCHANGED <<settings, start, time, unsent, nxt, ssthresh>>
  BY DEF AckInput
<1>2. nxt \in Nat /\ DOMAIN segs \subseteq 0 .. nxt - 1 /\ segs \in [DOMAIN segs -> PacedSegs]
      /\ srtt \in Nat /\ rttval \in Nat
  BY DEF PaceInv, PaceTyped
<1>3. p.rtt \in Nat /\ q.rtt \in Nat
  BY DEF Acks, PacingAssumption
<1>4. DOMAIN left \subseteq DOMAIN segs /\ left \in [DOMAIN left -> PacedSegs]
      /\ \A sn \in DOMAIN left : SentSeg(left[sn])
  BY <1>2 DEF PaceInv, SegsInv
<1>5. Estimate(first) /\ first.rto \in Nat /\ RtoIs(first.rto)
  <2>1. Estimate([srtt |-> srtt, rttval |-> rttval])
    BY <1>2 DEF Estimate
  <2> QED
    BY <1>3, <2>1, UpdateRttIs
<1> HIDE DEF first
<1>6. Estimate(e) /\ e.rto \in Nat /\ RtoIs(e.rto)
  BY <1>3, <1>5, UpdateRttIs
<1> HIDE DEF e, left, Ack
<1>7. una' \in Nat
  <2>1. \E n \in DOMAIN left \cup {nxt} : \A m \in DOMAIN left : n <= m
    <3>1. CASE DOMAIN left = {}
      BY <3>1
    <3>2. CASE DOMAIN left # {}
      <4>1. DOMAIN left \in SUBSET Nat
        BY <1>2, <1>4
      <4> QED
        BY <3>2, <4>1, LeastIs
    <3> QED
      BY <3>1, <3>2
  <2>2. una' \in DOMAIN left \cup {nxt}
    BY <1>1, <2>1
  <2> QED
    BY <1>2, <1>4, <2>2
<1>8. /\ DOMAIN segs' = DOMAIN left /\ segs' \in [DOMAIN segs' -> PacedSegs]
      /\ \A sn \in DOMAIN segs' : SentSeg(segs'[sn])
  BY <1>1, <1>4, FastAckedIs
<1>9. SegsInv'
  BY <1>1, <1>8 DEF SegsInv
<1>10. rmt' \in Nat
  BY <1>1 DEF PacingAssumption
<1>11. WindowIs(cwnd', incr')
  BY <1>1, <1>10, IncreaseCwndIs DEF PaceInv, WindowIs
<1>12. RtoIs(rto') /\ srtt' \in Nat /\ rttval' \in Nat /\ rto' \in Nat
  BY <1>1, <1>6 DEF Estimate
<1>13. PaceTyped'
  <2>1. DOMAIN segs' \subseteq 0 .. nxt' - 1
    BY <1>1, <1>2, <1>4, <1>8
  <2> QED
    BY <1>1, <1>7, <1>8, <1>10, <1>12, <2>1 DEF PaceInv, PaceTyped
<1> QED
  BY <1>9, <1>11, <1>12, <1>13 DEF PaceInv

LEMMA PaceNextKeeps == PacingAssumption /\ NoWrap /\ PaceInv /\ [PaceNext]_paceVars => PaceInv'
<1> SUFFICES ASSUME PacingAssumption, NoWrap, PaceInv, [PaceNext]_paceVars PROVE PaceInv'
  OBVIOUS
<1>1. CASE Tick
  BY <1>1, TickKeeps
<1>2. CASE Enqueue
  BY <1>2, EnqueueKeeps
<1>3. CASE SendSendQueue
  BY <1>3, SendSendQueueKeeps
<1>4. ASSUME NEW p \in Acks, NEW q \in Acks, NEW upTo \in una .. nxt, NEW wnd \in Windows,
             AckInput(p, q, upTo, wnd)
      PROVE  PaceInv'
  BY <1>4, AckInputKeeps
<1>5. CASE UNCHANGED paceVars
  BY <1>5 DEF paceVars, rttVars, cwndVars, PaceInv, PaceTyped, SegsInv
<1> QED
  BY <1>1, <1>2, <1>3, <1>4, <1>5 DEF PaceNext

(* What is due is sent again and the congestion window agrees with what it  *)
(* is computed from, for all settings, windows, round trips and lengths, as *)
(* long as the 32 bits of the clock do not wrap (sendSendQueue, updateRtt,  *)
(* updateFastAck, increaseCwnd and decreaseCwnd of Kcp.cpp).                *)
THEOREM PacingHolds ==
  ASSUME NoWrap
  PROVE  PaceSpec => []PacedWell
<1>1. PaceInit => PaceInv
  BY PacingAssumption, PaceInit_Inv
<1>2. PaceInv /\ [PaceNext]_paceVars => PaceInv'
  BY PacingAssumption, PaceNextKeeps
<1>3. PaceInv => PacedWell
  <2> SUFFICES ASSUME PaceInv PROVE PacedWell
    OBVIOUS
  <2>1. ResentWhenDue
    BY DEF ResentWhenDue, PaceInv, SegsInv
  <2>2. WindowAgrees
    BY DEF WindowAgrees, PaceInv, WindowIs, RtoIs
  <2> QED
    BY <2>1, <2>2 DEF PacedWell
<1> QED
  BY <1>1, <1>2, <1>3, PTL DEF PaceSpec
=============================================================================
