--------------------------- MODULE UdpServerProofs ---------------------------
(* Theorems about UdpServer, for any number of pollers, peers and packets:  *)
(* one session per peer, and every packet of the peer is handled there; and *)
(* about the system below it, SockUtil, whichever of its calls fail, and    *)
(* Wepoll, the epoll of Windows, whose waiting threads miss no event.       *)
EXTENDS UdpServer, SockUtil, Wepoll, Integers, FiniteSetTheorems, SequenceTheorems,
        WellFoundedInduction, TLAPS

-----------------------------------------------------------------------------
(* The sessions.  One that was made is enabled until it fails; the map      *)
(* knows it until the timer that its failure started.                       *)
Records == [peer : Peers \cup {"none"}, home : Loops \cup {"none"},
            enable : BOOLEAN, failed : BOOLEAN]
Used(r) == r.peer \in Peers /\ r.home \in Loops /\ (r.enable <=> ~r.failed)

SessionsInv(ses, map, er, srv) ==
  /\ ses \in [UdpSessions -> Records] /\ map \in [Peers -> UdpSessions \cup {NoSession}]
  /\ \A s \in UdpSessions : ses[s] = Free \/ Used(ses[s])
  /\ \A x \in Peers : map[x] # NoSession => Used(ses[map[x]]) /\ ses[map[x]].peer = x
  /\ srv => \A s \in UdpSessions : ses[s].enable => map[ses[s].peer] = s
  /\ srv => \A x \in Peers : x \in er <=> map[x] # NoSession /\ ses[map[x]].failed

(* The tasks.  A packet handed over is on its way to its peer's session, on *)
(* the poller of that session.                                              *)
UdpTasks ==
  [kind : {"create"}, pkt : Packets]
    \cup [kind : {"emit"}, pkt : Packets, ses : UdpSessions, strong : BOOLEAN]
    \cup [kind : {"manage"}]

Directed(t, p, ses) ==
  t.kind = "emit" =>
    /\ t.ses \in UdpSessions /\ Used(ses[t.ses])
    /\ ses[t.ses].home = p /\ ses[t.ses].peer = PeerOf[t.pkt]

TasksInv(ts, ses) ==
  /\ ts \in [Loops -> Seq(UdpTasks)]
  /\ \A p \in Loops : \A i \in 1 .. Len(ts[p]) : Directed(ts[p][i], p, ses)

(* The packets.                                                             *)
FateInv(f, by, ses, ref, srv) ==
  /\ f \in [Packets -> Fates] /\ by \in [Packets -> Loops \cup {"none"}]
  /\ \A k \in Packets :
       /\ f[k] = "consumed" =>
            \E s \in UdpSessions : Used(ses[s]) /\ ses[s].peer = PeerOf[k] /\ ses[s].home = by[k]
       /\ f[k] = "dropped" /\ srv =>
            \/ PeerOf[k] \in ref
            \/ \E s \in UdpSessions : Used(ses[s]) /\ ses[s].peer = PeerOf[k] /\ ses[s].failed

Nowhere(ts, k) == \A p \in Loops : \A i \in 1 .. Len(ts[p]) : ~IsFor(ts[p][i], k)
Once(ts, k) ==
  \E p \in Loops : \E i \in 1 .. Len(ts[p]) :
    /\ IsFor(ts[p][i], k)
    /\ \A q \in Loops : \A j \in 1 .. Len(ts[q]) : IsFor(ts[q][j], k) => q = p /\ j = i

Placed(f, ts) ==
  \A k \in Packets : IF f[k] = "carried" THEN Once(ts, k) ELSE Nowhere(ts, k)

UdpInv ==
  /\ SessionsInv(session, sessionOf, erasures, server)
  /\ TasksInv(loopTasks, session)
  /\ FateInv(fate, readBy, session, refused, server)
  /\ Placed(fate, loopTasks)
  /\ erasures \subseteq Peers /\ refused \subseteq Peers /\ server \in BOOLEAN

LEMMA FreeIs == /\ Free \in Records /\ ~Free.enable /\ ~Free.failed /\ ~Used(Free)
  BY DEF Free, Records, Used

LEMMA TaskKinds ==
  ASSUME NEW t \in UdpTasks
  PROVE  /\ t.kind \in {"create", "emit", "manage"}
         /\ t.kind # "manage" => t.pkt \in Packets
         /\ t.kind = "emit" => t.ses \in UdpSessions /\ t.strong \in BOOLEAN
  BY DEF UdpTasks

-----------------------------------------------------------------------------
(* A session that was made keeps its peer and its poller, and a failed one  *)
(* stays so.                                                                *)
Grows(ses, ses2) ==
  \A s \in UdpSessions : Used(ses[s]) =>
    /\ Used(ses2[s]) /\ ses2[s].peer = ses[s].peer /\ ses2[s].home = ses[s].home
    /\ ses[s].failed => ses2[s].failed

LEMMA TasksGrow ==
  ASSUME NEW ts, NEW ses, NEW ses2, TasksInv(ts, ses), Grows(ses, ses2)
  PROVE  TasksInv(ts, ses2)
  BY DEF TasksInv, Grows, Directed

LEMMA FateGrows ==
  ASSUME NEW f, NEW by, NEW ses, NEW ses2, NEW ref, NEW ref2, NEW srv, NEW srv2,
         FateInv(f, by, ses, ref, srv), Grows(ses, ses2), ref \subseteq ref2, srv2 => srv
  PROVE  FateInv(f, by, ses2, ref2, srv2)
  <1>1. ASSUME NEW k \in Packets, f[k] = "consumed"
        PROVE  \E s \in UdpSessions : Used(ses2[s]) /\ ses2[s].peer = PeerOf[k] /\ ses2[s].home = by[k]
    BY <1>1 DEF FateInv, Grows
  <1>2. ASSUME NEW k \in Packets, f[k] = "dropped", srv2
        PROVE  \/ PeerOf[k] \in ref2
               \/ \E s \in UdpSessions : Used(ses2[s]) /\ ses2[s].peer = PeerOf[k] /\ ses2[s].failed
    BY <1>2 DEF FateInv, Grows
  <1> QED
    BY <1>1, <1>2 DEF FateInv

-----------------------------------------------------------------------------
(* Where the packets are when one, k, is in the hands of a poller.          *)
PlacedBut(f, ts, k) ==
  /\ Nowhere(ts, k)
  /\ \A l \in Packets \ {k} : IF f[l] = "carried" THEN Once(ts, l) ELSE Nowhere(ts, l)

LEMMA PutDown ==
  ASSUME NEW f \in [Packets -> Fates], NEW ts, NEW k \in Packets, PlacedBut(f, ts, k),
         NEW v \in Fates \ {"carried"}
  PROVE  Placed([f EXCEPT ![k] = v], ts)
  BY DEF Placed, PlacedBut

LEMMA AppendIs ==
  ASSUME NEW S, NEW s \in Seq(S), NEW x \in S
  PROVE  /\ Append(s, x) \in Seq(S) /\ Len(s) \in Nat /\ Len(Append(s, x)) = Len(s) + 1
         /\ Append(s, x)[Len(s) + 1] = x
         /\ \A i \in 1 .. Len(s) : Append(s, x)[i] = s[i]
  OBVIOUS

LEMMA TailIs ==
  ASSUME NEW S, NEW s \in Seq(S), s # <<>>
  PROVE  /\ Tail(s) \in Seq(S) /\ Len(s) \in Nat /\ Len(s) > 0 /\ Len(Tail(s)) = Len(s) - 1
         /\ Head(s) = s[1] /\ Head(s) \in S
         /\ \A i \in 1 .. Len(Tail(s)) : Tail(s)[i] = s[i + 1]
  OBVIOUS

(* Task t comes to the lists ts, at place n of q's.                         *)
Added(ts, ts2, q, n, t) ==
  /\ \A p \in Loops : \A i \in 1 .. Len(ts2[p]) :
       \/ i \in 1 .. Len(ts[p]) /\ ts2[p][i] = ts[p][i]
       \/ p = q /\ i = n /\ ts2[p][i] = t
  /\ \A p \in Loops : \A i \in 1 .. Len(ts[p]) : i \in 1 .. Len(ts2[p]) /\ ts2[p][i] = ts[p][i]
  /\ n \in 1 .. Len(ts2[q]) /\ ts2[q][n] = t

LEMMA PostAdds ==
  ASSUME NEW ts \in [Loops -> Seq(UdpTasks)], NEW q \in Loops, NEW t \in UdpTasks
  PROVE  Post(ts, q, t) \in [Loops -> Seq(UdpTasks)] /\ Added(ts, Post(ts, q, t), q, Len(ts[q]) + 1, t)
  <1> DEFINE ts2 == Post(ts, q, t)
             n == Len(ts[q]) + 1
  <1>1. /\ ts2 \in [Loops -> Seq(UdpTasks)] /\ ts2[q] = Append(ts[q], t)
        /\ \A p \in Loops \ {q} : ts2[p] = ts[p]
    <2>1. Append(ts[q], t) \in Seq(UdpTasks)
      BY AppendIs
    <2> QED
      BY <2>1 DEF Post
  <1>2. /\ Len(ts[q]) \in Nat /\ Len(ts2[q]) = n /\ ts2[q][n] = t
        /\ \A i \in 1 .. Len(ts[q]) : ts2[q][i] = ts[q][i]
    BY <1>1, AppendIs
  <1> HIDE DEF ts2
  <1>3. ASSUME NEW p \in Loops, NEW i \in 1 .. Len(ts2[p])
        PROVE  \/ i \in 1 .. Len(ts[p]) /\ ts2[p][i] = ts[p][i]
               \/ p = q /\ i = n /\ ts2[p][i] = t
    BY <1>1, <1>2
  <1>4. ASSUME NEW p \in Loops, NEW i \in 1 .. Len(ts[p])
        PROVE  i \in 1 .. Len(ts2[p]) /\ ts2[p][i] = ts[p][i]
    <2>1. CASE p = q
      BY <1>2, <2>1
    <2>2. CASE p # q
      BY <1>1, <2>2
    <2> QED
      BY <2>1, <2>2
  <1>5. n \in 1 .. Len(ts2[q])
    BY <1>2
  <1> HIDE DEF n
  <1>6. Added(ts, ts2, q, n, t)
    BY <1>2, <1>3, <1>4, <1>5 DEF Added
  <1> QED
    BY <1>1, <1>6 DEF ts2, n

LEMMA AddedCarries ==
  ASSUME NEW f \in [Packets -> Fates], NEW ts, NEW ts2, NEW k \in Packets,
         PlacedBut(f, ts, k), NEW q \in Loops, NEW n, NEW t, IsFor(t, k), Added(ts, ts2, q, n, t)
  PROVE  Placed([f EXCEPT ![k] = "carried"], ts2)
  <1>1. \A l \in Packets \ {k} : ~IsFor(t, l)
    BY DEF IsFor
  <1>2. Once(ts2, k)
    <2>1. ASSUME NEW p \in Loops, NEW i \in 1 .. Len(ts2[p]), IsFor(ts2[p][i], k)
          PROVE  p = q /\ i = n
      BY <2>1 DEF PlacedBut, Nowhere, Added
    <2>2. n \in 1 .. Len(ts2[q]) /\ IsFor(ts2[q][n], k)
      BY DEF Added
    <2>3. \E i \in 1 .. Len(ts2[q]) :
            /\ IsFor(ts2[q][i], k)
            /\ \A r \in Loops : \A j \in 1 .. Len(ts2[r]) : IsFor(ts2[r][j], k) => r = q /\ j = i
      BY <2>1, <2>2
    <2> QED
      BY <2>3 DEF Once
  <1>3. ASSUME NEW l \in Packets \ {k}, Nowhere(ts, l) PROVE Nowhere(ts2, l)
    BY <1>1, <1>3 DEF Nowhere, Added
  <1>4. ASSUME NEW l \in Packets \ {k}, Once(ts, l) PROVE Once(ts2, l)
    <2>1. PICK p \in Loops : \E i \in 1 .. Len(ts[p]) :
            /\ IsFor(ts[p][i], l)
            /\ \A r \in Loops : \A j \in 1 .. Len(ts[r]) : IsFor(ts[r][j], l) => r = p /\ j = i
      BY <1>4 DEF Once
    <2>2. PICK i \in 1 .. Len(ts[p]) :
            /\ IsFor(ts[p][i], l)
            /\ \A r \in Loops : \A j \in 1 .. Len(ts[r]) : IsFor(ts[r][j], l) => r = p /\ j = i
      BY <2>1
    <2>3. i \in 1 .. Len(ts2[p]) /\ IsFor(ts2[p][i], l)
      BY <2>2 DEF Added
    <2>4. ASSUME NEW r \in Loops, NEW j \in 1 .. Len(ts2[r]), IsFor(ts2[r][j], l)
          PROVE  r = p /\ j = i
      BY <1>1, <2>2, <2>4 DEF Added
    <2> QED
      BY <2>3, <2>4 DEF Once
  <1> QED
    BY <1>2, <1>3, <1>4 DEF Placed, PlacedBut

LEMMA PostDirected ==
  ASSUME NEW ts, NEW ses, TasksInv(ts, ses), NEW q \in Loops, NEW t \in UdpTasks, Directed(t, q, ses)
  PROVE  TasksInv(Post(ts, q, t), ses)
  <1>1. ts \in [Loops -> Seq(UdpTasks)]
    BY DEF TasksInv
  <1>2. Post(ts, q, t) \in [Loops -> Seq(UdpTasks)] /\ Added(ts, Post(ts, q, t), q, Len(ts[q]) + 1, t)
    BY <1>1, PostAdds
  <1>3. ASSUME NEW p \in Loops, NEW i \in 1 .. Len(Post(ts, q, t)[p])
        PROVE  Directed(Post(ts, q, t)[p][i], p, ses)
    BY <1>2 DEF TasksInv, Added
  <1> QED
    BY <1>2, <1>3 DEF TasksInv

(* The first task t of p's list is taken.                                   *)
Removed(ts, ts2, p, t) ==
  /\ \A q \in Loops \ {p} : ts2[q] = ts[q]
  /\ Len(ts2[p]) \in Nat /\ Len(ts[p]) = Len(ts2[p]) + 1 /\ ts[p][1] = t
  /\ \A i \in 1 .. Len(ts2[p]) : ts2[p][i] = ts[p][i + 1]

LEMMA RemovedPlaces ==
  ASSUME NEW ts, NEW ts2, NEW p \in Loops, NEW t, Removed(ts, ts2, p, t), NEW k
  PROVE  /\ Nowhere(ts, k) => Nowhere(ts2, k)
         /\ Once(ts, k) => IF IsFor(t, k) THEN Nowhere(ts2, k) ELSE Once(ts2, k)
         /\ Nowhere(ts, k) => ~IsFor(t, k)
  <1>1. /\ Len(ts2[p]) \in Nat /\ 1 \in 1 .. Len(ts[p])
        /\ \A i \in 1 .. Len(ts2[p]) : i + 1 \in 1 .. Len(ts[p]) /\ i + 1 # 1
        /\ \A i \in 1 .. Len(ts[p]) : i = 1 \/ i - 1 \in 1 .. Len(ts2[p])
    BY DEF Removed
  <1>2. ASSUME NEW q \in Loops, NEW i \in 1 .. Len(ts2[q])
        PROVE  \E j \in 1 .. Len(ts[q]) : /\ ts2[q][i] = ts[q][j]
                                          /\ j = IF q = p THEN i + 1 ELSE i
    <2>1. CASE q = p
      BY <1>1, <2>1 DEF Removed
    <2>2. CASE q # p
      BY <2>2 DEF Removed
    <2> QED
      BY <2>1, <2>2
  <1>3. ASSUME Nowhere(ts, k) PROVE Nowhere(ts2, k) /\ ~IsFor(t, k)
    <2>1. ~IsFor(t, k)
      BY <1>1, <1>3 DEF Nowhere, Removed
    <2>2. Nowhere(ts2, k)
      BY <1>2, <1>3 DEF Nowhere
    <2> QED
      BY <2>1, <2>2
  <1>4. ASSUME Once(ts, k) PROVE IF IsFor(t, k) THEN Nowhere(ts2, k) ELSE Once(ts2, k)
    <2>1. PICK q \in Loops : \E i \in 1 .. Len(ts[q]) :
            /\ IsFor(ts[q][i], k)
            /\ \A r \in Loops : \A j \in 1 .. Len(ts[r]) : IsFor(ts[r][j], k) => r = q /\ j = i
      BY <1>4 DEF Once
    <2>2. PICK i \in 1 .. Len(ts[q]) :
            /\ IsFor(ts[q][i], k)
            /\ \A r \in Loops : \A j \in 1 .. Len(ts[r]) : IsFor(ts[r][j], k) => r = q /\ j = i
      BY <2>1
    <2>3. CASE IsFor(t, k)
      <3>1. q = p /\ i = 1
        BY <1>1, <2>2, <2>3 DEF Removed
      <3>2. ASSUME NEW r \in Loops, NEW j \in 1 .. Len(ts2[r]) PROVE ~IsFor(ts2[r][j], k)
        <4>1. PICK l \in 1 .. Len(ts[r]) : ts2[r][j] = ts[r][l] /\ l = IF r = p THEN j + 1 ELSE j
          BY <1>2
        <4>2. j \in Nat \ {0}
          BY <1>1, <4>1
        <4> QED
          BY <2>2, <3>1, <4>1, <4>2
      <3> QED
        BY <2>3, <3>2 DEF Nowhere
    <2>4. CASE ~IsFor(t, k)
      <3> DEFINE m == IF q = p THEN i - 1 ELSE i
      <3>1. m \in 1 .. Len(ts2[q]) /\ ts2[q][m] = ts[q][i]
        <4>1. CASE q = p
          <5>1. i # 1
            BY <2>2, <2>4, <4>1 DEF Removed
          <5> QED
            BY <1>1, <4>1, <5>1 DEF Removed
        <4>2. CASE q # p
          BY <4>2 DEF Removed
        <4> QED
          BY <4>1, <4>2
      <3>2. ASSUME NEW r \in Loops, NEW j \in 1 .. Len(ts2[r]), IsFor(ts2[r][j], k)
            PROVE  r = q /\ j = m
        <4>1. PICK l \in 1 .. Len(ts[r]) : ts2[r][j] = ts[r][l] /\ l = IF r = p THEN j + 1 ELSE j
          BY <1>2
        <4>2. r = q /\ l = i
          BY <2>2, <3>2, <4>1
        <4> QED
          BY <4>1, <4>2
      <3> HIDE DEF m
      <3>3. Once(ts2, k)
        BY <2>2, <3>1, <3>2 DEF Once
      <3> QED
        BY <2>4, <3>3
    <2> QED
      BY <2>3, <2>4
  <1> QED
    BY <1>3, <1>4

LEMMA PopKeeps ==
  ASSUME NEW ses, TasksInv(loopTasks, ses), Placed(fate, loopTasks), NEW p \in Loops,
         loopTasks[p] # <<>>
  PROVE  /\ TasksInv(Popped(p), ses)
         /\ Head(loopTasks[p]) \in UdpTasks /\ Directed(Head(loopTasks[p]), p, ses)
         /\ Head(loopTasks[p]).kind = "manage" => Placed(fate, Popped(p))
         /\ Head(loopTasks[p]).kind # "manage" => PlacedBut(fate, Popped(p), Head(loopTasks[p]).pkt)
  <1> DEFINE t == Head(loopTasks[p])
             ts2 == Popped(p)
  <1>1. /\ Tail(loopTasks[p]) \in Seq(UdpTasks) /\ t \in UdpTasks /\ t = loopTasks[p][1]
        /\ Len(loopTasks[p]) \in Nat /\ Len(loopTasks[p]) > 0
        /\ Len(Tail(loopTasks[p])) = Len(loopTasks[p]) - 1
        /\ \A i \in 1 .. Len(Tail(loopTasks[p])) : Tail(loopTasks[p])[i] = loopTasks[p][i + 1]
    <2>1. loopTasks[p] \in Seq(UdpTasks)
      BY DEF TasksInv
    <2> QED
      BY <2>1, TailIs
  <1>2. ts2 \in [Loops -> Seq(UdpTasks)] /\ ts2[p] = Tail(loopTasks[p])
        /\ \A q \in Loops \ {p} : ts2[q] = loopTasks[q]
    BY <1>1 DEF Popped, TasksInv
  <1> HIDE DEF t, ts2
  <1>3. Removed(loopTasks, ts2, p, t)
    BY <1>1, <1>2 DEF Removed
  <1>4. ASSUME NEW q \in Loops, NEW i \in 1 .. Len(ts2[q]) PROVE Directed(ts2[q][i], q, ses)
    <2>1. CASE q = p
      <3>1. i \in 1 .. Len(Tail(loopTasks[p])) /\ ts2[q][i] = Tail(loopTasks[p])[i]
        BY <1>2, <2>1
      <3>2. ts2[q][i] = loopTasks[p][i + 1]
        BY <1>1, <3>1
      <3>3. i + 1 \in 1 .. Len(loopTasks[p])
        BY <1>1, <3>1
      <3> QED
        BY <2>1, <3>2, <3>3 DEF TasksInv
    <2>2. CASE q # p
      BY <1>2, <2>2 DEF TasksInv
    <2> QED
      BY <2>1, <2>2
  <1>5. TasksInv(ts2, ses)
    BY <1>2, <1>4 DEF TasksInv
  <1>6. Directed(t, p, ses)
    BY <1>1 DEF TasksInv
  <1>7. \A k \in Packets : /\ Nowhere(loopTasks, k) => Nowhere(ts2, k)
                           /\ Once(loopTasks, k) => IF IsFor(t, k) THEN Nowhere(ts2, k) ELSE Once(ts2, k)
                           /\ Nowhere(loopTasks, k) => ~IsFor(t, k)
    BY <1>3, RemovedPlaces
  <1>8. ASSUME t.kind = "manage" PROVE Placed(fate, ts2)
    BY <1>7, <1>8 DEF Placed, IsFor
  <1>9. ASSUME t.kind # "manage" PROVE PlacedBut(fate, ts2, t.pkt)
    <2>1. t.pkt \in Packets /\ IsFor(t, t.pkt)
      BY <1>1, <1>9, TaskKinds DEF IsFor
    <2>2. \A l \in Packets \ {t.pkt} : ~IsFor(t, l)
      BY DEF IsFor
    <2>3. fate[t.pkt] = "carried" /\ Once(loopTasks, t.pkt)
      BY <1>7, <2>1 DEF Placed
    <2>4. Nowhere(ts2, t.pkt)
      BY <1>7, <2>1, <2>3
    <2>5. ASSUME NEW l \in Packets \ {t.pkt}
          PROVE  IF fate[l] = "carried" THEN Once(ts2, l) ELSE Nowhere(ts2, l)
      BY <1>7, <2>2 DEF Placed
    <2> QED
      BY <2>4, <2>5 DEF PlacedBut
  <1> QED
    BY <1>1, <1>5, <1>6, <1>8, <1>9 DEF t, ts2

-----------------------------------------------------------------------------
(* What a poller does with packet k, while its list and those of the others *)
(* are ts.                                                                  *)
Ready(k, ts) ==
  /\ k \in Packets /\ TasksInv(ts, session) /\ PlacedBut(fate, ts, k)
  /\ SessionsInv(session, sessionOf, erasures, server)
  /\ FateInv(fate, readBy, session, refused, server)

(* It has the packets and the lists right afterwards.                       *)
Done ==
  /\ TasksInv(loopTasks', session')
  /\ FateInv(fate', readBy', session', refused', server')
  /\ Placed(fate', loopTasks')

LEMMA EmitKeeps ==
  ASSUME NEW k, NEW ts, Ready(k, ts), NEW s \in UdpSessions, NEW p \in Loops,
         Used(session[s]), session[s].peer = PeerOf[k], session[s].home = p,
         Emit(k, s, p), loopTasks' = ts, UNCHANGED <<session, refused, server>>
  PROVE  Done
  <1>1. k \in Packets /\ fate \in [Packets -> Fates] /\ readBy \in [Packets -> Loops \cup {"none"}]
    BY DEF Ready, FateInv
  <1>2. CASE session[s].enable
    <2>1. fate' = [fate EXCEPT ![k] = "consumed"] /\ readBy' = [readBy EXCEPT ![k] = p]
      BY <1>2 DEF Emit
    <2>2. Placed(fate', ts)
      BY <1>1, <2>1, PutDown DEF Ready, Fates
    <2>3. FateInv(fate', readBy', session, refused, server)
      BY <1>1, <2>1 DEF Ready, FateInv, Fates
    <2> QED
      BY <2>2, <2>3 DEF Done, Ready
  <1>3. CASE ~session[s].enable
    <2>1. fate' = [fate EXCEPT ![k] = "dropped"] /\ readBy' = readBy /\ session[s].failed
      BY <1>3 DEF Emit, Used
    <2>2. Placed(fate', ts)
      BY <1>1, <2>1, PutDown DEF Ready, Fates
    <2>3. FateInv(fate', readBy', session, refused, server)
      BY <1>1, <2>1 DEF Ready, FateInv, Fates
    <2> QED
      BY <2>2, <2>3 DEF Done, Ready
  <1> QED
    BY <1>2, <1>3

LEMMA DropKeeps ==
  ASSUME NEW k, NEW ts, Ready(k, ts), Drop(k), loopTasks' = ts, UNCHANGED <<session, server>>,
         refused \subseteq refused',
         server => \/ PeerOf[k] \in refused'
                   \/ \E s \in UdpSessions : Used(session[s]) /\ session[s].peer = PeerOf[k]
                                             /\ session[s].failed
  PROVE  Done
  <1>1. k \in Packets /\ fate \in [Packets -> Fates] /\ readBy \in [Packets -> Loops \cup {"none"}]
    BY DEF Ready, FateInv
  <1>2. fate' = [fate EXCEPT ![k] = "dropped"] /\ readBy' = readBy
    BY DEF Drop
  <1>3. Placed(fate', ts)
    BY <1>1, <1>2, PutDown DEF Ready, Fates
  <1>4. FateInv(fate, readBy, session, refused', server)
    BY FateGrows DEF Ready, Grows
  <1>5. FateInv(fate', readBy', session, refused', server)
    BY <1>1, <1>2, <1>4 DEF FateInv, Fates
  <1> QED
    BY <1>3, <1>5 DEF Done, Ready

(* A task that carries the packet is posted to q.                           *)
LEMMA CarryKeeps ==
  ASSUME NEW k, NEW ts, Ready(k, ts), NEW q \in Loops, NEW t \in UdpTasks, IsFor(t, k),
         Directed(t, q, session), loopTasks' = Post(ts, q, t),
         fate' = [fate EXCEPT ![k] = "carried"], UNCHANGED <<readBy, session, refused, server>>
  PROVE  Done
  <1>1. k \in Packets /\ fate \in [Packets -> Fates] /\ ts \in [Loops -> Seq(UdpTasks)]
    BY DEF Ready, FateInv, TasksInv
  <1>2. TasksInv(loopTasks', session)
    BY PostDirected DEF Ready
  <1>3. Placed(fate', loopTasks')
    <2>1. Added(ts, loopTasks', q, Len(ts[q]) + 1, t)
      BY <1>1, PostAdds
    <2> QED
      BY <1>1, <2>1, AddedCarries DEF Ready
  <1>4. FateInv(fate', readBy, session, refused, server)
    BY <1>1 DEF Ready, FateInv, Fates
  <1> QED
    BY <1>2, <1>3, <1>4 DEF Done

LEMMA HandOverKeeps ==
  ASSUME NEW k, NEW ts, Ready(k, ts), NEW s \in UdpSessions, NEW p \in Loops, NEW strong \in BOOLEAN,
         Used(session[s]), session[s].peer = PeerOf[k],
         HandOver(k, s, p, strong, ts), UNCHANGED <<session, refused, server>>
  PROVE  Done
  <1>1. CASE session[s].home = p
    <2>1. Emit(k, s, p) /\ loopTasks' = ts
      BY <1>1 DEF HandOver
    <2> QED
      BY <1>1, <2>1, EmitKeeps
  <1>2. CASE session[s].home # p
    <2> DEFINE t == [kind |-> "emit", pkt |-> k, ses |-> s, strong |-> strong]
    <2>1. /\ loopTasks' = Post(ts, session[s].home, t) /\ fate' = [fate EXCEPT ![k] = "carried"]
          /\ readBy' = readBy
      BY <1>2 DEF HandOver
    <2>2. t \in UdpTasks /\ t.kind = "emit" /\ t.pkt = k /\ t.ses = s
      BY DEF UdpTasks, Ready
    <2> HIDE DEF t
    <2>3. IsFor(t, k) /\ Directed(t, session[s].home, session) /\ session[s].home \in Loops
      BY <2>2 DEF IsFor, Directed, Used
    <2> QED
      BY <2>1, <2>2, <2>3, CarryKeeps
  <1> QED
    BY <1>1, <1>2

LEMMA CreatorKeeps ==
  ASSUME NEW k, NEW ts, Ready(k, ts), NEW p \in Loops, NEW strong \in BOOLEAN, server,
         Creator(k, p, strong, ts), UNCHANGED <<erasures, refused, server>>
  PROVE  Done /\ SessionsInv(session', sessionOf', erasures', server')
  <1> DEFINE x == PeerOf[k]
  <1>1. /\ k \in Packets /\ x \in Peers /\ SessionsInv(session, sessionOf, erasures, server)
        /\ fate \in [Packets -> Fates] /\ readBy \in [Packets -> Loops \cup {"none"}]
    BY UdpAssumption DEF Ready, FateInv
  <1>2. CASE sessionOf[x] # NoSession
    <2>1. /\ sessionOf[x] \in UdpSessions /\ Used(session[sessionOf[x]])
          /\ session[sessionOf[x]].peer = PeerOf[k]
      BY <1>1, <1>2 DEF SessionsInv
    <2>2. HandOver(k, sessionOf[x], p, strong, ts) /\ UNCHANGED <<session, sessionOf>>
      BY <1>2 DEF Creator
    <2>3. Done
      BY <2>1, <2>2, HandOverKeeps
    <2> QED
      BY <1>1, <2>2, <2>3
  <1>3. CASE sessionOf[x] = NoSession
    <2> DEFINE r == [peer |-> x, home |-> p, enable |-> TRUE, failed |-> FALSE]
    <2>1. PICK s \in UdpSessions :
            /\ session[s] = Free
            /\ session' = [session EXCEPT ![s] = r] /\ sessionOf' = [sessionOf EXCEPT ![x] = s]
            /\ fate' = [fate EXCEPT ![k] = "consumed"] /\ readBy' = [readBy EXCEPT ![k] = p]
            /\ loopTasks' = ts
      BY <1>3 DEF Creator
    <2>2. r \in Records /\ Used(r) /\ r.peer = x /\ r.home = p /\ r.enable /\ ~r.failed
      BY <1>1 DEF Records, Used
    <2> HIDE DEF r
    <2>3. session' \in [UdpSessions -> Records] /\ session'[s] = r
          /\ \A a \in UdpSessions \ {s} : session'[a] = session[a]
      BY <1>1, <2>1, <2>2 DEF SessionsInv
    <2>4. ~Used(session[s]) /\ Grows(session, session')
      BY <2>1, <2>3, FreeIs DEF Grows
    <2>5. TasksInv(ts, session') /\ FateInv(fate, readBy, session', refused, server)
      BY <2>4, TasksGrow, FateGrows DEF Ready
    <2>6. FateInv(fate', readBy', session', refused, server)
      BY <1>1, <2>1, <2>2, <2>3, <2>5 DEF FateInv, Fates
    <2>7. Placed(fate', ts)
      BY <1>1, <2>1, PutDown DEF Ready, Fates
    <2>8. Done
      BY <2>1, <2>5, <2>6, <2>7 DEF Done
    <2>9. SessionsInv(session', sessionOf', erasures, server)
      <3>1. /\ sessionOf' \in [Peers -> UdpSessions \cup {NoSession}] /\ sessionOf'[x] = s
            /\ \A y \in Peers \ {x} : sessionOf'[y] = sessionOf[y]
            /\ s # NoSession
        BY <1>1, <2>1, UdpAssumption DEF SessionsInv
      <3>2. \A a \in UdpSessions : session'[a] = Free \/ Used(session'[a])
        BY <1>1, <2>2, <2>3 DEF SessionsInv
      <3>3. \A y \in Peers : sessionOf[y] # NoSession => sessionOf[y] \in UdpSessions \ {s}
        BY <1>1, <2>4 DEF SessionsInv
      <3>4. \A y \in Peers : sessionOf'[y] # NoSession =>
                Used(session'[sessionOf'[y]]) /\ session'[sessionOf'[y]].peer = y
        BY <1>1, <2>2, <2>3, <3>1, <3>3 DEF SessionsInv
      <3>5. \A a \in UdpSessions : session'[a].enable => sessionOf'[session'[a].peer] = a
        <4>1. ASSUME NEW a \in UdpSessions \ {s}, session[a].enable
              PROVE  sessionOf'[session[a].peer] = a
          <5>1. session[a].peer \in Peers /\ sessionOf[session[a].peer] = a
            BY <1>1, <4>1, FreeIs DEF SessionsInv, Used
          <5>2. session[a].peer # x
            BY <1>3, <5>1, UdpAssumption
          <5> QED
            BY <3>1, <5>1, <5>2
        <4> QED
          BY <2>2, <2>3, <3>1, <4>1
      <3>6. \A y \in Peers : y \in erasures <=> sessionOf'[y] # NoSession /\ session'[sessionOf'[y]].failed
        BY <1>1, <1>3, <2>2, <2>3, <3>1, <3>3 DEF SessionsInv
      <3> QED
        BY <2>3, <3>1, <3>2, <3>4, <3>5, <3>6 DEF SessionsInv
    <2> QED
      BY <2>8, <2>9
  <1> QED
    BY <1>2, <1>3

-----------------------------------------------------------------------------
(* The invariant, action by action.                                         *)
LEMMA UnsentIsReady ==
  ASSUME UdpInv, NEW k \in Packets, fate[k] = "unsent"
  PROVE  Ready(k, loopTasks)
  <1>1. PlacedBut(fate, loopTasks, k)
    BY DEF UdpInv, Placed, PlacedBut
  <1> QED
    BY <1>1 DEF UdpInv, Ready

LEMMA DoneKeeps ==
  ASSUME UdpInv, Done, SessionsInv(session', sessionOf', erasures', server'),
         erasures' \subseteq Peers, refused' \subseteq Peers, server' \in BOOLEAN
  PROVE  UdpInv'
  BY DEF UdpInv, Done

LEMMA ReadKeeps ==
  ASSUME UdpInv, NEW k \in Packets, NEW p \in Loops, ReadKnown(k, p) \/ ReadNew(k, p)
  PROVE  UdpInv'
  <1>1. /\ Ready(k, loopTasks) /\ server /\ UNCHANGED <<erasures, refused, server>>
        /\ PeerOf[k] \in Peers /\ FALSE \in BOOLEAN
    BY UnsentIsReady, UdpAssumption DEF ReadKnown, ReadNew
  <1>2. CASE ReadKnown(k, p)
    <2>1. /\ HandOver(k, sessionOf[PeerOf[k]], p, FALSE, loopTasks) /\ UNCHANGED <<session, sessionOf>>
          /\ sessionOf[PeerOf[k]] # NoSession
      BY <1>2 DEF ReadKnown
    <2>2. /\ sessionOf[PeerOf[k]] \in UdpSessions /\ Used(session[sessionOf[PeerOf[k]]])
          /\ session[sessionOf[PeerOf[k]]].peer = PeerOf[k]
      BY <1>1, <2>1 DEF UdpInv, SessionsInv
    <2>3. Done
      BY <1>1, <2>1, <2>2, HandOverKeeps
    <2> QED
      BY <1>1, <2>1, <2>3, DoneKeeps DEF UdpInv
  <1>3. CASE ReadNew(k, p) /\ Creator(k, p, FALSE, loopTasks)
    <2>1. Done /\ SessionsInv(session', sessionOf', erasures', server')
      BY <1>1, <1>3, CreatorKeeps
    <2> QED
      BY <1>1, <2>1, DoneKeeps DEF UdpInv
  <1>4. CASE ReadNew(k, p) /\ ~Creator(k, p, FALSE, loopTasks)
    <2> DEFINE t == [kind |-> "create", pkt |-> k]
    <2>1. PICK q \in Loops \ {p} :
            /\ loopTasks' = Post(loopTasks, q, t) /\ fate' = [fate EXCEPT ![k] = "carried"]
            /\ UNCHANGED <<readBy, session, sessionOf>>
      BY <1>4 DEF ReadNew
    <2>2. t \in UdpTasks /\ t.kind = "create" /\ t.pkt = k
      BY DEF UdpTasks
    <2> HIDE DEF t
    <2>3. IsFor(t, k) /\ Directed(t, q, session)
      BY <2>2 DEF IsFor, Directed
    <2>4. Done
      BY <1>1, <2>1, <2>2, <2>3, CarryKeeps
    <2> QED
      BY <1>1, <2>1, <2>4, DoneKeeps DEF UdpInv
  <1> QED
    BY <1>2, <1>3, <1>4

LEMMA RefusedKeeps == ASSUME UdpInv, NEW k \in Packets, ReadRefused(k) PROVE UdpInv'
  <1>1. /\ Ready(k, loopTasks) /\ Drop(k) /\ refused' = refused \cup {PeerOf[k]} /\ PeerOf[k] \in Peers
        /\ UNCHANGED <<session, sessionOf, loopTasks, erasures, server>>
    BY UnsentIsReady, UdpAssumption DEF ReadRefused
  <1>2. Done
    BY <1>1, DropKeeps
  <1> QED
    BY <1>1, <1>2, DoneKeeps DEF UdpInv

(* A session that a map or a task holds was made.                           *)
LEMMA AliveIsUsed ==
  ASSUME UdpInv, NEW s \in UdpSessions, Alive(s)
  PROVE  Used(session[s])
  <1>1. CASE InMap(s)
    BY <1>1, UdpAssumption DEF InMap, UdpInv, SessionsInv
  <1>2. CASE ~InMap(s)
    BY <1>2 DEF Alive, UdpInv, TasksInv, Directed
  <1> QED
    BY <1>1, <1>2

LEMMA ReadOwnKeeps ==
  ASSUME UdpInv, NEW k \in Packets, NEW s \in UdpSessions, ReadOwn(k, s)
  PROVE  UdpInv'
  <1>1. /\ Ready(k, loopTasks) /\ Used(session[s]) /\ session[s].peer = PeerOf[k]
        /\ Emit(k, s, session[s].home) /\ UNCHANGED <<session, sessionOf, loopTasks, erasures, refused, server>>
    BY UnsentIsReady, AliveIsUsed DEF ReadOwn
  <1>2. Done
    BY <1>1, EmitKeeps DEF Used
  <1> QED
    BY <1>1, <1>2, DoneKeeps DEF UdpInv

LEMMA TakenIsReady ==
  ASSUME UdpInv, NEW p \in Loops, loopTasks[p] # <<>>, Head(loopTasks[p]).kind # "manage"
  PROVE  Ready(Head(loopTasks[p]).pkt, Popped(p))
  <1>1. /\ TasksInv(Popped(p), session) /\ Head(loopTasks[p]) \in UdpTasks
        /\ PlacedBut(fate, Popped(p), Head(loopTasks[p]).pkt)
    BY PopKeeps DEF UdpInv
  <1>2. Head(loopTasks[p]).pkt \in Packets
    BY <1>1, TaskKinds
  <1> QED
    BY <1>1, <1>2 DEF Ready, UdpInv

LEMMA RunCreateKeeps == ASSUME UdpInv, NEW p \in Loops, RunCreate(p) PROVE UdpInv'
  <1>1. PICK k : k = Head(loopTasks[p]).pkt
    OBVIOUS
  <1>2. /\ loopTasks[p] # <<>> /\ Head(loopTasks[p]).kind = "create"
        /\ UNCHANGED <<erasures, refused, server>>
    BY DEF RunCreate, Next1
  <1>3. Ready(k, Popped(p))
    BY <1>1, <1>2, TakenIsReady
  <1>4. CASE server
    <2>1. Creator(k, p, TRUE, Popped(p))
      BY <1>1, <1>4 DEF RunCreate
    <2>2. Done /\ SessionsInv(session', sessionOf', erasures', server')
      BY <1>2, <1>3, <1>4, <2>1, CreatorKeeps
    <2> QED
      BY <1>2, <2>2, DoneKeeps DEF UdpInv
  <1>5. CASE ~server
    <2>1. Drop(k) /\ loopTasks' = Popped(p) /\ UNCHANGED <<session, sessionOf>>
      BY <1>1, <1>5 DEF RunCreate
    <2>2. Done
      BY <1>2, <1>3, <1>5, <2>1, DropKeeps
    <2> QED
      BY <1>2, <2>1, <2>2, DoneKeeps DEF UdpInv
  <1> QED
    BY <1>4, <1>5

LEMMA RunEmitKeeps == ASSUME UdpInv, NEW p \in Loops, RunEmit(p) PROVE UdpInv'
  <1>1. PICK t : t = Head(loopTasks[p])
    OBVIOUS
  <1>2. /\ loopTasks[p] # <<>> /\ t.kind = "emit" /\ loopTasks' = Popped(p)
        /\ IF t.strong \/ Alive(t.ses) THEN Emit(t.pkt, t.ses, p) ELSE Drop(t.pkt)
        /\ UNCHANGED <<session, sessionOf, erasures, refused, server>>
    BY <1>1 DEF RunEmit, Next1
  <1>3. Ready(t.pkt, Popped(p)) /\ Directed(t, p, session)
    BY <1>1, <1>2, TakenIsReady, PopKeeps DEF UdpInv
  <1>4. /\ t.ses \in UdpSessions /\ Used(session[t.ses]) /\ session[t.ses].home = p
        /\ session[t.ses].peer = PeerOf[t.pkt]
    BY <1>2, <1>3 DEF Directed
  <1>5. Done
    <2>1. CASE t.strong \/ Alive(t.ses)
      BY <1>2, <1>3, <1>4, <2>1, EmitKeeps
    <2>2. CASE ~(t.strong \/ Alive(t.ses))
      <3>1. Drop(t.pkt) /\ ~InMap(t.ses)
        BY <1>2, <2>2 DEF Alive
      <3>2. server => session[t.ses].failed
        BY <1>4, <3>1 DEF UdpInv, SessionsInv, InMap, Used
      <3> QED
        BY <1>2, <1>3, <1>4, <3>1, <3>2, DropKeeps
    <2> QED
      BY <2>1, <2>2
  <1> QED
    BY <1>2, <1>5, DoneKeeps DEF UdpInv

LEMMA RunManageKeeps == ASSUME UdpInv, NEW p \in Loops, RunManage(p) PROVE UdpInv'
  <1>1. /\ loopTasks[p] # <<>> /\ Head(loopTasks[p]).kind = "manage" /\ loopTasks' = Popped(p)
        /\ UNCHANGED <<fate, readBy, session, sessionOf, erasures, refused, server>>
    BY DEF RunManage, Next1
  <1>2. TasksInv(Popped(p), session) /\ Placed(fate, Popped(p))
    BY <1>1, PopKeeps DEF UdpInv
  <1> QED
    BY <1>1, <1>2 DEF UdpInv

(* The manager's lambdas carry no packet.                                   *)
LEMMA ManageKeeps == ASSUME UdpInv, ManageSessions PROVE UdpInv'
  <1> DEFINE t == [kind |-> "manage"]
  <1>1. t \in UdpTasks /\ t.kind = "manage"
    BY DEF UdpTasks
  <1>2. /\ loopTasks' = [p \in Loops |-> Append(loopTasks[p], t)]
        /\ UNCHANGED <<fate, readBy, session, sessionOf, erasures, refused, server>>
    BY DEF ManageSessions
  <1> HIDE DEF t
  <1>3. \A k : ~IsFor(t, k)
    BY <1>1 DEF IsFor
  <1>4. loopTasks \in [Loops -> Seq(UdpTasks)]
    BY DEF UdpInv, TasksInv
  <1>5. ASSUME NEW p \in Loops
        PROVE  /\ Len(loopTasks[p]) \in Nat /\ loopTasks'[p] \in Seq(UdpTasks)
               /\ Len(loopTasks'[p]) = Len(loopTasks[p]) + 1
               /\ \A i \in 1 .. Len(loopTasks[p]) :
                    i \in 1 .. Len(loopTasks'[p]) /\ loopTasks'[p][i] = loopTasks[p][i]
               /\ \A i \in 1 .. Len(loopTasks'[p]) : i \in 1 .. Len(loopTasks[p]) \/ loopTasks'[p][i] = t
    <2>1. loopTasks'[p] = Append(loopTasks[p], t) /\ loopTasks[p] \in Seq(UdpTasks)
      BY <1>2, <1>4
    <2>2. /\ loopTasks'[p] \in Seq(UdpTasks) /\ Len(loopTasks[p]) \in Nat
          /\ Len(loopTasks'[p]) = Len(loopTasks[p]) + 1
          /\ loopTasks'[p][Len(loopTasks[p]) + 1] = t
          /\ \A i \in 1 .. Len(loopTasks[p]) : loopTasks'[p][i] = loopTasks[p][i]
      BY <1>1, <2>1, AppendIs
    <2> QED
      BY <2>2
  <1>6. TasksInv(loopTasks', session)
    <2>1. ASSUME NEW p \in Loops, NEW i \in 1 .. Len(loopTasks'[p])
          PROVE  Directed(loopTasks'[p][i], p, session)
      <3>1. CASE i \in 1 .. Len(loopTasks[p])
        BY <1>5, <3>1 DEF UdpInv, TasksInv
      <3>2. CASE loopTasks'[p][i] = t
        BY <1>1, <3>2 DEF Directed
      <3> QED
        BY <1>5, <3>1, <3>2
    <2>2. loopTasks' \in [Loops -> Seq(UdpTasks)]
      BY <1>2, <1>5
    <2> QED
      BY <2>1, <2>2 DEF TasksInv
  <1>7. ASSUME NEW k \in Packets, Nowhere(loopTasks, k) PROVE Nowhere(loopTasks', k)
    BY <1>3, <1>5, <1>7 DEF Nowhere
  <1>8. ASSUME NEW k \in Packets, Once(loopTasks, k) PROVE Once(loopTasks', k)
    <2>1. PICK p \in Loops : \E i \in 1 .. Len(loopTasks[p]) :
            /\ IsFor(loopTasks[p][i], k)
            /\ \A q \in Loops : \A j \in 1 .. Len(loopTasks[q]) :
                 IsFor(loopTasks[q][j], k) => q = p /\ j = i
      BY <1>8 DEF Once
    <2>2. PICK i \in 1 .. Len(loopTasks[p]) :
            /\ IsFor(loopTasks[p][i], k)
            /\ \A q \in Loops : \A j \in 1 .. Len(loopTasks[q]) :
                 IsFor(loopTasks[q][j], k) => q = p /\ j = i
      BY <2>1
    <2>3. i \in 1 .. Len(loopTasks'[p]) /\ IsFor(loopTasks'[p][i], k)
      BY <1>5, <2>2
    <2>4. ASSUME NEW q \in Loops, NEW j \in 1 .. Len(loopTasks'[q]), IsFor(loopTasks'[q][j], k)
          PROVE  q = p /\ j = i
      BY <1>3, <1>5, <2>2, <2>4
    <2> QED
      BY <2>3, <2>4 DEF Once
  <1>9. Placed(fate, loopTasks')
    BY <1>7, <1>8 DEF UdpInv, Placed
  <1> QED
    BY <1>2, <1>6, <1>9 DEF UdpInv

LEMMA FailsKeeps == ASSUME UdpInv, NEW s \in UdpSessions, SessionFails(s) PROVE UdpInv'
  <1> DEFINE r == [session[s] EXCEPT !.enable = FALSE, !.failed = TRUE]
             x == session[s].peer
  <1>1. /\ Used(session[s]) /\ ~session[s].failed /\ session[s] \in Records /\ x \in Peers
        /\ SessionsInv(session, sessionOf, erasures, server)
    BY AliveIsUsed DEF SessionFails, UdpInv, SessionsInv, Used
  <1>2. /\ session' = [session EXCEPT ![s] = r]
        /\ erasures' = IF server THEN erasures \cup {x} ELSE erasures
        /\ UNCHANGED <<sessionOf, fate, readBy, loopTasks, refused, server>>
    BY <1>1 DEF SessionFails, OnErrUdp, SessionsInv
  <1>3. /\ r \in Records /\ r.peer = x /\ r.home = session[s].home /\ ~r.enable /\ r.failed /\ Used(r)
    BY <1>1 DEF Records, Used
  <1> HIDE DEF r
  <1>4. /\ session' \in [UdpSessions -> Records] /\ session'[s] = r
        /\ \A a \in UdpSessions \ {s} : session'[a] = session[a]
    BY <1>1, <1>2, <1>3 DEF SessionsInv
  <1>5. Grows(session, session')
    BY <1>3, <1>4 DEF Grows
  <1>6. TasksInv(loopTasks, session') /\ FateInv(fate, readBy, session', refused, server)
    BY <1>5, TasksGrow, FateGrows DEF UdpInv
  <1>7. SessionsInv(session', sessionOf, erasures', server)
    <2>1. \A a \in UdpSessions : session'[a] = Free \/ Used(session'[a])
      BY <1>1, <1>3, <1>4 DEF SessionsInv
    <2>2. \A y \in Peers : sessionOf[y] # NoSession =>
              Used(session'[sessionOf[y]]) /\ session'[sessionOf[y]].peer = y
      BY <1>1, <1>3, <1>4 DEF SessionsInv
    <2>3. server => \A a \in UdpSessions : session'[a].enable => sessionOf[session'[a].peer] = a
      BY <1>1, <1>3, <1>4 DEF SessionsInv
    <2>4. server => sessionOf[x] = s /\ s # NoSession
      BY <1>1, UdpAssumption DEF SessionsInv, Used
    <2>5. server => \A y \in Peers : sessionOf[y] = s => y = x
      BY <1>1, UdpAssumption DEF SessionsInv
    <2>6. ASSUME server, NEW y \in Peers
          PROVE  y \in erasures' <=> sessionOf[y] # NoSession /\ session'[sessionOf[y]].failed
      <3>1. CASE y = x
        BY <1>2, <1>3, <1>4, <2>4, <2>6, <3>1
      <3>2. CASE y # x
        BY <1>1, <1>2, <1>4, <2>5, <2>6, <3>2 DEF SessionsInv
      <3> QED
        BY <3>1, <3>2
    <2> QED
      BY <1>1, <1>4, <2>1, <2>2, <2>3, <2>6 DEF SessionsInv
  <1>8. erasures' \subseteq Peers
    BY <1>1, <1>2 DEF UdpInv
  <1> QED
    BY <1>2, <1>6, <1>7, <1>8 DEF UdpInv

(* The timer of a failed session finds that session, and none that works.   *)
LEMMA EraseKeeps == ASSUME UdpInv, NEW x \in Peers, EraseLater(x) PROVE UdpInv'
  <1>1. /\ x \in erasures /\ erasures' = erasures \ {x}
        /\ sessionOf' = (IF server THEN [sessionOf EXCEPT ![x] = NoSession] ELSE sessionOf)
        /\ UNCHANGED <<fate, readBy, session, loopTasks, refused, server>>
        /\ SessionsInv(session, sessionOf, erasures, server)
    BY DEF EraseLater, UdpInv
  <1>2. CASE server
    <2>1. /\ sessionOf' \in [Peers -> UdpSessions \cup {NoSession}] /\ sessionOf'[x] = NoSession
          /\ \A y \in Peers \ {x} : sessionOf'[y] = sessionOf[y]
      BY <1>1, <1>2 DEF SessionsInv
    <2>2. sessionOf[x] \in UdpSessions /\ session[sessionOf[x]].failed /\ Used(session[sessionOf[x]])
      BY <1>1, <1>2 DEF SessionsInv
    <2>3. ASSUME NEW a \in UdpSessions, session[a].enable
          PROVE  sessionOf'[session[a].peer] = a
      <3>1. session[a].peer \in Peers /\ sessionOf[session[a].peer] = a
        BY <1>1, <1>2, <2>3, FreeIs DEF SessionsInv, Used
      <3>2. session[a].peer # x
        BY <2>2, <2>3, <3>1 DEF Used
      <3> QED
        BY <2>1, <3>1, <3>2
    <2>4. \A y \in Peers : y \in erasures' <=> sessionOf'[y] # NoSession /\ session[sessionOf'[y]].failed
      BY <1>1, <1>2, <2>1 DEF SessionsInv
    <2>5. \A y \in Peers : sessionOf'[y] # NoSession =>
              Used(session[sessionOf'[y]]) /\ session[sessionOf'[y]].peer = y
      BY <1>1, <2>1 DEF SessionsInv
    <2>6. SessionsInv(session, sessionOf', erasures', server)
      BY <1>1, <2>1, <2>3, <2>4, <2>5 DEF SessionsInv
    <2> QED
      BY <1>1, <2>6 DEF UdpInv
  <1>3. CASE ~server
    <2>1. sessionOf' = sessionOf
      BY <1>1, <1>3
    <2>2. SessionsInv(session, sessionOf', erasures', server)
      BY <1>1, <1>3, <2>1 DEF SessionsInv
    <2> QED
      BY <1>1, <2>2 DEF UdpInv
  <1> QED
    BY <1>2, <1>3 DEF UdpInv

LEMMA StopKeeps == ASSUME UdpInv, Stop PROVE UdpInv'
  <1>1. /\ server' = FALSE /\ sessionOf' = [x \in Peers |-> NoSession]
        /\ UNCHANGED <<fate, readBy, session, loopTasks, erasures, refused>>
    BY DEF Stop
  <1>2. SessionsInv(session, sessionOf', erasures, server')
    BY <1>1 DEF UdpInv, SessionsInv
  <1>3. FateInv(fate, readBy, session, refused, server')
    BY <1>1 DEF UdpInv, FateInv
  <1> QED
    BY <1>1, <1>2, <1>3 DEF UdpInv

-----------------------------------------------------------------------------
LEMMA UdpInitKeeps == ASSUME UdpInit PROVE UdpInv
  <1>1. SessionsInv(session, sessionOf, erasures, server)
    BY FreeIs DEF UdpInit, SessionsInv
  <1>2. /\ loopTasks \in [Loops -> Seq(UdpTasks)] /\ \A p \in Loops : loopTasks[p] = <<>>
    BY DEF UdpInit
  <1>3. ASSUME NEW p \in Loops PROVE Len(loopTasks[p]) = 0
    <2>1. Len(<<>>) = 0
      OBVIOUS
    <2> QED
      BY <1>2, <2>1
  <1>4. TasksInv(loopTasks, session)
    BY <1>2, <1>3 DEF TasksInv
  <1>5. Placed(fate, loopTasks)
    BY <1>3 DEF UdpInit, Placed, Nowhere
  <1>6. FateInv(fate, readBy, session, refused, server)
    BY DEF UdpInit, FateInv, Fates
  <1> QED
    BY <1>1, <1>4, <1>5, <1>6 DEF UdpInit, UdpInv

LEMMA UdpStepKeeps == ASSUME UdpInv, [UdpNext]_udpVars PROVE UdpInv'
  <1>1. CASE UNCHANGED udpVars
    BY <1>1 DEF UdpInv, udpVars
  <1>2. CASE \E p \in Loops :
               UdpTask(p) \/ \E k \in Packets : ReadKnown(k, p) \/ ReadNew(k, p)
    BY <1>2, RunCreateKeeps, RunEmitKeeps, RunManageKeeps, ReadKeeps DEF UdpTask
  <1>3. CASE \E k \in Packets : ReadRefused(k) \/ \E s \in UdpSessions : ReadOwn(k, s)
    BY <1>3, RefusedKeeps, ReadOwnKeeps
  <1>4. CASE \E s \in UdpSessions : SessionFails(s)
    BY <1>4, FailsKeeps
  <1>5. CASE \E x \in Peers : EraseLater(x)
    BY <1>5, EraseKeeps
  <1>6. CASE ManageSessions \/ Stop
    BY <1>6, ManageKeeps, StopKeeps
  <1> QED
    BY <1>1, <1>2, <1>3, <1>4, <1>5, <1>6 DEF UdpNext

(* Whatever order the pollers see a peer's packets in, and however its      *)
(* sessions fail and are erased, the peer has one working session, known to *)
(* the map, and what it sent is handled there or is waiting in one task     *)
(* (helper_creator's second look, onErr's delayed erase).                   *)
THEOREM PeersAreServed == UdpSpec => []PeersServed
  <1>1. UdpSpec => []UdpInv
    BY UdpInitKeeps, UdpStepKeeps, PTL DEF UdpSpec
  <1>2. UdpInv => OneSessionPerPeer
    <2> SUFFICES ASSUME UdpInv, NEW s \in UdpSessions, server
                 PROVE  /\ session[s].enable => sessionOf[session[s].peer] = s
                        /\ InMap(s) /\ session[s].failed => session[s].peer \in erasures
      BY DEF OneSessionPerPeer
    <2>1. InMap(s) /\ session[s].failed => session[s].peer \in erasures
      BY UdpAssumption DEF UdpInv, SessionsInv, InMap
    <2> QED
      BY <2>1 DEF UdpInv, SessionsInv
  <1>3. UdpInv => PacketsReachSession
    <2> SUFFICES ASSUME UdpInv, NEW k \in Packets
                 PROVE  /\ fate[k] = "consumed" =>
                             \E s \in UdpSessions :
                               session[s].peer = PeerOf[k] /\ session[s].home = readBy[k]
                        /\ fate[k] = "dropped" /\ server =>
                             \/ PeerOf[k] \in refused
                             \/ \E s \in UdpSessions : session[s].peer = PeerOf[k] /\ session[s].failed
                        /\ fate[k] = "carried" => Once(loopTasks, k)
      BY DEF PacketsReachSession, Once
    <2>1. fate[k] = "carried" => Once(loopTasks, k)
      BY DEF UdpInv, Placed
    <2> QED
      BY <2>1 DEF UdpInv, FateInv
  <1> QED
    BY <1>1, <1>2, <1>3, PTL DEF PeersServed

-----------------------------------------------------------------------------
(* The sockets of the operating system.                                     *)
Hosts == LocalIps \cup {"none", "name", "::", "v4", "v6"}
MakerSteps == {"none", "cache", "resolve", "store", "socket", "bind", "go", "write end", "read end",
               "close listener"}
MakerState == [op : {"none", "connect", "listen", "udp", "pipe"}, step : MakerSteps, host : Hosts,
               own : SUBSET (0 .. MaxFd - 1), fd : Nat, addr : Nat \cup {NoAddress}, asked : Nat]
FdState == [family : {"inet", "inet6"}, local : Hosts, at : {"none", "any", "any4", "v4", "v6"}]

SockTyped ==
  /\ ipv6 \in BOOLEAN /\ DOMAIN fds \subseteq 0 .. MaxFd - 1 /\ fds \in [DOMAIN fds -> FdState]
  /\ maker \in [Makers -> MakerState]
  /\ seconds \in Nat /\ address \in Nat /\ moved \in Nat

(* What a thread has at each step of its call.                              *)
StepInv(m) ==
  /\ m.op = "none" => m = AtRest
  /\ m.step \in {"none", "cache", "resolve", "store", "socket"} => m.own = {}
  /\ m.step \in {"bind", "go", "write end"} => m.own = {m.fd}
  /\ m.step \in {"bind", "go"} => m.op # "pipe"
  /\ m.step \in {"read end", "close listener"} => m.fd \in m.own
  /\ m.step \in {"write end", "read end", "close listener"} => m.op = "pipe"
  /\ m.step \in {"cache", "resolve", "store"} => m.op = "connect" /\ m.host = "name"

(* Who has a descriptor.                                                    *)
OwnersInv ==
  /\ \A n : n \in DOMAIN fds <=> n \in held \/ n \in leaked \/ \E t \in Makers : n \in maker[t].own
  /\ held \cap leaked = {}
  /\ \A t \in Makers : maker[t].own \cap (held \cup leaked) = {}
  /\ \A t, u \in Makers : t # u => maker[t].own \cap maker[u].own = {}

(* A socket is of the family of its local address, and bound to that, at    *)
(* the latest when it is handed over.                                       *)
FdRight(d) ==
  /\ d.local = "v4" => d.family = "inet"
  /\ d.local = "v6" /\ ipv6 => d.family = "inet6"
  /\ d.at = "none" \/ d.at = BoundTo(d.family, d.local)
FdsInv ==
  /\ \A n \in DOMAIN fds : FdRight(fds[n])
  /\ \A n \in held : fds[n].at # "none"
  /\ \A t \in Makers : maker[t].step = "go" \/ maker[t].op = "pipe" =>
       \A n \in maker[t].own : fds[n].at # "none"

(* An address that is not that of the name any more was looked up before it *)
(* changed.                                                                 *)
CacheInv ==
  /\ moved <= seconds
  /\ \A t \in Makers : maker[t].asked <= seconds
  /\ cache = <<>> \/ \E addr \in Nat, made \in Nat :
       /\ cache = << [addr |-> addr, created |-> made] >>
       /\ made <= seconds /\ (addr = address \/ made <= moved)
  /\ \A t \in Makers : maker[t].step = "store" =>
       maker[t].addr \in Nat /\ (maker[t].addr = address \/ moved = seconds)
  /\ NamesKeepUp

SockInv ==
  SockTyped /\ (\A t \in Makers : StepInv(maker[t])) /\ OwnersInv /\ FdsInv /\ CacheInv

LEMMA LowestIsFree ==
  ASSUME SockUtilAssumption, FreeFds # {}
  PROVE  Lowest \in FreeFds
<1> DEFINE R == OpToRel(<, Nat)
<1>1. IsWellFoundedOn(R, Nat)
  BY NatLessThanWellFounded
<1>2. FreeFds \subseteq Nat
  BY DEF FreeFds, SockUtilAssumption
<1> HIDE DEF R
<1>3. PICK x \in FreeFds : \A y \in FreeFds : <<y, x>> \notin R
  BY <1>1, <1>2, WFMin
<1>4. \A y \in FreeFds : ~(y < x)
  BY <1>2, <1>3 DEF R, OpToRel
<1>5. \A y \in FreeFds : x <= y
  BY <1>2, <1>4
<1> QED
  BY <1>5 DEF Lowest

LEMMA RestState ==
  /\ AtRest.op = "none" /\ AtRest.step = "none" /\ AtRest.own = {} /\ AtRest.asked = 0
  /\ AtRest.addr = NoAddress /\ AtRest.host = "none"
  /\ SockUtilAssumption => AtRest \in MakerState
<1>1. SockUtilAssumption => MaxFd \in Nat
  BY DEF SockUtilAssumption
<1>2. {} \in SUBSET (0 .. MaxFd - 1)
  OBVIOUS
<1> QED
  BY <1>1, <1>2 DEF AtRest, MakerState, MakerSteps, Hosts

LEMMA SockStarts ==
  ASSUME SockUtilAssumption, SockInit
  PROVE  SockInv
<1>1. \A t \in Makers : maker[t] = AtRest
  BY DEF SockInit
<1>2. DOMAIN fds = {} /\ held = {} /\ leaked = {} /\ cache = <<>> /\ seconds = 0 /\ moved = 0
  BY DEF SockInit
<1>3. SockTyped
  <2>1. fds \in [DOMAIN fds -> FdState]
    BY DEF SockInit
  <2> QED
    BY <2>1, RestState DEF SockInit, SockTyped
<1>4. \A t \in Makers : StepInv(maker[t])
  BY <1>1, RestState DEF StepInv
<1>5. OwnersInv
  BY <1>1, <1>2, RestState DEF OwnersInv
<1>6. FdsInv
  BY <1>1, <1>2, RestState DEF FdsInv
<1>7. CacheInv
  BY <1>1, <1>2, RestState DEF CacheInv, NamesKeepUp
<1> QED
  BY <1>3, <1>4, <1>5, <1>6, <1>7 DEF SockInv

LEMMA SockSame ==
  ASSUME SockInv, UNCHANGED sockVars
  PROVE  SockInv'
<1>1. SockTyped'
  BY DEF SockInv, sockVars, SockTyped
<1>2. \A t \in Makers : StepInv(maker[t])'
  BY DEF SockInv, sockVars, StepInv, AtRest
<1>3. OwnersInv'
  BY DEF SockInv, sockVars, OwnersInv
<1>4. FdsInv'
  BY DEF SockInv, sockVars, FdsInv, FdRight, BoundTo
<1>5. CacheInv'
  BY DEF SockInv, sockVars, CacheInv, NamesKeepUp
<1> QED
  BY <1>1, <1>2, <1>3, <1>4, <1>5 DEF SockInv

(* One thread comes to another step.                                        *)
LEMMA MakerGoesOn ==
  ASSUME SockInv, NEW t \in Makers, NEW s \in MakerState, StepInv(s), maker' = [maker EXCEPT ![t] = s]
  PROVE  /\ \A u \in Makers : maker'[u] = IF u = t THEN s ELSE maker[u]
         /\ maker' \in [Makers -> MakerState] /\ \A u \in Makers : StepInv(maker[u])'
<1>1. \A u \in Makers : maker'[u] = IF u = t THEN s ELSE maker[u]
  BY DEF SockInv, SockTyped
<1>2. maker' \in [Makers -> MakerState]
  BY DEF SockInv, SockTyped
<1>3. ASSUME NEW u \in Makers PROVE StepInv(maker[u])'
  <2>1. StepInv(maker'[u])
    BY <1>1 DEF SockInv
  <2> QED
    BY <2>1 DEF StepInv, AtRest
<1> QED
  BY <1>1, <1>2, <1>3

(* It says nothing new of the name.                                         *)
LEMMA NamesStay ==
  ASSUME SockInv, NEW t \in Makers, NEW s, maker' = [maker EXCEPT ![t] = s],
         s.asked <= seconds, s.step # "store",
         s.step = "socket" /\ s.host = "name" /\ s.addr # NoAddress =>
           s.asked <= moved + ExpireSec \/ s.addr = address,
         UNCHANGED <<seconds, address, moved, cache>>
  PROVE  CacheInv'
<1>1. \A u \in Makers : maker'[u] = IF u = t THEN s ELSE maker[u]
  BY DEF SockInv, SockTyped
<1>2. \A u \in Makers : maker'[u].asked <= seconds'
  BY <1>1 DEF SockInv, CacheInv
<1>3. \A u \in Makers : maker'[u].step = "store" =>
        maker'[u].addr \in Nat /\ (maker'[u].addr = address' \/ moved' = seconds')
  BY <1>1 DEF SockInv, CacheInv
<1>4. NamesKeepUp'
  BY <1>1 DEF SockInv, CacheInv, NamesKeepUp
<1> QED
  BY <1>2, <1>3, <1>4 DEF SockInv, CacheInv

(* It has what it had.                                                      *)
LEMMA OwnSame ==
  ASSUME SockInv, NEW t \in Makers, NEW s \in MakerState, StepInv(s), maker' = [maker EXCEPT ![t] = s],
         s.own = maker[t].own, UNCHANGED <<ipv6, fds, held, leaked, seconds, address, moved>>,
         s.step = "go" \/ s.op = "pipe" => \A n \in s.own : fds[n].at # "none"
  PROVE  SockTyped' /\ (\A u \in Makers : StepInv(maker[u])') /\ OwnersInv' /\ FdsInv'
<1>1. /\ \A u \in Makers : maker'[u] = IF u = t THEN s ELSE maker[u]
      /\ maker' \in [Makers -> MakerState] /\ \A u \in Makers : StepInv(maker[u])'
  BY MakerGoesOn
<1>2. SockTyped'
  BY <1>1 DEF SockInv, SockTyped
<1>3. \A u \in Makers : maker'[u].own = maker[u].own
  BY <1>1
<1>4. OwnersInv'
  BY <1>3 DEF SockInv, OwnersInv
<1>5. \A n \in DOMAIN fds : FdRight(fds[n])'
  BY DEF SockInv, FdsInv, FdRight, BoundTo
<1>6. FdsInv'
  BY <1>1, <1>5 DEF SockInv, FdsInv
<1> QED
  BY <1>1, <1>2, <1>4, <1>6

LEMMA CallKeeps ==
  ASSUME SockUtilAssumption, SockInv, NEW t \in Makers, NEW op \in {"connect", "listen", "udp", "pipe"},
         NEW host \in Hosts, host = "name" => op = "connect", Call(t, op, host)
  PROVE  SockInv'
<1> DEFINE a == IF host = "name" THEN seconds ELSE 0
           st == IF op = "connect" /\ host = "name" THEN "cache" ELSE "socket"
           s == [AtRest EXCEPT !.op = op, !.host = host, !.asked = a, !.step = st]
<1>1. /\ maker[t].op = "none" /\ maker' = [maker EXCEPT ![t] = s]
      /\ UNCHANGED <<ipv6, seconds, address, moved, fds, held, leaked, cache>>
  BY DEF Call, netState
<1>2. a \in Nat /\ a <= seconds /\ st \in {"cache", "socket"} /\ (st = "cache" <=> op = "connect" /\ host = "name")
  BY DEF SockInv, SockTyped
<1>3. AtRest \in MakerState
  BY RestState
<1> HIDE DEF a, st
<1>4. s \in MakerState
  BY <1>2, <1>3 DEF MakerState, MakerSteps
<1>5. /\ s.op = op /\ s.step = st /\ s.own = {} /\ s.addr = NoAddress /\ s.asked = a /\ s.host = host
  BY <1>3, RestState DEF MakerState
<1> HIDE DEF s
<1>6. StepInv(s)
  BY <1>2, <1>5 DEF StepInv
<1>7. maker[t].own = {}
  BY <1>1, RestState DEF SockInv, StepInv
<1>8. SockTyped' /\ (\A u \in Makers : StepInv(maker[u])') /\ OwnersInv' /\ FdsInv'
  BY <1>1, <1>2, <1>4, <1>5, <1>6, <1>7, OwnSame
<1>9. CacheInv'
  BY <1>1, <1>2, <1>5, NamesStay
<1> QED
  BY <1>8, <1>9 DEF SockInv

LEMMA GetCacheDomainIPKeeps ==
  ASSUME SockUtilAssumption, SockInv, NEW t \in Makers, GetCacheDomainIP(t)
  PROVE  SockInv'
<1>1. /\ maker[t].step = "cache" /\ maker[t] \in MakerState /\ StepInv(maker[t])
      /\ UNCHANGED <<ipv6, seconds, address, moved, fds, held, leaked>>
  BY DEF GetCacheDomainIP, netState, SockInv, SockTyped
<1>2. maker[t].own = {} /\ maker[t].op = "connect" /\ maker[t].host = "name"
  BY <1>1 DEF StepInv
<1>3. maker[t].asked \in Nat /\ maker[t].asked <= seconds
  BY <1>1 DEF MakerState, SockInv, CacheInv
<1>4. CASE cache = <<>> \/ TooOld(cache[1])
  <2> DEFINE s == [maker[t] EXCEPT !.step = "resolve"]
  <2>1. maker' = [maker EXCEPT ![t] = s] /\ cache' = <<>>
    BY <1>4 DEF GetCacheDomainIP, GoesOn
  <2>2. s \in MakerState
    BY <1>1 DEF MakerState, MakerSteps
  <2>3. /\ s.step = "resolve" /\ s.op = maker[t].op /\ s.own = maker[t].own /\ s.fd = maker[t].fd
        /\ s.host = maker[t].host /\ s.asked = maker[t].asked
    BY <1>1 DEF MakerState
  <2> HIDE DEF s
  <2>4. StepInv(s)
    BY <1>2, <2>3 DEF StepInv
  <2>5. SockTyped' /\ (\A u \in Makers : StepInv(maker[u])') /\ OwnersInv' /\ FdsInv'
    BY <1>1, <1>2, <2>1, <2>2, <2>3, <2>4, OwnSame
  <2>6. \A u \in Makers : maker'[u] = IF u = t THEN s ELSE maker[u]
    BY <2>1 DEF SockInv, SockTyped
  <2>7. CacheInv'
    BY <1>1, <1>3, <2>1, <2>3, <2>6 DEF SockInv, CacheInv, NamesKeepUp
  <2> QED
    BY <2>5, <2>7 DEF SockInv
<1>5. CASE ~(cache = <<>> \/ TooOld(cache[1]))
  <2>1. PICK addr \in Nat, made \in Nat :
          /\ cache = << [addr |-> addr, created |-> made] >>
          /\ made <= seconds /\ (addr = address \/ made <= moved)
    BY <1>5 DEF SockInv, CacheInv
  <2>2. cache[1].addr = addr /\ cache[1].created = made
    BY <2>1
  <2>3. seconds <= made + ExpireSec
    BY <1>5, <2>2 DEF TooOld, SockUtilAssumption, SockInv, SockTyped
  <2> DEFINE s == [maker[t] EXCEPT !.step = "socket", !.addr = addr]
  <2>4. maker' = [maker EXCEPT ![t] = s] /\ cache' = cache
    BY <1>5, <2>2 DEF GetCacheDomainIP, SockInv, SockTyped
  <2>5. s \in MakerState
    BY <1>1 DEF MakerState, MakerSteps
  <2>6. /\ s.step = "socket" /\ s.op = maker[t].op /\ s.own = maker[t].own
        /\ s.host = maker[t].host /\ s.asked = maker[t].asked /\ s.addr = addr
    BY <1>1 DEF MakerState
  <2> HIDE DEF s
  <2>7. StepInv(s)
    BY <1>2, <2>6 DEF StepInv
  <2>8. SockTyped' /\ (\A u \in Makers : StepInv(maker[u])') /\ OwnersInv' /\ FdsInv'
    BY <1>1, <1>2, <2>4, <2>5, <2>6, <2>7, OwnSame
  <2>9. s.asked <= moved + ExpireSec \/ s.addr = address
    <3>1. ExpireSec \in Nat /\ moved \in Nat /\ seconds \in Nat
      BY DEF SockUtilAssumption, SockInv, SockTyped
    <3> QED
      BY <1>3, <2>1, <2>3, <2>6, <3>1
  <2>10. CacheInv'
    BY <1>1, <1>3, <2>4, <2>6, <2>9, NamesStay
  <2> QED
    BY <2>8, <2>10 DEF SockInv
<1> QED
  BY <1>4, <1>5

(* A call that ends with nothing.                                           *)
LEMMA EndsKeeps ==
  ASSUME SockUtilAssumption, SockInv, NEW t \in Makers, maker[t].own = {}, Ends(t),
         UNCHANGED <<ipv6, seconds, address, moved, fds, held, leaked, cache>>
  PROVE  SockInv'
<1>1. AtRest \in MakerState /\ AtRest.own = {} /\ AtRest.step = "none" /\ AtRest.op = "none"
      /\ AtRest.asked = 0
  BY RestState
<1>2. StepInv(AtRest)
  BY <1>1 DEF StepInv
<1>3. maker' = [maker EXCEPT ![t] = AtRest] /\ 0 <= seconds
  BY DEF Ends, SockInv, SockTyped
<1>4. SockTyped' /\ (\A u \in Makers : StepInv(maker[u])') /\ OwnersInv' /\ FdsInv'
  BY <1>1, <1>2, <1>3, OwnSame
<1>5. CacheInv'
  BY <1>1, <1>3, NamesStay
<1> QED
  BY <1>4, <1>5 DEF SockInv

LEMMA GetSystemDomainIPKeeps ==
  ASSUME SockUtilAssumption, SockInv, NEW t \in Makers, GetSystemDomainIP(t)
  PROVE  SockInv'
<1>1. /\ maker[t].step = "resolve" /\ maker[t] \in MakerState /\ StepInv(maker[t])
      /\ UNCHANGED <<ipv6, seconds, address, moved, fds, held, leaked, cache>>
  BY DEF GetSystemDomainIP, netState, SockInv, SockTyped
<1>2. maker[t].own = {} /\ maker[t].op = "connect" /\ maker[t].host = "name"
  BY <1>1 DEF StepInv
<1>3. CASE Ends(t)
  BY <1>1, <1>2, <1>3, EndsKeeps
<1>4. CASE maker' = [maker EXCEPT ![t].step = "store", ![t].addr = address]
  <2> DEFINE s == [maker[t] EXCEPT !.step = "store", !.addr = address]
  <2>1. maker' = [maker EXCEPT ![t] = s]
    BY <1>4 DEF SockInv, SockTyped
  <2>2. address \in Nat
    BY DEF SockInv, SockTyped
  <2>3. s \in MakerState
    BY <1>1, <2>2 DEF MakerState, MakerSteps
  <2>4. /\ s.step = "store" /\ s.op = maker[t].op /\ s.own = maker[t].own
        /\ s.host = maker[t].host /\ s.asked = maker[t].asked /\ s.addr = address
    BY <1>1 DEF MakerState
  <2> HIDE DEF s
  <2>5. StepInv(s)
    BY <1>2, <2>4 DEF StepInv
  <2>6. SockTyped' /\ (\A u \in Makers : StepInv(maker[u])') /\ OwnersInv' /\ FdsInv'
    BY <1>1, <1>2, <2>1, <2>3, <2>4, <2>5, OwnSame
  <2>7. \A u \in Makers : maker'[u] = IF u = t THEN s ELSE maker[u]
    BY <2>1 DEF SockInv, SockTyped
  <2>8. CacheInv'
    BY <1>1, <2>2, <2>4, <2>7 DEF SockInv, CacheInv, NamesKeepUp
  <2> QED
    BY <2>6, <2>8 DEF SockInv
<1> QED
  BY <1>3, <1>4 DEF GetSystemDomainIP

LEMMA SetCacheDomainIPKeeps ==
  ASSUME SockUtilAssumption, SockInv, NEW t \in Makers, SetCacheDomainIP(t)
  PROVE  SockInv'
<1>1. /\ maker[t].step = "store" /\ maker[t] \in MakerState /\ StepInv(maker[t])
      /\ cache' = << [addr |-> maker[t].addr, created |-> seconds] >>
      /\ UNCHANGED <<ipv6, seconds, address, moved, fds, held, leaked>>
  BY DEF SetCacheDomainIP, netState, SockInv, SockTyped
<1>2. maker[t].own = {} /\ maker[t].op = "connect" /\ maker[t].host = "name"
  BY <1>1 DEF StepInv
<1>3. maker[t].asked \in Nat /\ maker[t].asked <= seconds
  BY <1>1 DEF MakerState, SockInv, CacheInv
<1>4. maker[t].addr \in Nat /\ (maker[t].addr = address \/ moved = seconds)
  BY <1>1 DEF SockInv, CacheInv
<1> DEFINE s == [maker[t] EXCEPT !.step = "socket"]
<1>5. maker' = [maker EXCEPT ![t] = s]
  BY DEF SetCacheDomainIP, GoesOn
<1>6. s \in MakerState
  BY <1>1 DEF MakerState, MakerSteps
<1>7. /\ s.step = "socket" /\ s.op = maker[t].op /\ s.own = maker[t].own
      /\ s.host = maker[t].host /\ s.asked = maker[t].asked /\ s.addr = maker[t].addr
  BY <1>1 DEF MakerState
<1> HIDE DEF s
<1>8. StepInv(s)
  BY <1>2, <1>7 DEF StepInv
<1>9. SockTyped' /\ (\A u \in Makers : StepInv(maker[u])') /\ OwnersInv' /\ FdsInv'
  BY <1>1, <1>2, <1>5, <1>6, <1>7, <1>8, OwnSame
<1>10. \A u \in Makers : maker'[u] = IF u = t THEN s ELSE maker[u]
  BY <1>5 DEF SockInv, SockTyped
<1>11. ExpireSec \in Nat /\ moved \in Nat /\ seconds \in Nat /\ moved <= seconds
  BY DEF SockUtilAssumption, SockInv, SockTyped, CacheInv
<1>12. s.asked <= moved + ExpireSec \/ s.addr = address
  BY <1>3, <1>4, <1>7, <1>11
<1>13. CacheInv'
  <2>1. \A u \in Makers : maker'[u].asked <= seconds'
    BY <1>1, <1>3, <1>7, <1>10 DEF SockInv, CacheInv
  <2>2. \A u \in Makers : maker'[u].step = "store" =>
          maker'[u].addr \in Nat /\ (maker'[u].addr = address' \/ moved' = seconds')
    BY <1>1, <1>7, <1>10 DEF SockInv, CacheInv
  <2>3. NamesKeepUp'
    BY <1>1, <1>7, <1>10, <1>12 DEF SockInv, CacheInv, NamesKeepUp
  <2>4. \E addr \in Nat, made \in Nat :
          /\ cache' = << [addr |-> addr, created |-> made] >>
          /\ made <= seconds' /\ (addr = address' \/ made <= moved')
    BY <1>1, <1>4, <1>11
  <2> QED
    BY <1>1, <1>11, <2>1, <2>2, <2>3, <2>4 DEF CacheInv
<1> QED
  BY <1>9, <1>13 DEF SockInv

LEMMA SecondKeeps ==
  ASSUME SockUtilAssumption, SockInv, Second
  PROVE  SockInv'
<1>1. /\ \A t \in Makers : maker[t].step # "store"
      /\ seconds' = seconds + 1 /\ seconds \in Nat /\ moved \in Nat
      /\ UNCHANGED <<ipv6, fds, maker, held, leaked, address, moved, cache>>
  BY DEF Second, SockInv, SockTyped
<1>2. SockTyped' /\ OwnersInv'
  BY <1>1 DEF SockInv, SockTyped, OwnersInv
<1>3. \A t \in Makers : StepInv(maker[t])'
  BY <1>1 DEF SockInv, StepInv, AtRest
<1>4. FdsInv'
  BY <1>1 DEF SockInv, FdsInv, FdRight, BoundTo
<1>5. CacheInv'
  <2>1. ASSUME NEW t \in Makers PROVE maker[t].asked <= seconds'
    <3>1. maker[t].asked \in Nat /\ maker[t].asked <= seconds
      BY DEF SockInv, SockTyped, MakerState, CacheInv
    <3> QED
      BY <3>1, <1>1
  <2>2. cache = <<>> \/ \E addr \in Nat, made \in Nat :
          /\ cache = << [addr |-> addr, created |-> made] >>
          /\ made <= seconds' /\ (addr = address \/ made <= moved)
    <3>1. CASE cache = <<>>
      BY <3>1
    <3>2. CASE cache # <<>>
      <4>1. PICK addr \in Nat, made \in Nat :
              /\ cache = << [addr |-> addr, created |-> made] >>
              /\ made <= seconds /\ (addr = address \/ made <= moved)
        BY <3>2 DEF SockInv, CacheInv
      <4>2. made <= seconds'
        BY <4>1, <1>1
      <4> QED
        BY <4>1, <4>2
    <3> QED
      BY <3>1, <3>2
  <2>3. moved <= seconds'
    BY <1>1 DEF SockInv, CacheInv
  <2> QED
    BY <1>1, <2>1, <2>2, <2>3 DEF SockInv, CacheInv, NamesKeepUp
<1> QED
  BY <1>2, <1>3, <1>4, <1>5 DEF SockInv

LEMMA MoveKeeps ==
  ASSUME SockUtilAssumption, SockInv, Move
  PROVE  SockInv'
<1>1. /\ address' = address + 1 /\ address \in Nat /\ moved' = seconds /\ seconds \in Nat /\ moved \in Nat
      /\ moved <= seconds
      /\ UNCHANGED <<ipv6, fds, maker, held, leaked, seconds, cache>>
  BY DEF Move, SockInv, SockTyped, CacheInv
<1>2. SockTyped' /\ OwnersInv'
  BY <1>1 DEF SockInv, SockTyped, OwnersInv
<1>3. \A t \in Makers : StepInv(maker[t])'
  BY <1>1 DEF SockInv, StepInv, AtRest
<1>4. FdsInv'
  BY <1>1 DEF SockInv, FdsInv, FdRight, BoundTo
<1>5. CacheInv'
  <2>1. ASSUME NEW t \in Makers PROVE maker[t].asked <= moved' + ExpireSec
    <3>1. maker[t].asked \in Nat /\ maker[t].asked <= seconds /\ ExpireSec \in Nat
      BY DEF SockInv, SockTyped, MakerState, CacheInv, SockUtilAssumption
    <3> QED
      BY <3>1, <1>1
  <2>2. NamesKeepUp'
    BY <1>1, <2>1 DEF NamesKeepUp
  <2>3. cache = <<>> \/ \E addr \in Nat, made \in Nat :
          /\ cache = << [addr |-> addr, created |-> made] >>
          /\ made <= seconds /\ made <= moved'
    BY <1>1 DEF SockInv, CacheInv
  <2>4. moved' <= seconds' /\ cache' = cache
    BY <1>1
  <2>5. cache' = <<>> \/ \E addr \in Nat, made \in Nat :
          /\ cache' = << [addr |-> addr, created |-> made] >>
          /\ made <= seconds' /\ (addr = address' \/ made <= moved')
    BY <1>1, <2>3
  <2> QED
    BY <1>1, <2>2, <2>4, <2>5 DEF SockInv, CacheInv
<1> QED
  BY <1>2, <1>3, <1>4, <1>5 DEF SockInv

(* A thread opens a descriptor.                                             *)
LEMMA OpensOne ==
  ASSUME SockUtilAssumption, SockInv, NEW t \in Makers, NEW n \in FreeFds, NEW d \in FdState, FdRight(d),
         NEW s \in MakerState, StepInv(s), s.own = maker[t].own \cup {n}, s.step # "go",
         s.op = "pipe" => d.at # "none" /\ maker[t].op = "pipe",
         s.asked <= seconds, s.step \notin {"store", "socket"},
         fds' = [m \in DOMAIN fds \cup {n} |-> IF m = n THEN d ELSE fds[m]],
         maker' = [maker EXCEPT ![t] = s],
         UNCHANGED <<ipv6, seconds, address, moved, held, leaked, cache>>
  PROVE  SockInv'
<1>1. /\ \A u \in Makers : maker'[u] = IF u = t THEN s ELSE maker[u]
      /\ maker' \in [Makers -> MakerState] /\ \A u \in Makers : StepInv(maker[u])'
  BY MakerGoesOn
<1>2. n \in 0 .. MaxFd - 1 /\ n \notin DOMAIN fds
  BY DEF FreeFds
<1>3. DOMAIN fds' = DOMAIN fds \cup {n} /\ \A m \in DOMAIN fds : fds'[m] = fds[m]
  BY <1>2
<1>4. fds'[n] = d
  OBVIOUS
<1>5. SockTyped'
  <2>1. fds' \in [DOMAIN fds' -> FdState]
    BY <1>3 DEF SockInv, SockTyped
  <2> QED
    BY <1>1, <1>2, <1>3, <2>1 DEF SockInv, SockTyped
<1>6. OwnersInv'
  <2>1. n \notin held /\ n \notin leaked /\ \A u \in Makers : n \notin maker[u].own
    BY <1>2 DEF SockInv, OwnersInv
  <2>2. \A u \in Makers : maker'[u].own = IF u = t THEN maker[u].own \cup {n} ELSE maker[u].own
    BY <1>1
  <2>3. \A k : k \in DOMAIN fds' <=> k \in held \/ k \in leaked \/ \E u \in Makers : k \in maker'[u].own
    <3> TAKE k
    <3>1. k \in DOMAIN fds' <=> k \in DOMAIN fds \/ k = n
      BY <1>3
    <3>2. (\E u \in Makers : k \in maker'[u].own) <=> (\E u \in Makers : k \in maker[u].own) \/ k = n
      <4>1. n \in maker'[t].own
        BY <2>2
      <4> QED
        BY <2>2, <4>1
    <3>3. k \in DOMAIN fds <=> k \in held \/ k \in leaked \/ \E u \in Makers : k \in maker[u].own
      BY DEF SockInv, OwnersInv
    <3> QED
      BY <3>1, <3>2, <3>3
  <2>4. \A u \in Makers : maker'[u].own \cap (held \cup leaked) = {}
    BY <2>1, <2>2 DEF SockInv, OwnersInv
  <2>5. \A u, v \in Makers : u # v => maker'[u].own \cap maker'[v].own = {}
    BY <2>1, <2>2 DEF SockInv, OwnersInv
  <2> QED
    BY <2>3, <2>4, <2>5 DEF SockInv, OwnersInv
<1>7. FdsInv'
  <2>1. \A m \in DOMAIN fds' : FdRight(fds[m])'
    BY <1>3, <1>4 DEF SockInv, FdsInv, FdRight, BoundTo
  <2>2. \A m \in held : m \in DOMAIN fds
    BY DEF SockInv, OwnersInv
  <2>3. \A u \in Makers : \A m \in maker[u].own : m \in DOMAIN fds
    BY DEF SockInv, OwnersInv
  <2>4. \A m \in held : fds'[m].at # "none"
    BY <1>3, <2>2 DEF SockInv, FdsInv
  <2>5. ASSUME NEW u \in Makers, maker'[u].step = "go" \/ maker'[u].op = "pipe", NEW m \in maker'[u].own
        PROVE  fds'[m].at # "none"
    <3>1. CASE u # t
      BY <1>1, <1>3, <2>3, <2>5, <3>1 DEF SockInv, FdsInv
    <3>2. CASE u = t
      <4>1. s.op = "pipe" /\ m \in maker[t].own \cup {n}
        BY <1>1, <2>5, <3>2
      <4> QED
        BY <4>1, <1>3, <1>4, <2>3 DEF SockInv, FdsInv
    <3> QED
      BY <3>1, <3>2
  <2> QED
    BY <2>1, <2>4, <2>5 DEF FdsInv
<1>8. CacheInv'
  BY NamesStay
<1> QED
  BY <1>1, <1>5, <1>6, <1>7, <1>8 DEF SockInv

LEMMA SocketKeeps ==
  ASSUME SockUtilAssumption, SockInv, NEW t \in Makers, Socket(t)
  PROVE  SockInv'
<1>1. /\ maker[t].step = "socket" /\ maker[t].op # "pipe" /\ maker[t] \in MakerState /\ StepInv(maker[t])
      /\ UNCHANGED <<ipv6, seconds, address, moved, held, leaked, cache>>
  BY DEF Socket, netState, SockInv, SockTyped
<1>2. maker[t].own = {} /\ maker[t].op # "none" /\ maker[t].asked <= seconds
  BY <1>1, RestState DEF StepInv, SockInv, CacheInv
<1>3. CASE Ends(t) /\ UNCHANGED fds
  BY <1>1, <1>2, <1>3, EndsKeeps
<1>4. CASE ~(Ends(t) /\ UNCHANGED fds)
  <2>1. /\ FreeFds # {} /\ (Family(t) = "inet6" => ipv6)
        /\ fds' = [m \in DOMAIN fds \cup {Lowest} |->
                     IF m = Lowest THEN [family |-> Family(t), local |-> LocalIp(t), at |-> "none"]
                     ELSE fds[m]]
        /\ maker' = [maker EXCEPT ![t].step = "bind", ![t].fd = Lowest, ![t].own = {Lowest}]
    BY <1>4 DEF Socket
  <2>2. PICK n \in FreeFds : n = Lowest
    BY <2>1, LowestIsFree
  <2>3. n \in 0 .. MaxFd - 1 /\ n \in Nat
    BY DEF FreeFds, SockUtilAssumption
  <2> DEFINE d == [family |-> Family(t), local |-> LocalIp(t), at |-> "none"]
             s == [maker[t] EXCEPT !.step = "bind", !.fd = n, !.own = {n}]
  <2>4. fds' = [m \in DOMAIN fds \cup {n} |-> IF m = n THEN d ELSE fds[m]]
    BY <2>1, <2>2
  <2>5. maker' = [maker EXCEPT ![t] = s]
    BY <2>1, <2>2 DEF SockInv, SockTyped
  <2>6. d \in FdState
    <3>1. maker[t].host \in Hosts
      BY <1>1 DEF MakerState
    <3>2. LocalIp(t) \in Hosts
      BY <3>1 DEF LocalIp, Hosts
    <3>3. Family(t) \in {"inet", "inet6"}
      BY DEF Family, FamilyOf
    <3> QED
      BY <3>2, <3>3 DEF FdState
  <2>7. FdRight(d)
    <3>1. LocalIp(t) = "v4" => Family(t) = "inet"
      BY <1>1 DEF LocalIp, Family, FamilyOf
    <3>2. LocalIp(t) = "v6" /\ ipv6 => Family(t) = "inet6"
      BY <1>1 DEF LocalIp, Family, FamilyOf
    <3>3. d.local = LocalIp(t) /\ d.family = Family(t) /\ d.at = "none"
      OBVIOUS
    <3> HIDE DEF d
    <3> QED
      BY <3>1, <3>2, <3>3 DEF FdRight
  <2>8. s \in MakerState
    BY <1>1, <2>3 DEF MakerState, MakerSteps
  <2>9. s.step = "bind" /\ s.fd = n /\ s.own = {n} /\ s.op = maker[t].op /\ s.asked = maker[t].asked
    BY <1>1 DEF MakerState
  <2> HIDE DEF s, d
  <2>10. StepInv(s)
    BY <1>1, <1>2, <2>9 DEF StepInv
  <2>11. s.own = maker[t].own \cup {n}
    BY <1>2, <2>9
  <2> QED
    BY <1>1, <1>2, <2>4, <2>5, <2>6, <2>7, <2>8, <2>9, <2>10, <2>11, OpensOne
<1> QED
  BY <1>3, <1>4

LEMMA PipeOpensKeeps ==
  ASSUME SockUtilAssumption, SockInv, NEW t \in Makers, PipeOpens(t)
  PROVE  SockInv'
<1>1. /\ maker[t].op = "pipe" /\ maker[t].step \in {"socket", "write end", "read end"} /\ FreeFds # {}
      /\ maker[t] \in MakerState /\ StepInv(maker[t])
      /\ UNCHANGED <<ipv6, seconds, address, moved, held, leaked, cache>>
  BY DEF PipeOpens, netState, SockInv, SockTyped
<1>2. PICK n \in FreeFds : n = Lowest
  BY <1>1, LowestIsFree
<1>3. n \in 0 .. MaxFd - 1 /\ n \in Nat
  BY DEF FreeFds, SockUtilAssumption
<1>4. maker[t].asked <= seconds
  BY DEF SockInv, CacheInv
<1> DEFINE d == [family |-> "inet", local |-> "v4", at |-> "v4"]
<1>5. PICK st \in {"write end", "read end", "close listener"} :
        st = CASE maker[t].step = "socket" -> "write end" [] maker[t].step = "write end" -> "read end"
               [] OTHER -> "close listener"
  OBVIOUS
<1>6. PICK f \in Nat : f = IF maker[t].step = "socket" THEN n ELSE maker[t].fd
  BY <1>1, <1>3 DEF MakerState
<1> DEFINE s == [maker[t] EXCEPT !.own = @ \cup {n}, !.fd = f, !.step = st]
<1>7. fds' = [m \in DOMAIN fds \cup {n} |-> IF m = n THEN d ELSE fds[m]]
  BY <1>2 DEF PipeOpens, Opened
<1>8. maker' = [maker EXCEPT ![t] = s]
  BY <1>2, <1>5, <1>6 DEF PipeOpens, SockInv, SockTyped
<1>9. d \in FdState /\ FdRight(d) /\ d.at # "none"
  BY DEF FdState, Hosts, FdRight, BoundTo
<1>10. s \in MakerState
  BY <1>1, <1>3 DEF MakerState, MakerSteps
<1>11. s.step = st /\ s.fd = f /\ s.own = maker[t].own \cup {n} /\ s.op = "pipe" /\ s.asked = maker[t].asked
  BY <1>1 DEF MakerState
<1> HIDE DEF s, d
<1>12. StepInv(s)
  <2>1. CASE maker[t].step = "socket"
    <3>1. maker[t].own = {} /\ st = "write end" /\ f = n
      BY <1>1, <1>5, <1>6, <2>1 DEF StepInv
    <3> QED
      BY <1>11, <3>1 DEF StepInv
  <2>2. CASE maker[t].step # "socket"
    <3>1. maker[t].fd \in maker[t].own /\ st \in {"read end", "close listener"} /\ f = maker[t].fd
      BY <1>1, <1>5, <1>6, <2>2 DEF StepInv
    <3> QED
      BY <1>11, <3>1 DEF StepInv
  <2> QED
    BY <2>1, <2>2
<1> QED
  BY <1>1, <1>4, <1>5, <1>7, <1>8, <1>9, <1>10, <1>11, <1>12, OpensOne

(* A thread closes what it has, or hands it over, and its call ends.        *)
LEMMA LetsGo ==
  ASSUME SockUtilAssumption, SockInv, NEW t \in Makers, maker' = [maker EXCEPT ![t] = AtRest],
         NEW closed, NEW given, NEW lost, closed \cup given \cup lost = maker[t].own,
         closed \cap given = {}, closed \cap lost = {}, given \cap lost = {},
         fds' = [m \in DOMAIN fds \ closed |-> fds[m]], held' = held \cup given,
         leaked' = leaked \cup lost, \A m \in given : fds[m].at # "none",
         UNCHANGED <<ipv6, seconds, address, moved, cache>>
  PROVE  SockInv'
<1>1. AtRest \in MakerState /\ AtRest.own = {} /\ AtRest.step = "none" /\ AtRest.op = "none"
      /\ AtRest.asked = 0
  BY RestState
<1>2. StepInv(AtRest)
  BY <1>1 DEF StepInv
<1>3. /\ \A u \in Makers : maker'[u] = IF u = t THEN AtRest ELSE maker[u]
      /\ maker' \in [Makers -> MakerState] /\ \A u \in Makers : StepInv(maker[u])'
  BY <1>1, <1>2, MakerGoesOn
<1>4. DOMAIN fds' = DOMAIN fds \ closed /\ \A m \in DOMAIN fds' : fds'[m] = fds[m]
  OBVIOUS
<1>5. SockTyped'
  <2>1. fds' \in [DOMAIN fds' -> FdState]
    BY <1>4 DEF SockInv, SockTyped
  <2> QED
    BY <1>3, <1>4, <2>1 DEF SockInv, SockTyped
<1>6. \A u \in Makers : maker'[u].own = IF u = t THEN {} ELSE maker[u].own
  BY <1>1, <1>3
<1>7. OwnersInv'
  <2>1. ASSUME NEW k
        PROVE  k \in DOMAIN fds' <=> k \in held' \/ k \in leaked' \/ \E u \in Makers : k \in maker'[u].own
    <3>1. k \in DOMAIN fds <=> k \in held \/ k \in leaked \/ \E u \in Makers : k \in maker[u].own
      BY DEF SockInv, OwnersInv
    <3>2. (\E u \in Makers : k \in maker'[u].own) <=> (\E u \in Makers : u # t /\ k \in maker[u].own)
      BY <1>6
    <3>3. k \in maker[t].own => k \notin held /\ k \notin leaked /\ \A u \in Makers : u # t => k \notin maker[u].own
      BY DEF SockInv, OwnersInv
    <3>4. k \in maker[t].own <=> k \in closed \/ k \in given \/ k \in lost
      OBVIOUS
    <3>5. k \in DOMAIN fds' <=> k \in DOMAIN fds /\ k \notin closed
      BY <1>4
    <3>6. k \in closed => k \notin given /\ k \notin lost
      OBVIOUS
    <3>7. (\E u \in Makers : k \in maker[u].own) <=> k \in maker[t].own \/ \E u \in Makers : u # t /\ k \in maker[u].own
      OBVIOUS
    <3> QED
      BY <3>1, <3>2, <3>3, <3>4, <3>5, <3>6, <3>7
  <2>2. held' \cap leaked' = {}
    BY DEF SockInv, OwnersInv
  <2>3. ASSUME NEW u \in Makers PROVE maker'[u].own \cap (held' \cup leaked') = {}
    <3>1. CASE u = t
      BY <1>6, <3>1
    <3>2. CASE u # t
      <4>1. maker[u].own \cap maker[t].own = {} /\ maker[u].own \cap (held \cup leaked) = {}
        BY <3>2 DEF SockInv, OwnersInv
      <4> QED
        BY <1>6, <3>2, <4>1
    <3> QED
      BY <3>1, <3>2
  <2>4. \A u, v \in Makers : u # v => maker'[u].own \cap maker'[v].own = {}
    BY <1>6 DEF SockInv, OwnersInv
  <2> QED
    BY <2>1, <2>2, <2>3, <2>4 DEF OwnersInv
<1>8. FdsInv'
  <2>1. \A m \in DOMAIN fds' : FdRight(fds[m])'
    BY <1>4 DEF SockInv, FdsInv, FdRight, BoundTo
  <2>2. \A m \in held' : m \in DOMAIN fds'
    BY <1>7 DEF OwnersInv
  <2>3. \A u \in Makers : \A m \in maker'[u].own : m \in DOMAIN fds'
    BY <1>7 DEF OwnersInv
  <2>4. \A m \in held' : fds'[m].at # "none"
    BY <1>4, <2>2 DEF SockInv, FdsInv
  <2>5. \A u \in Makers : maker'[u].step = "go" \/ maker'[u].op = "pipe" =>
          \A m \in maker'[u].own : fds'[m].at # "none"
    BY <1>3, <1>4, <1>6, <2>3 DEF SockInv, FdsInv
  <2> QED
    BY <2>1, <2>4, <2>5 DEF FdsInv
<1>9. 0 <= seconds
  BY DEF SockInv, SockTyped
<1>10. CacheInv'
  BY <1>1, <1>9, NamesStay
<1> QED
  BY <1>3, <1>5, <1>7, <1>8, <1>10 DEF SockInv

LEMMA GivesUpKeeps ==
  ASSUME SockUtilAssumption, SockInv, NEW t \in Makers, maker[t].step \in {"bind", "go"}, GivesUp(t),
         UNCHANGED <<ipv6, seconds, address, moved, leaked, cache>>
  PROVE  SockInv'
<1>1. maker[t].own = {maker[t].fd}
  BY DEF SockInv, StepInv
<1>2. /\ maker' = [maker EXCEPT ![t] = AtRest] /\ held' = held \cup {} /\ leaked' = leaked \cup {}
      /\ fds' = [m \in DOMAIN fds \ {maker[t].fd} |-> fds[m]]
  BY DEF GivesUp, Ends, Closed
<1> DEFINE nothing == {}
<1>3. /\ {maker[t].fd} \cup nothing \cup nothing = maker[t].own
      /\ {maker[t].fd} \cap nothing = {} /\ nothing \cap nothing = {}
      /\ \A m \in nothing : fds[m].at # "none"
  BY <1>1
<1>4. held' = held \cup nothing /\ leaked' = leaked \cup nothing
  BY <1>2
<1> HIDE DEF nothing
<1> QED
  BY <1>2, <1>3, <1>4, LetsGo

LEMMA ListenOrConnectKeeps ==
  ASSUME SockUtilAssumption, SockInv, NEW t \in Makers, ListenOrConnect(t)
  PROVE  SockInv'
<1>1. /\ maker[t].step = "go" /\ UNCHANGED <<ipv6, seconds, address, moved, leaked, cache>>
  BY DEF ListenOrConnect, netState
<1>2. CASE GivesUp(t)
  BY <1>1, <1>2, GivesUpKeeps
<1>3. CASE HandsOver(t)
  <2>1. maker[t].own = {maker[t].fd} /\ fds \in [DOMAIN fds -> FdState]
    BY <1>1 DEF SockInv, StepInv, SockTyped
  <2>2. fds' = [m \in DOMAIN fds \ {} |-> fds[m]]
    BY <1>3, <2>1 DEF HandsOver
  <2>3. /\ maker' = [maker EXCEPT ![t] = AtRest] /\ held' = held \cup {maker[t].fd} /\ leaked' = leaked \cup {}
    BY <1>1, <1>3 DEF HandsOver, Ends
  <2>4. {} \cup {maker[t].fd} \cup {} = maker[t].own
    BY <2>1
  <2>5. \A m \in {maker[t].fd} : fds[m].at # "none"
    BY <1>1, <2>1 DEF SockInv, FdsInv
  <2> DEFINE nothing == {}
             given == {maker[t].fd}
  <2>6. /\ nothing \cup given \cup nothing = maker[t].own
        /\ nothing \cap given = {} /\ nothing \cap nothing = {} /\ given \cap nothing = {}
    BY <2>4
  <2>7. /\ leaked' = leaked \cup nothing /\ fds' = [m \in DOMAIN fds \ nothing |-> fds[m]]
        /\ held' = held \cup given /\ \A m \in given : fds[m].at # "none"
    BY <2>2, <2>3, <2>5
  <2> HIDE DEF nothing, given
  <2> QED
    BY <1>1, <2>3, <2>6, <2>7, LetsGo
<1> QED
  BY <1>2, <1>3 DEF ListenOrConnect

LEMMA PipeFailsKeeps ==
  ASSUME SockUtilAssumption, SockInv, NEW t \in Makers, PipeFails(t)
  PROVE  SockInv'
<1> DEFINE ends == maker[t].own \ {maker[t].fd}
           listener == maker[t].own \cap {maker[t].fd}
<1>1. /\ fds' = [m \in DOMAIN fds \ ends |-> fds[m]] /\ leaked' = leaked \cup listener
      /\ held' = held \cup {} /\ maker' = [maker EXCEPT ![t] = AtRest]
      /\ UNCHANGED <<ipv6, seconds, address, moved, cache>>
  BY DEF PipeFails, Ends, netState
<1>2. ends \cup {} \cup listener = maker[t].own /\ ends \cap listener = {}
  OBVIOUS
<1> HIDE DEF ends, listener
<1> QED
  BY <1>1, <1>2, LetsGo

LEMMA PipeDoneKeeps ==
  ASSUME SockUtilAssumption, SockInv, NEW t \in Makers, PipeDone(t)
  PROVE  SockInv'
<1> DEFINE ends == maker[t].own \ {maker[t].fd}
           listener == {maker[t].fd}
<1>1. /\ fds' = [m \in DOMAIN fds \ listener |-> fds[m]] /\ leaked' = leaked \cup {}
      /\ held' = held \cup ends /\ maker' = [maker EXCEPT ![t] = AtRest]
      /\ UNCHANGED <<ipv6, seconds, address, moved, cache>>
  BY DEF PipeDone, Ends, netState, Closed
<1>2. maker[t].fd \in maker[t].own /\ maker[t].op = "pipe"
  BY DEF PipeDone, SockInv, StepInv
<1>3. listener \cup ends \cup {} = maker[t].own /\ listener \cap ends = {}
  BY <1>2
<1>4. \A m \in ends : fds[m].at # "none"
  BY <1>2 DEF SockInv, FdsInv
<1> HIDE DEF ends, listener
<1> QED
  BY <1>1, <1>3, <1>4, LetsGo

(* What is bound is bound to what its local address stands for.             *)
LEMMA BindKeeps ==
  ASSUME SockUtilAssumption, SockInv, NEW t \in Makers, Bind(t)
  PROVE  SockInv'
<1>1. /\ maker[t].step = "bind" /\ maker[t] \in MakerState /\ StepInv(maker[t])
      /\ UNCHANGED <<ipv6, seconds, address, moved, leaked, cache>>
  BY DEF Bind, netState, SockInv, SockTyped
<1>2. CASE GivesUp(t)
  BY <1>1, <1>2, GivesUpKeeps
<1>3. CASE ~GivesUp(t)
  <2>1. PICK n : n = maker[t].fd /\ maker[t].own = {n}
    BY <1>1 DEF StepInv
  <2>2. n \in DOMAIN fds
    BY <2>1 DEF SockInv, OwnersInv
  <2>3. PICK d \in FdState : d = fds[n] /\ FdRight(d)
    BY <2>2 DEF SockInv, SockTyped, FdsInv
  <2>4. PICK to \in {"any", "any4", "v4", "v6"} : to = BoundTo(d.family, d.local)
    BY DEF BoundTo
  <2> DEFINE b == [d EXCEPT !.at = to]
  <2>5. b \in FdState /\ b.at = to /\ b.local = d.local /\ b.family = d.family
    <3>1. b \in FdState
      BY ONLY d \in FdState, to \in {"any", "any4", "v4", "v6"} DEF FdState
    <3>2. b.at = to /\ b.local = d.local /\ b.family = d.family
      BY ONLY d \in FdState DEF FdState
    <3> QED
      BY <3>1, <3>2
  <2>6. fds' = [fds EXCEPT ![n] = b]
    BY <1>3, <2>1, <2>3, <2>4 DEF Bind
  <2> HIDE DEF b
  <2>7. FdRight(b) /\ b.at # "none"
    BY <2>3, <2>4, <2>5 DEF FdRight
  <2>8. /\ DOMAIN fds' = DOMAIN fds
        /\ \A m \in DOMAIN fds : fds'[m] = IF m = n THEN b ELSE fds[m]
    BY <2>2, <2>6 DEF SockInv, SockTyped
  <2>9. fds' \in [DOMAIN fds' -> FdState] /\ DOMAIN fds' \subseteq 0 .. MaxFd - 1
    BY <2>5, <2>6, <2>8 DEF SockInv, SockTyped
  <2>10. \A m \in DOMAIN fds' : FdRight(fds'[m])
    BY <2>7, <2>8 DEF SockInv, FdsInv
  <2>11. \A m \in DOMAIN fds : fds[m].at # "none" => fds'[m].at # "none"
    BY <2>7, <2>8
  <2>12. \A m : (\E u \in Makers : m \in maker[u].own) => m \in DOMAIN fds
    BY DEF SockInv, OwnersInv
  <2>13. \A m \in held : m \in DOMAIN fds
    BY DEF SockInv, OwnersInv
  <2>14. CASE maker[t].op = "udp"
    <3>1. maker' = [maker EXCEPT ![t] = AtRest] /\ held' = held \cup {n}
      BY <1>3, <2>1, <2>14 DEF Bind, Ends
    <3>2. /\ AtRest \in MakerState /\ AtRest.own = {} /\ AtRest.step = "none" /\ AtRest.op = "none"
          /\ AtRest.asked = 0 /\ StepInv(AtRest)
      BY RestState DEF StepInv
    <3>3. /\ \A u \in Makers : maker'[u] = IF u = t THEN AtRest ELSE maker[u]
          /\ maker' \in [Makers -> MakerState] /\ \A u \in Makers : StepInv(maker[u])'
      BY <3>1, <3>2, MakerGoesOn
    <3>4. \A u \in Makers : maker'[u].own = IF u = t THEN {} ELSE maker[u].own
      BY <3>2, <3>3
    <3>5. SockTyped'
      BY <1>1, <2>9, <3>3 DEF SockInv, SockTyped
    <3>6. OwnersInv'
      <4>1. ASSUME NEW k
            PROVE  k \in DOMAIN fds' <=> k \in held' \/ k \in leaked' \/ \E u \in Makers : k \in maker'[u].own
        <5>1. k \in DOMAIN fds <=> k \in held \/ k \in leaked \/ \E u \in Makers : k \in maker[u].own
          BY DEF SockInv, OwnersInv
        <5>2. (\E u \in Makers : k \in maker'[u].own) <=> (\E u \in Makers : u # t /\ k \in maker[u].own)
          BY <3>4
        <5>3. (\E u \in Makers : k \in maker[u].own) <=> k = n \/ \E u \in Makers : u # t /\ k \in maker[u].own
          BY <2>1
        <5> QED
          BY <5>1, <5>2, <5>3, <3>1, <2>8, <1>1
      <4>2. n \notin held /\ n \notin leaked /\ \A u \in Makers : u # t => n \notin maker[u].own
        BY <2>1 DEF SockInv, OwnersInv
      <4>3. held' \cap leaked' = {}
        BY <1>1, <3>1, <4>2 DEF SockInv, OwnersInv
      <4>4. \A u \in Makers : maker'[u].own \cap (held' \cup leaked') = {}
        BY <1>1, <3>1, <3>4, <4>2 DEF SockInv, OwnersInv
      <4>5. \A u, v \in Makers : u # v => maker'[u].own \cap maker'[v].own = {}
        BY <3>4 DEF SockInv, OwnersInv
      <4> QED
        BY <4>1, <4>3, <4>4, <4>5 DEF OwnersInv
    <3>7. FdsInv'
      <4>1. \A m \in DOMAIN fds' : FdRight(fds[m])'
        BY <1>1, <2>10 DEF FdRight, BoundTo
      <4>2. \A m \in held' : fds'[m].at # "none"
        BY <2>2, <2>7, <2>8, <2>11, <2>13, <3>1 DEF SockInv, FdsInv
      <4>3. \A u \in Makers : maker'[u].step = "go" \/ maker'[u].op = "pipe" =>
              \A m \in maker'[u].own : fds'[m].at # "none"
        BY <2>11, <2>12, <3>2, <3>3 DEF SockInv, FdsInv
      <4> QED
        BY <4>1, <4>2, <4>3 DEF FdsInv
    <3>8. 0 <= seconds
      BY DEF SockInv, SockTyped
    <3>9. CacheInv'
      BY <1>1, <3>1, <3>2, <3>8, NamesStay
    <3> QED
      BY <3>3, <3>5, <3>6, <3>7, <3>9 DEF SockInv
  <2>15. CASE maker[t].op # "udp"
    <3> DEFINE s == [maker[t] EXCEPT !.step = "go"]
    <3>1. maker' = [maker EXCEPT ![t] = s] /\ held' = held
      BY <1>3, <2>1, <2>15 DEF Bind, GoesOn
    <3>2. s \in MakerState
      BY <1>1 DEF MakerState, MakerSteps
    <3>3. /\ s.step = "go" /\ s.op = maker[t].op /\ s.own = maker[t].own /\ s.fd = maker[t].fd
          /\ s.asked = maker[t].asked
      BY <1>1 DEF MakerState
    <3> HIDE DEF s
    <3>4. StepInv(s)
      <4>1. maker[t].op # "none"
        BY <1>1, RestState DEF StepInv
      <4> QED
        BY <1>1, <2>1, <3>3, <4>1 DEF StepInv
    <3>5. /\ \A u \in Makers : maker'[u] = IF u = t THEN s ELSE maker[u]
          /\ maker' \in [Makers -> MakerState] /\ \A u \in Makers : StepInv(maker[u])'
      BY <3>1, <3>2, <3>4, MakerGoesOn
    <3>6. SockTyped'
      BY <1>1, <2>9, <3>5 DEF SockInv, SockTyped
    <3>7. OwnersInv'
      <4>1. \A u \in Makers : maker'[u].own = maker[u].own
        BY <3>3, <3>5
      <4> QED
        BY <1>1, <2>8, <3>1, <4>1 DEF SockInv, OwnersInv
    <3>8. FdsInv'
      <4>1. \A m \in DOMAIN fds' : FdRight(fds[m])'
        BY <1>1, <2>10 DEF FdRight, BoundTo
      <4>2. \A m \in held' : fds'[m].at # "none"
        BY <2>11, <2>13, <3>1 DEF SockInv, FdsInv
      <4>3. ASSUME NEW u \in Makers, maker'[u].step = "go" \/ maker'[u].op = "pipe", NEW m \in maker'[u].own
            PROVE  fds'[m].at # "none"
        <5>1. CASE u = t
          BY <2>1, <2>2, <2>7, <2>8, <3>3, <3>5, <4>3, <5>1
        <5>2. CASE u # t
          BY <2>11, <2>12, <3>5, <4>3, <5>2 DEF SockInv, FdsInv
        <5> QED
          BY <5>1, <5>2
      <4> QED
        BY <4>1, <4>2, <4>3 DEF FdsInv
    <3>9. maker[t].asked <= seconds
      BY DEF SockInv, CacheInv
    <3>10. CacheInv'
      BY <1>1, <3>1, <3>3, <3>9, NamesStay
    <3> QED
      BY <3>5, <3>6, <3>7, <3>8, <3>10 DEF SockInv
  <2> QED
    BY <2>14, <2>15
<1> QED
  BY <1>2, <1>3

LEMMA CloseKeptKeeps ==
  ASSUME SockUtilAssumption, SockInv, NEW n, CloseKept(n)
  PROVE  SockInv'
<1>1. /\ n \in held /\ held' = held \ {n} /\ fds' = [m \in DOMAIN fds \ {n} |-> fds[m]]
      /\ UNCHANGED <<ipv6, seconds, address, moved, maker, leaked, cache>>
  BY DEF CloseKept, Closed, netState
<1>2. DOMAIN fds' = DOMAIN fds \ {n} /\ \A m \in DOMAIN fds' : fds'[m] = fds[m]
  BY <1>1
<1>3. n \notin leaked /\ \A t \in Makers : n \notin maker[t].own
  BY <1>1 DEF SockInv, OwnersInv
<1>4. SockTyped'
  <2>1. fds' \in [DOMAIN fds' -> FdState]
    BY <1>2, <1>1 DEF SockInv, SockTyped
  <2> QED
    BY <1>1, <1>2, <2>1 DEF SockInv, SockTyped
<1>5. \A t \in Makers : StepInv(maker[t])'
  BY <1>1 DEF SockInv, StepInv, AtRest
<1>6. OwnersInv'
  BY <1>1, <1>2, <1>3 DEF SockInv, OwnersInv
<1>7. FdsInv'
  <2>1. \A m \in DOMAIN fds' : FdRight(fds[m])'
    BY <1>1, <1>2 DEF SockInv, FdsInv, FdRight, BoundTo
  <2>2. \A m \in held' : m \in DOMAIN fds'
    BY <1>6 DEF OwnersInv
  <2>3. \A t \in Makers : \A m \in maker'[t].own : m \in DOMAIN fds'
    BY <1>6 DEF OwnersInv
  <2>4. \A m \in held' : fds'[m].at # "none"
    BY <1>1, <1>2, <2>2 DEF SockInv, FdsInv
  <2>5. \A t \in Makers : maker'[t].step = "go" \/ maker'[t].op = "pipe" =>
          \A m \in maker'[t].own : fds'[m].at # "none"
    BY <1>1, <1>2, <2>3 DEF SockInv, FdsInv
  <2> QED
    BY <2>1, <2>4, <2>5 DEF FdsInv
<1>8. CacheInv'
  BY <1>1 DEF SockInv, CacheInv, NamesKeepUp
<1> QED
  BY <1>4, <1>5, <1>6, <1>7, <1>8 DEF SockInv

LEMMA SockInductive ==
  ASSUME SockUtilAssumption, SockInv, [SockNext]_sockVars
  PROVE  SockInv'
<1>1. CASE UNCHANGED sockVars
  BY <1>1, SockSame
<1>2. CASE Second \/ Move
  BY <1>2, SecondKeeps, MoveKeeps
<1>3. ASSUME NEW n \in held, CloseKept(n) PROVE SockInv'
  BY <1>3, CloseKeptKeeps
<1>4. ASSUME NEW t \in Makers, Step(t) PROVE SockInv'
  <2>1. ASSUME NEW host \in {"name", "v4", "v6"}, Call(t, "connect", host) PROVE SockInv'
    BY <2>1, CallKeeps DEF Hosts
  <2>2. ASSUME NEW op \in {"listen", "udp"}, NEW ip \in LocalIps, Call(t, op, ip) PROVE SockInv'
    <3>1. ip # "name"
      BY SockUtilAssumption DEF SockUtilAssumption
    <3> QED
      BY <2>2, <3>1, CallKeeps DEF Hosts
  <2>3. ASSUME Call(t, "pipe", "v4") PROVE SockInv'
    BY <2>3, CallKeeps DEF Hosts
  <2>4. CASE GetCacheDomainIP(t) \/ GetSystemDomainIP(t) \/ SetCacheDomainIP(t)
    BY <2>4, GetCacheDomainIPKeeps, GetSystemDomainIPKeeps, SetCacheDomainIPKeeps
  <2>5. CASE Socket(t) \/ Bind(t) \/ ListenOrConnect(t)
    BY <2>5, SocketKeeps, BindKeeps, ListenOrConnectKeeps
  <2>6. CASE PipeOpens(t) \/ PipeFails(t) \/ PipeDone(t)
    BY <2>6, PipeOpensKeeps, PipeFailsKeeps, PipeDoneKeeps
  <2> QED
    BY <1>4, <2>1, <2>2, <2>3, <2>4, <2>5, <2>6 DEF Step
<1> QED
  BY <1>1, <1>2, <1>3, <1>4 DEF SockNext

LEMMA SockInvServes ==
  ASSUME SockInv
  PROVE  SystemCallsSafe
<1>1. DescriptorsOwned
  <2>1. \A n : n \in DOMAIN fds <=> n \in held \/ n \in leaked \/ \E t \in Makers : n \in maker[t].own
    BY DEF SockInv, OwnersInv
  <2>2. DOMAIN fds = held \cup leaked \cup UNION {maker[t].own : t \in Makers}
    BY <2>1, Zenon
  <2> QED
    BY <2>2 DEF SockInv, OwnersInv, DescriptorsOwned
<1>2. ASSUME NEW n \in held
      PROVE  /\ fds[n].local \in {"::", "0.0.0.0"} => fds[n].at \in {"any", "any4"}
             /\ fds[n].local = "::" /\ ipv6 /\ fds[n].family = "inet6" => fds[n].at = "any"
             /\ fds[n].local = "v4" \/ (fds[n].local = "v6" /\ ipv6) => fds[n].at = fds[n].local
  <2>1. n \in DOMAIN fds
    BY DEF SockInv, OwnersInv
  <2>2. FdRight(fds[n]) /\ fds[n].at # "none" /\ fds[n] \in FdState
    BY <2>1 DEF SockInv, FdsInv, SockTyped
  <2>3. fds[n].at = BoundTo(fds[n].family, fds[n].local) /\ fds[n].family \in {"inet", "inet6"}
    BY <2>2 DEF FdRight, FdState
  <2> QED
    BY <2>2, <2>3 DEF FdRight, BoundTo
<1>3. BoundAsAsked
  BY <1>2 DEF BoundAsAsked
<1>4. NamesKeepUp
  BY DEF SockInv, CacheInv
<1> QED
  BY <1>1, <1>3, <1>4 DEF SystemCallsSafe

(* For any number of threads and of descriptors, and whichever system calls *)
(* fail: no descriptor is lost or closed by a thread that does not have it, *)
(* sockets are bound where it was asked for, and a name that moved is not   *)
(* connected to at its old address for longer than the cache keeps it.      *)
THEOREM SystemCallsAreSafe == SockSpec => []SystemCallsSafe
<1>1. SockUtilAssumption
  BY SockUtilAssumption
<1>2. SockInit => SockInv
  BY <1>1, SockStarts
<1>3. SockInv /\ [SockNext]_sockVars => SockInv'
  BY <1>1, SockInductive
<1>4. SockInv => SystemCallsSafe
  BY SockInvServes
<1> QED
  BY <1>2, <1>3, <1>4, PTL DEF SockSpec

-----------------------------------------------------------------------------
(* Wepoll.  A registered socket has a state, the state a poll group with    *)
(* room for it, and at most one request, which is either outstanding or has *)
(* completed into the port's queue or a thread's hands.  Every operation    *)
(* leaves the states either covered by their request or on the queue of     *)
(* those to update, and who blocks has emptied that queue.                  *)
Masks == {"IN", "OUT", "HUP", "ONESHOT"}
StateRecs == [sock : Handles \cup {Null}, status : {"free", "idle", "pending", "cancelled"},
              user : SUBSET Masks, pending : SUBSET Masks, group : PollGroups \cup {Null}]
Ports == [tree : [Handles -> SockStates \cup {Null}], socks : [SockStates -> StateRecs],
          deleted : SUBSET SockStates, updates : SUBSET SockStates, doomed : SUBSET SockStates,
          groups : Seq(PollGroups), sizes : [PollGroups -> Nat], cancel : SockStates \cup {Null}]
PacketRecs == [of : SockStates, events : SUBSET (Masks \cup {"CLOSE"})]

Uniq(q) == \A i, j \in 1 .. Len(q) : q[i] = q[j] => i = j

-----------------------------------------------------------------------------
(* A queue without one of its nodes.                                        *)
LEMMA ToSetIs ==
  ASSUME NEW S, NEW q \in Seq(S)
  PROVE  ToSet(q) = {q[i] : i \in 1 .. Len(q)} /\ ToSet(q) \subseteq S
  BY DEF ToSet

(* A queue without its k-th element keeps the others, each in its place.    *)
LEMMA RemoveAtIs ==
  ASSUME NEW S, NEW q \in Seq(S), NEW k \in 1 .. Len(q)
  PROVE  /\ RemoveAt(q, k) \in Seq(S) /\ Len(RemoveAt(q, k)) = Len(q) - 1
         /\ \A i \in 1 .. Len(q) - 1 : RemoveAt(q, k)[i] = IF i < k THEN q[i] ELSE q[i + 1]
<1> DEFINE a == SubSeq(q, 1, k - 1)
           b == SubSeq(q, k + 1, Len(q))
<1>1. /\ a \in Seq(S) /\ Len(a) = k - 1 /\ \A i \in 1 .. k - 1 : a[i] = q[i]
  BY SubSeqProperties
<1>2. /\ b \in Seq(S) /\ Len(b) = Len(q) - k /\ \A i \in 1 .. Len(q) - k : b[i] = q[k + i]
  <2>1. Len(q) \in Nat /\ k \in Nat /\ k + 1 \in Nat /\ k + 1 <= Len(q) + 1
    OBVIOUS
  <2>2. \A i \in k + 1 .. Len(q) : q[i] \in S
    OBVIOUS
  <2>3. b \in Seq(S) /\ Len(b) = (IF k + 1 <= Len(q) THEN Len(q) - (k + 1) + 1 ELSE 0)
        /\ \A i \in 1 .. Len(q) - (k + 1) + 1 : b[i] = q[k + 1 + i - 1]
    BY <2>1, <2>2, SubSeqProperties
  <2> QED
    BY <2>1, <2>3
<1> HIDE DEF a, b
<1>3. a \o b \in Seq(S) /\ Len(a \o b) = Len(q) - 1
      /\ \A i \in 1 .. Len(q) - 1 : (a \o b)[i] = IF i <= k - 1 THEN a[i] ELSE b[i - (k - 1)]
  BY <1>1, <1>2, ConcatProperties
<1>4. ASSUME NEW i \in 1 .. Len(q) - 1
      PROVE  (a \o b)[i] = IF i < k THEN q[i] ELSE q[i + 1]
  <2>1. CASE i < k
    BY <1>1, <1>3, <2>1
  <2>2. CASE ~(i < k)
    <3>1. i - (k - 1) \in 1 .. Len(q) - k /\ k + (i - (k - 1)) = i + 1 /\ ~(i <= k - 1)
      BY <2>2
    <3> QED
      BY <1>2, <1>3, <2>2, <3>1
  <2> QED
    BY <2>1, <2>2
<1>5. RemoveAt(q, k) = a \o b
  BY DEF RemoveAt, a, b
<1> QED
  BY <1>3, <1>4, <1>5

(* What is left stands in the order it stood in.                            *)
InOrder(u, q) ==
  \A i, j \in 1 .. Len(u) : i < j => \E k, l \in 1 .. Len(q) : k < l /\ u[i] = q[k] /\ u[j] = q[l]

(* queue_remove takes one node out and keeps the order of the others.       *)
LEMMA DetachedIs ==
  ASSUME NEW S, NEW q \in Seq(S), Uniq(q), NEW g
  PROVE  /\ Detached(q, g) \in Seq(S) /\ Uniq(Detached(q, g))
         /\ ToSet(Detached(q, g)) = ToSet(q) \ {g}
         /\ InOrder(Detached(q, g), q)
<1>1. CASE g \notin ToSet(q)
  BY <1>1 DEF Detached, InOrder
<1>2. CASE g \in ToSet(q)
  <2> DEFINE n == CHOOSE i \in DOMAIN q : q[i] = g
             u == RemoveAt(q, n)
  <2>1. n \in 1 .. Len(q) /\ q[n] = g
    BY <1>2 DEF ToSet
  <2>2. Detached(q, g) = u
    BY <1>2 DEF Detached
  <2> HIDE DEF n
  <2>3. /\ u \in Seq(S) /\ Len(u) = Len(q) - 1
        /\ \A i \in 1 .. Len(q) - 1 : u[i] = IF i < n THEN q[i] ELSE q[i + 1]
    BY <2>1, RemoveAtIs
  <2> HIDE DEF u
  <2>4. \A i \in 1 .. Len(u) : \E k \in 1 .. Len(q) : k # n /\ u[i] = q[k] /\ k = IF i < n THEN i ELSE i + 1
    BY <2>1, <2>3
  <2>5. \A k \in 1 .. Len(q) : k # n => \E i \in 1 .. Len(u) : u[i] = q[k]
    <3> SUFFICES ASSUME NEW k \in 1 .. Len(q), k # n PROVE \E i \in 1 .. Len(u) : u[i] = q[k]
      OBVIOUS
    <3>1. CASE k < n
      BY <2>1, <2>3, <3>1
    <3>2. CASE k > n
      <4>1. k - 1 \in 1 .. Len(u) /\ ~(k - 1 < n) /\ (k - 1) + 1 = k
        BY <2>1, <2>3, <3>2
      <4> QED
        BY <2>3, <4>1
    <3> QED
      BY <2>1, <3>1, <3>2
  <2>6. InOrder(u, q)
    <3> SUFFICES ASSUME NEW i \in 1 .. Len(u), NEW j \in 1 .. Len(u), i < j
                 PROVE  \E k, l \in 1 .. Len(q) : k < l /\ u[i] = q[k] /\ u[j] = q[l]
      BY DEF InOrder
    <3>1. PICK k \in 1 .. Len(q) : u[i] = q[k] /\ k = IF i < n THEN i ELSE i + 1
      BY <2>4
    <3>2. PICK l \in 1 .. Len(q) : u[j] = q[l] /\ l = IF j < n THEN j ELSE j + 1
      BY <2>4
    <3>3. k < l
      BY <2>1, <3>1, <3>2
    <3> QED
      BY <3>1, <3>2, <3>3
  <2>7. Uniq(u)
    <3> SUFFICES ASSUME NEW i \in 1 .. Len(u), NEW j \in 1 .. Len(u), i < j, u[i] = u[j] PROVE FALSE
      BY <2>3 DEF Uniq
    <3>1. PICK k, l \in 1 .. Len(q) : k < l /\ u[i] = q[k] /\ u[j] = q[l]
      BY <2>6 DEF InOrder
    <3>2. k = l
      BY <3>1 DEF Uniq
    <3> QED
      BY <3>1, <3>2
  <2>8. ToSet(u) = ToSet(q) \ {g}
    <3>1. ToSet(u) = {u[i] : i \in 1 .. Len(u)} /\ ToSet(q) = {q[i] : i \in 1 .. Len(q)}
      BY <2>3, ToSetIs
    <3>2. \A i \in 1 .. Len(u) : u[i] \in ToSet(q) /\ u[i] # g
      BY <2>1, <2>4, <3>1 DEF Uniq
    <3>3. \A x \in ToSet(q) \ {g} : x \in ToSet(u)
      BY <2>1, <2>5, <3>1
    <3> QED
      BY <3>1, <3>2, <3>3
  <2> QED
    BY <2>2, <2>3, <2>6, <2>7, <2>8
<1> QED
  BY <1>1, <1>2

(* A node that is not in a queue, put before it and behind it.              *)
LEMMA FrontIs ==
  ASSUME NEW S, NEW u \in Seq(S), NEW g \in S, NEW r, r = <<g>> \o u
  PROVE  /\ r \in Seq(S) /\ Len(r) = Len(u) + 1 /\ r[1] = g
         /\ \A i \in 1 .. Len(u) : i + 1 \in 1 .. Len(r) /\ r[i + 1] = u[i]
         /\ \A i \in 1 .. Len(r) : i # 1 => i - 1 \in 1 .. Len(u) /\ r[i] = u[i - 1]
<1>1. <<g>> \in Seq(S) /\ Len(<<g>>) = 1 /\ <<g>>[1] = g
  OBVIOUS
<1>2. PICK v \in Seq(S) : v = <<g>> /\ Len(v) = 1 /\ v[1] = g
  BY <1>1
<1>3. v \o u \in Seq(S) /\ Len(v \o u) = Len(v) + Len(u)
      /\ \A i \in 1 .. Len(v) + Len(u) : (v \o u)[i] = IF i <= Len(v) THEN v[i] ELSE u[i - Len(v)]
  BY ConcatProperties
<1>4. r = v \o u
  BY <1>2
<1>5. r \in Seq(S) /\ Len(r) = 1 + Len(u) /\ \A i \in 1 .. 1 + Len(u) : r[i] = IF i <= 1 THEN v[i] ELSE u[i - 1]
  BY <1>2, <1>3, <1>4
<1>6. Len(u) \in Nat
  OBVIOUS
<1> QED
  BY <1>2, <1>5, <1>6

(* A node put behind the others.                                            *)
LEMMA BackIs ==
  ASSUME NEW S, NEW u \in Seq(S), NEW g \in S, NEW r, r = Append(u, g)
  PROVE  /\ r \in Seq(S) /\ Len(r) = Len(u) + 1 /\ r[Len(u) + 1] = g
         /\ \A i \in 1 .. Len(u) : i \in 1 .. Len(r) /\ r[i] = u[i]
         /\ \A i \in 1 .. Len(r) : i # Len(u) + 1 => i \in 1 .. Len(u)
<1>1. Len(u) \in Nat
  OBVIOUS
<1> QED
  BY <1>1, AppendProperties

(* Moved to the front, a node is in the queue once.                         *)
LEMMA FrontUniq ==
  ASSUME NEW S, NEW u \in Seq(S), NEW g \in S, NEW r, r = <<g>> \o u, Uniq(u), g \notin ToSet(u)
  PROVE  Uniq(r) /\ ToSet(r) = ToSet(u) \cup {g}
<1>1. /\ r \in Seq(S) /\ Len(r) = Len(u) + 1 /\ r[1] = g
      /\ \A i \in 1 .. Len(u) : i + 1 \in 1 .. Len(r) /\ r[i + 1] = u[i]
      /\ \A i \in 1 .. Len(r) : i # 1 => i - 1 \in 1 .. Len(u) /\ r[i] = u[i - 1]
  BY FrontIs
<1>2. ToSet(u) = {u[i] : i \in 1 .. Len(u)}
  BY ToSetIs
<1>3. ToSet(r) = {r[i] : i \in 1 .. Len(r)}
  BY ONLY <1>1, ToSetIs
<1>4. Len(u) \in Nat
  OBVIOUS
<1>5. ASSUME NEW i \in 1 .. Len(r), NEW j \in 1 .. Len(r), r[i] = r[j] PROVE i = j
  <2>1. CASE i = 1 /\ j = 1
    BY <2>1
  <2>2. CASE i = 1 /\ j # 1
    <3>1. j - 1 \in 1 .. Len(u) /\ u[j - 1] = g
      BY ONLY <1>1, <1>5, <2>2
    <3> QED
      BY <1>2, <3>1
  <2>3. CASE i # 1 /\ j = 1
    <3>1. i - 1 \in 1 .. Len(u) /\ u[i - 1] = g
      BY ONLY <1>1, <1>5, <2>3
    <3> QED
      BY <1>2, <3>1
  <2>4. CASE i # 1 /\ j # 1
    <3>1. i - 1 \in 1 .. Len(u) /\ j - 1 \in 1 .. Len(u) /\ u[i - 1] = u[j - 1]
      BY ONLY <1>1, <1>5, <2>4
    <3>2. PICK k, l \in 1 .. Len(u) : k = i - 1 /\ l = j - 1
      BY <3>1
    <3>3. k = l
      BY <3>1, <3>2 DEF Uniq
    <3> QED
      BY <3>2, <3>3
  <2> QED
    BY <2>1, <2>2, <2>3, <2>4
<1>6. \A x : x \in ToSet(r) <=> x \in ToSet(u) \cup {g}
  <2>1. ASSUME NEW x \in ToSet(r) PROVE x \in ToSet(u) \cup {g}
    <3>1. PICK i \in 1 .. Len(r) : x = r[i]
      BY <1>3
    <3>2. CASE i = 1
      BY <1>1, <3>1, <3>2
    <3>3. CASE i # 1
      <4>1. i - 1 \in 1 .. Len(u) /\ x = u[i - 1]
        BY ONLY <1>1, <3>1, <3>3
      <4> QED
        BY <1>2, <4>1
    <3> QED
      BY <3>2, <3>3
  <2>2. ASSUME NEW x \in ToSet(u) PROVE x \in ToSet(r)
    <3>1. PICK i \in 1 .. Len(u) : x = u[i]
      BY <1>2
    <3>2. i + 1 \in 1 .. Len(r) /\ r[i + 1] = x
      BY ONLY <1>1, <3>1
    <3> QED
      BY <1>3, <3>2
  <2>3. g \in ToSet(r)
    <3>1. 1 \in 1 .. Len(r) /\ r[1] = g
      BY <1>1, <1>4
    <3> QED
      BY <1>3, <3>1
  <2> QED
    BY <2>1, <2>2, <2>3
<1> QED
  BY <1>5, <1>6 DEF Uniq

(* Moved to the end, a node is in the queue once.                           *)
LEMMA BackUniq ==
  ASSUME NEW S, NEW u \in Seq(S), NEW g \in S, NEW r, r = Append(u, g), Uniq(u), g \notin ToSet(u)
  PROVE  Uniq(r) /\ ToSet(r) = ToSet(u) \cup {g}
<1>1. /\ r \in Seq(S) /\ Len(r) = Len(u) + 1 /\ r[Len(u) + 1] = g
      /\ \A i \in 1 .. Len(u) : i \in 1 .. Len(r) /\ r[i] = u[i]
      /\ \A i \in 1 .. Len(r) : i # Len(u) + 1 => i \in 1 .. Len(u)
  BY BackIs
<1>2. ToSet(u) = {u[i] : i \in 1 .. Len(u)}
  BY ToSetIs
<1>3. ToSet(r) = {r[i] : i \in 1 .. Len(r)}
  BY ONLY <1>1, ToSetIs
<1>4. Len(u) + 1 \in 1 .. Len(r)
  BY <1>1
<1> DEFINE last == Len(u) + 1
<1> HIDE DEF last
<1>5. ASSUME NEW i \in 1 .. Len(r), NEW j \in 1 .. Len(r), r[i] = r[j] PROVE i = j
  <2>0. r[last] = g /\ \A k \in 1 .. Len(r) : k # last => k \in 1 .. Len(u) /\ r[k] = u[k]
    BY <1>1 DEF last
  <2>1. CASE i = last /\ j = last
    BY <2>1
  <2>2. CASE i = last /\ j # last
    BY <1>2, <1>5, <2>0, <2>2
  <2>3. CASE i # last /\ j = last
    BY <1>2, <1>5, <2>0, <2>3
  <2>4. CASE i # last /\ j # last
    BY <1>5, <2>0, <2>4 DEF Uniq
  <2> QED
    BY <2>1, <2>2, <2>3, <2>4
<1>6. \A x : x \in ToSet(r) <=> x \in ToSet(u) \cup {g}
  BY <1>1, <1>2, <1>3, <1>4
<1> QED
  BY <1>5, <1>6 DEF Uniq

-----------------------------------------------------------------------------
(* The poll groups: the full ones come first.                               *)
FullFirst(q, f) ==
  \A i, j \in 1 .. Len(q) : i < j /\ f[q[j]] = GroupSize => f[q[i]] = GroupSize

QueueOK(q, f) ==
  /\ Uniq(q) /\ FullFirst(q, f)
  /\ \A g \in PollGroups : f[g] <= GroupSize /\ (g \notin ToSet(q) => f[g] = 0)

(* A group whose size changed goes to the front when it is full, else to    *)
(* the end.                                                                 *)
Requeued(q, g, n) == IF n = GroupSize THEN <<g>> \o Detached(q, g) ELSE Append(Detached(q, g), g)
Resized(f, g, n) == [f EXCEPT ![g] = n]

(* Moving a group whose size changed keeps the full ones in front.          *)
LEMMA RequeuedIs ==
  ASSUME EpollAssumption, NEW q \in Seq(PollGroups), NEW f \in [PollGroups -> Nat], QueueOK(q, f),
         NEW g \in PollGroups, NEW n \in 0 .. GroupSize
  PROVE  /\ Requeued(q, g, n) \in Seq(PollGroups) /\ QueueOK(Requeued(q, g, n), Resized(f, g, n))
         /\ ToSet(Requeued(q, g, n)) = ToSet(q) \cup {g} /\ Resized(f, g, n) \in [PollGroups -> Nat]
<1> DEFINE r == Requeued(q, g, n)
           h == Resized(f, g, n)
<1>0. GroupSize \in Nat \ {0}
  BY DEF EpollAssumption
<1>1. PICK u : u = Detached(q, g)
  OBVIOUS
<1>10. Uniq(q) /\ FullFirst(q, f) /\ \A x \in PollGroups : f[x] <= GroupSize /\ (x \notin ToSet(q) => f[x] = 0)
  BY DEF QueueOK
<1>2. u \in Seq(PollGroups) /\ Uniq(u) /\ ToSet(u) = ToSet(q) \ {g}
  BY ONLY <1>1, <1>10, DetachedIs, q \in Seq(PollGroups)
<1>9. InOrder(u, q)
  BY ONLY <1>1, <1>10, DetachedIs, q \in Seq(PollGroups)
<1>3. \A i \in 1 .. Len(u) : u[i] \in PollGroups /\ u[i] # g
  <2>1. ToSet(u) = {u[i] : i \in 1 .. Len(u)} /\ ToSet(u) \subseteq PollGroups
    BY ONLY <1>2, ToSetIs
  <2> QED
    BY ONLY <1>2, <2>1
<1>4. h \in [PollGroups -> Nat] /\ h[g] = n /\ \A x \in PollGroups : x # g => h[x] = f[x]
  BY <1>0 DEF Resized
<1>11. r = IF n = GroupSize THEN <<g>> \o u ELSE Append(u, g)
  BY <1>1 DEF Requeued
<1> HIDE DEF r, h
<1>5. ASSUME NEW i \in 1 .. Len(u), NEW j \in 1 .. Len(u), i < j, h[u[j]] = GroupSize
      PROVE  h[u[i]] = GroupSize
  <2>1. PICK k, l \in 1 .. Len(q) : k < l /\ u[i] = q[k] /\ u[j] = q[l]
    BY <1>9, <1>5 DEF InOrder
  <2>2. f[q[l]] = GroupSize
    BY <1>3, <1>4, <1>5, <2>1
  <2>3. f[q[k]] = GroupSize
    BY <1>10, <2>1, <2>2 DEF FullFirst
  <2> QED
    BY <1>3, <1>4, <2>1, <2>3
<1>7. ASSUME Uniq(r), ToSet(r) = ToSet(u) \cup {g}, FullFirst(r, h)
      PROVE  QueueOK(r, h) /\ ToSet(r) = ToSet(q) \cup {g}
  <2>1. ToSet(r) = ToSet(q) \cup {g}
    BY <1>2, <1>7
  <2>2. \A x \in PollGroups : h[x] <= GroupSize /\ (x \notin ToSet(r) => h[x] = 0)
    BY <1>0, <1>4, <1>10, <2>1
  <2> QED
    BY <1>7, <2>1, <2>2 DEF QueueOK
<1>6. CASE n = GroupSize
  <2>1. r = <<g>> \o u
    BY <1>11, <1>6
  <2>3. /\ r \in Seq(PollGroups) /\ r[1] = g
        /\ \A i \in 1 .. Len(r) : i # 1 => i - 1 \in 1 .. Len(u) /\ r[i] = u[i - 1]
    BY ONLY <1>2, <2>1, FrontIs, g \in PollGroups
  <2>4. Uniq(r) /\ ToSet(r) = ToSet(u) \cup {g}
    BY ONLY <1>2, <2>1, FrontUniq, g \in PollGroups
  <2>5. FullFirst(r, h)
    <3> SUFFICES ASSUME NEW i \in 1 .. Len(r), NEW j \in 1 .. Len(r), i < j, h[r[j]] = GroupSize
                 PROVE  h[r[i]] = GroupSize
      BY DEF FullFirst
    <3>1. CASE i = 1
      BY <1>4, <1>6, <2>3, <3>1
    <3>2. CASE i # 1
      <4>0. j # 1
        BY <3>2
      <4>1. i - 1 \in 1 .. Len(u) /\ j - 1 \in 1 .. Len(u) /\ i - 1 < j - 1 /\ r[i] = u[i - 1] /\ r[j] = u[j - 1]
        BY <2>3, <3>2, <4>0
      <4>2. PICK a, b \in 1 .. Len(u) : a < b /\ r[i] = u[a] /\ r[j] = u[b]
        BY <4>1
      <4> QED
        BY <1>5, <4>2
    <3> QED
      BY <3>1, <3>2
  <2> QED
    BY ONLY <1>4, <1>7, <2>3, <2>4, <2>5 DEF r, h
<1>8. CASE n # GroupSize
  <2>1. r = Append(u, g)
    BY <1>11, <1>8
  <2>2. /\ r \in Seq(PollGroups) /\ r[Len(u) + 1] = g /\ Len(r) = Len(u) + 1
        /\ \A i \in 1 .. Len(u) : r[i] = u[i]
        /\ \A i \in 1 .. Len(r) : i # Len(u) + 1 => i \in 1 .. Len(u)
    BY ONLY <1>2, <2>1, BackIs, g \in PollGroups
  <2>4. Uniq(r) /\ ToSet(r) = ToSet(u) \cup {g}
    BY ONLY <1>2, <2>1, BackUniq, g \in PollGroups
  <2>5. FullFirst(r, h)
    <3> SUFFICES ASSUME NEW i \in 1 .. Len(r), NEW j \in 1 .. Len(r), i < j, h[r[j]] = GroupSize
                 PROVE  h[r[i]] = GroupSize
      BY DEF FullFirst
    <3>1. j # Len(u) + 1
      BY <1>4, <1>8, <2>2
    <3>2. i \in 1 .. Len(u) /\ j \in 1 .. Len(u) /\ r[i] = u[i] /\ r[j] = u[j]
      <4>1. Len(u) \in Nat
        BY <1>2
      <4>2. i # Len(u) + 1
        BY ONLY <2>2, <4>1, i \in 1 .. Len(r), j \in 1 .. Len(r), i < j
      <4> QED
        BY <2>2, <3>1, <4>2
    <3> QED
      BY <1>5, <3>2
  <2> QED
    BY ONLY <1>4, <1>7, <2>2, <2>4, <2>5 DEF r, h
<1> QED
  BY <1>6, <1>8

(* The fields of a port have their types.                                   *)
LEMMA PortFields ==
  ASSUME NEW p \in Ports
  PROVE  /\ p.tree \in [Handles -> SockStates \cup {Null}] /\ p.socks \in [SockStates -> StateRecs]
         /\ p.deleted \subseteq SockStates /\ p.updates \subseteq SockStates /\ p.doomed \subseteq SockStates
         /\ p.groups \in Seq(PollGroups) /\ p.sizes \in [PollGroups -> Nat] /\ p.cancel \in SockStates \cup {Null}
  BY DEF Ports

(* What a step of the groups leaves alone.                                  *)
OthersSame(p, q) ==
  /\ q.tree = p.tree /\ q.socks = p.socks /\ q.deleted = p.deleted /\ q.updates = p.updates
  /\ q.doomed = p.doomed /\ q.cancel = p.cancel

(* poll_group_acquire: a group with room, which one member more now has.    *)
LEMMA AcquireIs ==
  ASSUME EpollAssumption, NEW p \in Ports, QueueOK(p.groups, p.sizes), HasGroup(p)
  PROVE  /\ GroupFor(p) \in PollGroups /\ Acquire(p) \in Ports /\ OthersSame(p, Acquire(p))
         /\ Acquire(p).sizes = [p.sizes EXCEPT ![GroupFor(p)] = @ + 1]
         /\ QueueOK(Acquire(p).groups, Acquire(p).sizes)
         /\ ToSet(Acquire(p).groups) = ToSet(p.groups) \cup {GroupFor(p)}
<1>0. GroupSize \in Nat \ {0}
  BY DEF EpollAssumption
<1>1. p.groups \in Seq(PollGroups) /\ p.sizes \in [PollGroups -> Nat]
  BY PortFields
<1>2. PICK g : g = GroupFor(p)
  OBVIOUS
<1>3. g \in PollGroups /\ p.sizes[g] < GroupSize
  <2>1. CASE LastHasRoom(p)
    <3>1. g = p.groups[Len(p.groups)] /\ Len(p.groups) \in 1 .. Len(p.groups)
      BY <1>1, <1>2, <2>1, EmptySeq DEF GroupFor, LastHasRoom, Last
    <3> QED
      BY <1>1, <2>1, <3>1 DEF LastHasRoom, Last
  <2>2. CASE ~LastHasRoom(p)
    <3>1. \E x \in PollGroups : x \notin ToSet(p.groups)
      BY <2>2 DEF HasGroup
    <3>2. g \in PollGroups /\ g \notin ToSet(p.groups)
      BY <1>2, <2>2, <3>1 DEF GroupFor
    <3> QED
      BY <1>0, <3>2 DEF QueueOK
  <2> QED
    BY <2>1, <2>2
<1>4. PICK n \in 0 .. GroupSize : n = p.sizes[g] + 1
  BY <1>0, <1>1, <1>3
<1>5. PICK h : h = Resized(p.sizes, g, n)
  OBVIOUS
<1>6. PICK r : r = Requeued(p.groups, g, n)
  OBVIOUS
<1>7. r \in Seq(PollGroups) /\ QueueOK(r, h) /\ ToSet(r) = ToSet(p.groups) \cup {g} /\ h \in [PollGroups -> Nat]
  BY <1>1, <1>3, <1>5, <1>6, RequeuedIs
<1>8. Acquire(p) = [p EXCEPT !.sizes = h, !.groups = r]
  BY <1>2, <1>4, <1>5, <1>6 DEF Acquire, Requeued, Resized, Ports
<1>9. PICK a : a = [p EXCEPT !.sizes = h, !.groups = r]
  OBVIOUS
<1>10. a \in Ports /\ OthersSame(p, a) /\ a.sizes = h /\ a.groups = r
  BY <1>7, <1>9 DEF Ports, OthersSame
<1>11. h = [p.sizes EXCEPT ![g] = @ + 1]
  BY <1>4, <1>5 DEF Resized
<1> QED
  BY <1>2, <1>3, <1>7, <1>8, <1>9, <1>10, <1>11

(* poll_group_release: one member fewer, and room at the end of the queue.  *)
LEMMA ReleaseIs ==
  ASSUME EpollAssumption, NEW p \in Ports, QueueOK(p.groups, p.sizes),
         NEW g \in PollGroups, g \in ToSet(p.groups), p.sizes[g] > 0
  PROVE  /\ ReleaseGroup(p, g) \in Ports /\ OthersSame(p, ReleaseGroup(p, g))
         /\ ReleaseGroup(p, g).sizes = [p.sizes EXCEPT ![g] = @ - 1]
         /\ QueueOK(ReleaseGroup(p, g).groups, ReleaseGroup(p, g).sizes)
         /\ ToSet(ReleaseGroup(p, g).groups) = ToSet(p.groups)
<1>0. GroupSize \in Nat \ {0}
  BY DEF EpollAssumption
<1>1. p.groups \in Seq(PollGroups) /\ p.sizes \in [PollGroups -> Nat]
  BY PortFields
<1>4. PICK n \in 0 .. GroupSize : n = p.sizes[g] - 1 /\ n # GroupSize
  <2>1. p.sizes[g] \in Nat /\ p.sizes[g] <= GroupSize
    BY <1>1 DEF QueueOK
  <2> QED
    BY <1>0, <2>1
<1>5. PICK h : h = Resized(p.sizes, g, n)
  OBVIOUS
<1>6. PICK r : r = Requeued(p.groups, g, n)
  OBVIOUS
<1>7. r \in Seq(PollGroups) /\ QueueOK(r, h) /\ ToSet(r) = ToSet(p.groups) \cup {g} /\ h \in [PollGroups -> Nat]
  BY <1>1, <1>5, <1>6, RequeuedIs
<1>8. ReleaseGroup(p, g) = [p EXCEPT !.sizes = h, !.groups = r]
  BY <1>4, <1>5, <1>6 DEF ReleaseGroup, Requeued, Resized, Ports
<1>9. PICK a : a = [p EXCEPT !.sizes = h, !.groups = r]
  OBVIOUS
<1>10. a \in Ports /\ OthersSame(p, a) /\ a.sizes = h /\ a.groups = r
  BY <1>7, <1>9 DEF Ports, OthersSame
<1>11. h = [p.sizes EXCEPT ![g] = @ - 1]
  BY <1>4, <1>5 DEF Resized
<1>12. ToSet(r) = ToSet(p.groups)
  BY <1>7
<1> QED
  BY <1>12, <1>7, <1>8, <1>9, <1>10, <1>11

-----------------------------------------------------------------------------
(* A group counts the states it holds.                                      *)
Members(p, g) == {s \in Allocated(p) : p.socks[s].group = g}
CountsOK(p) == \A g \in PollGroups : p.sizes[g] = Cardinality(Members(p, g))

(* A group has finitely many members.                                       *)
LEMMA MembersFinite ==
  ASSUME EpollAssumption, NEW p, NEW g
  PROVE  IsFiniteSet(Members(p, g)) /\ Cardinality(Members(p, g)) \in Nat
<1>1. Members(p, g) \subseteq SockStates
  BY DEF Members, Allocated
<1>2. IsFiniteSet(SockStates)
  BY DEF EpollAssumption
<1> QED
  BY <1>1, <1>2, FS_Subset, FS_CardinalityType

(* Where no state changes its group, the counts stay right.                 *)
LEMMA SameCounts ==
  ASSUME NEW p, NEW q, CountsOK(p), q.sizes = p.sizes,
         \A s \in SockStates : /\ q.socks[s].status = "free" <=> p.socks[s].status = "free"
                               /\ q.socks[s].group = p.socks[s].group
  PROVE  CountsOK(q)
<1>1. \A g \in PollGroups : Members(q, g) = Members(p, g)
  BY DEF Members, Allocated
<1> QED
  BY <1>1 DEF CountsOK

(* A state that is in a group makes its count positive.                     *)
LEMMA Counted ==
  ASSUME EpollAssumption, NEW p \in Ports, CountsOK(p), NEW s \in Allocated(p), p.socks[s].group \in PollGroups
  PROVE  p.sizes[p.socks[s].group] > 0
<1> DEFINE g == p.socks[s].group
           m == Members(p, g)
<1>1. s \in m
  BY DEF Members
<1>2. IsFiniteSet(m) /\ Cardinality(m) \in Nat
  BY MembersFinite
<1>3. p.sizes[g] = Cardinality(m)
  BY DEF CountsOK
<1> HIDE DEF m
<1>4. Cardinality(m) # 0
  BY <1>1, <1>2, FS_EmptySet
<1> QED
  BY <1>2, <1>3, <1>4

(* A state that leaves its group is one member less.                        *)
LEMMA FreedCounts ==
  ASSUME EpollAssumption, NEW p \in Ports, NEW q \in Ports, CountsOK(p),
         NEW s \in Allocated(p), NEW g \in PollGroups, g = p.socks[s].group,
         q.sizes = [p.sizes EXCEPT ![g] = @ - 1], q.socks[s].status = "free",
         \A x \in SockStates : x # s => q.socks[x] = p.socks[x]
  PROVE  CountsOK(q)
<1>1. p.sizes \in [PollGroups -> Nat]
  BY PortFields
<1> SUFFICES ASSUME NEW k \in PollGroups PROVE q.sizes[k] = Cardinality(Members(q, k))
  BY DEF CountsOK
<1>2. CASE k = g
  <2>1. PICK m, n : m = Members(p, g) /\ n = Members(q, g)
    OBVIOUS
  <2>2. n = m \ {s} /\ s \in m
    BY <2>1 DEF Members, Allocated
  <2>3. IsFiniteSet(m) /\ Cardinality(m) \in Nat
    BY <2>1, MembersFinite
  <2>4. Cardinality(n) = Cardinality(m) - 1
    BY <2>2, <2>3, FS_RemoveElement
  <2>5. p.sizes[g] = Cardinality(m) /\ q.sizes[g] = p.sizes[g] - 1
    BY <1>1, <2>1 DEF CountsOK
  <2> QED
    BY <1>2, <2>1, <2>4, <2>5
<1>3. CASE k # g
  <2>1. Members(q, k) = Members(p, k)
    BY <1>3 DEF Members, Allocated
  <2>2. q.sizes[k] = p.sizes[k]
    BY <1>1, <1>3
  <2> QED
    BY <2>1, <2>2 DEF CountsOK
<1> QED
  BY <1>2, <1>3

(* A state that joins a group is one member more.                           *)
LEMMA NewCounts ==
  ASSUME EpollAssumption, NEW p \in Ports, NEW q \in Ports, CountsOK(p),
         NEW s \in SockStates, s \notin Allocated(p), NEW g \in PollGroups, g = q.socks[s].group,
         q.sizes = [p.sizes EXCEPT ![g] = @ + 1], q.socks[s].status # "free",
         \A x \in SockStates : x # s => q.socks[x] = p.socks[x]
  PROVE  CountsOK(q)
<1>1. p.sizes \in [PollGroups -> Nat]
  BY PortFields
<1> SUFFICES ASSUME NEW k \in PollGroups PROVE q.sizes[k] = Cardinality(Members(q, k))
  BY DEF CountsOK
<1>2. CASE k = g
  <2>1. PICK m, n : m = Members(p, g) /\ n = Members(q, g)
    OBVIOUS
  <2>2. n = m \cup {s} /\ s \notin m
    BY <2>1 DEF Members, Allocated
  <2>3. IsFiniteSet(m) /\ Cardinality(m) \in Nat
    BY <2>1, MembersFinite
  <2>4. Cardinality(n) = Cardinality(m) + 1
    BY <2>2, <2>3, FS_AddElement
  <2>5. p.sizes[g] = Cardinality(m) /\ q.sizes[g] = p.sizes[g] + 1
    BY <1>1, <2>1 DEF CountsOK
  <2> QED
    BY <1>2, <2>1, <2>4, <2>5
<1>3. CASE k # g
  <2>1. Members(q, k) = Members(p, k)
    BY <1>3 DEF Members, Allocated
  <2>2. q.sizes[k] = p.sizes[k]
    BY <1>1, <1>3
  <2> QED
    BY <2>1, <2>2 DEF CountsOK
<1> QED
  BY <1>2, <1>3

-----------------------------------------------------------------------------
(* What holds of the port also in the middle of a step.                     *)
TreeOK(p) ==
  \A h \in Handles : p.tree[h] # Null =>
    p.tree[h] \in Allocated(p) /\ p.tree[h] \notin p.deleted /\ p.socks[p.tree[h]].sock = h

StatesOK(p) ==
  \A s \in Allocated(p) : /\ p.socks[s].sock \in Handles /\ p.socks[s].group \in PollGroups
                          /\ s \notin p.deleted => p.tree[p.socks[s].sock] = s

SetsOK(p) ==
  p.doomed = p.deleted /\ p.deleted \subseteq Allocated(p) /\ p.updates \subseteq Allocated(p) \ p.deleted

Base(p) ==
  p \in Ports /\ QueueOK(p.groups, p.sizes) /\ CountsOK(p) /\ TreeOK(p) /\ StatesOK(p) /\ SetsOK(p)

(* A registered state whose request does not cover its events is updated.   *)
Settled(p, s) ==
  /\ s \in p.deleted => p.socks[s].status \in {"pending", "cancelled"}
  /\ s \in Allocated(p) \ p.deleted =>
       /\ p.socks[s].status = "idle" => s \in p.updates
       /\ p.socks[s].status = "pending" => s \in p.updates \/ Known(p.socks[s].user) \subseteq p.socks[s].pending

(* sock_cancel_poll marks the request as cancelled and keeps the rest.      *)
LEMMA CancelIs ==
  ASSUME NEW p \in Ports, NEW s \in SockStates, NEW q, q = CancelPoll(p, s)
  PROVE  /\ q \in Ports /\ q.tree = p.tree /\ q.deleted = p.deleted /\ q.updates = p.updates
         /\ q.doomed = p.doomed /\ q.groups = p.groups /\ q.sizes = p.sizes /\ q.cancel = s
         /\ \A x \in SockStates : x # s => q.socks[x] = p.socks[x]
         /\ q.socks[s].status = "cancelled" /\ q.socks[s].pending = {}
         /\ q.socks[s].sock = p.socks[s].sock /\ q.socks[s].user = p.socks[s].user
         /\ q.socks[s].group = p.socks[s].group
<1>1. p.socks \in [SockStates -> StateRecs]
  BY PortFields
<1>2. PICK r : r = [p.socks[s] EXCEPT !.status = "cancelled", !.pending = {}]
  OBVIOUS
<1>3. /\ r \in StateRecs /\ r.status = "cancelled" /\ r.pending = {} /\ r.sock = p.socks[s].sock
      /\ r.user = p.socks[s].user /\ r.group = p.socks[s].group
  <2>1. PICK o \in StateRecs : o = p.socks[s]
    BY <1>1
  <2> QED
    BY <1>2, <2>1 DEF StateRecs
<1>4. q = [p EXCEPT !.socks = [p.socks EXCEPT ![s] = r], !.cancel = s]
  BY <1>1, <1>2 DEF CancelPoll, Ports
<1>5. PICK m : m = [p.socks EXCEPT ![s] = r]
  OBVIOUS
<1>6. m \in [SockStates -> StateRecs] /\ m[s] = r /\ \A x \in SockStates : x # s => m[x] = p.socks[x]
  BY <1>1, <1>3, <1>5
<1>7. /\ q \in Ports /\ q.tree = p.tree /\ q.deleted = p.deleted /\ q.updates = p.updates /\ q.socks = m
      /\ q.doomed = p.doomed /\ q.groups = p.groups /\ q.sizes = p.sizes /\ q.cancel = s
  <2>1. q = [p EXCEPT !.socks = m, !.cancel = s]
    BY <1>4, <1>5
  <2> QED
    BY ONLY <1>6, <2>1, p \in Ports, s \in SockStates DEF Ports
<1> QED
  BY <1>3, <1>6, <1>7

(* Taking a state out of the tree and of the update queue.                  *)
LEMMA UnregisterIs ==
  ASSUME NEW p \in Ports, NEW s \in SockStates, p.socks[s].sock \in Handles, p.cancel = Null,
         NEW q, q = Unregister(p, s)
  PROVE  /\ q \in Ports /\ q.tree = [p.tree EXCEPT ![p.socks[s].sock] = Null]
         /\ q.deleted = p.deleted \cup {s} /\ q.updates = p.updates \ {s}
         /\ q.doomed = p.doomed /\ q.groups = p.groups /\ q.sizes = p.sizes
         /\ \A x \in SockStates : x # s => q.socks[x] = p.socks[x]
         /\ q.socks[s].sock = p.socks[s].sock /\ q.socks[s].user = p.socks[s].user
         /\ q.socks[s].group = p.socks[s].group
         /\ p.socks[s].status = "pending" =>
              q.socks[s].status = "cancelled" /\ q.socks[s].pending = {} /\ q.cancel = s
         /\ p.socks[s].status # "pending" => q.socks[s] = p.socks[s] /\ q.cancel = Null
<1>1. PICK u : u = IF p.socks[s].status = "pending" THEN CancelPoll(p, s) ELSE p
  OBVIOUS
<1>2. /\ u \in Ports /\ u.tree = p.tree /\ u.deleted = p.deleted /\ u.updates = p.updates
      /\ u.doomed = p.doomed /\ u.groups = p.groups /\ u.sizes = p.sizes
      /\ \A x \in SockStates : x # s => u.socks[x] = p.socks[x]
      /\ u.socks[s].sock = p.socks[s].sock /\ u.socks[s].user = p.socks[s].user
      /\ u.socks[s].group = p.socks[s].group
      /\ p.socks[s].status = "pending" =>
           u.socks[s].status = "cancelled" /\ u.socks[s].pending = {} /\ u.cancel = s
      /\ p.socks[s].status # "pending" => u.socks[s] = p.socks[s] /\ u.cancel = Null
  <2>1. CASE p.socks[s].status = "pending"
    <3>1. u = CancelPoll(p, s)
      BY <1>1, <2>1
    <3> QED
      BY <2>1, <3>1, CancelIs
  <2>2. CASE p.socks[s].status # "pending"
    BY <1>1, <2>2
  <2> QED
    BY <2>1, <2>2
<1>3. PICK h \in Handles : h = p.socks[s].sock
  OBVIOUS
<1>4. q = [u EXCEPT !.updates = u.updates \ {s}, !.tree = [u.tree EXCEPT ![h] = Null], !.deleted = u.deleted \cup {s}]
  BY <1>1, <1>2, <1>3 DEF Unregister, CancelUpdate, Ports
<1>5. PICK tree : tree = [u.tree EXCEPT ![h] = Null]
  OBVIOUS
<1>6. tree \in [Handles -> SockStates \cup {Null}]
  BY <1>2, <1>5 DEF Ports
<1>7. PICK d, e : d = u.deleted \cup {s} /\ e = u.updates \ {s}
  OBVIOUS
<1>8. d \subseteq SockStates /\ e \subseteq SockStates
  BY <1>2, <1>7 DEF Ports
<1>9. /\ q \in Ports /\ q.tree = tree /\ q.deleted = d /\ q.updates = e /\ q.socks = u.socks
      /\ q.doomed = u.doomed /\ q.groups = u.groups /\ q.sizes = u.sizes /\ q.cancel = u.cancel
  <2>1. q = [u EXCEPT !.updates = e, !.tree = tree, !.deleted = d]
    BY <1>4, <1>5, <1>7
  <2> QED
    BY ONLY <1>2, <1>6, <1>8, <2>1 DEF Ports
<1> QED
  BY <1>2, <1>3, <1>5, <1>7, <1>9

(* A state that is not allocated.                                           *)
LEMMA FreeSockIs == FreeSock \in StateRecs /\ FreeSock.status = "free"
  BY DEF FreeSock, StateRecs

(* sock_free: the state leaves its group and is no longer allocated.        *)
LEMMA FreeStateIs ==
  ASSUME EpollAssumption, NEW p \in Ports, QueueOK(p.groups, p.sizes), CountsOK(p),
         NEW s \in Allocated(p), p.socks[s].group \in PollGroups, NEW q, q = FreeState(p, s)
  PROVE  /\ q \in Ports /\ QueueOK(q.groups, q.sizes) /\ CountsOK(q)
         /\ q.tree = p.tree /\ q.deleted = p.deleted \ {s} /\ q.updates = p.updates
         /\ q.doomed = p.doomed \ {s} /\ q.cancel = p.cancel /\ q.socks[s] = FreeSock
         /\ \A x \in SockStates : x # s => q.socks[x] = p.socks[x]
<1>0. s \in SockStates
  BY DEF Allocated
<1>1. PICK g \in PollGroups : g = p.socks[s].group
  OBVIOUS
<1>2. p.sizes[g] > 0
  BY <1>1, Counted
<1>3. g \in ToSet(p.groups)
  BY <1>2 DEF QueueOK
<1>4. PICK u : u = ReleaseGroup(p, g)
  OBVIOUS
<1>5. /\ u \in Ports /\ OthersSame(p, u) /\ u.sizes = [p.sizes EXCEPT ![g] = @ - 1]
      /\ QueueOK(u.groups, u.sizes)
  BY <1>2, <1>3, <1>4, ReleaseIs
<1>6. PICK m : m = [u.socks EXCEPT ![s] = FreeSock]
  OBVIOUS
<1>7. /\ m \in [SockStates -> StateRecs] /\ m[s] = FreeSock
      /\ \A x \in SockStates : x # s => m[x] = p.socks[x]
  <2>1. u.socks \in [SockStates -> StateRecs] /\ u.socks = p.socks
    BY <1>5, PortFields DEF OthersSame
  <2> QED
    BY <1>0, <1>6, <2>1, FreeSockIs
<1>8. PICK d, e : d = u.deleted \ {s} /\ e = u.doomed \ {s}
  OBVIOUS
<1>9. d \subseteq SockStates /\ e \subseteq SockStates
  BY <1>5, <1>8 DEF Ports
<1>10. q = [u EXCEPT !.socks = m, !.deleted = d, !.doomed = e]
  BY <1>1, <1>4, <1>5, <1>6, <1>8 DEF FreeState, Ports
<1>11. /\ q \in Ports /\ q.tree = u.tree /\ q.deleted = d /\ q.updates = u.updates /\ q.socks = m
       /\ q.doomed = e /\ q.groups = u.groups /\ q.sizes = u.sizes /\ q.cancel = u.cancel
  BY ONLY <1>5, <1>7, <1>9, <1>10 DEF Ports
<1>12. q.socks[s].status = "free" /\ \A x \in SockStates : x # s => q.socks[x] = p.socks[x]
  BY <1>7, <1>11, FreeSockIs
<1>13. CountsOK(q)
  BY <1>1, <1>5, <1>11, <1>12, FreedCounts
<1> QED
  BY <1>5, <1>7, <1>8, <1>11, <1>13 DEF OthersSame

(* sock_delete: a state without a request is freed, another is kept for its *)
(* completion.                                                              *)
LEMMA DeleteIs ==
  ASSUME EpollAssumption, NEW p, Base(p), NEW s \in Allocated(p), p.cancel = Null,
         s \in p.deleted => p.socks[s].status # "pending", NEW q, q = DeleteState(p, s)
  PROVE  /\ Base(q) /\ q.updates = p.updates \ {s} /\ q.deleted \ {s} = p.deleted \ {s}
         /\ \A x \in SockStates : x # s => q.socks[x] = p.socks[x]
         /\ p.socks[s].status = "idle" => q.socks[s] = FreeSock /\ q.cancel = Null /\ s \notin q.deleted
         /\ p.socks[s].status # "idle" => s \in q.deleted /\ q.socks[s].status = "cancelled"
         /\ p.socks[s].status = "pending" => q.cancel = s
         /\ p.socks[s].status = "cancelled" => q.cancel = Null /\ q.socks[s].pending = p.socks[s].pending
<1>0. s \in SockStates /\ p \in Ports /\ p.socks[s].sock \in Handles /\ p.socks[s].group \in PollGroups
      /\ p.socks[s].status \in {"idle", "pending", "cancelled"}
  <2>1. p \in Ports /\ s \in SockStates /\ p.socks[s].status # "free"
    BY DEF Base, Allocated
  <2>2. p.socks[s] \in StateRecs
    BY <2>1, PortFields
  <2> QED
    BY <2>1, <2>2 DEF Base, StatesOK, StateRecs
<1>1. PICK h \in Handles : h = p.socks[s].sock
  BY <1>0
<1>2. PICK u : u = IF s \in p.deleted THEN p ELSE Unregister(p, s)
  OBVIOUS
<1>3. /\ u \in Ports /\ u.deleted = p.deleted \cup {s} /\ u.updates = p.updates \ {s}
      /\ u.doomed = p.doomed /\ u.groups = p.groups /\ u.sizes = p.sizes
      /\ \A x \in SockStates : x # s => u.socks[x] = p.socks[x]
      /\ u.socks[s].sock = h /\ u.socks[s].group = p.socks[s].group
      /\ p.socks[s].status = "pending" => u.socks[s].status = "cancelled" /\ u.cancel = s
      /\ p.socks[s].status # "pending" => u.socks[s] = p.socks[s] /\ u.cancel = Null
      /\ s \in p.deleted => u.tree = p.tree
      /\ s \notin p.deleted => u.tree = [p.tree EXCEPT ![h] = Null]
  <2>1. CASE s \in p.deleted
    <3>1. u = p
      BY <1>2, <2>1
    <3>2. p.updates \ {s} = p.updates /\ p.deleted \cup {s} = p.deleted
      BY <2>1 DEF Base, SetsOK
    <3> QED
      BY <1>0, <1>1, <2>1, <3>1, <3>2
  <2>2. CASE s \notin p.deleted
    <3>1. u = Unregister(p, s)
      BY <1>2, <2>2
    <3> QED
      BY <1>0, <1>1, <2>2, <3>1, UnregisterIs
  <2> QED
    BY <2>1, <2>2
<1>4. Allocated(u) = Allocated(p)
  BY <1>0, <1>3 DEF Allocated
<1>5. CountsOK(u)
  <2>1. \A x \in SockStates : /\ u.socks[x].status = "free" <=> p.socks[x].status = "free"
                              /\ u.socks[x].group = p.socks[x].group
    BY <1>0, <1>3
  <2> QED
    BY <1>3, <2>1, SameCounts DEF Base
<1>6. \A k \in Handles : u.tree[k] # Null => u.tree[k] = p.tree[k] /\ u.tree[k] # s
  <2> SUFFICES ASSUME NEW k \in Handles, u.tree[k] # Null PROVE u.tree[k] = p.tree[k] /\ u.tree[k] # s
    OBVIOUS
  <2>1. u.tree[k] = p.tree[k]
    BY <1>0, <1>3, PortFields
  <2>2. CASE s \in p.deleted
    BY <1>3, <2>1, <2>2 DEF Base, TreeOK
  <2>3. CASE s \notin p.deleted
    <3>1. k # h
      BY <1>0, <1>3, <2>3, PortFields
    <3> QED
      BY <1>1, <2>1, <3>1 DEF Base, TreeOK
  <2> QED
    BY <2>2, <2>3
<1>7. \A x \in Allocated(p) : x # s /\ x \notin p.deleted => u.tree[p.socks[x].sock] = x
  <2> SUFFICES ASSUME NEW x \in Allocated(p), x # s, x \notin p.deleted PROVE u.tree[p.socks[x].sock] = x
    OBVIOUS
  <2>1. p.socks[x].sock \in Handles /\ p.tree[p.socks[x].sock] = x
    BY DEF Base, StatesOK
  <2>2. CASE s \in p.deleted
    BY <1>3, <2>1, <2>2
  <2>3. CASE s \notin p.deleted
    <3>1. p.tree[h] = s
      BY <1>1, <2>3 DEF Base, StatesOK
    <3>2. p.socks[x].sock # h
      BY <2>1, <3>1
    <3> QED
      BY <1>0, <1>3, <2>1, <2>3, <3>2, PortFields
  <2> QED
    BY <2>2, <2>3
<1>8. CASE p.socks[s].status = "idle"
  <2>1. u.socks[s].status = "idle"
    BY <1>3, <1>8
  <2>2. q = FreeState(u, s)
    BY <1>2, <2>1 DEF DeleteState
  <2>3. QueueOK(u.groups, u.sizes) /\ u.socks[s].group \in PollGroups /\ s \in Allocated(u)
    BY <1>0, <1>3, <1>4 DEF Base
  <2>4. /\ q \in Ports /\ QueueOK(q.groups, q.sizes) /\ CountsOK(q)
        /\ q.tree = u.tree /\ q.deleted = u.deleted \ {s} /\ q.updates = u.updates
        /\ q.doomed = u.doomed \ {s} /\ q.cancel = u.cancel /\ q.socks[s] = FreeSock
        /\ \A x \in SockStates : x # s => q.socks[x] = u.socks[x]
    BY <1>3, <1>5, <2>2, <2>3, FreeStateIs
  <2>5. Allocated(q) = Allocated(p) \ {s}
    BY <1>3, <2>4, FreeSockIs DEF Allocated
  <2>6. TreeOK(q)
    <3> SUFFICES ASSUME NEW k \in Handles, q.tree[k] # Null
                 PROVE  q.tree[k] \in Allocated(q) /\ q.tree[k] \notin q.deleted /\ q.socks[q.tree[k]].sock = k
      BY DEF TreeOK
    <3>1. q.tree[k] = p.tree[k] /\ q.tree[k] # s /\ p.tree[k] # Null
      BY <1>6, <2>4
    <3>2. p.tree[k] \in Allocated(p) /\ p.tree[k] \notin p.deleted /\ p.socks[p.tree[k]].sock = k
      BY <3>1 DEF Base, TreeOK
    <3>3. p.tree[k] \in SockStates
      BY <3>2 DEF Allocated
    <3> QED
      BY <1>3, <2>4, <2>5, <3>1, <3>2, <3>3
  <2>7. StatesOK(q)
    <3> SUFFICES ASSUME NEW x \in Allocated(q)
                 PROVE  /\ q.socks[x].sock \in Handles /\ q.socks[x].group \in PollGroups
                        /\ x \notin q.deleted => q.tree[q.socks[x].sock] = x
      BY DEF StatesOK
    <3>1. x # s /\ x \in Allocated(p) /\ x \in SockStates
      BY <2>5 DEF Allocated
    <3>2. q.socks[x] = p.socks[x] /\ (x \in q.deleted <=> x \in p.deleted)
      BY <1>3, <2>4, <3>1
    <3> QED
      BY <1>7, <2>4, <3>1, <3>2 DEF Base, StatesOK
  <2>8. SetsOK(q)
    BY <1>3, <2>4, <2>5 DEF Base, SetsOK
  <2> QED
    BY <1>3, <1>8, <2>4, <2>6, <2>7, <2>8 DEF Base
<1>9. CASE p.socks[s].status # "idle"
  <2>1. u.socks[s].status = "cancelled" /\ u.socks[s].status # "idle"
    BY <1>0, <1>3, <1>9
  <2>2. q = [u EXCEPT !.doomed = u.doomed \cup {s}]
    BY <1>2, <1>3, <2>1 DEF DeleteState, Ports
  <2>3. PICK e : e = u.doomed \cup {s}
    OBVIOUS
  <2>4. /\ q \in Ports /\ q.tree = u.tree /\ q.deleted = u.deleted /\ q.updates = u.updates
        /\ q.doomed = e /\ q.groups = u.groups /\ q.sizes = u.sizes /\ q.cancel = u.cancel
        /\ q.socks = u.socks
    <3>1. e \subseteq SockStates
      BY <1>0, <1>3, <2>3 DEF Ports
    <3>2. q = [u EXCEPT !.doomed = e]
      BY <2>2, <2>3
    <3> QED
      BY ONLY <1>3, <3>1, <3>2 DEF Ports
  <2>5. CountsOK(q)
    BY <1>5, <2>4, SameCounts
  <2>6. Allocated(q) = Allocated(p)
    BY <1>4, <2>4 DEF Allocated
  <2>7. TreeOK(q)
    <3> SUFFICES ASSUME NEW k \in Handles, q.tree[k] # Null
                 PROVE  q.tree[k] \in Allocated(q) /\ q.tree[k] \notin q.deleted /\ q.socks[q.tree[k]].sock = k
      BY DEF TreeOK
    <3>1. q.tree[k] = p.tree[k] /\ q.tree[k] # s /\ p.tree[k] # Null
      BY <1>6, <2>4
    <3>2. p.tree[k] \in Allocated(p) /\ p.tree[k] \notin p.deleted /\ p.socks[p.tree[k]].sock = k
      BY <3>1 DEF Base, TreeOK
    <3>3. p.tree[k] \in SockStates
      BY <3>2 DEF Allocated
    <3> QED
      BY <1>3, <2>4, <2>6, <3>1, <3>2, <3>3
  <2>8. StatesOK(q)
    <3> SUFFICES ASSUME NEW x \in Allocated(q)
                 PROVE  /\ q.socks[x].sock \in Handles /\ q.socks[x].group \in PollGroups
                        /\ x \notin q.deleted => q.tree[q.socks[x].sock] = x
      BY DEF StatesOK
    <3>1. x \in Allocated(p) /\ x \in SockStates
      BY <2>6 DEF Allocated
    <3>2. CASE x = s
      BY <1>0, <1>3, <2>4, <3>2
    <3>3. CASE x # s
      <4>1. q.socks[x] = p.socks[x] /\ (x \in q.deleted <=> x \in p.deleted)
        BY <1>3, <2>4, <3>1, <3>3
      <4> QED
        BY <1>7, <2>4, <3>1, <3>3, <4>1 DEF Base, StatesOK
    <3> QED
      BY <3>2, <3>3
  <2>9. SetsOK(q)
    BY <1>3, <2>3, <2>4, <2>6 DEF Base, SetsOK
  <2>10. q.socks[s].pending = p.socks[s].pending \/ p.socks[s].status # "cancelled"
    BY <1>3, <2>4
  <2> QED
    BY <1>3, <1>9, <2>1, <2>4, <2>5, <2>7, <2>8, <2>9, <2>10 DEF Base
<1> QED
  BY <1>8, <1>9

PortInv(p) == Base(p) /\ p.cancel = Null /\ \A s \in SockStates : Settled(p, s)

(* What a step does to the requests: it cancels q.cancel's and submits      *)
(* those of submitted; other states may come and go while they are idle.    *)
Moves(p, q, submitted) ==
  /\ q.cancel \in SockStates \cup {Null}
  /\ \A s \in SockStates :
       \/ /\ s = q.cancel /\ s \notin submitted
          /\ p.socks[s].status = "pending" /\ q.socks[s].status = "cancelled"
       \/ /\ s # q.cancel /\ s \in submitted
          /\ p.socks[s].status = "idle" /\ q.socks[s].status = "pending"
       \/ /\ s # q.cancel /\ s \notin submitted
          /\ q.socks[s].status = p.socks[s].status /\ q.socks[s].pending = p.socks[s].pending
       \/ /\ s # q.cancel /\ s \notin submitted
          /\ p.socks[s].status \in {"free", "idle"} /\ q.socks[s].status \in {"free", "idle"}

(* What sock_delete does to the requests.                                   *)
LEMMA DeleteKeeps ==
  ASSUME EpollAssumption, NEW p, PortInv(p), NEW s \in Allocated(p), s \notin p.deleted,
         NEW q, q = DeleteState(p, s)
  PROVE  /\ Base(q) /\ (\A x \in SockStates : Settled(q, x)) /\ Moves(p, q, {})
         /\ q.updates \subseteq p.updates
<1>0. s \in SockStates /\ p.socks[s].status \in {"idle", "pending", "cancelled"}
  <2>1. p \in Ports /\ s \in SockStates /\ p.socks[s].status # "free"
    BY DEF PortInv, Base, Allocated
  <2>2. p.socks[s] \in StateRecs
    BY <2>1, PortFields
  <2> QED
    BY <2>1, <2>2 DEF StateRecs
<1>1. Base(p) /\ p.cancel = Null /\ (s \in p.deleted => p.socks[s].status # "pending")
  BY <1>0 DEF PortInv, Settled
<1>2. /\ Base(q) /\ q.updates = p.updates \ {s} /\ q.deleted \ {s} = p.deleted \ {s}
      /\ \A x \in SockStates : x # s => q.socks[x] = p.socks[x]
      /\ p.socks[s].status = "idle" => q.socks[s] = FreeSock /\ q.cancel = Null /\ s \notin q.deleted
      /\ p.socks[s].status # "idle" => s \in q.deleted /\ q.socks[s].status = "cancelled"
      /\ p.socks[s].status = "pending" => q.cancel = s
      /\ p.socks[s].status = "cancelled" => q.cancel = Null /\ q.socks[s].pending = p.socks[s].pending
  BY <1>1, DeleteIs
<1>3. Null \notin SockStates
  BY DEF EpollAssumption
<1>4. ASSUME NEW x \in SockStates PROVE Settled(q, x)
  <2>1. CASE x # s
    <3>1. /\ q.socks[x] = p.socks[x] /\ (x \in q.updates <=> x \in p.updates)
          /\ (x \in q.deleted <=> x \in p.deleted) /\ (x \in Allocated(q) <=> x \in Allocated(p))
      BY <1>2, <2>1 DEF Allocated
    <3>2. Settled(p, x)
      BY DEF PortInv
    <3> QED
      BY <3>1, <3>2 DEF Settled
  <2>2. CASE x = s
    <3>1. CASE p.socks[s].status = "idle"
      BY <1>2, <2>2, <3>1, FreeSockIs DEF Settled, Allocated
    <3>2. CASE p.socks[s].status # "idle"
      BY <1>2, <2>2, <3>2 DEF Settled, Allocated
    <3> QED
      BY <3>1, <3>2
  <2> QED
    BY <2>1, <2>2
<1>5. Moves(p, q, {})
  <2>1. q.cancel \in SockStates \cup {Null} /\ (q.cancel = s \/ q.cancel = Null)
    BY <1>0, <1>2
  <2> SUFFICES ASSUME NEW x \in SockStates
               PROVE  \/ /\ x = q.cancel
                         /\ p.socks[x].status = "pending" /\ q.socks[x].status = "cancelled"
                      \/ /\ x # q.cancel
                         /\ q.socks[x].status = p.socks[x].status /\ q.socks[x].pending = p.socks[x].pending
                      \/ /\ x # q.cancel
                         /\ p.socks[x].status \in {"free", "idle"} /\ q.socks[x].status \in {"free", "idle"}
    BY <2>1 DEF Moves
  <2>2. CASE x # s
    BY <1>2, <1>3, <2>1, <2>2
  <2>3. CASE x = s
    BY <1>0, <1>2, <1>3, <2>3, FreeSockIs
  <2> QED
    BY <2>2, <2>3
<1> QED
  BY <1>2, <1>4, <1>5

(* What sock_delete does when its cancelling fails: the request goes on.    *)
LEMMA DeleteUncancelledKeeps ==
  ASSUME EpollAssumption, NEW p, PortInv(p), NEW s \in Allocated(p), s \notin p.deleted,
         p.socks[s].status = "pending", NEW q, q = DeleteUncancelled(p, s)
  PROVE  /\ Base(q) /\ (\A x \in SockStates : Settled(q, x)) /\ Moves(p, q, {})
         /\ q.updates \subseteq p.updates
<1>0. /\ p \in Ports /\ Base(p) /\ s \in SockStates /\ p.socks[s].sock \in Handles /\ p.cancel = Null
      /\ Null \notin SockStates
  BY DEF PortInv, Base, Allocated, StatesOK, EpollAssumption
<1>1. PICK h \in Handles : h = p.socks[s].sock
  BY <1>0
<1>2. PICK tree, d, e, u : /\ tree = [p.tree EXCEPT ![h] = Null] /\ d = p.deleted \cup {s}
                           /\ e = p.doomed \cup {s} /\ u = p.updates \ {s}
  OBVIOUS
<1>3. /\ tree \in [Handles -> SockStates \cup {Null}]
      /\ d \subseteq SockStates /\ e \subseteq SockStates /\ u \subseteq SockStates
  BY <1>0, <1>2 DEF Ports
<1>4. q = [p EXCEPT !.updates = u, !.tree = tree, !.deleted = d, !.doomed = e]
  BY <1>0, <1>1, <1>2 DEF DeleteUncancelled, CancelUpdate, Ports
<1>5. /\ q \in Ports /\ q.tree = tree /\ q.deleted = d /\ q.updates = u /\ q.doomed = e /\ q.cancel = Null
      /\ q.socks = p.socks /\ q.groups = p.groups /\ q.sizes = p.sizes
  BY ONLY <1>0, <1>3, <1>4 DEF Ports
<1>6. Allocated(q) = Allocated(p)
  BY <1>5 DEF Allocated
<1>7. QueueOK(q.groups, q.sizes) /\ CountsOK(q)
  <2>1. CountsOK(q)
    BY <1>0, <1>5, SameCounts DEF Base
  <2> QED
    BY <1>0, <1>5, <2>1 DEF Base
<1>8. p.tree[h] = s
  BY <1>0, <1>1 DEF Base, StatesOK
<1>9. TreeOK(q)
  <2> SUFFICES ASSUME NEW k \in Handles, q.tree[k] # Null
               PROVE  q.tree[k] \in Allocated(q) /\ q.tree[k] \notin q.deleted /\ q.socks[q.tree[k]].sock = k
    BY DEF TreeOK
  <2>1. k # h /\ q.tree[k] = p.tree[k]
    BY <1>0, <1>2, <1>5, PortFields
  <2>2. p.tree[k] \in Allocated(p) /\ p.tree[k] \notin p.deleted /\ p.socks[p.tree[k]].sock = k
    BY <1>0, <2>1 DEF Base, TreeOK
  <2>3. p.tree[k] # s
    BY <1>1, <2>1, <2>2
  <2> QED
    BY <1>2, <1>5, <1>6, <2>1, <2>2, <2>3
<1>10. StatesOK(q)
  <2> SUFFICES ASSUME NEW x \in Allocated(q)
               PROVE  /\ q.socks[x].sock \in Handles /\ q.socks[x].group \in PollGroups
                      /\ x \notin q.deleted => q.tree[q.socks[x].sock] = x
    BY DEF StatesOK
  <2>1. /\ p.socks[x].sock \in Handles /\ p.socks[x].group \in PollGroups
        /\ x \notin p.deleted => p.tree[p.socks[x].sock] = x
    BY <1>0, <1>6 DEF Base, StatesOK
  <2>2. CASE x \in q.deleted
    BY <1>5, <2>1, <2>2
  <2>3. CASE x \notin q.deleted
    <3>1. x # s /\ x \notin p.deleted
      BY <1>2, <1>5, <2>3
    <3>2. p.socks[x].sock # h
      BY <1>8, <2>1, <3>1
    <3> QED
      BY <1>0, <1>2, <1>5, <2>1, <3>1, <3>2, PortFields
  <2> QED
    BY <2>2, <2>3
<1>11. SetsOK(q)
  BY <1>0, <1>2, <1>5, <1>6 DEF Base, SetsOK
<1>12. ASSUME NEW x \in SockStates PROVE Settled(q, x)
  <2>1. Settled(p, x)
    BY DEF PortInv
  <2>2. CASE x # s
    BY <1>2, <1>5, <1>6, <2>1, <2>2 DEF Settled
  <2>3. CASE x = s
    BY <1>2, <1>5, <2>3 DEF Settled
  <2> QED
    BY <2>2, <2>3
<1>13. Moves(p, q, {})
  BY <1>0, <1>5 DEF Moves
<1> QED
  BY <1>2, <1>5, <1>7, <1>9, <1>10, <1>11, <1>12, <1>13 DEF Base

(* A step that changes no registration.                                     *)
LEMMA BaseKept ==
  ASSUME NEW p, Base(p), NEW q \in Ports, q.tree = p.tree, q.deleted = p.deleted, q.doomed = p.doomed,
         QueueOK(q.groups, q.sizes), q.sizes = p.sizes, q.updates \subseteq Allocated(p) \ p.deleted,
         \A x \in SockStates : /\ q.socks[x].status = "free" <=> p.socks[x].status = "free"
                               /\ q.socks[x].sock = p.socks[x].sock /\ q.socks[x].group = p.socks[x].group
  PROVE  Base(q) /\ Allocated(q) = Allocated(p)
<1>1. Allocated(q) = Allocated(p)
  BY DEF Allocated
<1>2. CountsOK(q)
  BY SameCounts DEF Base
<1>3. TreeOK(q)
  BY <1>1 DEF Base, TreeOK, Allocated
<1>4. StatesOK(q)
  BY <1>1 DEF Base, StatesOK, Allocated
<1>5. SetsOK(q)
  BY <1>1 DEF Base, SetsOK
<1> QED
  BY <1>1, <1>2, <1>3, <1>4, <1>5 DEF Base

(* One state's fields change, and the update queue.                         *)
Changed(p, s, r, e, c) == [p EXCEPT !.socks = [p.socks EXCEPT ![s] = r], !.updates = e, !.cancel = c]

HasChanged(p, s, r, e, c, q) ==
  /\ q \in Ports /\ q.tree = p.tree /\ q.deleted = p.deleted /\ q.updates = e
  /\ q.doomed = p.doomed /\ q.groups = p.groups /\ q.sizes = p.sizes /\ q.cancel = c
  /\ q.socks[s] = r /\ \A x \in SockStates : x # s => q.socks[x] = p.socks[x]

(* What one write to a registered state keeps.                              *)
LEMMA ChangeIs ==
  ASSUME NEW p \in Ports, NEW s \in SockStates, NEW r \in StateRecs, NEW e \in SUBSET SockStates,
         NEW c \in SockStates \cup {Null}
  PROVE  HasChanged(p, s, r, e, c, Changed(p, s, r, e, c))
<1> DEFINE q == Changed(p, s, r, e, c)
<1>1. p.socks \in [SockStates -> StateRecs]
  BY PortFields
<1>2. PICK m : m = [p.socks EXCEPT ![s] = r]
  OBVIOUS
<1>3. m \in [SockStates -> StateRecs] /\ m[s] = r /\ \A x \in SockStates : x # s => m[x] = p.socks[x]
  BY <1>1, <1>2
<1>4. /\ q \in Ports /\ q.tree = p.tree /\ q.deleted = p.deleted /\ q.updates = e /\ q.socks = m
      /\ q.doomed = p.doomed /\ q.groups = p.groups /\ q.sizes = p.sizes /\ q.cancel = c
  BY <1>2, <1>3 DEF Changed, Ports
<1> HIDE DEF q
<1>5. HasChanged(p, s, r, e, c, q)
  BY <1>3, <1>4 DEF HasChanged
<1> QED
  BY <1>5 DEF q

(* sock_set_event: a state whose request does not cover the new events is to*)
(* be updated.                                                              *)
LEMMA SetEventIs ==
  ASSUME EpollAssumption, NEW p, Base(p), p.cancel = Null, NEW s \in Allocated(p), s \notin p.deleted,
         \A x \in SockStates : x # s => Settled(p, x),
         p.socks[s].status = "idle" => s \in p.updates \/ p.socks[s].pending = {},
         NEW mask \in SUBSET Masks, NEW q, q = SetEvent(p, s, mask)
  PROVE  /\ PortInv(q)
         /\ \A x \in SockStates : q.socks[x].status = p.socks[x].status /\ q.socks[x].pending = p.socks[x].pending
<1>0. p \in Ports /\ s \in SockStates
  BY DEF Base, Allocated
<1>1. PICK o \in StateRecs : o = p.socks[s]
  BY <1>0, PortFields
<1>2. PICK user : user = mask \cup {"HUP"}
  OBVIOUS
<1>3. user \subseteq Masks /\ "HUP" \in Known(user)
  BY <1>2 DEF Masks, Known
<1>4. PICK r : r = [o EXCEPT !.user = user]
  OBVIOUS
<1>5. r \in StateRecs /\ r.user = user /\ r.status = o.status /\ r.sock = o.sock /\ r.pending = o.pending /\ r.group = o.group
  BY ONLY <1>1, <1>3, <1>4 DEF StateRecs
<1>6. PICK e : e = IF Known(user) \ o.pending # {} THEN p.updates \cup {s} ELSE p.updates
  OBVIOUS
<1>7. e \subseteq SockStates /\ e \subseteq Allocated(p) \ p.deleted /\ \A x : x # s => (x \in e <=> x \in p.updates)
  BY <1>0, <1>6 DEF Base, SetsOK, Allocated
<1>8. q = Changed(p, s, r, e, Null)
  BY <1>0, <1>1, <1>2, <1>4, <1>6 DEF Changed, SetEvent, RequestUpdate, Ports
<1>9. /\ q \in Ports /\ q.tree = p.tree /\ q.deleted = p.deleted /\ q.updates = e
      /\ q.doomed = p.doomed /\ q.groups = p.groups /\ q.sizes = p.sizes /\ q.cancel = Null
      /\ q.socks[s] = r /\ \A x \in SockStates : x # s => q.socks[x] = p.socks[x]
  <2>1. HasChanged(p, s, r, e, Null, q)
    BY <1>0, <1>5, <1>7, <1>8, ChangeIs
  <2> QED
    BY <2>1 DEF HasChanged
<1>10. \A x \in SockStates : /\ q.socks[x].status = p.socks[x].status /\ q.socks[x].pending = p.socks[x].pending
                             /\ q.socks[x].sock = p.socks[x].sock /\ q.socks[x].group = p.socks[x].group
  BY <1>1, <1>5, <1>9
<1>11. Base(q) /\ Allocated(q) = Allocated(p)
  <2>1. QueueOK(q.groups, q.sizes)
    BY <1>9 DEF Base
  <2> QED
    BY <1>7, <1>9, <1>10, <2>1, BaseKept
<1>12. ASSUME NEW x \in SockStates PROVE Settled(q, x)
  <2>1. CASE x # s
    <3>1. Settled(p, x)
      BY <2>1
    <3> QED
      BY <1>7, <1>9, <1>11, <2>1, <3>1 DEF Settled
  <2>2. CASE x = s
    <3>1. Known(user) \subseteq o.pending \/ s \in e
      BY <1>6
    <3>2. o.status = "idle" => s \in e
      BY <1>1, <1>3, <1>6
    <3> QED
      BY <1>5, <1>9, <2>2, <3>1, <3>2 DEF Settled
  <2> QED
    BY <2>1, <2>2
<1> QED
  BY <1>9, <1>10, <1>11, <1>12 DEF PortInv

(* A new registration: a state that was free, in a group with room.         *)
LEMMA NewIs ==
  ASSUME EpollAssumption, NEW p, PortInv(p), HasGroup(p), NEW s \in SockStates, s \notin Allocated(p),
         NEW h \in Handles, p.tree[h] = Null, NEW q, q = New(p, s, h)
  PROVE  /\ Base(q) /\ q.cancel = Null /\ s \in Allocated(q) /\ s \notin q.deleted
         /\ q.socks[s].status = "idle" /\ q.socks[s].pending = {} /\ p.socks[s].status = "free"
         /\ \A x \in SockStates : x # s => q.socks[x] = p.socks[x] /\ Settled(q, x)
<1>0. /\ p \in Ports /\ QueueOK(p.groups, p.sizes) /\ CountsOK(p) /\ TreeOK(p) /\ StatesOK(p) /\ SetsOK(p)
      /\ p.cancel = Null /\ Null \notin SockStates /\ s \notin p.deleted /\ p.socks[s].status = "free"
  BY DEF PortInv, Base, SetsOK, EpollAssumption, Allocated
<1>1. PICK g : g = GroupFor(p)
  OBVIOUS
<1>2. PICK a : a = Acquire(p)
  OBVIOUS
<1>3. /\ g \in PollGroups /\ a \in Ports /\ OthersSame(p, a) /\ a.sizes = [p.sizes EXCEPT ![g] = @ + 1]
      /\ QueueOK(a.groups, a.sizes)
  BY <1>0, <1>1, <1>2, AcquireIs
<1>4. PICK r : r = [sock |-> h, status |-> "idle", user |-> {}, pending |-> {}, group |-> g]
  OBVIOUS
<1>5. r \in StateRecs /\ r.sock = h /\ r.status = "idle" /\ r.pending = {} /\ r.group = g
  BY <1>3, <1>4 DEF StateRecs
<1>6. PICK m : m = [a.socks EXCEPT ![s] = r]
  OBVIOUS
<1>7. PICK t : t = [a.tree EXCEPT ![h] = s]
  OBVIOUS
<1>8. m \in [SockStates -> StateRecs] /\ m[s] = r /\ \A x \in SockStates : x # s => m[x] = p.socks[x]
  <2>1. a.socks \in [SockStates -> StateRecs] /\ a.socks = p.socks
    BY <1>3, PortFields DEF OthersSame
  <2> QED
    BY <1>5, <1>6, <2>1
<1>9. t \in [Handles -> SockStates \cup {Null}] /\ t[h] = s /\ \A k \in Handles : k # h => t[k] = p.tree[k]
  <2>1. a.tree \in [Handles -> SockStates \cup {Null}] /\ a.tree = p.tree
    BY <1>3, PortFields DEF OthersSame
  <2> QED
    BY <1>7, <2>1
<1>10. q = [a EXCEPT !.tree = t, !.socks = m]
  BY <1>1, <1>2, <1>3, <1>4, <1>6, <1>7 DEF New, Ports
<1>11. /\ q \in Ports /\ q.tree = t /\ q.socks = m /\ q.deleted = a.deleted /\ q.updates = a.updates
       /\ q.doomed = a.doomed /\ q.groups = a.groups /\ q.sizes = a.sizes /\ q.cancel = a.cancel
  BY ONLY <1>3, <1>8, <1>9, <1>10 DEF Ports
<1>12. /\ q.deleted = p.deleted /\ q.updates = p.updates /\ q.doomed = p.doomed /\ q.cancel = Null
       /\ q.sizes = [p.sizes EXCEPT ![g] = @ + 1] /\ QueueOK(q.groups, q.sizes) /\ q.socks[s] = r
       /\ \A x \in SockStates : x # s => q.socks[x] = p.socks[x]
  BY <1>0, <1>3, <1>8, <1>11 DEF OthersSame
<1>13. Allocated(q) = Allocated(p) \cup {s}
  BY <1>5, <1>12 DEF Allocated
<1>14. CountsOK(q)
  <2>1. g = q.socks[s].group /\ q.socks[s].status # "free"
    BY <1>5, <1>12
  <2> QED
    BY <1>0, <1>3, <1>11, <1>12, <2>1, NewCounts
<1>15. TreeOK(q)
  <2> SUFFICES ASSUME NEW k \in Handles, q.tree[k] # Null
               PROVE  q.tree[k] \in Allocated(q) /\ q.tree[k] \notin q.deleted /\ q.socks[q.tree[k]].sock = k
    BY DEF TreeOK
  <2>1. CASE k = h
    BY <1>0, <1>5, <1>9, <1>11, <1>12, <1>13, <2>1
  <2>2. CASE k # h
    <3>1. q.tree[k] = p.tree[k]
      BY <1>9, <1>11, <2>2
    <3>2. p.tree[k] \in Allocated(p) /\ p.tree[k] \notin p.deleted /\ p.socks[p.tree[k]].sock = k
      BY <1>0, <3>1 DEF TreeOK
    <3>3. p.tree[k] \in SockStates /\ p.tree[k] # s
      BY <3>2 DEF Allocated
    <3> QED
      BY <1>12, <1>13, <3>1, <3>2, <3>3
  <2> QED
    BY <2>1, <2>2
<1>16. StatesOK(q)
  <2> SUFFICES ASSUME NEW x \in Allocated(q)
               PROVE  /\ q.socks[x].sock \in Handles /\ q.socks[x].group \in PollGroups
                      /\ x \notin q.deleted => q.tree[q.socks[x].sock] = x
    BY DEF StatesOK
  <2>1. CASE x = s
    BY <1>3, <1>5, <1>9, <1>11, <1>12, <2>1
  <2>2. CASE x # s
    <3>1. x \in Allocated(p) /\ x \in SockStates /\ q.socks[x] = p.socks[x]
      BY <1>12, <1>13, <2>2 DEF Allocated
    <3>2. /\ p.socks[x].sock \in Handles /\ p.socks[x].group \in PollGroups
          /\ x \notin p.deleted => p.tree[p.socks[x].sock] = x
      BY <1>0, <3>1 DEF StatesOK
    <3>3. x \notin p.deleted => p.socks[x].sock # h
      BY <1>0, <3>1, <3>2
    <3> QED
      BY <1>9, <1>11, <1>12, <3>1, <3>2, <3>3
  <2> QED
    BY <2>1, <2>2
<1>17. SetsOK(q)
  BY <1>0, <1>12, <1>13 DEF SetsOK
<1>18. ASSUME NEW x \in SockStates, x # s PROVE Settled(q, x)
  <2>1. Settled(p, x)
    BY DEF PortInv
  <2>2. x \in Allocated(q) <=> x \in Allocated(p)
    BY <1>13, <1>18
  <2> QED
    BY <1>12, <1>18, <2>1, <2>2 DEF Settled
<1>19. Base(q)
  BY <1>11, <1>12, <1>14, <1>15, <1>16, <1>17 DEF Base
<1> QED
  BY <1>0, <1>5, <1>12, <1>13, <1>18, <1>19

(* epoll_ctl finds the socket registered: the group it took is given back.  *)
LEMMA TakenBackIs ==
  ASSUME EpollAssumption, NEW p, PortInv(p), HasGroup(p),
         NEW q, q = ReleaseGroup(Acquire(p), GroupFor(p))
  PROVE  PortInv(q) /\ OthersSame(p, q)
<1>0. /\ p \in Ports /\ QueueOK(p.groups, p.sizes) /\ SetsOK(p) /\ p.cancel = Null /\ Base(p)
  BY DEF PortInv, Base
<1>1. PICK g : g = GroupFor(p)
  OBVIOUS
<1>2. PICK a : a = Acquire(p)
  OBVIOUS
<1>3. /\ g \in PollGroups /\ a \in Ports /\ OthersSame(p, a) /\ a.sizes = [p.sizes EXCEPT ![g] = @ + 1]
      /\ QueueOK(a.groups, a.sizes) /\ g \in ToSet(a.groups)
  <2>1. g \in PollGroups /\ a \in Ports /\ OthersSame(p, a) /\ a.sizes = [p.sizes EXCEPT ![g] = @ + 1]
        /\ QueueOK(a.groups, a.sizes) /\ ToSet(a.groups) = ToSet(p.groups) \cup {g}
    BY <1>0, <1>1, <1>2, AcquireIs
  <2> QED
    BY <2>1
<1>4. p.sizes \in [PollGroups -> Nat]
  BY <1>0, PortFields
<1>5. a.sizes[g] > 0
  BY <1>3, <1>4
<1>6. q = ReleaseGroup(a, g)
  BY <1>1, <1>2
<1>7. q \in Ports /\ OthersSame(a, q) /\ q.sizes = [a.sizes EXCEPT ![g] = @ - 1] /\ QueueOK(q.groups, q.sizes)
  <2>1. g \in PollGroups /\ a \in Ports /\ QueueOK(a.groups, a.sizes) /\ g \in ToSet(a.groups) /\ a.sizes[g] > 0
    BY <1>3, <1>5
  <2>2. /\ ReleaseGroup(a, g) \in Ports /\ OthersSame(a, ReleaseGroup(a, g))
        /\ ReleaseGroup(a, g).sizes = [a.sizes EXCEPT ![g] = @ - 1]
        /\ QueueOK(ReleaseGroup(a, g).groups, ReleaseGroup(a, g).sizes)
    BY ONLY <2>1, ReleaseIs, EpollAssumption
  <2> QED
    BY ONLY <1>6, <2>2
<1>8. q.sizes = p.sizes
  BY <1>3, <1>4, <1>7
<1>9. OthersSame(p, q)
  BY <1>3, <1>7 DEF OthersSame
<1>10. Base(q) /\ Allocated(q) = Allocated(p)
  <2>1. /\ q.tree = p.tree /\ q.deleted = p.deleted /\ q.doomed = p.doomed
        /\ q.updates \subseteq Allocated(p) \ p.deleted
        /\ \A x \in SockStates : /\ q.socks[x].status = "free" <=> p.socks[x].status = "free"
                                 /\ q.socks[x].sock = p.socks[x].sock /\ q.socks[x].group = p.socks[x].group
    BY <1>0, <1>9 DEF OthersSame, SetsOK
  <2> QED
    BY <1>0, <1>7, <1>8, <2>1, BaseKept
<1>11. \A x \in SockStates : Settled(q, x)
  BY <1>9, <1>10 DEF PortInv, Settled, OthersSame
<1> QED
  BY <1>0, <1>9, <1>10, <1>11 DEF PortInv, OthersSame

(* What the operations write, in one EXCEPT.                                *)
LEMMA WrittenIs ==
  ASSUME NEW p \in Ports, NEW s \in SockStates
  PROVE  /\ CancelUpdate(CancelPoll(p, s), s) =
              Changed(p, s, [p.socks[s] EXCEPT !.status = "cancelled", !.pending = {}], p.updates \ {s}, s)
         /\ CancelUpdate([p EXCEPT !.socks[s].status = "pending", !.socks[s].pending = p.socks[s].user], s) =
              Changed(p, s, [p.socks[s] EXCEPT !.status = "pending", !.pending = p.socks[s].user],
                      p.updates \ {s}, p.cancel)
         /\ CancelUpdate(p, s) = Changed(p, s, p.socks[s], p.updates \ {s}, p.cancel)
         /\ [p EXCEPT !.socks[s].status = "idle", !.socks[s].pending = {}] =
              Changed(p, s, [p.socks[s] EXCEPT !.status = "idle", !.pending = {}], p.updates, p.cancel)
<1>1. p.socks \in [SockStates -> StateRecs]
  BY PortFields
<1>2. CancelUpdate(CancelPoll(p, s), s) =
        Changed(p, s, [p.socks[s] EXCEPT !.status = "cancelled", !.pending = {}], p.updates \ {s}, s)
  <2>1. PICK r : r = [p.socks[s] EXCEPT !.status = "cancelled", !.pending = {}]
    OBVIOUS
  <2>2. CancelPoll(p, s) = [p EXCEPT !.socks = [p.socks EXCEPT ![s] = r], !.cancel = s]
    BY <1>1, <2>1 DEF CancelPoll, Ports
  <2> QED
    BY <1>1, <2>1, <2>2 DEF CancelUpdate, Changed, Ports
<1>3. CancelUpdate([p EXCEPT !.socks[s].status = "pending", !.socks[s].pending = p.socks[s].user], s) =
        Changed(p, s, [p.socks[s] EXCEPT !.status = "pending", !.pending = p.socks[s].user],
                p.updates \ {s}, p.cancel)
  <2>1. PICK r : r = [p.socks[s] EXCEPT !.status = "pending", !.pending = p.socks[s].user]
    OBVIOUS
  <2>2. [p EXCEPT !.socks[s].status = "pending", !.socks[s].pending = p.socks[s].user]
          = [p EXCEPT !.socks = [p.socks EXCEPT ![s] = r]]
    BY <1>1, <2>1 DEF Ports
  <2> QED
    BY <1>1, <2>1, <2>2 DEF CancelUpdate, Changed, Ports
<1>4. CancelUpdate(p, s) = Changed(p, s, p.socks[s], p.updates \ {s}, p.cancel)
  <2>1. p.socks = [p.socks EXCEPT ![s] = p.socks[s]]
    BY <1>1
  <2> QED
    BY <1>1, <2>1 DEF CancelUpdate, Changed, Ports
<1>5. [p EXCEPT !.socks[s].status = "idle", !.socks[s].pending = {}] =
        Changed(p, s, [p.socks[s] EXCEPT !.status = "idle", !.pending = {}], p.updates, p.cancel)
  <2>1. PICK r : r = [p.socks[s] EXCEPT !.status = "idle", !.pending = {}]
    OBVIOUS
  <2>2. [p EXCEPT !.socks[s].status = "idle", !.socks[s].pending = {}]
          = [p EXCEPT !.socks = [p.socks EXCEPT ![s] = r]]
    BY <1>1, <2>1 DEF Ports
  <2> QED
    BY <1>1, <2>1, <2>2 DEF Changed, Ports
<1> QED
  BY <1>2, <1>3, <1>4, <1>5

(* Status and pending events of one registered state change.                *)
MayBe(p, s, r, e) ==
  /\ r \in StateRecs /\ r.status # "free" /\ r.sock = p.socks[s].sock /\ r.group = p.socks[s].group
  /\ e \subseteq Allocated(p) \ p.deleted /\ \A x : x # s => (x \in e <=> x \in p.updates)
  /\ r.status = "idle" => s \in e
  /\ r.status = "pending" => s \in e \/ Known(r.user) \subseteq r.pending

Restated(p, s, r, c, q) ==
  /\ Base(q) /\ (\A x \in SockStates : Settled(q, x)) /\ q.cancel = c
  /\ q.socks[s] = r /\ \A x \in SockStates : x # s => q.socks[x] = p.socks[x]

(* A state whose status and request change stays typed, and in its group.   *)
LEMMA StatusIs ==
  ASSUME EpollAssumption, NEW p, PortInv(p), NEW s \in Allocated(p), s \notin p.deleted,
         NEW r, NEW e, MayBe(p, s, r, e), NEW c \in SockStates \cup {Null}
  PROVE  Restated(p, s, r, c, Changed(p, s, r, e, c))
<1> DEFINE q == Changed(p, s, r, e, c)
<1>9. /\ r \in StateRecs /\ r.status # "free" /\ r.sock = p.socks[s].sock /\ r.group = p.socks[s].group
      /\ e \subseteq Allocated(p) \ p.deleted /\ \A x : x # s => (x \in e <=> x \in p.updates)
      /\ r.status = "idle" => s \in e
      /\ r.status = "pending" => s \in e \/ Known(r.user) \subseteq r.pending
  BY DEF MayBe
<1>0. /\ p \in Ports /\ Base(p) /\ s \in SockStates /\ QueueOK(p.groups, p.sizes)
      /\ p.socks[s].status # "free"
  BY DEF PortInv, Base, Allocated
<1>1. HasChanged(p, s, r, e, c, q)
  <2>1. e \in SUBSET SockStates
    BY <1>9 DEF Allocated
  <2> QED
    BY <1>0, <1>9, <2>1, ChangeIs
<1> HIDE DEF q
<1>2. /\ q \in Ports /\ q.tree = p.tree /\ q.deleted = p.deleted /\ q.updates = e
      /\ q.doomed = p.doomed /\ q.groups = p.groups /\ q.sizes = p.sizes /\ q.cancel = c
      /\ q.socks[s] = r /\ \A x \in SockStates : x # s => q.socks[x] = p.socks[x]
  BY <1>1 DEF HasChanged
<1>3. Base(q) /\ Allocated(q) = Allocated(p)
  <2>1. QueueOK(q.groups, q.sizes)
    BY <1>0, <1>2
  <2>2. \A x \in SockStates : /\ q.socks[x].status = "free" <=> p.socks[x].status = "free"
                              /\ q.socks[x].sock = p.socks[x].sock /\ q.socks[x].group = p.socks[x].group
    BY <1>0, <1>2, <1>9
  <2>3. q.updates \subseteq Allocated(p) \ p.deleted
    BY <1>2, <1>9
  <2> QED
    BY <1>0, <1>2, <2>1, <2>2, <2>3, BaseKept
<1>4. ASSUME NEW x \in SockStates PROVE Settled(q, x)
  <2>1. CASE x # s
    <3>1. Settled(p, x)
      BY DEF PortInv
    <3> QED
      BY <1>2, <1>3, <1>9, <2>1, <3>1 DEF Settled
  <2>2. CASE x = s
    BY <1>2, <1>9, <2>2 DEF Settled
  <2> QED
    BY <2>1, <2>2
<1>5. Restated(p, s, r, c, q)
  BY <1>2, <1>3, <1>4 DEF Restated
<1> QED
  BY <1>5 DEF q

(* sock_update submits a request, cancels one, or leaves one that covers the*)
(* events.                                                                  *)
LEMMA UpdateIs ==
  ASSUME EpollAssumption, NEW p, PortInv(p), NEW s \in p.updates, NEW q, q = Update(p, s),
         NEW submitted, submitted = IF Submits(p, s) THEN {s} ELSE {}
  PROVE  Base(q) /\ (\A x \in SockStates : Settled(q, x)) /\ Moves(p, q, submitted)
<1>0. /\ p \in Ports /\ s \in Allocated(p) /\ s \notin p.deleted /\ s \in SockStates /\ p.cancel = Null
      /\ Null \notin SockStates /\ p.updates \subseteq Allocated(p) \ p.deleted /\ p.updates \subseteq SockStates
  BY DEF PortInv, Base, SetsOK, Allocated, EpollAssumption
<1>1. PICK o \in StateRecs : o = p.socks[s]
  BY <1>0, PortFields
<1>20. p.socks \in [SockStates -> StateRecs]
  BY <1>0, PortFields
<1>2. o.status \in {"idle", "pending", "cancelled"}
  BY <1>0, <1>1 DEF Allocated, StateRecs
<1>3. PICK e \in SUBSET SockStates : e = p.updates \ {s}
  BY <1>0
<1>4. e \subseteq Allocated(p) \ p.deleted /\ \A x : x # s => (x \in e <=> x \in p.updates)
  BY <1>0, <1>3
<1>5. CASE o.status = "idle" /\ ~Submits(p, s)
  <2>1. q = DeleteState(p, s) /\ submitted = {}
    BY <1>1, <1>5 DEF Update
  <2> QED
    BY <1>0, <2>1, DeleteKeeps
<1>6. CASE o.status = "pending" /\ ~(Known(o.user) \subseteq o.pending)
  <2>1. PICK r : r = [o EXCEPT !.status = "cancelled", !.pending = {}]
    OBVIOUS
  <2>2. r \in StateRecs /\ r.status = "cancelled" /\ r.sock = o.sock /\ r.group = o.group
    BY ONLY <1>1, <2>1 DEF StateRecs
  <2>3. submitted = {}
    BY <1>1, <1>6 DEF Submits
  <2>4. q = Changed(p, s, r, e, s)
    BY <1>0, <1>1, <1>3, <1>6, <2>1, WrittenIs DEF Update
  <2>5. /\ Base(q) /\ (\A x \in SockStates : Settled(q, x)) /\ q.cancel = s
        /\ q.socks[s] = r /\ \A x \in SockStates : x # s => q.socks[x] = p.socks[x]
    <3>1. MayBe(p, s, r, e)
      BY <1>1, <1>4, <2>2 DEF MayBe
    <3>2. Restated(p, s, r, s, q)
      BY <1>0, <2>4, <3>1, StatusIs
    <3> QED
      BY <3>2 DEF Restated
  <2>6. Moves(p, q, submitted)
    BY <1>0, <1>1, <1>6, <2>2, <2>3, <2>5 DEF Moves
  <2> QED
    BY <2>5, <2>6
<1>7. CASE o.status = "idle" /\ Submits(p, s)
  <2>1. PICK r : r = [o EXCEPT !.status = "pending", !.pending = o.user]
    OBVIOUS
  <2>2. r \in StateRecs /\ r.status = "pending" /\ r.sock = o.sock /\ r.group = o.group /\ r.user = o.user /\ r.pending = o.user
    BY ONLY <1>1, <2>1 DEF StateRecs
  <2>3. submitted = {s}
    BY <1>7
  <2>4. q = Changed(p, s, r, e, Null)
    BY <1>0, <1>1, <1>3, <1>7, <2>1, WrittenIs DEF Update
  <2>5. Known(r.user) \subseteq r.pending
    BY <2>2 DEF Known
  <2>6. /\ Base(q) /\ (\A x \in SockStates : Settled(q, x)) /\ q.cancel = Null
        /\ q.socks[s] = r /\ \A x \in SockStates : x # s => q.socks[x] = p.socks[x]
    <3>1. MayBe(p, s, r, e)
      BY <1>1, <1>4, <2>2, <2>5 DEF MayBe
    <3>2. Restated(p, s, r, Null, q)
      BY <1>0, <2>4, <3>1, StatusIs
    <3> QED
      BY <3>2 DEF Restated
  <2>7. Moves(p, q, submitted)
    BY <1>0, <1>1, <1>7, <2>2, <2>3, <2>6 DEF Moves
  <2> QED
    BY <2>6, <2>7
<1>8. CASE o.status = "cancelled" \/ (o.status = "pending" /\ Known(o.user) \subseteq o.pending)
  <2>1. q = Changed(p, s, o, e, Null)
    BY <1>0, <1>1, <1>3, <1>8, WrittenIs DEF Update
  <2>2. submitted = {}
    BY <1>1, <1>8 DEF Submits
  <2>3. o.status # "free" /\ o.status # "idle" /\ (o.status = "pending" => Known(o.user) \subseteq o.pending)
    BY <1>8
  <2>4. /\ Base(q) /\ (\A x \in SockStates : Settled(q, x)) /\ q.cancel = Null
        /\ q.socks[s] = o /\ \A x \in SockStates : x # s => q.socks[x] = p.socks[x]
    <3>1. MayBe(p, s, o, e)
      BY <1>1, <1>4, <2>3 DEF MayBe
    <3>2. Restated(p, s, o, Null, q)
      BY <1>0, <2>1, <3>1, StatusIs
    <3> QED
      BY <3>2 DEF Restated
  <2>5. Moves(p, q, submitted)
    BY <1>0, <1>1, <2>2, <2>4 DEF Moves
  <2> QED
    BY <2>4, <2>5
<1> QED
  BY <1>2, <1>5, <1>6, <1>7, <1>8

\* What feeding one completion makes of a port, with the state's request marked
\* as over: port_feed_event and sock_feed_event, in their order.
LEMMA FeedForm ==
  ASSUME NEW p, NEW packet, NEW s, s = packet.of, NEW u,
         u = [p EXCEPT !.socks[s].status = "idle", !.socks[s].pending = {}]
  PROVE  Feed(p, packet) =
           IF s \in u.deleted \/ "CLOSE" \in packet.events THEN DeleteState(u, s)
           ELSE IF Reported(p, packet) # {} /\ "ONESHOT" \in p.socks[s].user
                THEN [RequestUpdate(u, s) EXCEPT !.socks[s].user = {}] ELSE RequestUpdate(u, s)
  BY SMTT(40) DEF Feed

(* After feeding a completion the state is idle and to be updated, or free. *)
LEMMA FeedIs ==
  ASSUME EpollAssumption, NEW p, PortInv(p), NEW packet \in PacketRecs, NEW s, s = packet.of,
         p.socks[s].status \in {"pending", "cancelled"}, NEW q, q = Feed(p, packet)
  PROVE  PortInv(q) /\ q.socks[s].status \in {"free", "idle"}
         /\ \A x \in SockStates : x # s => q.socks[x] = p.socks[x]
<1>0. /\ p \in Ports /\ Base(p) /\ s \in SockStates /\ s \in Allocated(p) /\ p.cancel = Null
      /\ Null \notin SockStates /\ p.updates \subseteq Allocated(p) \ p.deleted /\ p.updates \subseteq SockStates
      /\ QueueOK(p.groups, p.sizes)
  BY DEF PortInv, Base, SetsOK, Allocated, EpollAssumption, PacketRecs
<1>1. PICK o \in StateRecs : o = p.socks[s]
  BY <1>0, PortFields
<1>20. p.socks \in [SockStates -> StateRecs]
  BY <1>0, PortFields
<1>2. CASE s \in p.deleted \/ "CLOSE" \in packet.events
  <2>1. PICK r : r = [o EXCEPT !.status = "idle", !.pending = {}]
    OBVIOUS
  <2>2. r \in StateRecs /\ r.status = "idle" /\ r.sock = o.sock /\ r.group = o.group
    BY ONLY <1>1, <2>1 DEF StateRecs
  <2>3. PICK u : u = Changed(p, s, r, p.updates, Null)
    OBVIOUS
  <2>4. q = DeleteState(u, s)
    <3>1. u = [p EXCEPT !.socks[s].status = "idle", !.socks[s].pending = {}]
      BY <1>0, <1>1, <2>1, <2>3, WrittenIs
    <3>2. u.deleted = p.deleted
      BY <1>0, <3>1 DEF Ports
    <3> QED
      BY <1>2, <3>1, <3>2 DEF Feed
  <2>5. HasChanged(p, s, r, p.updates, Null, u)
    BY <1>0, <2>2, <2>3, ChangeIs
  <2>6. /\ u \in Ports /\ u.tree = p.tree /\ u.deleted = p.deleted /\ u.updates = p.updates
        /\ u.doomed = p.doomed /\ u.groups = p.groups /\ u.sizes = p.sizes /\ u.cancel = Null
        /\ u.socks[s] = r /\ \A x \in SockStates : x # s => u.socks[x] = p.socks[x]
    BY <2>5 DEF HasChanged
  <2>7. Base(u) /\ Allocated(u) = Allocated(p)
    <3>1. QueueOK(u.groups, u.sizes) /\ u.updates \subseteq Allocated(p) \ p.deleted
      BY <1>0, <2>6
    <3>2. \A x \in SockStates : /\ u.socks[x].status = "free" <=> p.socks[x].status = "free"
                                /\ u.socks[x].sock = p.socks[x].sock /\ u.socks[x].group = p.socks[x].group
      BY <1>0, <1>1, <2>2, <2>6
    <3> QED
      BY <1>0, <2>6, <3>1, <3>2, BaseKept
  <2>8. s \in Allocated(u) /\ u.socks[s].status # "pending" /\ u.socks[s].status = "idle"
    BY <1>0, <2>2, <2>6, <2>7
  <2>9. /\ Base(q) /\ q.updates = u.updates \ {s} /\ q.deleted \ {s} = u.deleted \ {s}
        /\ \A x \in SockStates : x # s => q.socks[x] = u.socks[x]
        /\ q.socks[s] = FreeSock /\ q.cancel = Null /\ s \notin q.deleted
    BY <2>4, <2>6, <2>7, <2>8, DeleteIs
  <2>10. ASSUME NEW x \in SockStates PROVE Settled(q, x)
    <3>1. CASE x # s
      <4>1. /\ q.socks[x] = p.socks[x] /\ (x \in q.updates <=> x \in p.updates)
            /\ (x \in q.deleted <=> x \in p.deleted) /\ (x \in Allocated(q) <=> x \in Allocated(p))
        BY <2>6, <2>9, <3>1 DEF Allocated
      <4>2. Settled(p, x)
        BY DEF PortInv
      <4> QED
        BY <4>1, <4>2 DEF Settled
    <3>2. CASE x = s
      BY <2>9, <3>2, FreeSockIs DEF Settled, Allocated
    <3> QED
      BY <3>1, <3>2
  <2> QED
    BY <2>6, <2>9, <2>10, FreeSockIs DEF PortInv
<1>3. CASE ~(s \in p.deleted \/ "CLOSE" \in packet.events)
  <2>1. PICK user : user = IF Reported(p, packet) # {} /\ "ONESHOT" \in o.user THEN {} ELSE o.user
    OBVIOUS
  <2>2. PICK r : r = [o EXCEPT !.status = "idle", !.pending = {}, !.user = user]
    OBVIOUS
  <2>3. user \subseteq Masks
    BY <1>1, <2>1 DEF StateRecs
  <2>4. r \in StateRecs /\ r.status = "idle" /\ r.sock = o.sock /\ r.group = o.group
    BY ONLY <1>1, <2>2, <2>3 DEF StateRecs
  <2>5. PICK e \in SUBSET SockStates : e = p.updates \cup {s}
    BY <1>0
  <2>6. q = Changed(p, s, r, e, Null)
    <3>1. PICK u : u = [p EXCEPT !.socks[s].status = "idle", !.socks[s].pending = {}]
      OBVIOUS
    <3>2. u.deleted = p.deleted
      BY <1>0, <3>1 DEF Ports
    <3>3. q = IF Reported(p, packet) # {} /\ "ONESHOT" \in o.user
              THEN [RequestUpdate(u, s) EXCEPT !.socks[s].user = {}] ELSE RequestUpdate(u, s)
      <4>1. s = packet.of /\ q = Feed(p, packet)
        OBVIOUS
      <4>2. q = IF s \in u.deleted \/ "CLOSE" \in packet.events THEN DeleteState(u, s)
                ELSE IF Reported(p, packet) # {} /\ "ONESHOT" \in p.socks[s].user
                     THEN [RequestUpdate(u, s) EXCEPT !.socks[s].user = {}] ELSE RequestUpdate(u, s)
        BY ONLY <3>1, <4>1, FeedForm
      <4> QED
        BY ONLY <1>1, <1>3, <3>2, <4>2
    <3>4. PICK m : m = [o EXCEPT !.status = "idle", !.pending = {}]
      OBVIOUS
    <3>5. u = Changed(p, s, m, p.updates, Null)
      BY <1>0, <1>1, <3>1, <3>4, WrittenIs
    <3>6. RequestUpdate(u, s) = Changed(p, s, m, e, Null)
      BY <1>0, <2>5, <3>5 DEF RequestUpdate, Changed, Ports
    <3>7. CASE user = o.user
      <4>1. r = m
        BY <1>1, <2>2, <3>4, <3>7 DEF StateRecs
      <4>2. CASE Reported(p, packet) # {} /\ "ONESHOT" \in o.user
        BY <2>1, <3>7, <4>2
      <4>3. CASE ~(Reported(p, packet) # {} /\ "ONESHOT" \in o.user)
        BY <3>3, <3>6, <4>1, <4>3
      <4> QED
        BY <4>2, <4>3
    <3>8. CASE user # o.user
      <4>1. q = [Changed(p, s, m, e, Null) EXCEPT !.socks[s].user = {}] /\ user = {}
        BY <2>1, <3>3, <3>6, <3>8
      <4>2. r = [m EXCEPT !.user = {}]
        BY <1>1, <2>2, <3>4, <4>1 DEF StateRecs
      <4>3. p.socks \in [SockStates -> StateRecs]
        BY <1>0, PortFields
      <4>4. [p.socks EXCEPT ![s] = r] = [[p.socks EXCEPT ![s] = m] EXCEPT ![s].user = {}]
        BY <1>0, <4>2, <4>3
      <4> QED
        BY <1>0, <4>1, <4>4 DEF Changed, Ports
    <3> QED
      BY <3>7, <3>8
  <2>7. /\ e \subseteq Allocated(p) \ p.deleted /\ s \in e /\ s \notin p.deleted
        /\ \A x : x # s => (x \in e <=> x \in p.updates)
    BY <1>0, <1>3, <2>5
  <2>8. /\ Base(q) /\ (\A x \in SockStates : Settled(q, x)) /\ q.cancel = Null
        /\ q.socks[s] = r /\ \A x \in SockStates : x # s => q.socks[x] = p.socks[x]
    <3>1. MayBe(p, s, r, e)
      BY <1>1, <2>4, <2>7 DEF MayBe
    <3>2. Restated(p, s, r, Null, q)
      BY <1>0, <2>6, <2>7, <3>1, StatusIs
    <3> QED
      BY <3>2 DEF Restated
  <2> QED
    BY <2>4, <2>8 DEF PortInv
<1> QED
  BY <1>2, <1>3

-----------------------------------------------------------------------------
(* The states whose completions a queue holds, each once.                   *)
Ofs(q) == {q[i].of : i \in 1 .. Len(q)}
OnceOf(q) == \A i, j \in 1 .. Len(q) : q[i].of = q[j].of => i = j

(* A completion put behind a queue.                                         *)
LEMMA OfsAppend ==
  ASSUME NEW q \in Seq(PacketRecs), OnceOf(q), NEW x \in PacketRecs, x.of \notin Ofs(q)
  PROVE  /\ Append(q, x) \in Seq(PacketRecs) /\ OnceOf(Append(q, x))
         /\ Ofs(Append(q, x)) = Ofs(q) \cup {x.of}
<1>1. PICK r : r = Append(q, x)
  OBVIOUS
<1> DEFINE last == Len(q) + 1
<1>2. /\ r \in Seq(PacketRecs) /\ Len(r) = last /\ r[last] = x
      /\ \A i \in 1 .. Len(q) : i \in 1 .. Len(r) /\ r[i] = q[i]
      /\ \A i \in 1 .. Len(r) : i # last => i \in 1 .. Len(q)
  BY <1>1, BackIs
<1>3. last \in 1 .. Len(r)
  BY <1>2
<1> HIDE DEF last
<1>4. ASSUME NEW i \in 1 .. Len(r), NEW j \in 1 .. Len(r), r[i].of = r[j].of PROVE i = j
  <2>1. CASE i = last /\ j = last
    BY <2>1
  <2>2. CASE i = last /\ j # last
    <3>1. j \in 1 .. Len(q) /\ q[j].of = x.of
      BY <1>2, <1>4, <2>2
    <3> QED
      BY <3>1 DEF Ofs
  <2>3. CASE i # last /\ j = last
    <3>1. i \in 1 .. Len(q) /\ q[i].of = x.of
      BY <1>2, <1>4, <2>3
    <3> QED
      BY <3>1 DEF Ofs
  <2>4. CASE i # last /\ j # last
    <3>1. i \in 1 .. Len(q) /\ j \in 1 .. Len(q) /\ q[i].of = q[j].of
      BY <1>2, <1>4, <2>4
    <3> QED
      BY <3>1 DEF OnceOf
  <2> QED
    BY <2>1, <2>2, <2>3, <2>4
<1>5. \A y : y \in Ofs(r) <=> y \in Ofs(q) \cup {x.of}
  <2>1. ASSUME NEW y \in Ofs(r) PROVE y \in Ofs(q) \cup {x.of}
    <3>1. PICK i \in 1 .. Len(r) : y = r[i].of
      BY DEF Ofs
    <3>2. CASE i = last
      BY <1>2, <3>1, <3>2
    <3>3. CASE i # last
      <4>1. i \in 1 .. Len(q) /\ y = q[i].of
        BY <1>2, <3>1, <3>3
      <4> QED
        BY <4>1 DEF Ofs
    <3> QED
      BY <3>2, <3>3
  <2>2. ASSUME NEW y \in Ofs(q) PROVE y \in Ofs(r)
    <3>1. PICK i \in 1 .. Len(q) : y = q[i].of
      BY DEF Ofs
    <3>2. i \in 1 .. Len(r) /\ y = r[i].of
      BY <1>2, <3>1
    <3> QED
      BY <3>2 DEF Ofs
  <2>3. x.of \in Ofs(r)
    <3>1. x.of = r[last].of
      BY <1>2
    <3> QED
      BY <1>3, <3>1 DEF Ofs
  <2> QED
    BY <2>1, <2>2, <2>3
<1>6. Ofs(r) = Ofs(q) \cup {x.of}
  BY <1>5
<1>7. OnceOf(r)
  BY <1>4 DEF OnceOf
<1> QED
  BY <1>1, <1>2, <1>6, <1>7

(* The queue without its first completion.                                  *)
LEMMA OfsTail ==
  ASSUME NEW q \in Seq(PacketRecs), OnceOf(q), q # <<>>
  PROVE  /\ Head(q) \in PacketRecs /\ Tail(q) \in Seq(PacketRecs) /\ OnceOf(Tail(q))
         /\ Head(q).of \in Ofs(q) /\ Ofs(Tail(q)) = Ofs(q) \ {Head(q).of}
<1>1. PICK r, x : r = Tail(q) /\ x = Head(q)
  OBVIOUS
<1>2. /\ r \in Seq(PacketRecs) /\ x \in PacketRecs /\ x = q[1] /\ Len(q) \in Nat \ {0}
      /\ Len(r) = Len(q) - 1 /\ \A i \in 1 .. Len(r) : i + 1 \in 1 .. Len(q) /\ r[i] = q[i + 1]
  <2>1. Len(q) \in Nat /\ Len(q) # 0
    BY EmptySeq
  <2>2. r \in Seq(PacketRecs) /\ Len(r) = Len(q) - 1 /\ x \in PacketRecs
    BY <1>1, HeadTailProperties
  <2>3. x = q[1]
    BY <1>1
  <2>4. \A i \in 1 .. Len(r) : r[i] = q[i + 1]
    BY <1>1, <2>2
  <2> QED
    BY <2>1, <2>2, <2>3, <2>4
<1>3. 1 \in 1 .. Len(q)
  BY <1>2
<1>4. ASSUME NEW i \in 1 .. Len(r), NEW j \in 1 .. Len(r), r[i].of = r[j].of PROVE i = j
  <2>1. PICK k, l \in 1 .. Len(q) : k = i + 1 /\ l = j + 1 /\ r[i] = q[k] /\ r[j] = q[l]
    BY <1>2
  <2>2. k = l
    BY <1>4, <2>1 DEF OnceOf
  <2> QED
    BY <2>1, <2>2
<1>5. ASSUME NEW y \in Ofs(r) PROVE y \in Ofs(q) /\ y # x.of
  <2>1. PICK i \in 1 .. Len(r) : y = r[i].of
    BY DEF Ofs
  <2>2. PICK k \in 1 .. Len(q) : k = i + 1 /\ r[i] = q[k]
    BY <1>2
  <2>3. k # 1
    BY <2>2
  <2>4. q[k].of # q[1].of
    BY <1>3, <2>3 DEF OnceOf
  <2> QED
    BY <1>2, <2>1, <2>2, <2>4 DEF Ofs
<1>6. ASSUME NEW y \in Ofs(q), y # x.of PROVE y \in Ofs(r)
  <2>1. PICK k \in 1 .. Len(q) : y = q[k].of
    BY DEF Ofs
  <2>2. k # 1
    BY <1>2, <1>6, <2>1
  <2>3. k - 1 \in 1 .. Len(r) /\ (k - 1) + 1 = k
    BY <1>2, <2>2
  <2>4. PICK i \in 1 .. Len(r) : r[i] = q[k]
    BY <1>2, <2>3
  <2> QED
    BY <2>1, <2>4 DEF Ofs
<1>7. x.of \in Ofs(q)
  BY <1>2, <1>3 DEF Ofs
<1>8. Ofs(r) = Ofs(q) \ {x.of} /\ OnceOf(r)
  <2>1. \A y : y \in Ofs(r) <=> y \in Ofs(q) \ {x.of}
    BY <1>5, <1>6
  <2> QED
    BY <1>4, <2>1 DEF OnceOf
<1> QED
  BY <1>1, <1>2, <1>7, <1>8

Splits(q, a, b) ==
  /\ a \in Seq(PacketRecs) /\ b \in Seq(PacketRecs) /\ OnceOf(a) /\ OnceOf(b)
  /\ Ofs(a) \cup Ofs(b) = Ofs(q) /\ Ofs(a) \cap Ofs(b) = {}

(* A queue cut in two.                                                      *)
LEMMA OfsSplit ==
  ASSUME NEW q \in Seq(PacketRecs), OnceOf(q), NEW n \in 1 .. Len(q)
  PROVE  Splits(q, SubSeq(q, 1, n), SubSeq(q, n + 1, Len(q)))
<1>0. PICK a, b : a = SubSeq(q, 1, n) /\ b = SubSeq(q, n + 1, Len(q))
  OBVIOUS
<1>1. /\ a \in Seq(PacketRecs) /\ Len(a) = n
      /\ \A i \in 1 .. n : i \in 1 .. Len(q) /\ a[i] = q[i]
  BY <1>0, SubSeqProperties
<1>2. /\ b \in Seq(PacketRecs) /\ Len(b) = Len(q) - n
      /\ \A i \in 1 .. Len(q) - n : n + i \in 1 .. Len(q) /\ b[i] = q[n + i]
  <2>1. Len(q) \in Nat /\ n \in Nat /\ n + 1 \in Nat /\ n + 1 <= Len(q) + 1
    OBVIOUS
  <2>2. \A i \in n + 1 .. Len(q) : q[i] \in PacketRecs
    BY <2>1
  <2>3. b \in Seq(PacketRecs) /\ Len(b) = (IF n + 1 <= Len(q) THEN Len(q) - (n + 1) + 1 ELSE 0)
        /\ \A i \in 1 .. Len(q) - (n + 1) + 1 : b[i] = q[n + 1 + i - 1]
    BY <1>0, <2>1, <2>2, SubSeqProperties
  <2> QED
    BY <2>1, <2>3
<1>3. \A k \in 1 .. Len(q) : k > n => k - n \in 1 .. Len(b) /\ n + (k - n) = k
  BY <1>2
<1>4. OnceOf(a)
  BY <1>1 DEF OnceOf
<1>5. OnceOf(b)
  <2> SUFFICES ASSUME NEW i \in 1 .. Len(b), NEW j \in 1 .. Len(b), b[i].of = b[j].of PROVE i = j
    BY DEF OnceOf
  <2>1. PICK k, l \in 1 .. Len(q) : k = n + i /\ l = n + j /\ b[i] = q[k] /\ b[j] = q[l]
    BY <1>2
  <2>2. k = l
    BY <2>1 DEF OnceOf
  <2> QED
    BY <1>2, <2>1, <2>2
<1>6. \A y : y \in Ofs(a) => \E k \in 1 .. Len(q) : k <= n /\ y = q[k].of
  BY <1>1 DEF Ofs
<1>7. \A y : y \in Ofs(b) => \E k \in 1 .. Len(q) : k > n /\ y = q[k].of
  <2> SUFFICES ASSUME NEW y \in Ofs(b) PROVE \E k \in 1 .. Len(q) : k > n /\ y = q[k].of
    OBVIOUS
  <2>1. PICK i \in 1 .. Len(b) : y = b[i].of
    BY DEF Ofs
  <2>2. PICK k \in 1 .. Len(q) : k = n + i /\ b[i] = q[k]
    BY <1>2
  <2>3. k > n /\ y = q[k].of
    BY <2>1, <2>2
  <2> QED
    BY <2>3
<1>8. \A k \in 1 .. Len(q) : q[k].of \in Ofs(a) \cup Ofs(b)
  <2> SUFFICES ASSUME NEW k \in 1 .. Len(q) PROVE q[k].of \in Ofs(a) \cup Ofs(b)
    OBVIOUS
  <2>1. CASE k <= n
    <3>1. k \in 1 .. Len(a) /\ a[k] = q[k]
      BY <1>1, <2>1
    <3> QED
      BY <3>1 DEF Ofs
  <2>2. CASE k > n
    <3>1. PICK i \in 1 .. Len(b) : n + i = k
      BY <1>3, <2>2
    <3>2. b[i] = q[k]
      BY <1>2, <3>1
    <3> QED
      BY <3>2 DEF Ofs
  <2> QED
    BY <2>1, <2>2
<1>9. Ofs(a) \cup Ofs(b) = Ofs(q)
  <2>1. \A y : y \in Ofs(a) \cup Ofs(b) <=> y \in Ofs(q)
    BY <1>6, <1>7, <1>8 DEF Ofs
  <2> QED
    BY <2>1
<1>10. Ofs(a) \cap Ofs(b) = {}
  <2> SUFFICES ASSUME NEW y \in Ofs(a), y \in Ofs(b) PROVE FALSE
    OBVIOUS
  <2>1. PICK k \in 1 .. Len(q) : k <= n /\ y = q[k].of
    BY <1>6
  <2>2. PICK l \in 1 .. Len(q) : l > n /\ y = q[l].of
    BY <1>7
  <2>3. k = l
    BY <2>1, <2>2 DEF OnceOf
  <2> QED
    BY <2>1, <2>2, <2>3
<1> QED
  BY <1>0, <1>1, <1>2, <1>4, <1>5, <1>9, <1>10 DEF Splits

(* The empty queue.                                                         *)
LEMMA OfsEmpty == Ofs(<<>>) = {} /\ OnceOf(<<>>)
  BY DEF Ofs, OnceOf

-----------------------------------------------------------------------------
(* The requests: a state has one request, or one completion, or neither.    *)
Polls == [SockStates -> SUBSET (Masks \cup {"CLOSE"})]

SeqsOK(pk, dq) ==
  /\ pk \in Seq(PacketRecs) /\ OnceOf(pk) /\ dq \in [EpollThreads -> Seq(PacketRecs)]
  /\ \A t \in EpollThreads : OnceOf(dq[t]) /\ Ofs(pk) \cap Ofs(dq[t]) = {}
  /\ \A t, u \in EpollThreads : t # u => Ofs(dq[u]) \cap Ofs(dq[t]) = {}

InHand(pk, dq, s) == s \in Ofs(pk) \/ \E t \in EpollThreads : s \in Ofs(dq[t])

Requested(r, poll, inHand) ==
  /\ poll # {} => r.status = "pending" /\ ~inHand /\ poll = Known(r.pending) \cup {"CLOSE"}
  /\ inHand => r.status \in {"pending", "cancelled"}
  /\ r.status = "cancelled" => inHand
  /\ r.status = "pending" => poll # {} \/ inHand

Requests(p, pl, pk, dq) ==
  /\ pl \in Polls /\ SeqsOK(pk, dq)
  /\ \A s \in SockStates : Requested(p.socks[s], pl[s], InHand(pk, dq, s))

(* At most one completion is written by a step: that of the cancelled       *)
(* request.                                                                 *)
LEMMA SentOne ==
  ASSUME NEW pk, NEW dq, SeqsOK(pk, dq), NEW x \in PacketRecs, ~InHand(pk, dq, x.of)
  PROVE  /\ SeqsOK(Append(pk, x), dq)
         /\ \A s : InHand(Append(pk, x), dq, s) <=> InHand(pk, dq, s) \/ s = x.of
<1>1. /\ pk \in Seq(PacketRecs) /\ OnceOf(pk) /\ dq \in [EpollThreads -> Seq(PacketRecs)]
      /\ \A t \in EpollThreads : OnceOf(dq[t]) /\ Ofs(pk) \cap Ofs(dq[t]) = {}
      /\ \A t, u \in EpollThreads : t # u => Ofs(dq[u]) \cap Ofs(dq[t]) = {}
  BY DEF SeqsOK
<1>2. x.of \notin Ofs(pk) /\ \A t \in EpollThreads : x.of \notin Ofs(dq[t])
  BY DEF InHand
<1>3. PICK r : r = Append(pk, x)
  OBVIOUS
<1>4. r \in Seq(PacketRecs) /\ OnceOf(r) /\ Ofs(r) = Ofs(pk) \cup {x.of}
  BY <1>1, <1>2, <1>3, OfsAppend
<1>5. SeqsOK(r, dq)
  <2>1. \A t \in EpollThreads : Ofs(r) \cap Ofs(dq[t]) = {}
    BY <1>1, <1>2, <1>4
  <2> QED
    BY <1>1, <1>4, <2>1 DEF SeqsOK
<1>6. \A s : InHand(r, dq, s) <=> InHand(pk, dq, s) \/ s = x.of
  BY <1>4 DEF InHand
<1> QED
  BY <1>3, <1>5, <1>6

(* SetPort keeps the requests and the states in step.                       *)
LEMMA SetPortKeeps ==
  ASSUME EpollAssumption, PortInv(port), Requests(port, polls, packets, dequeued),
         NEW q, Base(q), \A x \in SockStates : Settled(q, x),
         NEW submitted, Moves(port, q, submitted), SetPort(q, submitted), dequeued' = dequeued
  PROVE  /\ PortInv(port') /\ Requests(port', polls', packets', dequeued')
         /\ port'.updates = q.updates /\ Allocated(port') = Allocated(q)
         /\ unserved' = unserved \cap q.updates
<1>0. /\ Null \notin SockStates /\ q \in Ports /\ QueueOK(q.groups, q.sizes)
      /\ q.cancel \in SockStates \cup {Null} /\ polls \in Polls /\ SeqsOK(packets, dequeued)
      /\ q.updates \subseteq Allocated(q) \ q.deleted
  BY DEF EpollAssumption, Base, SetsOK, Moves, Requests
<1>1. PICK c \in SockStates \cup {Null} : c = q.cancel
  BY <1>0
<1>2. PICK p : p = port'
  OBVIOUS
<1>3. /\ p \in Ports /\ p.tree = q.tree /\ p.deleted = q.deleted /\ p.updates = q.updates
      /\ p.doomed = q.doomed /\ p.groups = q.groups /\ p.sizes = q.sizes /\ p.cancel = Null /\ p.socks = q.socks
  <2>1. p = [q EXCEPT !.cancel = Null]
    BY <1>2 DEF SetPort
  <2> QED
    BY <1>0, <2>1 DEF Ports
<1>4. Base(p) /\ Allocated(p) = Allocated(q)
  <2>1. QueueOK(p.groups, p.sizes) /\ p.updates \subseteq Allocated(q) \ q.deleted
    BY <1>0, <1>3
  <2> QED
    BY <1>3, <2>1, BaseKept
<1>5. PortInv(p)
  <2>1. ASSUME NEW x \in SockStates PROVE Settled(p, x)
    <3>1. Settled(q, x)
      OBVIOUS
    <3> QED
      BY <1>3, <1>4, <3>1 DEF Settled
  <2> QED
    BY <1>3, <1>4, <2>1 DEF PortInv
<1>6. PICK m : m = polls'
  OBVIOUS
<1>7. /\ \A s \in SockStates : m[s] = IF s = c THEN {}
        ELSE IF s \in submitted THEN Known(q.socks[s].pending) \cup {"CLOSE"} ELSE polls[s]
      /\ m \in Polls
  <2>1. m = [s \in SockStates |-> IF s = c THEN {}
                 ELSE IF s \in submitted THEN Known(q.socks[s].pending) \cup {"CLOSE"} ELSE polls[s]]
    BY <1>1, <1>6 DEF SetPort
  <2>2. \A s \in SockStates : Known(q.socks[s].pending) \cup {"CLOSE"} \subseteq Masks \cup {"CLOSE"}
    <3>1. \A s \in SockStates : q.socks[s].pending \subseteq Masks
      BY <1>0, PortFields DEF StateRecs
    <3> QED
      BY <3>1 DEF Known
  <2>3. \A s \in SockStates : polls[s] \subseteq Masks \cup {"CLOSE"}
    BY <1>0 DEF Polls
  <2> QED
    BY <2>1, <2>2, <2>3 DEF Polls
<1>8. PICK k : k = packets'
  OBVIOUS
<1>9. /\ SeqsOK(k, dequeued)
      /\ \A s \in SockStates : InHand(k, dequeued, s) <=>
           InHand(packets, dequeued, s) \/ (s = c /\ polls[s] # {})
  <2>1. CASE c = Null \/ polls[c] = {}
    <3>1. k = packets
      BY <1>1, <1>8, <2>1 DEF SetPort
    <3> QED
      BY <1>0, <2>1, <3>1
  <2>2. CASE c # Null /\ polls[c] # {}
    <3>1. c \in SockStates
      BY <2>2
    <3>2. ~InHand(packets, dequeued, c)
      BY <2>2, <3>1 DEF Requests, Requested
    <3>3. PICK x : x = [of |-> c, events |-> {}]
      OBVIOUS
    <3>4. x \in PacketRecs /\ x.of = c
      BY <3>1, <3>3 DEF PacketRecs
    <3>5. k = Append(packets, x)
      BY <1>1, <1>8, <2>2, <3>3 DEF SetPort
    <3>6. SeqsOK(k, dequeued) /\ \A s : InHand(k, dequeued, s) <=> InHand(packets, dequeued, s) \/ s = c
      BY <1>0, <3>2, <3>4, <3>5, SentOne
    <3> QED
      BY <2>2, <3>6
  <2> QED
    BY <2>1, <2>2
<1>10. ASSUME NEW s \in SockStates PROVE Requested(p.socks[s], m[s], InHand(k, dequeued, s))
  <2>1. Requested(port.socks[s], polls[s], InHand(packets, dequeued, s))
    BY DEF Requests
  <2>2. p.socks[s] = q.socks[s]
    BY <1>3
  <2>3. \/ /\ s = c /\ s \notin submitted
           /\ port.socks[s].status = "pending" /\ q.socks[s].status = "cancelled"
        \/ /\ s # c /\ s \in submitted
           /\ port.socks[s].status = "idle" /\ q.socks[s].status = "pending"
        \/ /\ s # c /\ s \notin submitted
           /\ q.socks[s].status = port.socks[s].status /\ q.socks[s].pending = port.socks[s].pending
        \/ /\ s # c /\ s \notin submitted
           /\ port.socks[s].status \in {"free", "idle"} /\ q.socks[s].status \in {"free", "idle"}
    BY <1>1 DEF Moves
  <2>4. CASE /\ s = c /\ s \notin submitted
             /\ port.socks[s].status = "pending" /\ q.socks[s].status = "cancelled"
    BY <1>7, <1>9, <2>1, <2>2, <2>4 DEF Requested
  <2>5. CASE /\ s # c /\ s \in submitted
             /\ port.socks[s].status = "idle" /\ q.socks[s].status = "pending"
    BY <1>7, <1>9, <2>1, <2>2, <2>5 DEF Requested
  <2>6. CASE /\ s # c /\ s \notin submitted
             /\ q.socks[s].status = port.socks[s].status /\ q.socks[s].pending = port.socks[s].pending
    BY <1>7, <1>9, <2>1, <2>2, <2>6 DEF Requested
  <2>7. CASE /\ s # c /\ s \notin submitted
             /\ port.socks[s].status \in {"free", "idle"} /\ q.socks[s].status \in {"free", "idle"}
    BY <1>7, <1>9, <2>1, <2>2, <2>7 DEF Requested
  <2> QED
    BY <2>3, <2>4, <2>5, <2>6, <2>7
<1>11. Requests(p, m, k, dequeued')
  BY <1>7, <1>9, <1>10 DEF Requests
<1> QED
  BY <1>2, <1>3, <1>4, <1>5, <1>6, <1>8, <1>11 DEF SetPort

-----------------------------------------------------------------------------
(* The threads: who holds the lock is between Lock and Block, and while     *)
(* nobody does and a thread is blocked, no update waits but those that a    *)
(* failing one left.                                                        *)
Places == {"out", "enter", "update", "blocked", "woken", "feed", "finish", "close"}

LockInv ==
  /\ at \in [EpollThreads -> Places] /\ portLock \in EpollThreads \cup {NoThread}
  /\ \A t \in EpollThreads : at[t] \in {"update", "feed", "finish"} <=> portLock = t
  /\ portLock = NoThread => \A t \in EpollThreads : at[t] \in {"blocked", "woken"} => port.updates \subseteq unserved

HandsInv == \A t \in EpollThreads : dequeued[t] # <<>> => at[t] \in {"woken", "feed"}

LifeInv ==
  /\ ephnd \in {"open", "closed", "deleted"}
  /\ \A t \in EpollThreads : at[t] = "close" => ephnd = "closed"
  /\ ephnd = "deleted" => Allocated(port) = {} /\ \A t \in EpollThreads : at[t] = "out"

EpollInv ==
  PortInv(port) /\ Requests(port, polls, packets, dequeued) /\ LockInv /\ HandsInv /\ LifeInv

(* The invariant holds at first.                                            *)
LEMMA EpollInit_Inv == EpollInit => EpollInv
<1> SUFFICES ASSUME EpollInit PROVE EpollInv
  OBVIOUS
<1> USE EpollAssumption
<1>1. /\ port = PortInit /\ polls = [s \in SockStates |-> {}] /\ packets = <<>>
      /\ at = [t \in EpollThreads |-> "out"] /\ dequeued = [t \in EpollThreads |-> <<>>]
      /\ portLock = NoThread /\ ephnd = "open"
  BY DEF EpollInit
<1>2. /\ port.tree = [h \in Handles |-> Null] /\ port.socks = [s \in SockStates |-> FreeSock]
      /\ port.deleted = {} /\ port.updates = {} /\ port.doomed = {} /\ port.groups = <<>>
      /\ port.sizes = [g \in PollGroups |-> 0] /\ port.cancel = Null
  BY <1>1 DEF PortInit
<1>3. port \in Ports
  <2>1. <<>> \in Seq(PollGroups)
    OBVIOUS
  <2>2. [g \in PollGroups |-> 0] \in [PollGroups -> Nat]
    OBVIOUS
  <2>3. [s \in SockStates |-> FreeSock] \in [SockStates -> StateRecs]
    BY FreeSockIs
  <2>4. [h \in Handles |-> Null] \in [Handles -> SockStates \cup {Null}]
    OBVIOUS
  <2> QED
    BY <1>1, <2>1, <2>2, <2>3, <2>4 DEF PortInit, Ports
<1>4. Allocated(port) = {}
  BY <1>2, FreeSockIs DEF Allocated
<1>5. QueueOK(port.groups, port.sizes)
  BY <1>2 DEF QueueOK, Uniq, FullFirst, EpollAssumption
<1>6. CountsOK(port)
  <2>1. \A g \in PollGroups : Members(port, g) = {}
    BY <1>4 DEF Members
  <2> QED
    BY <1>2, <2>1, FS_EmptySet DEF CountsOK
<1>7. PortInv(port)
  BY <1>2, <1>3, <1>4, <1>5, <1>6 DEF PortInv, Base, TreeOK, StatesOK, SetsOK, Settled
<1>8. Requests(port, polls, packets, dequeued)
  <2>1. SeqsOK(packets, dequeued)
    <3>1. <<>> \in Seq(PacketRecs)
      OBVIOUS
    <3> QED
      BY <1>1, <3>1, OfsEmpty DEF SeqsOK
  <2>2. \A s \in SockStates : ~InHand(packets, dequeued, s)
    BY <1>1, OfsEmpty DEF InHand
  <2> QED
    BY <1>1, <1>2, <2>1, <2>2, FreeSockIs DEF Requests, Requested, Polls
<1> QED
  BY <1>1, <1>4, <1>7, <1>8 DEF EpollInv, LockInv, HandsInv, LifeInv, Places, EpollAssumption

(* What any epoll_ctl keeps, from what it does to the port.                 *)
LEMMA CtlKeeps ==
  ASSUME EpollAssumption, EpollInv, NEW t \in EpollThreads, NEW q, Ctl(t, q),
         Base(q), \A x \in SockStates : Settled(q, x), Moves(port, q, {}),
         \/ q.updates \subseteq port.updates /\ at' = at /\ portLock' = portLock
         \/ at' = [at EXCEPT ![t] = "finish"] /\ portLock' = t
  PROVE  EpollInv'
<1>0. /\ at[t] = "out" /\ ephnd = "open" /\ portLock = NoThread /\ SetPort(q, {}) /\ dequeued' = dequeued
      /\ ephnd' = ephnd
  BY DEF Ctl
<1>1. PortInv(port) /\ Requests(port, polls, packets, dequeued)
  BY DEF EpollInv
<1>2. PortInv(port') /\ Requests(port', polls', packets', dequeued') /\ port'.updates = q.updates
      /\ unserved' = unserved \cap q.updates
  BY <1>0, <1>1, SetPortKeeps
<1>3. LockInv'
  <2>1. CASE q.updates \subseteq port.updates /\ at' = at /\ portLock' = portLock
    BY <1>2, <2>1 DEF EpollInv, LockInv
  <2>2. CASE at' = [at EXCEPT ![t] = "finish"] /\ portLock' = t
    BY <1>0, <2>2 DEF EpollInv, LockInv, Places, EpollAssumption
  <2> QED
    BY <2>1, <2>2
<1>4. HandsInv'
  BY <1>0 DEF EpollInv, LockInv, HandsInv
<1>5. LifeInv'
  BY <1>0 DEF EpollInv, LockInv, LifeInv
<1> QED
  BY <1>2, <1>3, <1>4, <1>5 DEF EpollInv

-----------------------------------------------------------------------------
(* Each action keeps the invariant.                                         *)
LEMMA CtlAddKeeps ==
  ASSUME EpollAssumption, EpollInv, NEW t \in EpollThreads, NEW h \in Handles, NEW mask \in Wanted,
         CtlAdd(t, h, mask)
  PROVE  EpollInv'
<1>0. PortInv(port) /\ HasGroup(port) /\ Null \notin SockStates /\ port.cancel = Null
  BY DEF EpollInv, CtlAdd, EpollAssumption, PortInv
<1>1. CASE port.tree[h] # Null
  <2>1. PICK q : q = ReleaseGroup(Acquire(port), GroupFor(port))
    OBVIOUS
  <2>2. Ctl(t, q) /\ at' = at /\ portLock' = portLock
    BY <1>1, <2>1 DEF CtlAdd
  <2>3. PortInv(q) /\ OthersSame(port, q)
    BY <1>0, <2>1, TakenBackIs
  <2>4. Moves(port, q, {})
    BY <1>0, <2>3 DEF Moves, OthersSame
  <2>5. Base(q) /\ (\A x \in SockStates : Settled(q, x)) /\ q.updates \subseteq port.updates
    BY <2>3 DEF PortInv, OthersSame
  <2> QED
    BY <2>2, <2>4, <2>5, CtlKeeps
<1>2. CASE port.tree[h] = Null
  <2>1. PICK s \in SockStates \ Allocated(port) : Ctl(t, SetEvent(New(port, s, h), s, mask))
    BY <1>2 DEF CtlAdd
  <2>2. PICK n, q : n = New(port, s, h) /\ q = SetEvent(n, s, mask)
    OBVIOUS
  <2>3. Ctl(t, q) /\ at' = [at EXCEPT ![t] = "finish"] /\ portLock' = t
    BY <1>2, <2>1, <2>2 DEF CtlAdd
  <2>4. /\ Base(n) /\ n.cancel = Null /\ s \in Allocated(n) /\ s \notin n.deleted
        /\ n.socks[s].status = "idle" /\ n.socks[s].pending = {} /\ port.socks[s].status = "free"
        /\ \A x \in SockStates : x # s => n.socks[x] = port.socks[x] /\ Settled(n, x)
    BY <1>0, <1>2, <2>2, NewIs
  <2>5. mask \in SUBSET Masks
    BY DEF EpollAssumption, Masks
  <2>6. /\ PortInv(q)
        /\ \A x \in SockStates : q.socks[x].status = n.socks[x].status /\ q.socks[x].pending = n.socks[x].pending
    BY <2>2, <2>4, <2>5, SetEventIs
  <2>7. Base(q) /\ (\A x \in SockStates : Settled(q, x)) /\ q.cancel = Null
    BY <2>6 DEF PortInv
  <2>8. Moves(port, q, {})
    BY <1>0, <2>4, <2>6, <2>7 DEF Moves
  <2> QED
    BY <2>3, <2>7, <2>8, CtlKeeps
<1> QED
  BY <1>1, <1>2

LEMMA CtlModKeeps ==
  ASSUME EpollAssumption, EpollInv, NEW t \in EpollThreads, NEW h \in Handles, NEW mask \in Wanted,
         CtlMod(t, h, mask)
  PROVE  EpollInv'
<1>0. PortInv(port) /\ Base(port) /\ Null \notin SockStates /\ port.cancel = Null /\ port.tree[h] # Null
  BY DEF EpollInv, CtlMod, EpollAssumption, PortInv
<1>1. PICK s : s = port.tree[h]
  OBVIOUS
<1>2. s \in Allocated(port) /\ s \notin port.deleted /\ s \in SockStates
  BY <1>0, <1>1 DEF Base, TreeOK, Allocated
<1>3. PICK q : q = SetEvent(port, s, mask)
  OBVIOUS
<1>4. Ctl(t, q) /\ at' = [at EXCEPT ![t] = "finish"] /\ portLock' = t
  BY <1>1, <1>3 DEF CtlMod
<1>5. mask \in SUBSET Masks
  BY DEF EpollAssumption, Masks
<1>6. port.socks[s].status = "idle" => s \in port.updates
  BY <1>0, <1>2 DEF PortInv, Settled
<1>7. \A x \in SockStates : x # s => Settled(port, x)
  BY <1>0 DEF PortInv
<1>8. /\ PortInv(q)
      /\ \A x \in SockStates : q.socks[x].status = port.socks[x].status /\ q.socks[x].pending = port.socks[x].pending
  BY <1>0, <1>2, <1>3, <1>5, <1>6, <1>7, SetEventIs
<1>9. Base(q) /\ (\A x \in SockStates : Settled(q, x)) /\ q.cancel = Null
  BY <1>8 DEF PortInv
<1>10. Moves(port, q, {})
  BY <1>0, <1>8, <1>9 DEF Moves
<1> QED
  BY <1>4, <1>9, <1>10, CtlKeeps

LEMMA CtlDelKeeps ==
  ASSUME EpollAssumption, EpollInv, NEW t \in EpollThreads, NEW h \in Handles, CtlDel(t, h)
  PROVE  EpollInv'
<1>0. PortInv(port) /\ Base(port) /\ port.tree[h] # Null
  BY DEF EpollInv, CtlDel, PortInv
<1>1. PICK s : s = port.tree[h]
  OBVIOUS
<1>2. s \in Allocated(port) /\ s \notin port.deleted /\ s \in SockStates
  BY <1>0, <1>1 DEF Base, TreeOK, Allocated
<1>3. polls[s] # {} => port.socks[s].status = "pending"
  BY <1>2 DEF EpollInv, Requests, Requested
<1>4. PICK q : /\ Ctl(t, q) /\ at' = at /\ portLock' = portLock
               /\ q = DeleteState(port, s) \/ (polls[s] # {} /\ q = DeleteUncancelled(port, s))
  BY <1>1 DEF CtlDel
<1>5. /\ Base(q) /\ (\A x \in SockStates : Settled(q, x)) /\ Moves(port, q, {})
      /\ q.updates \subseteq port.updates
  <2>1. CASE q = DeleteState(port, s)
    BY <1>0, <1>2, <2>1, DeleteKeeps
  <2>2. CASE polls[s] # {} /\ q = DeleteUncancelled(port, s)
    BY <1>0, <1>2, <1>3, <2>2, DeleteUncancelledKeeps
  <2> QED
    BY <1>4, <2>1, <2>2
<1> QED
  BY <1>4, <1>5, CtlKeeps

LEMMA WaitKeeps ==
  ASSUME EpollAssumption, EpollInv, NEW t \in EpollThreads, Wait(t)
  PROVE  EpollInv'
<1>1. /\ port' = port /\ polls' = polls /\ packets' = packets /\ dequeued' = dequeued /\ unserved' = unserved
  BY DEF Wait
<1>2. PortInv(port') /\ Requests(port', polls', packets', dequeued')
  BY <1>1 DEF EpollInv
<1>3. LockInv'
  BY <1>1 DEF EpollInv, Wait, LockInv, Places, EpollAssumption
<1>4. HandsInv'
  BY <1>1 DEF EpollInv, Wait, LockInv, HandsInv
<1>5. LifeInv'
  BY <1>1 DEF EpollInv, Wait, LockInv, LifeInv, Allocated
<1> QED
  BY <1>2, <1>3, <1>4, <1>5 DEF EpollInv

LEMMA LockKeeps ==
  ASSUME EpollAssumption, EpollInv, NEW t \in EpollThreads, Lock(t)
  PROVE  EpollInv'
<1>1. /\ port' = port /\ polls' = polls /\ packets' = packets /\ dequeued' = dequeued /\ unserved' = unserved
  BY DEF Lock
<1>2. PortInv(port') /\ Requests(port', polls', packets', dequeued')
  BY <1>1 DEF EpollInv
<1>3. LockInv'
  BY <1>1 DEF EpollInv, Lock, LockInv, Places, EpollAssumption
<1>4. HandsInv'
  BY <1>1 DEF EpollInv, Lock, LockInv, HandsInv
<1>5. LifeInv'
  BY <1>1 DEF EpollInv, Lock, LockInv, LifeInv, Allocated
<1> QED
  BY <1>2, <1>3, <1>4, <1>5 DEF EpollInv

LEMMA BlockKeeps ==
  ASSUME EpollAssumption, EpollInv, NEW t \in EpollThreads, Block(t)
  PROVE  EpollInv'
<1>1. /\ port' = port /\ polls' = polls /\ packets' = packets /\ dequeued' = dequeued /\ unserved' = unserved
  BY DEF Block
<1>2. PortInv(port') /\ Requests(port', polls', packets', dequeued')
  BY <1>1 DEF EpollInv
<1>3. LockInv'
  BY <1>1 DEF EpollInv, Block, LockInv, Places, EpollAssumption
<1>4. HandsInv'
  BY <1>1 DEF EpollInv, Block, LockInv, HandsInv
<1>5. LifeInv'
  BY <1>1 DEF EpollInv, Block, LockInv, LifeInv, Allocated
<1> QED
  BY <1>2, <1>3, <1>4, <1>5 DEF EpollInv

LEMMA RelockKeeps ==
  ASSUME EpollAssumption, EpollInv, NEW t \in EpollThreads, Relock(t)
  PROVE  EpollInv'
<1>1. /\ port' = port /\ polls' = polls /\ packets' = packets /\ dequeued' = dequeued /\ unserved' = unserved
  BY DEF Relock
<1>2. PortInv(port') /\ Requests(port', polls', packets', dequeued')
  BY <1>1 DEF EpollInv
<1>3. LockInv'
  BY <1>1 DEF EpollInv, Relock, LockInv, Places, EpollAssumption
<1>4. HandsInv'
  BY <1>1 DEF EpollInv, Relock, LockInv, HandsInv
<1>5. LifeInv'
  BY <1>1 DEF EpollInv, Relock, LockInv, LifeInv, Allocated
<1> QED
  BY <1>2, <1>3, <1>4, <1>5 DEF EpollInv

LEMMA FeedDoneKeeps ==
  ASSUME EpollAssumption, EpollInv, NEW t \in EpollThreads, FeedDone(t)
  PROVE  EpollInv'
<1>1. /\ port' = port /\ polls' = polls /\ packets' = packets /\ dequeued' = dequeued /\ unserved' = unserved
  BY DEF FeedDone
<1>2. PortInv(port') /\ Requests(port', polls', packets', dequeued')
  BY <1>1 DEF EpollInv
<1>3. LockInv'
  BY <1>1 DEF EpollInv, FeedDone, LockInv, Places, EpollAssumption
<1>4. HandsInv'
  BY <1>1 DEF EpollInv, FeedDone, LockInv, HandsInv
<1>5. LifeInv'
  BY <1>1 DEF EpollInv, FeedDone, LockInv, LifeInv, Allocated
<1> QED
  BY <1>2, <1>3, <1>4, <1>5 DEF EpollInv

LEMMA ReturnKeeps ==
  ASSUME EpollAssumption, EpollInv, NEW t \in EpollThreads, Return(t)
  PROVE  EpollInv'
<1>1. /\ port' = port /\ polls' = polls /\ packets' = packets /\ dequeued' = dequeued /\ unserved' = unserved
  BY DEF Return
<1>2. PortInv(port') /\ Requests(port', polls', packets', dequeued')
  BY <1>1 DEF EpollInv
<1>3. LockInv'
  BY <1>1 DEF EpollInv, Return, LockInv, Places, EpollAssumption, Polling
<1>4. HandsInv'
  BY <1>1 DEF EpollInv, Return, LockInv, HandsInv
<1>5. LifeInv'
  BY <1>1 DEF EpollInv, Return, LockInv, LifeInv, Allocated
<1> QED
  BY <1>2, <1>3, <1>4, <1>5 DEF EpollInv

LEMMA EpollCloseKeeps ==
  ASSUME EpollAssumption, EpollInv, NEW t \in EpollThreads, EpollClose(t)
  PROVE  EpollInv'
<1>1. /\ port' = port /\ polls' = polls /\ packets' = packets /\ dequeued' = dequeued /\ unserved' = unserved
  BY DEF EpollClose
<1>2. PortInv(port') /\ Requests(port', polls', packets', dequeued')
  BY <1>1 DEF EpollInv
<1>3. LockInv'
  BY <1>1 DEF EpollInv, EpollClose, LockInv, Places, EpollAssumption
<1>4. HandsInv'
  BY <1>1 DEF EpollInv, EpollClose, LockInv, HandsInv
<1>5. LifeInv'
  BY <1>1 DEF EpollInv, EpollClose, LockInv, LifeInv, Allocated
<1> QED
  BY <1>2, <1>3, <1>4, <1>5 DEF EpollInv

LEMMA UpdateNextKeeps ==
  ASSUME EpollAssumption, EpollInv, NEW t \in EpollThreads, UpdateNext(t)
  PROVE  EpollInv'
<1>1. PICK s \in port.updates : SetPort(Update(port, s), IF Submits(port, s) THEN {s} ELSE {})
  BY DEF UpdateNext
<1>2. PICK q, submitted : q = Update(port, s) /\ submitted = IF Submits(port, s) THEN {s} ELSE {}
  OBVIOUS
<1>3. PortInv(port) /\ Requests(port, polls, packets, dequeued)
  BY DEF EpollInv
<1>4. Base(q) /\ (\A x \in SockStates : Settled(q, x)) /\ Moves(port, q, submitted)
  BY <1>2, <1>3, UpdateIs
<1>5. SetPort(q, submitted)
  BY <1>1, <1>2
<1>6. at[t] \in {"update", "finish"} /\ at' = at /\ dequeued' = dequeued /\ portLock' = portLock /\ ephnd' = ephnd
  BY DEF UpdateNext
<1>7. PortInv(port') /\ Requests(port', polls', packets', dequeued')
  BY <1>3, <1>4, <1>5, <1>6, SetPortKeeps
<1>8. LockInv'
  BY <1>6 DEF EpollInv, LockInv, EpollAssumption
<1>9. HandsInv'
  BY <1>6 DEF EpollInv, HandsInv
<1>10. LifeInv'
  BY <1>6 DEF EpollInv, LifeInv
<1> QED
  BY <1>7, <1>8, <1>9, <1>10 DEF EpollInv

LEMMA UpdateFailsKeeps ==
  ASSUME EpollAssumption, EpollInv, NEW t \in EpollThreads, UpdateFails(t)
  PROVE  EpollInv'
<1>1. /\ port' = port /\ polls' = polls /\ packets' = packets /\ dequeued' = dequeued
      /\ unserved' = port.updates /\ ephnd' = ephnd
  BY DEF UpdateFails
<1>2. PortInv(port') /\ Requests(port', polls', packets', dequeued')
  BY <1>1 DEF EpollInv
<1>3. \/ at[t] = "update" /\ at' = [at EXCEPT ![t] = "finish"] /\ portLock' = portLock
      \/ at[t] = "finish" /\ at' = [at EXCEPT ![t] = "out"] /\ portLock' = NoThread
  BY DEF UpdateFails
<1>4. LockInv'
  BY <1>1, <1>3 DEF EpollInv, LockInv, Places, EpollAssumption
<1>5. HandsInv'
  BY <1>1, <1>3 DEF EpollInv, LockInv, HandsInv
<1>6. LifeInv'
  BY <1>1, <1>3 DEF EpollInv, LockInv, LifeInv, Allocated
<1> QED
  BY <1>2, <1>4, <1>5, <1>6 DEF EpollInv

LEMMA DequeueKeeps ==
  ASSUME EpollAssumption, EpollInv, NEW t \in EpollThreads, Dequeue(t)
  PROVE  EpollInv'
<1>1. /\ at[t] = "blocked" /\ at' = [at EXCEPT ![t] = "woken"] /\ port' = port /\ polls' = polls
      /\ portLock' = portLock /\ ephnd' = ephnd /\ unserved' = unserved
  BY DEF Dequeue
<1>2. PortInv(port) /\ Requests(port, polls, packets, dequeued)
  BY DEF EpollInv
<1>3. SeqsOK(packets, dequeued)
  BY <1>2 DEF Requests
<1>4. /\ packets \in Seq(PacketRecs) /\ OnceOf(packets) /\ dequeued \in [EpollThreads -> Seq(PacketRecs)]
      /\ \A u \in EpollThreads : OnceOf(dequeued[u]) /\ Ofs(packets) \cap Ofs(dequeued[u]) = {}
      /\ \A u, v \in EpollThreads : u # v => Ofs(dequeued[v]) \cap Ofs(dequeued[u]) = {}
  BY <1>3 DEF SeqsOK
<1>5. dequeued[t] = <<>>
  BY <1>1 DEF EpollInv, HandsInv
<1>6. /\ SeqsOK(packets', dequeued')
      /\ \A s : InHand(packets', dequeued', s) <=> InHand(packets, dequeued, s)
      /\ \A u \in EpollThreads : u # t => dequeued'[u] = dequeued[u]
  <2>1. CASE dequeued' = dequeued /\ packets' = packets
    BY <1>3, <2>1
  <2>2. CASE ~(dequeued' = dequeued /\ packets' = packets)
    <3>1. PICK n \in 1 .. Len(packets) :
            /\ dequeued' = [dequeued EXCEPT ![t] = SubSeq(packets, 1, n)]
            /\ packets' = SubSeq(packets, n + 1, Len(packets))
      BY <2>2 DEF Dequeue
    <3>2. PICK a, b : a = SubSeq(packets, 1, n) /\ b = SubSeq(packets, n + 1, Len(packets))
      OBVIOUS
    <3>3. /\ a \in Seq(PacketRecs) /\ b \in Seq(PacketRecs) /\ OnceOf(a) /\ OnceOf(b)
          /\ Ofs(a) \cup Ofs(b) = Ofs(packets) /\ Ofs(a) \cap Ofs(b) = {}
      <4>1. Splits(packets, a, b)
        BY <1>4, <3>2, OfsSplit
      <4> QED
        BY <4>1 DEF Splits
    <3>4. PICK d : d = dequeued'
      OBVIOUS
    <3>5. /\ d \in [EpollThreads -> Seq(PacketRecs)] /\ d[t] = a
          /\ \A u \in EpollThreads : u # t => d[u] = dequeued[u]
      BY <1>4, <3>1, <3>2, <3>3, <3>4
    <3>6. SeqsOK(b, d)
      <4>1. \A u \in EpollThreads : OnceOf(d[u]) /\ Ofs(b) \cap Ofs(d[u]) = {}
        BY <1>4, <3>3, <3>5
      <4>2. \A u, v \in EpollThreads : u # v => Ofs(d[v]) \cap Ofs(d[u]) = {}
        BY <1>4, <3>3, <3>5
      <4> QED
        BY <3>3, <3>5, <4>1, <4>2 DEF SeqsOK
    <3>7. \A s : InHand(b, d, s) <=> InHand(packets, dequeued, s)
      <4>1. ASSUME NEW s, InHand(b, d, s) PROVE InHand(packets, dequeued, s)
        <5>1. CASE s \in Ofs(b)
          BY <3>3, <5>1 DEF InHand
        <5>2. CASE \E u \in EpollThreads : s \in Ofs(d[u])
          BY <3>3, <3>5, <5>2 DEF InHand
        <5> QED
          BY <4>1, <5>1, <5>2 DEF InHand
      <4>2. ASSUME NEW s, InHand(packets, dequeued, s) PROVE InHand(b, d, s)
        <5>1. CASE s \in Ofs(packets)
          <6>1. s \in Ofs(b) \/ s \in Ofs(d[t])
            BY <3>3, <3>5, <5>1
          <6> QED
            BY <6>1 DEF InHand
        <5>2. CASE \E u \in EpollThreads : s \in Ofs(dequeued[u])
          <6>1. PICK u \in EpollThreads : s \in Ofs(dequeued[u])
            BY <5>2
          <6>2. u # t
            BY <1>5, <6>1, OfsEmpty
          <6> QED
            BY <3>5, <6>1, <6>2 DEF InHand
        <5> QED
          BY <4>2, <5>1, <5>2 DEF InHand
      <4> QED
        BY <4>1, <4>2
    <3> QED
      BY <3>1, <3>2, <3>4, <3>5, <3>6, <3>7
  <2> QED
    BY <2>1, <2>2
<1>7. Requests(port', polls', packets', dequeued')
  BY <1>1, <1>2, <1>6 DEF Requests, Requested
<1>8. LockInv'
  BY <1>1 DEF EpollInv, LockInv, Places
<1>9. HandsInv'
  BY <1>1, <1>6 DEF EpollInv, LockInv, HandsInv
<1>10. LifeInv'
  BY <1>1 DEF EpollInv, LockInv, LifeInv, Allocated
<1> QED
  BY <1>1, <1>2, <1>7, <1>8, <1>9, <1>10 DEF EpollInv

LEMMA FeedNextKeeps ==
  ASSUME EpollAssumption, EpollInv, NEW t \in EpollThreads, FeedNext(t)
  PROVE  EpollInv'
<1>1. PICK x : x = Head(dequeued[t])
  OBVIOUS
<1>2. /\ at[t] = "feed" /\ dequeued[t] # <<>> /\ SetPort(Feed(port, x), {})
      /\ dequeued' = [dequeued EXCEPT ![t] = Tail(@)]
      /\ at' = at /\ portLock' = portLock /\ ephnd' = ephnd
  BY <1>1 DEF FeedNext
<1>3. PortInv(port) /\ Requests(port, polls, packets, dequeued)
  BY DEF EpollInv
<1>4. SeqsOK(packets, dequeued) /\ polls \in Polls
  BY <1>3 DEF Requests
<1>5. /\ packets \in Seq(PacketRecs) /\ OnceOf(packets) /\ dequeued \in [EpollThreads -> Seq(PacketRecs)]
      /\ \A u \in EpollThreads : OnceOf(dequeued[u]) /\ Ofs(packets) \cap Ofs(dequeued[u]) = {}
      /\ \A u, v \in EpollThreads : u # v => Ofs(dequeued[v]) \cap Ofs(dequeued[u]) = {}
  BY <1>4 DEF SeqsOK
<1>6. PICK r : r = Tail(dequeued[t])
  OBVIOUS
<1>7. /\ x \in PacketRecs /\ r \in Seq(PacketRecs) /\ OnceOf(r)
      /\ x.of \in Ofs(dequeued[t]) /\ Ofs(r) = Ofs(dequeued[t]) \ {x.of}
  BY <1>1, <1>2, <1>5, <1>6, OfsTail
<1>8. PICK s \in SockStates : s = x.of
  BY <1>7 DEF PacketRecs
<1>9. InHand(packets, dequeued, s)
  BY <1>7, <1>8 DEF InHand
<1>10. port.socks[s].status \in {"pending", "cancelled"} /\ polls[s] = {}
  BY <1>3, <1>9 DEF Requests, Requested
<1>11. PICK q : q = Feed(port, x)
  OBVIOUS
<1>12. /\ PortInv(q) /\ q.socks[s].status \in {"free", "idle"}
       /\ \A y \in SockStates : y # s => q.socks[y] = port.socks[y]
  BY <1>3, <1>7, <1>8, <1>10, <1>11, FeedIs
<1>13. q.cancel = Null /\ q \in Ports /\ Null \notin SockStates
  BY <1>12 DEF PortInv, Base, EpollAssumption
<1>14. port' = q
  <2>1. port' = [q EXCEPT !.cancel = Null]
    BY <1>2, <1>11 DEF SetPort
  <2> QED
    BY <1>13, <2>1 DEF Ports
<1>15. packets' = packets
  BY <1>2, <1>11, <1>13 DEF SetPort
<1>16. PICK m : m = polls'
  OBVIOUS
<1>17. m \in Polls /\ \A y \in SockStates : m[y] = polls[y]
  <2>1. m = [y \in SockStates |-> IF y = q.cancel THEN {}
                ELSE IF y \in {} THEN Known(q.socks[y].pending) \cup {"CLOSE"} ELSE polls[y]]
    BY <1>2, <1>11, <1>16 DEF SetPort
  <2>2. \A y \in SockStates : y # q.cancel
    BY <1>13
  <2> QED
    BY <1>4, <2>1, <2>2 DEF Polls
<1>18. PICK d : d = dequeued'
  OBVIOUS
<1>19. /\ d \in [EpollThreads -> Seq(PacketRecs)] /\ d[t] = r
       /\ \A u \in EpollThreads : u # t => d[u] = dequeued[u]
  BY <1>2, <1>5, <1>6, <1>7, <1>18
<1>20. SeqsOK(packets, d)
  <2>1. \A u \in EpollThreads : OnceOf(d[u]) /\ Ofs(packets) \cap Ofs(d[u]) = {}
    BY <1>5, <1>7, <1>19
  <2>2. \A u, v \in EpollThreads : u # v => Ofs(d[v]) \cap Ofs(d[u]) = {}
    BY <1>5, <1>7, <1>19
  <2> QED
    BY <1>5, <1>19, <2>1, <2>2 DEF SeqsOK
<1>21. ~InHand(packets, d, s)
  BY <1>5, <1>7, <1>8, <1>19 DEF InHand
<1>22. \A y \in SockStates : y # s => (InHand(packets, d, y) <=> InHand(packets, dequeued, y))
  <2> SUFFICES ASSUME NEW y \in SockStates, y # s
               PROVE  InHand(packets, d, y) <=> InHand(packets, dequeued, y)
    OBVIOUS
  <2>1. \A u \in EpollThreads : y \in Ofs(d[u]) <=> y \in Ofs(dequeued[u])
    BY <1>7, <1>8, <1>19
  <2> QED
    BY <2>1 DEF InHand
<1>23. ASSUME NEW y \in SockStates PROVE Requested(q.socks[y], m[y], InHand(packets, d, y))
  <2>1. CASE y = s
    BY <1>10, <1>12, <1>17, <1>21, <2>1 DEF Requested
  <2>2. CASE y # s
    <3>1. Requested(port.socks[y], polls[y], InHand(packets, dequeued, y))
      BY <1>3 DEF Requests
    <3> QED
      BY <1>12, <1>17, <1>22, <2>2, <3>1 DEF Requested
  <2> QED
    BY <2>1, <2>2
<1>24. PortInv(port') /\ Requests(port', polls', packets', dequeued')
  BY <1>12, <1>14, <1>15, <1>16, <1>17, <1>18, <1>20, <1>23 DEF Requests
<1>25. LockInv'
  BY <1>2 DEF EpollInv, LockInv, EpollAssumption
<1>26. HandsInv'
  BY <1>2, <1>18, <1>19 DEF EpollInv, HandsInv
<1>27. LifeInv'
  BY <1>2 DEF EpollInv, LifeInv
<1> QED
  BY <1>24, <1>25, <1>26, <1>27 DEF EpollInv

LEMMA PortDeleteKeeps ==
  ASSUME EpollAssumption, EpollInv, NEW t \in EpollThreads, PortDelete(t)
  PROVE  EpollInv'
<1> DEFINE kept == port.doomed \cup {port.tree[h] : h \in Handles}
<1>0. /\ PortInv(port) /\ Base(port) /\ port \in Ports /\ CountsOK(port) /\ Null \notin SockStates
      /\ GroupSize \in Nat \ {0} /\ at \in [EpollThreads -> Places] /\ at[t] = "close" /\ Inside = {t}
  BY DEF EpollInv, PortInv, Base, EpollAssumption, LockInv, PortDelete
<1>1. \A s \in SockStates : s \in kept <=> s \in Allocated(port)
  <2>1. ASSUME NEW s \in SockStates, s \in kept PROVE s \in Allocated(port)
    <3>1. CASE s \in port.doomed
      BY <1>0, <3>1 DEF Base, SetsOK
    <3>2. CASE \E h \in Handles : s = port.tree[h]
      BY <1>0, <3>2 DEF Base, TreeOK
    <3> QED
      BY <2>1, <3>1, <3>2
  <2>2. ASSUME NEW s \in Allocated(port) PROVE s \in kept
    <3>1. CASE s \in port.deleted
      BY <1>0, <3>1 DEF Base, SetsOK
    <3>2. CASE s \notin port.deleted
      <4>1. port.socks[s].sock \in Handles /\ port.tree[port.socks[s].sock] = s
        BY <1>0, <3>2 DEF Base, StatesOK
      <4> QED
        BY <4>1
    <3> QED
      BY <3>1, <3>2
  <2> QED
    BY <2>1, <2>2
<1>2. PICK p : p = port'
  OBVIOUS
<1>3. PICK tree, socks, sizes :
        /\ tree = [h \in Handles |-> Null]
        /\ socks = [s \in SockStates |-> IF s \in kept THEN FreeSock ELSE port.socks[s]]
        /\ sizes = [g \in PollGroups |->
             port.sizes[g] - Cardinality({s \in kept \cap SockStates : port.socks[s].group = g})]
  OBVIOUS
<1>4. p = [port EXCEPT !.tree = tree, !.doomed = {}, !.socks = socks, !.updates = port.updates \ kept,
                       !.deleted = port.deleted \ kept, !.groups = <<>>, !.sizes = sizes]
  BY <1>0, <1>2, <1>3 DEF PortDelete, Ports
<1>5. port.updates \ kept = {} /\ port.deleted \ kept = {}
  <2>1. port.updates \subseteq Allocated(port) /\ port.deleted \subseteq Allocated(port)
        /\ Allocated(port) \subseteq SockStates
    BY <1>0 DEF Base, SetsOK, Allocated
  <2> QED
    BY <1>1, <2>1
<1>6. socks \in [SockStates -> StateRecs] /\ \A s \in SockStates : socks[s].status = "free"
  <2>1. port.socks \in [SockStates -> StateRecs]
    BY <1>0, PortFields
  <2>2. socks \in [SockStates -> StateRecs]
    BY <1>3, <2>1, FreeSockIs
  <2>3. \A s \in SockStates : socks[s] = IF s \in kept THEN FreeSock ELSE port.socks[s]
    BY <1>3
  <2>4. \A s \in SockStates : s \notin kept => port.socks[s].status = "free"
    BY <1>1 DEF Allocated
  <2> QED
    BY <2>2, <2>3, <2>4, FreeSockIs
<1>7. sizes = [g \in PollGroups |-> 0]
  <2>1. ASSUME NEW g \in PollGroups
        PROVE  port.sizes[g] - Cardinality({s \in kept \cap SockStates : port.socks[s].group = g}) = 0
    <3> DEFINE freed == {s \in kept \cap SockStates : port.socks[s].group = g}
    <3>1. freed = Members(port, g)
      BY <1>1 DEF Members, Allocated
    <3> HIDE DEF freed
    <3>2. port.sizes[g] = Cardinality(Members(port, g)) /\ Cardinality(Members(port, g)) \in Nat
      BY <1>0, MembersFinite DEF CountsOK
    <3>3. port.sizes[g] - Cardinality(freed) = 0
      BY <3>1, <3>2
    <3> QED
      BY <3>3 DEF freed
  <2> QED
    BY <1>3, <2>1
<1> HIDE DEF kept
<1>8. /\ p \in Ports /\ p.tree = tree /\ p.socks = socks /\ p.deleted = {} /\ p.updates = {} /\ p.doomed = {}
      /\ p.groups = <<>> /\ p.sizes = [g \in PollGroups |-> 0] /\ p.cancel = port.cancel
  <2>1. p = [port EXCEPT !.tree = tree, !.doomed = {}, !.socks = socks, !.updates = {},
                         !.deleted = {}, !.groups = <<>>, !.sizes = sizes]
    BY <1>4, <1>5
  <2>2. tree \in [Handles -> SockStates \cup {Null}] /\ sizes \in [PollGroups -> Nat]
    BY <1>3, <1>7
  <2>3. <<>> \in Seq(PollGroups)
    OBVIOUS
  <2> QED
    BY ONLY <1>0, <1>6, <1>7, <2>1, <2>2, <2>3 DEF Ports
<1>9. Allocated(p) = {}
  BY <1>6, <1>8 DEF Allocated
<1>10. QueueOK(p.groups, p.sizes)
  BY <1>0, <1>8 DEF QueueOK, Uniq, FullFirst
<1>11. CountsOK(p)
  <2>1. \A g \in PollGroups : Members(p, g) = {}
    BY <1>9 DEF Members
  <2> QED
    BY <1>8, <2>1, FS_EmptySet DEF CountsOK
<1>12. PortInv(p)
  BY <1>0, <1>3, <1>8, <1>9, <1>10, <1>11 DEF PortInv, Base, TreeOK, StatesOK, SetsOK, Settled
<1>13. \A u \in EpollThreads : u # t => at[u] = "out"
  BY <1>0 DEF Inside
<1>14. /\ polls' = [s \in SockStates |-> {}] /\ packets' = <<>> /\ dequeued' = dequeued
       /\ at' = [at EXCEPT ![t] = "out"] /\ ephnd' = "deleted" /\ portLock' = portLock
  BY DEF PortDelete
<1>15. \A u \in EpollThreads : dequeued[u] = <<>>
  BY <1>0, <1>13 DEF EpollInv, HandsInv
<1>16. dequeued \in [EpollThreads -> Seq(PacketRecs)]
  BY DEF EpollInv, Requests, SeqsOK
<1>17. Requests(p, polls', packets', dequeued')
  <2>1. <<>> \in Seq(PacketRecs)
    OBVIOUS
  <2>2. SeqsOK(packets', dequeued')
    BY <1>14, <1>15, <1>16, <2>1, OfsEmpty DEF SeqsOK
  <2>3. \A s \in SockStates : ~InHand(packets', dequeued', s)
    BY <1>14, <1>15, OfsEmpty DEF InHand
  <2> QED
    BY <1>6, <1>8, <1>14, <2>2, <2>3 DEF Requests, Requested, Polls
<1>18. \A u \in EpollThreads : at'[u] = "out"
  BY <1>0, <1>13, <1>14
<1>19. LockInv'
  BY <1>0, <1>8, <1>13, <1>14, <1>18, <1>2 DEF EpollInv, LockInv, Places
<1>20. HandsInv'
  BY <1>14, <1>15 DEF HandsInv
<1>21. LifeInv'
  BY <1>2, <1>9, <1>14, <1>18 DEF LifeInv
<1> QED
  BY <1>2, <1>12, <1>17, <1>19, <1>20, <1>21 DEF EpollInv

LEMMA OthersKeep ==
  ASSUME EpollInv, UNCHANGED Others, Requests(port, polls', packets', dequeued)
  PROVE  EpollInv'
<1>1. /\ port' = port /\ at' = at /\ dequeued' = dequeued /\ portLock' = portLock /\ ephnd' = ephnd
      /\ unserved' = unserved
  BY DEF Others
<1>2. PortInv(port') /\ Requests(port', polls', packets', dequeued')
  BY <1>1 DEF EpollInv
<1>3. LockInv' /\ HandsInv' /\ LifeInv'
  BY <1>1 DEF EpollInv, LockInv, HandsInv, LifeInv, Allocated
<1> QED
  BY <1>2, <1>3 DEF EpollInv

LEMMA CompleteKeeps ==
  ASSUME EpollAssumption, EpollInv, NEW s \in SockStates, Complete(s)
  PROVE  EpollInv'
<1>1. Requests(port, polls, packets, dequeued) /\ polls \in Polls /\ SeqsOK(packets, dequeued)
  BY DEF EpollInv, Requests
<1>2. PICK events : events = polls[s] \cap ready[port.socks[s].sock]
  OBVIOUS
<1>3. /\ polls[s] # {} /\ packets' = Append(packets, [of |-> s, events |-> events])
      /\ polls' = [polls EXCEPT ![s] = {}] /\ UNCHANGED Others
  BY <1>2 DEF Complete
<1>4. PICK x : x = [of |-> s, events |-> events]
  OBVIOUS
<1>5. x \in PacketRecs /\ x.of = s
  <2>1. events \subseteq Masks \cup {"CLOSE"}
    BY <1>1, <1>2 DEF Polls
  <2> QED
    BY <1>4, <2>1 DEF PacketRecs
<1>6. port.socks[s].status = "pending" /\ ~InHand(packets, dequeued, s)
  BY <1>1, <1>3 DEF Requests, Requested
<1>7. PICK k, m : k = packets' /\ m = polls'
  OBVIOUS
<1>8. /\ SeqsOK(k, dequeued)
      /\ \A y : InHand(k, dequeued, y) <=> InHand(packets, dequeued, y) \/ y = s
  <2>1. k = Append(packets, x)
    BY <1>3, <1>4, <1>7
  <2> QED
    BY <1>1, <1>5, <1>6, <2>1, SentOne
<1>9. m \in Polls /\ m[s] = {} /\ \A y \in SockStates : y # s => m[y] = polls[y]
  BY <1>1, <1>3, <1>7 DEF Polls
<1>10. ASSUME NEW y \in SockStates PROVE Requested(port.socks[y], m[y], InHand(k, dequeued, y))
  <2>1. Requested(port.socks[y], polls[y], InHand(packets, dequeued, y))
    BY <1>1 DEF Requests
  <2>2. CASE y = s
    BY <1>6, <1>8, <1>9, <2>2 DEF Requested
  <2>3. CASE y # s
    BY <1>8, <1>9, <2>1, <2>3 DEF Requested
  <2> QED
    BY <2>2, <2>3
<1>11. Requests(port, polls', packets', dequeued)
  BY <1>7, <1>8, <1>9, <1>10 DEF Requests
<1> QED
  BY <1>3, <1>11, OthersKeep

(* Every step keeps it.                                                     *)
LEMMA EpollNext_Inv == EpollAssumption /\ EpollInv /\ [EpollNext]_epollVars => EpollInv'
<1> SUFFICES ASSUME EpollAssumption, EpollInv, [EpollNext]_epollVars PROVE EpollInv'
  OBVIOUS
<1>1. ASSUME NEW t \in EpollThreads,
             \/ Wait(t) \/ Lock(t) \/ UpdateNext(t) \/ UpdateFails(t) \/ Block(t) \/ Dequeue(t)
             \/ Relock(t) \/ FeedNext(t) \/ FeedDone(t) \/ Return(t) \/ EpollClose(t) \/ PortDelete(t)
      PROVE  EpollInv'
  BY <1>1, WaitKeeps, LockKeeps, UpdateNextKeeps, UpdateFailsKeeps, BlockKeeps, DequeueKeeps, RelockKeeps,
     FeedNextKeeps, FeedDoneKeeps, ReturnKeeps, EpollCloseKeeps, PortDeleteKeeps
<1>2. ASSUME NEW t \in EpollThreads, NEW h \in Handles, CtlDel(t, h) PROVE EpollInv'
  BY <1>2, CtlDelKeeps
<1>3. ASSUME NEW t \in EpollThreads, NEW h \in Handles, NEW mask \in Wanted,
             CtlAdd(t, h, mask) \/ CtlMod(t, h, mask)
      PROVE  EpollInv'
  BY <1>3, CtlAddKeeps, CtlModKeeps
<1>4. ASSUME NEW h \in Handles,
             CloseSocket(h) \/ Reopen(h) \/ IsRead(h) \/ \E event \in Conditions : BecomesReady(h, event)
      PROVE  EpollInv'
  <2>1. UNCHANGED Others /\ polls' = polls /\ packets' = packets
    BY <1>4 DEF CloseSocket, Reopen, IsRead, BecomesReady
  <2>2. Requests(port, polls', packets', dequeued)
    BY <2>1 DEF EpollInv
  <2> QED
    BY <2>1, <2>2, OthersKeep
<1>5. ASSUME NEW s \in SockStates, Complete(s) PROVE EpollInv'
  BY <1>5, CompleteKeeps
<1>6. CASE UNCHANGED epollVars
  <2>1. UNCHANGED Others /\ polls' = polls /\ packets' = packets
    BY <1>6 DEF epollVars, Others
  <2>2. Requests(port, polls', packets', dequeued)
    BY <2>1 DEF EpollInv
  <2> QED
    BY <2>1, <2>2, OthersKeep
<1> QED
  BY <1>1, <1>2, <1>3, <1>4, <1>5, <1>6 DEF EpollNext

(* A completion is in the queue or in the hands of the thread that took it. *)
LEMMA Completed_InHand ==
  ASSUME NEW s, SeqsOK(packets, dequeued)
  PROVE  Completed(s) <=> InHand(packets, dequeued, s)
<1>1. packets \in Seq(PacketRecs) /\ \A t \in EpollThreads : dequeued[t] \in Seq(PacketRecs)
  BY DEF SeqsOK
<1>2. DOMAIN packets = 1 .. Len(packets) /\ \A t \in EpollThreads : DOMAIN dequeued[t] = 1 .. Len(dequeued[t])
  BY <1>1
<1>3. (\E i \in DOMAIN packets : packets[i].of = s) <=> s \in Ofs(packets)
  BY <1>2 DEF Ofs
<1>4. \A t \in EpollThreads :
        (\E i \in DOMAIN dequeued[t] : dequeued[t][i].of = s) <=> s \in Ofs(dequeued[t])
  BY <1>2 DEF Ofs
<1> QED
  BY <1>3, <1>4 DEF Completed, InHand

(* While a thread is blocked, no update waits but what a failing one left,  *)
(* and a registered state that is not to be updated has a request for its   *)
(* events.                                                                  *)
LEMMA EpollInv_Armed == EpollAssumption /\ EpollInv => WaitersAreArmed
<1> SUFFICES ASSUME EpollAssumption, EpollInv, portLock = NoThread, NEW t \in EpollThreads, at[t] = "blocked",
                    NEW s \in Allocated(port), s \notin port.deleted,
                    s \notin unserved
             PROVE  Known(port.socks[s].user) \subseteq polls[s] \/ Completed(s)
  BY DEF WaitersAreArmed
<1>1. s \notin port.updates
  BY DEF EpollInv, LockInv
<1>2. PortInv(port) /\ Requests(port, polls, packets, dequeued) /\ SeqsOK(packets, dequeued) /\ s \in SockStates
      /\ port \in Ports
  BY DEF EpollInv, Requests, Allocated, PortInv, Base
<1>3. port.socks[s].status \in {"idle", "pending", "cancelled"}
  BY <1>2, PortFields DEF Allocated, StateRecs
<1>4. /\ port.socks[s].status # "idle"
      /\ port.socks[s].status = "pending" => Known(port.socks[s].user) \subseteq port.socks[s].pending
  BY <1>1, <1>2 DEF PortInv, Settled
<1>5. Completed(s) <=> InHand(packets, dequeued, s)
  BY <1>2, Completed_InHand
<1>6. CASE port.socks[s].status = "cancelled"
  BY <1>2, <1>5, <1>6 DEF Requests, Requested
<1>7. CASE port.socks[s].status = "pending"
  <2>1. polls[s] = Known(port.socks[s].pending) \cup {"CLOSE"} \/ InHand(packets, dequeued, s)
    BY <1>2, <1>7 DEF Requests, Requested
  <2>2. Known(port.socks[s].user) \subseteq Known(port.socks[s].pending)
    BY <1>4, <1>7 DEF Known
  <2> QED
    BY <1>5, <2>1, <2>2
<1> QED
  BY <1>3, <1>4, <1>6, <1>7

(* A request or completion belongs to a state that is still allocated, and  *)
(* what the tree, the queues and the groups say of the states agrees.       *)
LEMMA EpollInv_Freed == EpollAssumption /\ EpollInv => FreedAfterCompletion
<1> SUFFICES ASSUME EpollAssumption, EpollInv PROVE FreedAfterCompletion
  OBVIOUS
<1>1. /\ PortInv(port) /\ Base(port) /\ port \in Ports /\ Requests(port, polls, packets, dequeued)
      /\ SeqsOK(packets, dequeued) /\ LifeInv /\ Null \notin SockStates
  BY DEF EpollInv, PortInv, Base, Requests, EpollAssumption
<1>2. \A s \in SockStates : polls[s] # {} \/ Completed(s) => s \in Allocated(port)
  <2> SUFFICES ASSUME NEW s \in SockStates, polls[s] # {} \/ Completed(s) PROVE s \in Allocated(port)
    OBVIOUS
  <2>1. polls[s] # {} \/ InHand(packets, dequeued, s)
    BY <1>1, Completed_InHand
  <2> QED
    BY <1>1, <2>1 DEF Requests, Requested, Allocated
<1>3. \A s \in Allocated(port) : s \in port.doomed <=> port.tree[port.socks[s].sock] # s
  <2> SUFFICES ASSUME NEW s \in Allocated(port)
               PROVE  s \in port.doomed <=> port.tree[port.socks[s].sock] # s
    OBVIOUS
  <2>1. port.doomed = port.deleted /\ port.socks[s].sock \in Handles /\ s \in SockStates
        /\ (s \notin port.deleted => port.tree[port.socks[s].sock] = s)
    BY <1>1 DEF Base, SetsOK, StatesOK, Allocated
  <2>2. port.tree[port.socks[s].sock] = s => s \notin port.deleted
    BY <1>1, <2>1 DEF Base, TreeOK
  <2> QED
    BY <2>1, <2>2
<1>4. \A g \in PollGroups : port.sizes[g] = Cardinality({s \in Allocated(port) : port.socks[s].group = g})
  BY <1>1 DEF Base, CountsOK, Members
<1>5. port.updates \cap port.deleted = {} /\ port.updates \subseteq Allocated(port)
  BY <1>1 DEF Base, SetsOK
<1>6. ephnd = "deleted" =>
        /\ Allocated(port) = {} /\ port.updates = {}
        /\ \A g \in PollGroups : port.sizes[g] = 0
  <2> SUFFICES ASSUME ephnd = "deleted"
               PROVE  Allocated(port) = {} /\ port.updates = {} /\ \A g \in PollGroups : port.sizes[g] = 0
    OBVIOUS
  <2>1. Allocated(port) = {}
    BY <1>1 DEF LifeInv
  <2>2. \A g \in PollGroups : Members(port, g) = {}
    BY <2>1 DEF Members
  <2>3. \A g \in PollGroups : port.sizes[g] = 0
    BY <1>1, <2>2, FS_EmptySet DEF Base, CountsOK
  <2> QED
    BY <1>5, <2>1, <2>3
<1>7. \A i \in DOMAIN port.groups : port.sizes[port.groups[i]] < GroupSize => LastHasRoom(port)
  <2> SUFFICES ASSUME NEW i \in DOMAIN port.groups, port.sizes[port.groups[i]] < GroupSize
               PROVE  LastHasRoom(port)
    OBVIOUS
  <2>1. PICK q \in Seq(PollGroups) : q = port.groups
    BY <1>1, PortFields
  <2>2. i \in 1 .. Len(q) /\ Len(q) \in 1 .. Len(q) /\ q # <<>>
    BY <2>1
  <2>3. PICK l \in 1 .. Len(q) : l = Len(q)
    BY <2>2
  <2>4. port.sizes[q[l]] # GroupSize
    <3>1. CASE i = l
      BY <1>1, <2>1, <2>2, <2>3, <3>1 DEF EpollAssumption
    <3>2. CASE i < l
      <4>1. port.sizes[q[i]] # GroupSize
        BY <2>1, <2>2 DEF EpollAssumption
      <4> QED
        BY <1>1, <2>1, <2>2, <3>2, <4>1 DEF Base, QueueOK, FullFirst
    <3> QED
      BY <2>2, <2>3, <3>1, <3>2
  <2>5. q[l] \in PollGroups /\ port.sizes[q[l]] \in Nat /\ port.sizes[q[l]] <= GroupSize
    BY <1>1, PortFields DEF Base, QueueOK
  <2>6. Last(port.groups) = q[l]
    BY <2>1, <2>3 DEF Last
  <2> QED
    BY <2>1, <2>2, <2>4, <2>5, <2>6 DEF LastHasRoom, EpollAssumption
<1> QED
  BY <1>2, <1>3, <1>4, <1>5, <1>6, <1>7 DEF FreedAfterCompletion

(* epoll of Windows, for any number of threads, sockets and group sizes:    *)
(* whoever blocks in epoll_wait has every registration armed but those that *)
(* a refused request left queued, and before the port is deleted a state is *)
(* freed only when no request or completion of it is left.                  *)
THEOREM WaitersAreServed == EpollSpec => []WaitersServed
<1>1. EpollInit => EpollInv
  BY EpollInit_Inv
<1>2. EpollInv /\ [EpollNext]_epollVars => EpollInv'
  BY EpollNext_Inv, EpollAssumption
<1>3. EpollInv => WaitersServed
  BY EpollInv_Armed, EpollInv_Freed, EpollAssumption DEF WaitersServed
<1> QED
  BY <1>1, <1>2, <1>3, PTL DEF EpollSpec
=============================================================================
