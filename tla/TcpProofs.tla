------------------------------- MODULE TcpProofs ------------------------------
(***************************************************************************)
(* SessionsServed, OneResult and ConnectedIsHeard, for any numbers of      *)
(* pollers, connections and Sockets.                                       *)
(***************************************************************************)
EXTENDS TcpServer, TcpClient, TLAPS

-----------------------------------------------------------------------------
(* TcpServer: SessionsServed.                                               *)

(* The tasks that the lists ts hold.                                        *)
Acc(c) == [kind |-> "accept", conn |-> c]
Att(c) == [kind |-> "attach", conn |-> c]
Err(c) == [kind |-> "err", conn |-> c]
Era(c, a) == [kind |-> "erase", conn |-> c, addr |-> a]

SrvTasks ==
  [kind : {"accept", "attach", "err"}, conn : Conns]
    \cup [kind : {"erase"}, conn : Conns, addr : Addresses]
Lists == [Pollers -> Seq(SrvTasks)]

InList(ts, p, t) == \E i \in 1 .. Len(ts[p]) : ts[p][i] = t
(* All but "attach" are there once.                                         *)
NoDouble(ts) ==
  \A p \in Pollers : \A i, j \in 1 .. Len(ts[p]) :
    ts[p][i] = ts[p][j] /\ ts[p][i].kind # "attach" => i = j

(* The sessions.                                                            *)
Maps == UNION {[D -> Conns] : D \in SUBSET Addresses}
Has(mp, p, a, c) == a \in DOMAIN mp[p] /\ mp[p][a] = c
Served(mp, c) == \E p \in Pollers : \E a \in Addresses : Has(mp, p, a, c)

-----------------------------------------------------------------------------
(* One connection c, in phase x, of poller h and given to the server s,     *)
(* told n times; f: its Socket has _err_emit.  s alone knows it, by one     *)
(* address; what the tasks ts that name it will find; it is told before it  *)
(* leaves the map.                                                          *)
InMap(c, mp, x, s, gn) ==
  \A p \in Pollers : \A a \in Addresses : Has(mp, p, a, c) =>
    /\ s = p /\ p \notin gn /\ x \in {"accepted", "attached", "failed"}
    /\ \A b \in Addresses : Has(mp, p, b, c) => b = a

InTasks(c, ts, mp, x, h, s, f, n, gn) ==
  \A p \in Pollers :
    /\ InList(ts, p, Acc(c)) =>
         /\ h = p /\ s \notin gn /\ x = "accepted" /\ ~f /\ n = 0
         /\ ~Served(mp, c) /\ ~InList(ts, p, Att(c))
    /\ InList(ts, p, Att(c)) => h = p /\ x \notin {"new", "queued"}
    /\ InList(ts, p, Err(c)) => h = p /\ f /\ x \in {"accepted", "attached", "closed"}
    /\ \A a \in Addresses : InList(ts, p, Era(c, a)) =>
         s = p /\ x \in {"failed", "closed"} /\ (p \in gn \/ Has(mp, p, a, c))

ToldWell(c, ts, mp, x, h, s, f, n, gn) ==
  /\ x \in {"new", "queued"} => n = 0 /\ ~f
  /\ s \notin gn => n <= 1 /\ (n > 0 => x \in {"failed", "closed"})
  /\ x = "failed" => f /\ n > 0
  /\ x \in {"accepted", "attached"} =>
       \/ InList(ts, h, Acc(c))
       \/ (s \notin gn => Served(mp, c)) /\ (Served(mp, c) \/ n > 0)

Fit(c, ts, mp, x, h, s, f, n, gn) ==
  /\ InMap(c, mp, x, s, gn)
  /\ InTasks(c, ts, mp, x, h, s, f, n, gn)
  /\ ToldWell(c, ts, mp, x, h, s, f, n, gn)

(* The kernel's queue has each connection once.                             *)
BacklogInv(bl, ph) ==
  /\ bl \in Seq(Conns)
  /\ \A i \in 1 .. Len(bl) : ph[bl[i]] = "queued"
  /\ \A i, j \in 1 .. Len(bl) : bl[i] = bl[j] => i = j

(* While the main server exists, all do, and getServer finds them.          *)
AllServers == Main \notin gone => gone = {} /\ \A c \in Conns : serverOf[c] = home[c]

SrvTyped ==
  /\ phase \in [Conns -> Phases] /\ home \in [Conns -> Pollers] /\ failing \subseteq Conns
  /\ serverOf \in [Conns -> Pollers]
  /\ told \in [Conns -> Nat] /\ gone \subseteq Pollers
  /\ map \in [Pollers -> Maps] /\ srvTasks \in Lists
  /\ data \in [Conns -> {"waiting", "served", "dropped"}]

SrvInv ==
  /\ SrvTyped /\ NoDouble(srvTasks) /\ BacklogInv(backlog, phase) /\ AllServers
  /\ taken \in [Pollers -> Conns \cup {NoConn}]
  /\ \A p \in Pollers : taken[p] # NoConn => phase[taken[p]] \notin {"new", "queued"}
  /\ \A c \in Conns : Fit(c, srvTasks, map, phase[c], home[c], serverOf[c], c \in failing, told[c], gone)

-----------------------------------------------------------------------------
(* Tasks and lists of them.                                                 *)
LEMMA TaskIs ==
  ASSUME NEW c \in Conns
  PROVE  /\ {Acc(c), Att(c), Err(c)} \subseteq SrvTasks /\ \A a \in Addresses : Era(c, a) \in SrvTasks
         /\ Acc(c).kind = "accept" /\ Att(c).kind = "attach" /\ Err(c).kind = "err"
         /\ Acc(c).conn = c /\ Att(c).conn = c /\ Err(c).conn = c
         /\ \A a : Era(c, a).kind = "erase" /\ Era(c, a).conn = c /\ Era(c, a).addr = a
  BY DEF Acc, Att, Err, Era, SrvTasks

LEMMA TaskKinds ==
  ASSUME NEW t \in SrvTasks
  PROVE  /\ t.conn \in Conns
         /\ t.kind = "accept" => t = Acc(t.conn)
         /\ t.kind = "attach" => t = Att(t.conn)
         /\ t.kind = "err" => t = Err(t.conn)
         /\ t.kind = "erase" => t.addr \in Addresses /\ t = Era(t.conn, t.addr)
  BY DEF Acc, Att, Err, Era, SrvTasks

LEMMA AppendIs ==
  ASSUME NEW S, NEW s \in Seq(S), NEW x \in S
  PROVE  /\ Append(s, x) \in Seq(S) /\ Len(s) \in Nat /\ Len(Append(s, x)) = Len(s) + 1
         /\ Append(s, x)[Len(s) + 1] = x
         /\ \A i \in 1 .. Len(s) : Append(s, x)[i] = s[i]
  OBVIOUS

LEMMA TailIs ==
  ASSUME NEW S, NEW s \in Seq(S), s # <<>>
  PROVE  /\ Tail(s) \in Seq(S) /\ Len(s) \in Nat /\ Len(s) > 0 /\ Len(Tail(s)) = Len(s) - 1
         /\ Head(s) = s[1] /\ Head(s) \in S
         /\ \A i \in 1 .. Len(Tail(s)) : Tail(s)[i] = s[i + 1]
  OBVIOUS

(* t comes to q's list, or the first task of p's goes.                      *)
Pushed(ts, q, t) == [ts EXCEPT ![q] = Append(@, t)]
Taken(ts, p) == [ts EXCEPT ![p] = Tail(@)]

LEMMA PushIs ==
  ASSUME NEW ts \in Lists, NoDouble(ts), NEW q \in Pollers, NEW t \in SrvTasks,
         t.kind = "attach" \/ ~InList(ts, q, t)
  PROVE  /\ Pushed(ts, q, t) \in Lists /\ NoDouble(Pushed(ts, q, t))
         /\ \A p \in Pollers : \A u :
              InList(Pushed(ts, q, t), p, u) <=> InList(ts, p, u) \/ (p = q /\ u = t)
  <1> DEFINE ts2 == Pushed(ts, q, t)
  <1>1. /\ ts2 \in Lists /\ ts2[q] = Append(ts[q], t) /\ \A p \in Pollers \ {q} : ts2[p] = ts[p]
    <2>1. Append(ts[q], t) \in Seq(SrvTasks)
      BY AppendIs DEF Lists
    <2> QED
      BY <2>1 DEF Pushed, Lists
  <1>2. /\ Len(ts[q]) \in Nat /\ Len(ts2[q]) = Len(ts[q]) + 1 /\ ts2[q][Len(ts[q]) + 1] = t
        /\ \A i \in 1 .. Len(ts[q]) : ts2[q][i] = ts[q][i]
    BY <1>1, AppendIs DEF Lists
  <1> HIDE DEF ts2
  <1>3. ASSUME NEW p \in Pollers, NEW u
        PROVE  InList(ts2, p, u) <=> InList(ts, p, u) \/ (p = q /\ u = t)
    <2>1. CASE p = q
      <3>1. ASSUME InList(ts2, q, u) PROVE InList(ts, q, u) \/ u = t
        BY <1>2, <3>1 DEF InList
      <3>2. ASSUME InList(ts, q, u) PROVE InList(ts2, q, u)
        BY <1>2, <3>2 DEF InList
      <3>3. InList(ts2, q, t)
        BY <1>2 DEF InList
      <3> QED
        BY <2>1, <3>1, <3>2, <3>3
    <2>2. CASE p # q
      BY <1>1, <2>2 DEF InList
    <2> QED
      BY <2>1, <2>2
  <1>4. NoDouble(ts2)
    <2>1. ASSUME NEW p \in Pollers, NEW i \in 1 .. Len(ts2[p]), NEW j \in 1 .. Len(ts2[p]),
                 ts2[p][i] = ts2[p][j], ts2[p][i].kind # "attach"
          PROVE  i = j
      <3>1. CASE p # q
        BY <1>1, <2>1, <3>1 DEF NoDouble
      <3>2. CASE p = q
        <4>1. t.kind # "attach" => \A k \in 1 .. Len(ts[q]) : ts[q][k] # t
          BY DEF InList
        <4>2. /\ i \in 1 .. Len(ts[q]) \/ (i = Len(ts[q]) + 1 /\ ts2[q][i] = t)
              /\ j \in 1 .. Len(ts[q]) \/ (j = Len(ts[q]) + 1 /\ ts2[q][j] = t)
          BY <1>2, <3>2
        <4> QED
          BY <1>2, <2>1, <3>2, <4>1, <4>2 DEF NoDouble
      <3> QED
        BY <3>1, <3>2
    <2> QED
      BY <2>1 DEF NoDouble
  <1> QED
    BY <1>1, <1>3, <1>4 DEF ts2

LEMMA TakeIs ==
  ASSUME NEW ts \in Lists, NoDouble(ts), NEW p \in Pollers, ts[p] # <<>>
  PROVE  /\ Taken(ts, p) \in Lists /\ NoDouble(Taken(ts, p))
         /\ Head(ts[p]) \in SrvTasks /\ InList(ts, p, Head(ts[p]))
         /\ \A q \in Pollers : \A u : InList(Taken(ts, p), q, u) => InList(ts, q, u)
         /\ \A q \in Pollers : \A u :
              InList(ts, q, u) => InList(Taken(ts, p), q, u) \/ (q = p /\ u = Head(ts[p]))
         /\ Head(ts[p]).kind # "attach" => ~InList(Taken(ts, p), p, Head(ts[p]))
  <1> DEFINE ts2 == Taken(ts, p)
             t == Head(ts[p])
             n == Len(ts2[p])
  <1>1. /\ Tail(ts[p]) \in Seq(SrvTasks) /\ t \in SrvTasks /\ t = ts[p][1]
        /\ Len(ts[p]) \in Nat /\ Len(ts[p]) > 0 /\ Len(Tail(ts[p])) = Len(ts[p]) - 1
        /\ \A i \in 1 .. Len(Tail(ts[p])) : Tail(ts[p])[i] = ts[p][i + 1]
    <2>1. ts[p] \in Seq(SrvTasks)
      BY DEF Lists
    <2> QED
      BY <2>1, TailIs
  <1>2. ts2 \in Lists /\ ts2[p] = Tail(ts[p]) /\ \A q \in Pollers \ {p} : ts2[q] = ts[q]
    BY <1>1 DEF Taken, Lists
  <1> HIDE DEF ts2, t
  <1>3. /\ n \in Nat /\ Len(ts[p]) = n + 1 /\ t = ts[p][1]
        /\ \A i \in 1 .. n : ts2[p][i] = ts[p][i + 1]
    BY <1>1, <1>2
  <1> HIDE DEF n
  <1>4. ASSUME NEW q \in Pollers, NEW u, InList(ts2, q, u) PROVE InList(ts, q, u)
    <2>1. CASE q = p
      <3>1. PICK i \in 1 .. n : ts2[p][i] = u
        BY <1>4, <2>1 DEF InList, n
      <3>2. i + 1 \in 1 .. Len(ts[p]) /\ ts[p][i + 1] = u
        BY <1>3, <3>1
      <3> QED
        BY <2>1, <3>2 DEF InList
    <2>2. CASE q # p
      BY <1>2, <1>4, <2>2 DEF InList
    <2> QED
      BY <2>1, <2>2
  <1>5. ASSUME NEW q \in Pollers, NEW u, InList(ts, q, u) PROVE InList(ts2, q, u) \/ (q = p /\ u = t)
    <2>1. CASE q = p
      <3>1. PICK i \in 1 .. Len(ts[p]) : ts[p][i] = u
        BY <1>5, <2>1 DEF InList
      <3>2. CASE i = 1
        BY <1>3, <2>1, <3>1, <3>2
      <3>3. CASE i # 1
        <4>1. i - 1 \in 1 .. n /\ ts2[p][i - 1] = u
          BY <1>3, <3>1, <3>3
        <4> QED
          BY <2>1, <4>1 DEF InList, n
      <3> QED
        BY <3>2, <3>3
    <2>2. CASE q # p
      BY <1>2, <1>5, <2>2 DEF InList
    <2> QED
      BY <2>1, <2>2
  <1>6. ASSUME t.kind # "attach" PROVE ~InList(ts2, p, t)
    <2> SUFFICES ASSUME NEW i \in 1 .. n, ts2[p][i] = t PROVE FALSE
      BY DEF InList, n
    <2>1. i + 1 \in 1 .. Len(ts[p]) /\ 1 \in 1 .. Len(ts[p]) /\ ts[p][i + 1] = ts[p][1] /\ i + 1 # 1
      BY <1>3
    <2> QED
      BY <1>3, <1>6, <2>1 DEF NoDouble
  <1>7. NoDouble(ts2)
    <2>1. ASSUME NEW q \in Pollers, NEW i \in 1 .. Len(ts2[q]), NEW j \in 1 .. Len(ts2[q]),
                 ts2[q][i] = ts2[q][j], ts2[q][i].kind # "attach"
          PROVE  i = j
      <3>1. CASE q # p
        BY <1>2, <2>1, <3>1 DEF NoDouble
      <3>2. CASE q = p
        <4>1. i \in 1 .. n /\ j \in 1 .. n
          BY <2>1, <3>2 DEF n
        <4>2. /\ i + 1 \in 1 .. Len(ts[p]) /\ j + 1 \in 1 .. Len(ts[p]) /\ i \in Nat /\ j \in Nat
              /\ ts[p][i + 1] = ts[p][j + 1] /\ ts[p][i + 1].kind # "attach"
          BY <1>3, <2>1, <3>2, <4>1
        <4>3. i + 1 = j + 1
          BY <4>2 DEF NoDouble
        <4> QED
          BY <4>2, <4>3
      <3> QED
        BY <3>1, <3>2
    <2> QED
      BY <2>1 DEF NoDouble
  <1>8. InList(ts, p, t)
    BY <1>3 DEF InList
  <1> QED
    BY <1>1, <1>2, <1>4, <1>5, <1>6, <1>7, <1>8 DEF ts2, t

-----------------------------------------------------------------------------
(* The maps of the sessions.                                                *)
LEMMA MapsAre ==
  /\ \A m \in Maps : DOMAIN m \subseteq Addresses /\ \A a \in DOMAIN m : m[a] \in Conns
  /\ \A D \in SUBSET Addresses : \A f \in [D -> Conns] : f \in Maps
  BY DEF Maps

LEMMA SessionsAre ==
  ASSUME map \in [Pollers -> Maps], NEW c \in Conns, InMap(c, map, phase[c], serverOf[c], gone)
  PROVE  /\ \A p \in Pollers : c \in Sessions(p) <=> \E a \in Addresses : Has(map, p, a, c)
         /\ serverOf[c] \in Pollers => (HasSession(c) <=> Served(map, c))
  <1>1. ASSUME NEW p \in Pollers
        PROVE  c \in Sessions(p) <=> \E a \in Addresses : Has(map, p, a, c)
    <2>1. map[p] \in Maps
      OBVIOUS
    <2>2. DOMAIN map[p] \subseteq Addresses
      BY <2>1, MapsAre
    <2> QED
      BY <2>2 DEF Sessions, Has
  <1>2. ASSUME NEW p \in Pollers, NEW a \in Addresses, Has(map, p, a, c) PROVE p = serverOf[c]
    BY <1>2 DEF InMap
  <1> QED
    BY <1>1, <1>2 DEF HasSession, Served

LEMMA NewSessionIs ==
  ASSUME map \in [Pollers -> Maps], NEW p \in Pollers, NEW c \in Conns, NewSession(p, c)
  PROVE  /\ map' \in [Pollers -> Maps]
         /\ \E a \in Addresses : \A q \in Pollers : \A b \in Addresses : \A d :
              Has(map', q, b, d) <=> Has(map, q, b, d) \/ (q = p /\ b = a /\ d = c)
  <1>1. PICK a \in FreeAddresses :
          map' = [map EXCEPT ![p] = [b \in DOMAIN @ \cup {a} |-> IF b = a THEN c ELSE @[b]]]
    BY DEF NewSession
  <1>2. a \in Addresses /\ a \notin DOMAIN map[p]
    BY DEF FreeAddresses
  <1> DEFINE D == DOMAIN map[p] \cup {a}
             m == [b \in D |-> IF b = a THEN c ELSE map[p][b]]
  <1>3. m \in Maps
    <2>1. map[p] \in Maps
      OBVIOUS
    <2>2. DOMAIN map[p] \subseteq Addresses /\ \A b \in DOMAIN map[p] : map[p][b] \in Conns
      BY <2>1, MapsAre
    <2>3. D \in SUBSET Addresses /\ m \in [D -> Conns]
      BY <1>2, <2>2
    <2> QED
      BY <2>3, MapsAre
  <1>4. map' \in [Pollers -> Maps] /\ map'[p] = m /\ \A q \in Pollers \ {p} : map'[q] = map[q]
    BY <1>1, <1>3
  <1>5. DOMAIN m = DOMAIN map[p] \cup {a} /\ m[a] = c /\ \A b \in DOMAIN map[p] : m[b] = map[p][b]
    BY <1>2
  <1> HIDE DEF m
  <1>6. \A q \in Pollers : \A b \in Addresses : \A d :
          Has(map', q, b, d) <=> Has(map, q, b, d) \/ (q = p /\ b = a /\ d = c)
    BY <1>2, <1>4, <1>5 DEF Has
  <1> QED
    BY <1>2, <1>4, <1>6

LEMMA WithoutIs ==
  ASSUME map \in [Pollers -> Maps], NEW p \in Pollers, NEW a
  PROVE  /\ Without(p, a) \in [Pollers -> Maps]
         /\ \A q \in Pollers : \A b, d :
              Has(Without(p, a), q, b, d) <=> Has(map, q, b, d) /\ ~(q = p /\ b = a)
  <1> DEFINE D == DOMAIN map[p] \ {a}
             m == [b \in D |-> map[p][b]]
  <1>1. m \in Maps
    <2>1. map[p] \in Maps
      OBVIOUS
    <2>2. DOMAIN map[p] \subseteq Addresses /\ \A b \in DOMAIN map[p] : map[p][b] \in Conns
      BY <2>1, MapsAre
    <2>3. D \in SUBSET Addresses /\ m \in [D -> Conns]
      BY <2>2
    <2> QED
      BY <2>3, MapsAre
  <1>2. /\ Without(p, a) \in [Pollers -> Maps] /\ Without(p, a)[p] = m
        /\ \A q \in Pollers \ {p} : Without(p, a)[q] = map[q]
    BY <1>1 DEF Without
  <1>3. DOMAIN m = DOMAIN map[p] \ {a} /\ \A b \in DOMAIN map[p] \ {a} : m[b] = map[p][b]
    OBVIOUS
  <1> HIDE DEF m
  <1> QED
    BY <1>2, <1>3 DEF Has

-----------------------------------------------------------------------------
(* A step is about one connection: nothing changes for the others.          *)
Same(d, ts, ts2, mp, mp2) ==
  \A p \in Pollers :
    /\ InList(ts2, p, Acc(d)) <=> InList(ts, p, Acc(d))
    /\ InList(ts2, p, Att(d)) <=> InList(ts, p, Att(d))
    /\ InList(ts2, p, Err(d)) <=> InList(ts, p, Err(d))
    /\ \A a \in Addresses : /\ InList(ts2, p, Era(d, a)) <=> InList(ts, p, Era(d, a))
                            /\ Has(mp2, p, a, d) <=> Has(mp, p, a, d)

LEMMA SameFits ==
  ASSUME NEW d \in Conns, NEW ts, NEW ts2, NEW mp, NEW mp2, Same(d, ts, ts2, mp, mp2),
         NEW x, NEW h \in Pollers, NEW s \in Pollers, NEW f, NEW n, NEW gn, Fit(d, ts, mp, x, h, s, f, n, gn)
  PROVE  Fit(d, ts2, mp2, x, h, s, f, n, gn)
  <1>1. Served(mp2, d) <=> Served(mp, d)
    BY DEF Same, Served
  <1>2. InMap(d, mp2, x, s, gn)
    BY DEF Same, Fit, InMap
  <1>3. InTasks(d, ts2, mp2, x, h, s, f, n, gn)
    BY <1>1 DEF Same, Fit, InTasks
  <1>4. ToldWell(d, ts2, mp2, x, h, s, f, n, gn)
    BY <1>1 DEF Same, Fit, ToldWell
  <1> QED
    BY <1>2, <1>3, <1>4 DEF Fit

LEMMA OtherTasks ==
  ASSUME NEW c \in Conns, NEW d \in Conns \ {c}, NEW t \in SrvTasks, t.conn = c
  PROVE  t # Acc(d) /\ t # Att(d) /\ t # Err(d) /\ \A a \in Addresses : t # Era(d, a)
  BY TaskIs

LEMMA PushSame ==
  ASSUME NEW ts \in Lists, NoDouble(ts), NEW q \in Pollers, NEW t \in SrvTasks,
         t.kind = "attach" \/ ~InList(ts, q, t), NEW d \in Conns, d # t.conn, NEW mp
  PROVE  Same(d, ts, Pushed(ts, q, t), mp, mp)
  <1>1. \A p \in Pollers : \A u :
          InList(Pushed(ts, q, t), p, u) <=> InList(ts, p, u) \/ (p = q /\ u = t)
    BY PushIs
  <1>2. t # Acc(d) /\ t # Att(d) /\ t # Err(d) /\ \A a \in Addresses : t # Era(d, a)
    BY OtherTasks, TaskKinds
  <1> QED
    BY <1>1, <1>2 DEF Same

LEMMA TakeSame ==
  ASSUME NEW ts \in Lists, NoDouble(ts), NEW p \in Pollers, ts[p] # <<>>,
         NEW d \in Conns, d # Head(ts[p]).conn, NEW mp
  PROVE  Same(d, ts, Taken(ts, p), mp, mp)
  <1>1. /\ \A q \in Pollers : \A u : InList(Taken(ts, p), q, u) => InList(ts, q, u)
        /\ \A q \in Pollers : \A u :
             InList(ts, q, u) => InList(Taken(ts, p), q, u) \/ (q = p /\ u = Head(ts[p]))
        /\ Head(ts[p]) \in SrvTasks
    BY TakeIs
  <1>2. /\ Head(ts[p]) # Acc(d) /\ Head(ts[p]) # Att(d) /\ Head(ts[p]) # Err(d)
        /\ \A a \in Addresses : Head(ts[p]) # Era(d, a)
    BY <1>1, OtherTasks, TaskKinds
  <1> QED
    BY <1>1, <1>2 DEF Same

LEMMA SameTwice ==
  ASSUME NEW d, NEW ts, NEW ts2, NEW ts3, NEW mp, NEW mp2, NEW mp3,
         Same(d, ts, ts2, mp, mp2), Same(d, ts2, ts3, mp2, mp3)
  PROVE  Same(d, ts, ts3, mp, mp3)
  BY DEF Same

LEMMA StepKeeps ==
  ASSUME SrvInv, NEW c \in Conns, gone' = gone, SrvTyped', AllServers', NoDouble(srvTasks'),
         BacklogInv(backlog', phase'), taken' \in [Pollers -> Conns \cup {NoConn}],
         \A p \in Pollers : taken'[p] # NoConn => phase'[taken'[p]] \notin {"new", "queued"},
         \A d \in Conns \ {c} :
           /\ Same(d, srvTasks, srvTasks', map, map') /\ phase'[d] = phase[d] /\ home'[d] = home[d] /\ serverOf'[d] = serverOf[d]
           /\ told'[d] = told[d] /\ (d \in failing' <=> d \in failing),
         Fit(c, srvTasks', map', phase'[c], home'[c], serverOf'[c], c \in failing', told'[c], gone)
  PROVE  SrvInv'
  <1>1. ASSUME NEW d \in Conns \ {c}
        PROVE  Fit(d, srvTasks', map', phase'[d], home'[d], serverOf'[d], d \in failing', told'[d], gone)
    <2>1. Fit(d, srvTasks, map, phase[d], home[d], serverOf[d], d \in failing, told[d], gone) /\ home[d] \in Pollers /\ serverOf[d] \in Pollers
      BY DEF SrvInv, SrvTyped
    <2>2. Fit(d, srvTasks', map', phase[d], home[d], serverOf[d], d \in failing, told[d], gone)
      BY <2>1, SameFits
    <2>3. (d \in failing') = (d \in failing)
      OBVIOUS
    <2> QED
      BY <2>2, <2>3
  <1> QED
    BY <1>1 DEF SrvInv

-----------------------------------------------------------------------------
(* The steps of an accepted connection c: its phase becomes x.              *)
StepOf(c, x) ==
  /\ UNCHANGED <<backlog, gone, home, serverOf>> /\ phase[c] \notin {"new", "queued"}
  /\ x \in {"accepted", "attached", "failed", "closed"} /\ phase' = [phase EXCEPT ![c] = x]
  /\ taken' \in [Pollers -> Conns \cup {NoConn}]
  /\ \A p \in Pollers : taken'[p] = taken[p] \/ taken'[p] = NoConn
  /\ srvTasks' \in Lists /\ NoDouble(srvTasks') /\ map' \in [Pollers -> Maps]
  /\ failing' \subseteq Conns /\ told' \in [Conns -> Nat]
  /\ data' \in [Conns -> {"waiting", "served", "dropped"}]
  /\ \A d \in Conns \ {c} : /\ Same(d, srvTasks, srvTasks', map, map') /\ told'[d] = told[d]
                            /\ (d \in failing' <=> d \in failing)
  /\ Fit(c, srvTasks', map', x, home[c], serverOf[c], c \in failing', told'[c], gone)

LEMMA ConnStep ==
  ASSUME SrvInv, NEW c \in Conns, NEW x, StepOf(c, x)
  PROVE  SrvInv'
  <1>1. /\ phase' \in [Conns -> Phases] /\ phase'[c] = x
        /\ home'[c] = home[c] /\ serverOf'[c] = serverOf[c]
        /\ \A d \in Conns \ {c} : /\ phase'[d] = phase[d] /\ home'[d] = home[d]
                                  /\ serverOf'[d] = serverOf[d]
    BY DEF StepOf, SrvInv, SrvTyped, Phases
  <1>2. SrvTyped' /\ AllServers'
    BY <1>1 DEF StepOf, SrvInv, SrvTyped, AllServers
  <1>3. BacklogInv(backlog', phase')
    <2>1. \A i \in 1 .. Len(backlog) : backlog[i] \in Conns \ {c}
      BY DEF StepOf, SrvInv, BacklogInv
    <2> QED
      BY <1>1, <2>1 DEF StepOf, SrvInv, BacklogInv
  <1>4. \A p \in Pollers : taken'[p] # NoConn => phase'[taken'[p]] \notin {"new", "queued"}
    <2> SUFFICES ASSUME NEW p \in Pollers, taken'[p] # NoConn
                 PROVE  phase'[taken'[p]] \notin {"new", "queued"}
      OBVIOUS
    <2>1. taken'[p] = taken[p] /\ taken[p] \in Conns /\ phase[taken[p]] \notin {"new", "queued"}
      BY DEF StepOf, SrvInv
    <2>2. x \notin {"new", "queued"}
      BY DEF StepOf
    <2>3. CASE taken[p] = c
      BY <1>1, <2>1, <2>2, <2>3
    <2>4. CASE taken[p] # c
      <3>1. phase'[taken[p]] = phase[taken[p]]
        BY <1>1, <2>1, <2>4
      <3> QED
        BY <2>1, <3>1
    <2> QED
      BY <2>3, <2>4
  <1> QED
    <2>1. /\ gone' = gone /\ NoDouble(srvTasks') /\ taken' \in [Pollers -> Conns \cup {NoConn}]
          /\ \A d \in Conns \ {c} :
               /\ Same(d, srvTasks, srvTasks', map, map') /\ phase'[d] = phase[d]
               /\ home'[d] = home[d] /\ serverOf'[d] = serverOf[d]
               /\ told'[d] = told[d] /\ (d \in failing' <=> d \in failing)
          /\ Fit(c, srvTasks', map', phase'[c], home'[c], serverOf'[c], c \in failing', told'[c], gone)
      BY <1>1 DEF StepOf
    <2> QED
      BY <1>2, <1>3, <1>4, <2>1, StepKeeps

(* What SrvInv says of one connection.                                      *)
LEMMA FitOf ==
  ASSUME SrvInv, NEW c \in Conns
  PROVE  /\ InMap(c, map, phase[c], serverOf[c], gone)
         /\ InTasks(c, srvTasks, map, phase[c], home[c], serverOf[c], c \in failing, told[c], gone)
         /\ ToldWell(c, srvTasks, map, phase[c], home[c], serverOf[c], c \in failing, told[c], gone)
         /\ phase[c] \in Phases /\ home[c] \in Pollers /\ serverOf[c] \in Pollers /\ told[c] \in Nat
         /\ srvTasks \in Lists /\ NoDouble(srvTasks) /\ map \in [Pollers -> Maps]
  BY DEF SrvInv, SrvTyped, Fit

LEMMA QueuedIs ==
  ASSUME NEW c \in Conns, srvTasks \in Lists
  PROVE  /\ Queued("accept", c) <=> \E p \in Pollers : InList(srvTasks, p, Acc(c))
         /\ Queued("attach", c) <=> \E p \in Pollers : InList(srvTasks, p, Att(c))
  <1>1. \A p \in Pollers : \A i \in 1 .. Len(srvTasks[p]) : srvTasks[p][i] \in SrvTasks
    BY DEF Lists
  <1>2. ASSUME NEW t \in SrvTasks
        PROVE  /\ t.kind = "accept" /\ t.conn = c <=> t = Acc(c)
               /\ t.kind = "attach" /\ t.conn = c <=> t = Att(c)
    BY TaskKinds, TaskIs
  <1> QED
    BY <1>1, <1>2 DEF Queued, InList

(* Steps that leave the connections alone.                                  *)
LEMMA IdleSteps ==
  ASSUME SrvInv, UNCHANGED <<backlog, taken, srvTasks, srvConnVars, map, gone>>
  PROVE  SrvInv'
  BY DEF SrvInv, SrvTyped, srvConnVars, Fit, InMap, InTasks, ToldWell, Served, Has, InList,
         NoDouble, BacklogInv, AllServers

-----------------------------------------------------------------------------
(* The kernel's queue.                                                      *)
LEMMA ArriveStep ==
  ASSUME SrvInv, NEW c \in Conns, Arrive(c)
  PROVE  SrvInv'
  <1>1. /\ phase[c] = "new" /\ phase' = [phase EXCEPT ![c] = "queued"] /\ backlog' = Append(backlog, c)
        /\ UNCHANGED <<taken, srvTasks, home, serverOf, failing, data, told, map, gone>>
    BY DEF Arrive, serverVars
  <1>2. /\ phase' \in [Conns -> Phases] /\ phase'[c] = "queued"
        /\ \A d \in Conns \ {c} : phase'[d] = phase[d]
        /\ \A d \in Conns : home'[d] = home[d] /\ serverOf'[d] = serverOf[d]
    BY <1>1 DEF SrvInv, SrvTyped, Phases
  <1>3. /\ SrvTyped' /\ NoDouble(srvTasks') /\ taken' \in [Pollers -> Conns \cup {NoConn}]
        /\ AllServers'
    BY <1>1, <1>2 DEF SrvInv, SrvTyped, AllServers
  <1>4. BacklogInv(backlog', phase')
    <2>1. /\ backlog \in Seq(Conns) /\ \A i \in 1 .. Len(backlog) : backlog[i] \in Conns \ {c}
          /\ \A i \in 1 .. Len(backlog) : phase[backlog[i]] = "queued"
          /\ \A i, j \in 1 .. Len(backlog) : backlog[i] = backlog[j] => i = j
      BY <1>1 DEF SrvInv, BacklogInv
    <2>2. /\ backlog' \in Seq(Conns) /\ Len(backlog) \in Nat /\ Len(backlog') = Len(backlog) + 1
          /\ backlog'[Len(backlog) + 1] = c /\ \A i \in 1 .. Len(backlog) : backlog'[i] = backlog[i]
      BY <1>1, <2>1, AppendIs
    <2>3. \A i \in 1 .. Len(backlog') : i \in 1 .. Len(backlog) \/ i = Len(backlog) + 1
      BY <2>2
    <2> QED
      BY <1>2, <2>1, <2>2, <2>3, SMTT(20) DEF BacklogInv
  <1>5. \A p \in Pollers : taken'[p] # NoConn => phase'[taken'[p]] \notin {"new", "queued"}
    <2> SUFFICES ASSUME NEW p \in Pollers, taken'[p] # NoConn
                 PROVE  phase'[taken'[p]] \notin {"new", "queued"}
      OBVIOUS
    <2>1. taken'[p] = taken[p] /\ taken[p] \in Conns /\ phase[taken[p]] \notin {"new", "queued"}
      BY <1>1 DEF SrvInv
    <2> QED
      BY <1>1, <1>2, <2>1
  <1>6. \A d \in Conns : Same(d, srvTasks, srvTasks', map, map')
    BY <1>1 DEF Same
  <1>7. Fit(c, srvTasks', map', phase'[c], home'[c], serverOf'[c], c \in failing', told'[c], gone)
    BY <1>1, <1>2, FitOf DEF Fit, InMap, InTasks, ToldWell
  <1> QED
    BY <1>1, <1>2, <1>3, <1>4, <1>5, <1>6, <1>7, StepKeeps

(* accept() takes c, which is nowhere yet.                                  *)
LEMMA AcceptsIs ==
  ASSUME SrvInv, NEW p \in Pollers, NEW c \in Conns, Accepts(p, c),
         NEW x \in {"accepted", "attached", "closed"}, phase' = [phase EXCEPT ![c] = x]
  PROVE  /\ phase[c] = "queued" /\ phase' \in [Conns -> Phases] /\ phase'[c] = x
         /\ \A d \in Conns \ {c} : phase'[d] = phase[d]
         /\ BacklogInv(backlog', phase')
         /\ \A q \in Pollers : taken[q] # NoConn =>
              taken[q] # c /\ phase'[taken[q]] \notin {"new", "queued"}
         /\ ~Served(map, c) /\ c \notin failing /\ told[c] = 0
         /\ \A q \in Pollers : /\ ~InList(srvTasks, q, Acc(c)) /\ ~InList(srvTasks, q, Att(c))
                               /\ ~InList(srvTasks, q, Err(c))
                               /\ \A a \in Addresses : ~InList(srvTasks, q, Era(c, a))
  <1>1. /\ backlog # <<>> /\ c = Head(backlog) /\ backlog' = Tail(backlog)
        /\ BacklogInv(backlog, phase) /\ phase \in [Conns -> Phases]
    BY DEF Accepts, SrvInv, SrvTyped
  <1>2. /\ backlog \in Seq(Conns) /\ backlog' \in Seq(Conns) /\ c = backlog[1] /\ Len(backlog) \in Nat
        /\ Len(backlog) > 0 /\ Len(backlog') = Len(backlog) - 1
        /\ \A i \in 1 .. Len(backlog') : backlog'[i] = backlog[i + 1]
    BY <1>1, TailIs DEF BacklogInv
  <1>3. phase[c] = "queued"
    BY <1>1, <1>2 DEF BacklogInv
  <1>4. /\ phase' \in [Conns -> Phases] /\ phase'[c] = x
        /\ \A d \in Conns \ {c} : phase'[d] = phase[d]
    BY <1>1 DEF Phases
  <1>5. ASSUME NEW i \in 1 .. Len(backlog')
        PROVE  /\ i + 1 \in 1 .. Len(backlog) /\ backlog'[i] = backlog[i + 1]
               /\ backlog'[i] \in Conns \ {c} /\ phase'[backlog'[i]] = "queued"
    <2>1. i + 1 \in 1 .. Len(backlog) /\ 1 \in 1 .. Len(backlog) /\ i + 1 # 1
      BY <1>2
    <2>2. backlog'[i] \in Conns /\ backlog'[i] # c /\ phase[backlog'[i]] = "queued"
      BY <1>1, <1>2, <2>1 DEF BacklogInv
    <2> QED
      BY <1>2, <1>4, <2>1, <2>2
  <1>6. ASSUME NEW i \in 1 .. Len(backlog'), NEW j \in 1 .. Len(backlog'), backlog'[i] = backlog'[j]
        PROVE  i = j
    <2>1. i + 1 = j + 1
      BY <1>1, <1>5, <1>6 DEF BacklogInv
    <2> QED
      BY <2>1
  <1>7. BacklogInv(backlog', phase')
    BY <1>2, <1>5, <1>6 DEF BacklogInv
  <1>8. ASSUME NEW q \in Pollers, taken[q] # NoConn
        PROVE  taken[q] # c /\ phase'[taken[q]] \notin {"new", "queued"}
    <2>1. taken[q] \in Conns /\ phase[taken[q]] \notin {"new", "queued"}
      BY <1>8 DEF SrvInv
    <2> QED
      BY <1>3, <1>4, <2>1
  <1>9. ~Served(map, c) /\ c \notin failing /\ told[c] = 0
    BY <1>3, FitOf DEF InMap, ToldWell, Served
  <1>10. \A q \in Pollers : /\ ~InList(srvTasks, q, Acc(c)) /\ ~InList(srvTasks, q, Att(c))
                            /\ ~InList(srvTasks, q, Err(c))
                            /\ \A a \in Addresses : ~InList(srvTasks, q, Era(c, a))
    BY <1>3, FitOf DEF InTasks
  <1> QED
    BY <1>3, <1>4, <1>7, <1>8, <1>9, <1>10

LEMMA AcceptClosed ==
  ASSUME SrvInv, NEW p \in Pollers, NEW c \in Conns, BeforeAcceptThrows(p, c) \/ AcceptNobody(p, c)
  PROVE  SrvInv'
  <1>1. /\ Accepts(p, c) /\ phase' = [phase EXCEPT ![c] = "closed"]
        /\ UNCHANGED <<taken, srvTasks, home, serverOf, failing, data, told, map, gone>>
    BY DEF BeforeAcceptThrows, AcceptNobody, serverVars, loopVars
  <1>2. /\ phase' \in [Conns -> Phases] /\ phase'[c] = "closed"
        /\ \A d \in Conns \ {c} : phase'[d] = phase[d]
        /\ BacklogInv(backlog', phase')
        /\ \A q \in Pollers : taken'[q] # NoConn => phase'[taken'[q]] \notin {"new", "queued"}
        /\ ~Served(map, c) /\ c \notin failing /\ told[c] = 0
    BY <1>1, AcceptsIs
  <1>3. \A q \in Pollers : /\ ~InList(srvTasks, q, Acc(c)) /\ ~InList(srvTasks, q, Att(c))
                           /\ ~InList(srvTasks, q, Err(c))
                           /\ \A a \in Addresses : ~InList(srvTasks, q, Era(c, a))
    BY <1>1, AcceptsIs
  <1>4. Fit(c, srvTasks', map', phase'[c], home'[c], serverOf'[c], c \in failing', told'[c], gone)
    BY <1>1, <1>2, <1>3, FitOf DEF Fit, InMap, InTasks, ToldWell
  <1>5. /\ SrvTyped' /\ NoDouble(srvTasks') /\ taken' \in [Pollers -> Conns \cup {NoConn}]
        /\ AllServers'
    BY <1>1, <1>2 DEF SrvInv, SrvTyped, AllServers
  <1>6. \A d \in Conns : Same(d, srvTasks, srvTasks', map, map')
    BY <1>1 DEF Same
  <1> QED
    BY <1>1, <1>2, <1>4, <1>5, <1>6, StepKeeps

LEMMA AcceptHereStep ==
  ASSUME SrvInv, NEW p \in Pollers, NEW c \in Conns, AcceptHere(p, c)
  PROVE  SrvInv'
  <1>1. /\ Accepts(p, c) /\ phase' = [phase EXCEPT ![c] = "attached"]
        /\ home' = [home EXCEPT ![c] = p] /\ serverOf' = [serverOf EXCEPT ![c] = p]
        /\ p \notin gone /\ NewSession(p, c)
        /\ UNCHANGED <<taken, srvTasks, failing, data, told, gone>>
    BY DEF AcceptHere, loopVars
  <1>2. /\ phase' \in [Conns -> Phases] /\ phase'[c] = "attached"
        /\ \A d \in Conns \ {c} : phase'[d] = phase[d]
        /\ BacklogInv(backlog', phase')
        /\ \A q \in Pollers : taken'[q] # NoConn => phase'[taken'[q]] \notin {"new", "queued"}
        /\ ~Served(map, c) /\ c \notin failing /\ told[c] = 0
    BY <1>1, AcceptsIs
  <1>3. \A q \in Pollers : /\ ~InList(srvTasks, q, Acc(c)) /\ ~InList(srvTasks, q, Att(c))
                           /\ ~InList(srvTasks, q, Err(c))
                           /\ \A a \in Addresses : ~InList(srvTasks, q, Era(c, a))
    BY <1>1, AcceptsIs
  <1>4. /\ home' \in [Conns -> Pollers] /\ home'[c] = p /\ \A d \in Conns \ {c} : home'[d] = home[d]
        /\ serverOf' \in [Conns -> Pollers] /\ serverOf'[c] = p
        /\ \A d \in Conns \ {c} : serverOf'[d] = serverOf[d]
    BY <1>1 DEF SrvInv, SrvTyped
  <1>5. map' \in [Pollers -> Maps]
    BY <1>1, FitOf, NewSessionIs
  <1>6. PICK a \in Addresses : \A q \in Pollers : \A b \in Addresses : \A d :
          Has(map', q, b, d) <=> Has(map, q, b, d) \/ (q = p /\ b = a /\ d = c)
    BY <1>1, FitOf, NewSessionIs
  <1>7. Fit(c, srvTasks', map', phase'[c], home'[c], serverOf'[c], c \in failing', told'[c], gone)
    <2>1. \A q \in Pollers : \A b \in Addresses : Has(map', q, b, c) <=> q = p /\ b = a
      BY <1>2, <1>6 DEF Served
    <2>2. InMap(c, map', "attached", p, gone)
      BY <1>1, <2>1 DEF InMap
    <2>3. Served(map', c)
      BY <2>1 DEF Served
    <2>4. InTasks(c, srvTasks, map', "attached", p, p, FALSE, 0, gone)
      BY <1>3 DEF InTasks
    <2>5. ToldWell(c, srvTasks, map', "attached", p, p, FALSE, 0, gone)
      BY <2>3 DEF ToldWell
    <2>6. (c \in failing') = FALSE /\ told'[c] = 0
      BY <1>1, <1>2
    <2> QED
      BY <1>1, <1>2, <1>4, <2>2, <2>4, <2>5, <2>6 DEF Fit
  <1>8. /\ SrvTyped' /\ NoDouble(srvTasks') /\ taken' \in [Pollers -> Conns \cup {NoConn}]
        /\ AllServers'
    BY <1>1, <1>2, <1>4, <1>5 DEF SrvInv, SrvTyped, AllServers
  <1>9. \A d \in Conns \ {c} : Same(d, srvTasks, srvTasks', map, map')
    BY <1>1, <1>6 DEF Same
  <1> QED
    BY <1>1, <1>2, <1>4, <1>7, <1>8, <1>9, StepKeeps

LEMMA AcceptForStep ==
  ASSUME SrvInv, NEW p \in Pollers, NEW q \in Pollers, NEW c \in Conns, AcceptFor(p, q, c)
  PROVE  SrvInv'
  <1> PICK s \in Pollers : s = GetServer(p, q)
    BY DEF GetServer
  <1>1. /\ Accepts(p, c) /\ phase' = [phase EXCEPT ![c] = "accepted"]
        /\ home' = [home EXCEPT ![c] = q] /\ serverOf' = [serverOf EXCEPT ![c] = s] /\ taken' = [taken EXCEPT ![p] = c]
        /\ srvTasks' = Pushed(srvTasks, q, Acc(c))
        /\ UNCHANGED <<map, failing, data, told, gone>>
        /\ s \notin gone /\ (Main \notin gone => s = q)
    BY DEF AcceptFor, GetServer, serverVars, Pushed, Acc, SrvInv, AllServers
  <1>2. /\ phase' \in [Conns -> Phases] /\ phase'[c] = "accepted"
        /\ \A d \in Conns \ {c} : phase'[d] = phase[d]
        /\ BacklogInv(backlog', phase')
        /\ \A r \in Pollers : taken[r] # NoConn => phase'[taken[r]] \notin {"new", "queued"}
        /\ ~Served(map, c) /\ c \notin failing /\ told[c] = 0
    BY <1>1, AcceptsIs
  <1>3. \A r \in Pollers : /\ ~InList(srvTasks, r, Acc(c)) /\ ~InList(srvTasks, r, Att(c))
                           /\ ~InList(srvTasks, r, Err(c))
                           /\ \A a \in Addresses : ~InList(srvTasks, r, Era(c, a))
    BY <1>1, AcceptsIs
  <1>4. /\ home' \in [Conns -> Pollers] /\ home'[c] = q /\ \A d \in Conns \ {c} : home'[d] = home[d]
        /\ serverOf' \in [Conns -> Pollers] /\ serverOf'[c] = s
        /\ \A d \in Conns \ {c} : serverOf'[d] = serverOf[d]
        /\ taken' \in [Pollers -> Conns \cup {NoConn}]
        /\ \A r \in Pollers : taken'[r] # NoConn => phase'[taken'[r]] \notin {"new", "queued"}
    BY <1>1, <1>2 DEF SrvInv, SrvTyped
  <1>5. Acc(c) \in SrvTasks /\ Acc(c).conn = c /\ srvTasks \in Lists /\ NoDouble(srvTasks)
    BY TaskIs, FitOf
  <1>6. /\ srvTasks' \in Lists /\ NoDouble(srvTasks')
        /\ \A r \in Pollers : \A u : InList(srvTasks', r, u) <=> InList(srvTasks, r, u) \/ (r = q /\ u = Acc(c))
    BY <1>1, <1>3, <1>5, PushIs
  <1>7. \A d \in Conns \ {c} : Same(d, srvTasks, srvTasks', map, map')
    BY <1>1, <1>3, <1>5, PushSame
  <1>8. Fit(c, srvTasks', map', phase'[c], home'[c], serverOf'[c], c \in failing', told'[c], gone)
    <2>1. /\ Acc(c) # Att(c) /\ Acc(c) # Err(c) /\ \A a \in Addresses : Acc(c) # Era(c, a)
      BY TaskIs
    <2>2. \A r \in Pollers : /\ InList(srvTasks', r, Acc(c)) <=> r = q
                             /\ ~InList(srvTasks', r, Att(c)) /\ ~InList(srvTasks', r, Err(c))
                             /\ \A a \in Addresses : ~InList(srvTasks', r, Era(c, a))
      BY <1>3, <1>6, <2>1
    <2>3. InMap(c, map, "accepted", s, gone)
      BY <1>2 DEF InMap, Served
    <2>4. InTasks(c, srvTasks', map, "accepted", q, s, FALSE, 0, gone)
      BY <1>1, <1>2, <2>2 DEF InTasks
    <2>5. ToldWell(c, srvTasks', map, "accepted", q, s, FALSE, 0, gone)
      BY <2>2 DEF ToldWell
    <2>6. (c \in failing') = FALSE /\ told'[c] = 0
      BY <1>1, <1>2
    <2> QED
      BY <1>1, <1>2, <1>4, <2>3, <2>4, <2>5, <2>6 DEF Fit
  <1>9. SrvTyped' /\ AllServers'
    BY <1>1, <1>2, <1>4, <1>6 DEF SrvInv, SrvTyped, AllServers
  <1> QED
    BY <1>1, <1>2, <1>4, <1>6, <1>7, <1>8, <1>9, StepKeeps

-----------------------------------------------------------------------------
(* `completed` goes: the events of its connection are attached.             *)
LEMMA AttachedIs ==
  ASSUME NEW c \in Conns, NEW ts, NEW mp, NEW x, NEW h \in Pollers, NEW s \in Pollers, NEW f, NEW n, NEW gn,
         x \in {"accepted", "attached", "failed", "closed"},
         InMap(c, mp, x, s, gn), InTasks(c, ts, mp, x, h, s, f, n, gn),
         ToldWell(c, ts, mp, x, h, s, f, n, gn), \A p \in Pollers : ~InList(ts, p, Acc(c))
  PROVE  Fit(c, ts, mp, IF x = "accepted" THEN "attached" ELSE x, h, s, f, n, gn)
  <1>1. CASE x = "accepted"
    <2>1. InMap(c, mp, "attached", s, gn)
      BY <1>1 DEF InMap
    <2>2. InTasks(c, ts, mp, "attached", h, s, f, n, gn)
      BY <1>1 DEF InTasks
    <2>3. ToldWell(c, ts, mp, "attached", h, s, f, n, gn)
      BY <1>1 DEF ToldWell
    <2> QED
      BY <1>1, <2>1, <2>2, <2>3 DEF Fit
  <1>2. CASE x # "accepted"
    BY <1>2 DEF Fit
  <1> QED
    BY <1>1, <1>2

LEMMA NextAcceptStep ==
  ASSUME SrvInv, NEW p \in Pollers, NEW c \in Conns, taken[p] = c, NextAccept(p)
  PROVE  SrvInv'
  <1>1. /\ taken' = [taken EXCEPT ![p] = NoConn] /\ ReleaseCompleted(p, c)
        /\ UNCHANGED <<backlog, home, serverOf, failing, data, told, map, gone>>
        /\ taken[p] # NoConn
    BY DEF NextAccept, serverVars
  <1>2. /\ taken' \in [Pollers -> Conns \cup {NoConn}]
        /\ \A q \in Pollers : taken'[q] = taken[q] \/ taken'[q] = NoConn
    BY <1>1 DEF SrvInv
  <1>3. phase[c] \in {"accepted", "attached", "failed", "closed"}
    BY <1>1, FitOf DEF SrvInv, Phases
  <1>4. /\ srvTasks \in Lists /\ NoDouble(srvTasks) /\ map \in [Pollers -> Maps] /\ map' \in [Pollers -> Maps]
        /\ failing' \subseteq Conns /\ told' \in [Conns -> Nat] /\ phase \in [Conns -> Phases]
        /\ data' \in [Conns -> {"waiting", "served", "dropped"}] /\ home[c] \in Pollers
    BY <1>1 DEF SrvInv, SrvTyped
  <1>5. \A d \in Conns \ {c} : told'[d] = told[d] /\ (d \in failing' <=> d \in failing)
    BY <1>1
  <1>6. CASE Queued("accept", c)
    <2>1. UNCHANGED <<phase, srvTasks>>
      BY <1>1, <1>6 DEF ReleaseCompleted
    <2>2. phase' = [phase EXCEPT ![c] = phase[c]]
      BY <1>4, <2>1
    <2>3. Fit(c, srvTasks', map', phase[c], home[c], serverOf[c], c \in failing', told'[c], gone)
      BY <1>1, <2>1 DEF SrvInv
    <2>4. \A d \in Conns : Same(d, srvTasks, srvTasks', map, map')
      BY <1>1, <2>1 DEF Same
    <2>5. StepOf(c, phase[c])
      BY <1>1, <1>2, <1>3, <1>4, <1>5, <2>1, <2>2, <2>3, <2>4 DEF StepOf
    <2> QED
      BY <2>5, ConnStep
  <1>7. CASE ~Queued("accept", c) /\ p = home[c]
    <2>1. /\ phase' = [phase EXCEPT ![c] = IF @ = "accepted" THEN "attached" ELSE @]
          /\ srvTasks' = srvTasks
      BY <1>1, <1>4, <1>7 DEF ReleaseCompleted, Attach, Lists
    <2>2. \A q \in Pollers : ~InList(srvTasks, q, Acc(c))
      BY <1>4, <1>7, QueuedIs
    <2>3. PICK x \in {"accepted", "attached", "failed", "closed"} :
            x = IF phase[c] = "accepted" THEN "attached" ELSE phase[c]
      BY <1>3
    <2>4. phase' = [phase EXCEPT ![c] = x]
      BY <2>1, <2>3
    <2>5. Fit(c, srvTasks, map, x, home[c], serverOf[c], c \in failing, told[c], gone)
      BY <1>3, <2>2, <2>3, FitOf, AttachedIs
    <2>6. \A d \in Conns : Same(d, srvTasks, srvTasks', map, map')
      BY <1>1, <2>1 DEF Same
    <2>7. StepOf(c, x)
      BY <1>1, <1>2, <1>3, <1>4, <1>5, <2>1, <2>4, <2>5, <2>6 DEF StepOf
    <2> QED
      BY <2>7, ConnStep
  <1>8. CASE ~Queued("accept", c) /\ p # home[c]
    <2>1. phase' = phase /\ srvTasks' = Pushed(srvTasks, home[c], Att(c))
      BY <1>1, <1>4, <1>8 DEF ReleaseCompleted, Attach, Lists, Pushed, Att
    <2>2. \A q \in Pollers : ~InList(srvTasks, q, Acc(c))
      BY <1>4, <1>8, QueuedIs
    <2>3. phase' = [phase EXCEPT ![c] = phase[c]]
      BY <1>4, <2>1
    <2>4. Att(c) \in SrvTasks /\ Att(c).conn = c /\ Att(c).kind = "attach"
      BY TaskIs
    <2>5. /\ srvTasks' \in Lists /\ NoDouble(srvTasks')
          /\ \A r \in Pollers : \A u :
               InList(srvTasks', r, u) <=> InList(srvTasks, r, u) \/ (r = home[c] /\ u = Att(c))
      BY <1>4, <2>1, <2>4, PushIs
    <2>6. \A d \in Conns \ {c} : Same(d, srvTasks, srvTasks', map, map')
      BY <1>1, <1>4, <2>1, <2>4, PushSame
    <2>7. Fit(c, srvTasks', map', phase[c], home[c], serverOf[c], c \in failing', told'[c], gone)
      <3>1. /\ Acc(c) # Att(c) /\ Att(c) # Err(c) /\ \A a \in Addresses : Att(c) # Era(c, a)
        BY TaskIs
      <3>2. \A r \in Pollers : /\ ~InList(srvTasks', r, Acc(c))
                               /\ InList(srvTasks', r, Err(c)) <=> InList(srvTasks, r, Err(c))
                               /\ InList(srvTasks', r, Att(c)) => InList(srvTasks, r, Att(c)) \/ r = home[c]
                               /\ \A a \in Addresses :
                                    InList(srvTasks', r, Era(c, a)) <=> InList(srvTasks, r, Era(c, a))
        BY <2>2, <2>5, <3>1
      <3>3. InTasks(c, srvTasks', map, phase[c], home[c], serverOf[c], c \in failing, told[c], gone)
        BY <1>3, <3>2, FitOf DEF InTasks
      <3>4. ToldWell(c, srvTasks', map, phase[c], home[c], serverOf[c], c \in failing, told[c], gone)
        BY <1>4, <2>2, FitOf DEF ToldWell
      <3> QED
        BY <1>1, <3>3, <3>4, FitOf DEF Fit
    <2>8. StepOf(c, phase[c])
      BY <1>1, <1>2, <1>3, <1>4, <1>5, <2>1, <2>3, <2>5, <2>6, <2>7 DEF StepOf
    <2> QED
      BY <2>8, ConnStep
  <1> QED
    BY <1>6, <1>7, <1>8

(* A task of p is about the connection c.                                   *)
LEMMA StartsIs ==
  ASSUME SrvInv, NEW p \in Pollers, NEW kind, Starts(p, kind)
  PROVE  /\ srvTasks[p] # <<>> /\ at[p] = "idle" /\ Head(srvTasks[p]) \in SrvTasks
         /\ Head(srvTasks[p]).conn \in Conns /\ Head(srvTasks[p]).kind = kind
         /\ InList(srvTasks, p, Head(srvTasks[p]))
         /\ Taken(srvTasks, p) \in Lists /\ NoDouble(Taken(srvTasks, p))
         /\ \A q \in Pollers : \A u : InList(Taken(srvTasks, p), q, u) => InList(srvTasks, q, u)
         /\ \A q \in Pollers : \A u :
              InList(srvTasks, q, u) =>
                InList(Taken(srvTasks, p), q, u) \/ (q = p /\ u = Head(srvTasks[p]))
         /\ kind # "attach" => ~InList(Taken(srvTasks, p), p, Head(srvTasks[p]))
         /\ \A d \in Conns : d # Head(srvTasks[p]).conn =>
              Same(d, srvTasks, Taken(srvTasks, p), map, map)
  <1>1. srvTasks[p] # <<>> /\ at[p] = "idle" /\ Head(srvTasks[p]).kind = kind
    BY DEF Starts
  <1>2. srvTasks \in Lists /\ NoDouble(srvTasks)
    BY DEF SrvInv, SrvTyped
  <1>3. Head(srvTasks[p]) \in SrvTasks /\ InList(srvTasks, p, Head(srvTasks[p]))
    BY <1>1, <1>2, TakeIs
  <1> QED
    BY <1>1, <1>2, <1>3, TakeIs, TaskKinds, TakeSame

LEMMA RunAttachStep ==
  ASSUME SrvInv, NEW p \in Pollers, RunAttach(p)
  PROVE  SrvInv'
  <1> PICK c : c = Head(srvTasks[p]).conn
    OBVIOUS
  <1>1. /\ Starts(p, "attach") /\ Attach(p, c, Tail(srvTasks[p]))
        /\ UNCHANGED <<backlog, taken, home, serverOf, failing, data, told, map, gone>>
    BY DEF RunAttach, loopVars, serverVars
  <1>2. c \in Conns /\ Head(srvTasks[p]) = Att(c)
    BY <1>1, StartsIs, TaskKinds
  <1>3. InList(srvTasks, p, Att(c))
    BY <1>1, <1>2, StartsIs
  <1>4. /\ home[c] = p /\ phase[c] \in {"accepted", "attached", "failed", "closed"}
        /\ \A q \in Pollers : ~InList(srvTasks, q, Acc(c))
    BY <1>2, <1>3, FitOf DEF InTasks, Phases
  <1>5. /\ phase' = [phase EXCEPT ![c] = IF @ = "accepted" THEN "attached" ELSE @]
        /\ srvTasks' = Taken(srvTasks, p)
    BY <1>1, <1>4 DEF Attach, Taken
  <1>6. PICK x \in {"accepted", "attached", "failed", "closed"} :
          x = IF phase[c] = "accepted" THEN "attached" ELSE phase[c]
    BY <1>4
  <1>7. phase' = [phase EXCEPT ![c] = x]
    BY <1>5, <1>6
  <1>8. /\ srvTasks' \in Lists /\ NoDouble(srvTasks')
        /\ \A d \in Conns \ {c} : Same(d, srvTasks, srvTasks', map, map')
        /\ \A q \in Pollers : \A u : InList(srvTasks', q, u) => InList(srvTasks, q, u)
    BY <1>1, <1>5, StartsIs
  <1>9. Fit(c, srvTasks', map', x, home[c], serverOf[c], c \in failing', told'[c], gone)
    <2>1. \A q \in Pollers : ~InList(srvTasks', q, Acc(c))
      BY <1>4, <1>8
    <2>2. InTasks(c, srvTasks', map, phase[c], home[c], serverOf[c], c \in failing, told[c], gone)
      BY <1>2, <1>8, <2>1, FitOf DEF InTasks
    <2>3. ToldWell(c, srvTasks', map, phase[c], home[c], serverOf[c], c \in failing, told[c], gone)
      BY <1>2, <1>4, FitOf DEF ToldWell
    <2> QED
      BY <1>1, <1>2, <1>4, <1>6, <2>1, <2>2, <2>3, FitOf, AttachedIs
  <1>10. /\ map' \in [Pollers -> Maps] /\ failing' \subseteq Conns /\ told' \in [Conns -> Nat]
         /\ data' \in [Conns -> {"waiting", "served", "dropped"}]
         /\ taken' \in [Pollers -> Conns \cup {NoConn}]
    BY <1>1 DEF SrvInv, SrvTyped
  <1>11. StepOf(c, x)
    BY <1>1, <1>2, <1>4, <1>7, <1>8, <1>9, <1>10 DEF StepOf
  <1> QED
    BY <1>2, <1>11, ConnStep

LEMMA RunAcceptStep ==
  ASSUME SrvInv, NEW p \in Pollers, RunAccept(p)
  PROVE  SrvInv'
  <1> PICK c : c = Head(srvTasks[p]).conn
    OBVIOUS
  <1> PICK s : s = serverOf[c]
    OBVIOUS
  <1>1. /\ Starts(p, "accept") /\ NewSession(s, c)
        /\ IF \E q \in Pollers : taken[q] = c
           THEN srvTasks' = Taken(srvTasks, p) /\ phase' = phase
           ELSE Attach(p, c, Tail(srvTasks[p]))
        /\ UNCHANGED <<backlog, taken, home, serverOf, failing, data, told, gone>>
    BY DEF RunAccept, loopVars, Taken
  <1>2. c \in Conns /\ Head(srvTasks[p]) = Acc(c)
    BY <1>1, StartsIs, TaskKinds
  <1>3. InList(srvTasks, p, Acc(c))
    BY <1>1, <1>2, StartsIs
  <1>4. /\ home[c] = p /\ s \in Pollers /\ s \notin gone /\ phase[c] = "accepted" /\ c \notin failing /\ told[c] = 0
        /\ ~Served(map, c)
        /\ \A q \in Pollers : /\ InList(srvTasks, q, Acc(c)) => q = p
                              /\ ~InList(srvTasks, q, Att(c)) /\ ~InList(srvTasks, q, Err(c))
                              /\ \A a \in Addresses : ~InList(srvTasks, q, Era(c, a))
    BY <1>2, <1>3, FitOf DEF InTasks
  <1>5. PICK x \in {"accepted", "attached"} : phase' = [phase EXCEPT ![c] = x]
    <2>1. CASE \E q \in Pollers : taken[q] = c
      BY <1>1, <1>4, <2>1 DEF SrvInv, SrvTyped
    <2>2. CASE ~\E q \in Pollers : taken[q] = c
      BY <1>1, <1>4, <2>2 DEF Attach
    <2> QED
      BY <2>1, <2>2
  <1>6. srvTasks' = Taken(srvTasks, p)
    BY <1>1, <1>4 DEF Attach, Taken
  <1>7. /\ srvTasks' \in Lists /\ NoDouble(srvTasks')
        /\ \A d \in Conns \ {c} : Same(d, srvTasks, srvTasks', map, map)
        /\ \A q \in Pollers : \A u : InList(srvTasks', q, u) => InList(srvTasks, q, u)
        /\ ~InList(srvTasks', p, Acc(c))
    BY <1>1, <1>2, <1>6, StartsIs
  <1>8. map' \in [Pollers -> Maps]
    BY <1>1, <1>2, <1>4, FitOf, NewSessionIs
  <1>9. PICK a \in Addresses : \A q \in Pollers : \A b \in Addresses : \A d :
          Has(map', q, b, d) <=> Has(map, q, b, d) \/ (q = s /\ b = a /\ d = c)
    BY <1>1, <1>2, <1>4, FitOf, NewSessionIs
  <1>10. Fit(c, srvTasks', map', x, home[c], serverOf[c], c \in failing', told'[c], gone)
    <2>1. \A q \in Pollers : \A b \in Addresses : Has(map', q, b, c) <=> q = s /\ b = a
      BY <1>4, <1>9 DEF Served
    <2>2. InMap(c, map', x, s, gone)
      BY <1>4, <2>1 DEF InMap
    <2>3. Served(map', c)
      BY <1>4, <2>1 DEF Served
    <2>4. InTasks(c, srvTasks', map', x, p, s, FALSE, 0, gone)
      BY <1>4, <1>7 DEF InTasks
    <2>5. ToldWell(c, srvTasks', map', x, p, s, FALSE, 0, gone)
      BY <2>3 DEF ToldWell
    <2>6. (c \in failing') = FALSE /\ told'[c] = 0
      BY <1>1, <1>4
    <2> QED
      BY <1>4, <2>2, <2>4, <2>5, <2>6 DEF Fit
  <1>11. \A d \in Conns \ {c} : Same(d, srvTasks, srvTasks', map, map')
    <2>1. \A d \in Conns \ {c} : Same(d, srvTasks', srvTasks', map, map')
      BY <1>9 DEF Same
    <2> QED
      BY <1>7, <2>1, SameTwice
  <1>12. /\ failing' \subseteq Conns /\ told' \in [Conns -> Nat]
         /\ data' \in [Conns -> {"waiting", "served", "dropped"}]
         /\ taken' \in [Pollers -> Conns \cup {NoConn}]
    BY <1>1 DEF SrvInv, SrvTyped
  <1>13. StepOf(c, x)
    BY <1>1, <1>2, <1>4, <1>5, <1>7, <1>8, <1>10, <1>11, <1>12 DEF StepOf
  <1> QED
    BY <1>2, <1>13, ConnStep

-----------------------------------------------------------------------------
(* The session is told and removed, now or by a task; rest is what is left  *)
(* of p's tasks.                                                            *)
LEMMA OnErrStep ==
  ASSUME SrvInv, NEW p \in Pollers, NEW c \in Conns, NEW rest, NEW ts1 \in Lists, NoDouble(ts1),
         ts1 = [srvTasks EXCEPT ![p] = rest],
         \A d \in Conns \ {c} : Same(d, srvTasks, ts1, map, map),
         \A q \in Pollers : \A u : InList(ts1, q, u) => InList(srvTasks, q, u),
         \A q \in Pollers : ~InList(ts1, q, Err(c)) /\ ~InList(srvTasks, q, Acc(c)),
         home[c] = p, phase[c] \in {"accepted", "attached"}, OnErr(p, c, rest),
         failing' = failing \cup {c}, UNCHANGED <<backlog, taken, home, serverOf, data, gone>>
  PROVE  SrvInv'
  <1> PICK s : s = serverOf[c]
    OBVIOUS
  <1>1. phase' = [phase EXCEPT ![c] = "failed"]
    BY DEF OnErr
  <1>2. /\ ~\E q \in Pollers : \E a \in Addresses : InList(srvTasks, q, Era(c, a))
        /\ \A q \in Pollers : InList(ts1, q, Att(c)) => p = q
    BY FitOf DEF InTasks
  <1>3. \A q \in Pollers : /\ ~InList(ts1, q, Acc(c)) /\ ~InList(ts1, q, Err(c))
                           /\ \A a \in Addresses : ~InList(ts1, q, Era(c, a))
    BY <1>2
  <1>4. /\ s \in Pollers
        /\ s \notin gone => told[c] = 0 /\ Served(map, c)
        /\ Served(map, c) \/ told[c] > 0
        /\ told[c] \in Nat
    BY FitOf DEF ToldWell
  <1>5. /\ HasSession(c) <=> Served(map, c)
        /\ \A q \in Pollers : \A a \in Addresses : Has(map, q, a, c) =>
             q = s /\ s \notin gone /\ \A b \in Addresses : Has(map, q, b, c) => b = a
    <2>1. /\ InMap(c, map, phase[c], serverOf[c], gone) /\ map \in [Pollers -> Maps]
      BY FitOf
    <2>2. HasSession(c) <=> Served(map, c)
      BY <1>4, <2>1, SessionsAre
    <2> QED
      BY <2>1, <2>2 DEF InMap
  <1>6. /\ taken' \in [Pollers -> Conns \cup {NoConn}] /\ map \in [Pollers -> Maps]
        /\ failing' \subseteq Conns /\ told \in [Conns -> Nat]
        /\ data' \in [Conns -> {"waiting", "served", "dropped"}]
    BY DEF SrvInv, SrvTyped
  <1>7. CASE ~HasSession(c)
    <2>1. srvTasks' = ts1 /\ map' = map /\ told' = told
      BY <1>7 DEF OnErr
    <2>2. Fit(c, srvTasks', map', "failed", home[c], serverOf[c], c \in failing', told'[c], gone)
      <3>1. ~Served(map, c) /\ told[c] > 0 /\ s \in gone
        BY <1>4, <1>5, <1>7
      <3>2. InMap(c, map, "failed", s, gone)
        BY <3>1 DEF InMap, Served
      <3>3. InTasks(c, ts1, map, "failed", p, s, TRUE, told[c], gone)
        BY <1>2, <1>3 DEF InTasks
      <3>4. ToldWell(c, ts1, map, "failed", p, s, TRUE, told[c], gone)
        BY <3>1 DEF ToldWell
      <3>5. (c \in failing') = TRUE
        OBVIOUS
      <3> QED
        BY <2>1, <3>2, <3>3, <3>4, <3>5 DEF Fit
    <2>3. StepOf(c, "failed")
      BY <1>1, <1>6, <2>1, <2>2 DEF StepOf
    <2> QED
      BY <2>3, ConnStep
  <1>8. CASE HasSession(c)
    <2>1. Remove(p, c, rest) /\ told' = [told EXCEPT ![c] = @ + 1]
      BY <1>8 DEF OnErr
    <2>2. PICK a \in DOMAIN map[s] :
            /\ map[s][a] = c
            /\ IF at[s] = "manage"
               THEN srvTasks' = Pushed(ts1, s, Era(c, a)) /\ map' = map
               ELSE srvTasks' = ts1 /\ map' = Without(s, a)
      BY <2>1 DEF Remove, AndErases, Pushed, Era
    <2>3. a \in Addresses /\ Has(map, s, a, c)
      <3>1. map[s] \in Maps
        BY <1>4, <1>6
      <3> QED
        BY <2>2, <3>1, MapsAre DEF Has
    <2>4. s \notin gone /\ told[c] = 0 /\ Served(map, c)
      BY <1>4, <1>5, <1>8, <2>3
    <2>5. /\ told' \in [Conns -> Nat] /\ told'[c] = 1
          /\ \A d \in Conns \ {c} : told'[d] = told[d]
      BY <1>6, <2>1, <2>4
    <2>6. CASE at[s] = "manage"
      <3>1. map' = map /\ srvTasks' = Pushed(ts1, s, Era(c, a))
        BY <2>2, <2>6
      <3>2. /\ Era(c, a) \in SrvTasks /\ Era(c, a).conn = c
            /\ Era(c, a) # Acc(c) /\ Era(c, a) # Att(c) /\ Era(c, a) # Err(c)
            /\ \A b \in Addresses : Era(c, b) = Era(c, a) => b = a
        BY <2>3, TaskIs
      <3>3. /\ srvTasks' \in Lists /\ NoDouble(srvTasks')
            /\ \A q \in Pollers : \A u :
                 InList(srvTasks', q, u) <=> InList(ts1, q, u) \/ (q = s /\ u = Era(c, a))
        <4>1. ts1 \in Lists /\ NoDouble(ts1) /\ ~InList(ts1, s, Era(c, a)) /\ s \in Pollers
          BY <1>3, <1>4, <2>3
        <4> QED
          BY ONLY <3>1, <3>2, <4>1, PushIs
      <3>4. \A d \in Conns \ {c} : Same(d, ts1, srvTasks', map, map)
        BY <1>3, <1>4, <2>3, <3>1, <3>2, PushSame
      <3>5. \A d \in Conns \ {c} : Same(d, srvTasks, srvTasks', map, map')
        BY <3>1, <3>4, SameTwice
      <3>6. Fit(c, srvTasks', map', "failed", home[c], serverOf[c], c \in failing', told'[c], gone)
        <4>1. \A q \in Pollers :
                /\ ~InList(srvTasks', q, Acc(c)) /\ ~InList(srvTasks', q, Err(c))
                /\ InList(srvTasks', q, Att(c)) => p = q
                /\ \A b \in Addresses : InList(srvTasks', q, Era(c, b)) => q = s /\ b = a
          BY <1>2, <1>3, <3>2, <3>3
        <4>2. InMap(c, map, "failed", s, gone)
          BY <1>5 DEF InMap
        <4>3. InTasks(c, srvTasks', map, "failed", p, s, TRUE, 1, gone)
          BY <2>3, <4>1 DEF InTasks
        <4>4. ToldWell(c, srvTasks', map, "failed", p, s, TRUE, 1, gone)
          BY DEF ToldWell
        <4>5. (c \in failing') = TRUE
          OBVIOUS
        <4> QED
          BY <2>5, <3>1, <4>2, <4>3, <4>4, <4>5 DEF Fit
      <3>7. StepOf(c, "failed")
        BY <1>1, <1>6, <2>5, <3>1, <3>3, <3>5, <3>6 DEF StepOf
      <3> QED
        BY <3>7, ConnStep
    <2>7. CASE at[s] # "manage"
      <3>1. srvTasks' = ts1 /\ map' = Without(s, a)
        BY <2>2, <2>7
      <3>2. /\ map' \in [Pollers -> Maps]
            /\ \A q \in Pollers : \A b, d : Has(map', q, b, d) <=> Has(map, q, b, d) /\ ~(q = s /\ b = a)
        BY <1>4, <1>6, <3>1, WithoutIs
      <3>3. ~Served(map', c)
        BY <1>5, <2>3, <3>2 DEF Served
      <3>4. \A d \in Conns \ {c} : Same(d, srvTasks, srvTasks', map, map')
        <4>1. \A d : Has(map, s, a, d) => d = c
          BY <2>3 DEF Has
        <4>2. ASSUME NEW d \in Conns \ {c}
              PROVE  \A q \in Pollers : \A b \in Addresses : Has(map', q, b, d) <=> Has(map, q, b, d)
          BY <3>2, <4>1
        <4>3. \A d \in Conns \ {c} : Same(d, srvTasks', srvTasks', map, map')
          BY <4>2 DEF Same
        <4> QED
          BY <3>1, <4>3, SameTwice
      <3>5. Fit(c, srvTasks', map', "failed", home[c], serverOf[c], c \in failing', told'[c], gone)
        <4>1. InMap(c, map', "failed", s, gone)
          BY <3>3 DEF InMap, Served
        <4>2. InTasks(c, ts1, map', "failed", p, s, TRUE, 1, gone)
          BY <1>2, <1>3 DEF InTasks
        <4>3. ToldWell(c, ts1, map', "failed", p, s, TRUE, 1, gone)
          BY DEF ToldWell
        <4>4. (c \in failing') = TRUE
          OBVIOUS
        <4> QED
          BY <2>5, <3>1, <4>1, <4>2, <4>3, <4>4 DEF Fit
      <3>6. StepOf(c, "failed")
        BY <1>1, <1>6, <2>5, <3>1, <3>2, <3>4, <3>5 DEF StepOf
      <3> QED
        BY <3>6, ConnStep
    <2> QED
      BY <2>6, <2>7
  <1> QED
    BY <1>7, <1>8

LEMMA RunErrStep ==
  ASSUME SrvInv, NEW p \in Pollers, RunErr(p)
  PROVE  SrvInv'
  <1> PICK c : c = Head(srvTasks[p]).conn
    OBVIOUS
  <1>1. /\ Starts(p, "err")
        /\ IF phase[c] = "closed"
           THEN srvTasks' = Taken(srvTasks, p) /\ UNCHANGED <<phase, map, told>>
           ELSE OnErr(p, c, Tail(srvTasks[p]))
        /\ UNCHANGED <<backlog, taken, home, serverOf, failing, data, gone>>
    BY DEF RunErr, loopVars, Taken
  <1>2. c \in Conns /\ Head(srvTasks[p]) = Err(c)
    BY <1>1, StartsIs, TaskKinds
  <1>3. InList(srvTasks, p, Err(c))
    BY <1>1, <1>2, StartsIs
  <1>4. /\ home[c] = p /\ c \in failing /\ phase[c] \in {"accepted", "attached", "closed"}
        /\ \A q \in Pollers : /\ ~InList(srvTasks, q, Acc(c))
                              /\ InList(srvTasks, q, Err(c)) => q = p
    BY <1>2, <1>3, FitOf DEF InTasks
  <1> PICK ts1 : ts1 = Taken(srvTasks, p)
    OBVIOUS
  <1>5. /\ ts1 \in Lists /\ NoDouble(ts1)
        /\ \A d \in Conns \ {c} : Same(d, srvTasks, ts1, map, map)
        /\ \A q \in Pollers : \A u : InList(ts1, q, u) => InList(srvTasks, q, u)
        /\ ~InList(ts1, p, Err(c))
    BY <1>1, <1>2, StartsIs
  <1>6. CASE phase[c] = "closed"
    <2>1. srvTasks' = ts1 /\ UNCHANGED <<phase, map, told>>
      BY <1>1, <1>6
    <2>2. /\ InTasks(c, ts1, map, "closed", p, serverOf[c], c \in failing, told[c], gone)
          /\ ToldWell(c, ts1, map, "closed", p, serverOf[c], c \in failing, told[c], gone)
          /\ InMap(c, map, "closed", serverOf[c], gone)
      BY <1>2, <1>4, <1>5, <1>6, FitOf DEF InTasks, ToldWell
    <2>3. /\ phase' = [phase EXCEPT ![c] = "closed"] /\ told' \in [Conns -> Nat]
          /\ taken' \in [Pollers -> Conns \cup {NoConn}] /\ map' \in [Pollers -> Maps]
          /\ failing' \subseteq Conns /\ data' \in [Conns -> {"waiting", "served", "dropped"}]
      BY <1>1, <1>6, <2>1 DEF SrvInv, SrvTyped
    <2>4. StepOf(c, "closed")
      BY <1>1, <1>4, <1>5, <1>6, <2>1, <2>2, <2>3 DEF StepOf, Fit
    <2> QED
      BY <1>2, <2>4, ConnStep
  <1>7. CASE phase[c] # "closed"
    <2>1. OnErr(p, c, Tail(srvTasks[p])) /\ ts1 = [srvTasks EXCEPT ![p] = Tail(srvTasks[p])]
      BY <1>1, <1>7 DEF Taken
    <2>2. /\ \A q \in Pollers : ~InList(ts1, q, Err(c)) /\ ~InList(srvTasks, q, Acc(c))
          /\ failing' = failing \cup {c}
      BY <1>1, <1>4, <1>5
    <2> QED
      BY <1>1, <1>2, <1>4, <1>5, <1>7, <2>1, <2>2, OnErrStep
  <1> QED
    BY <1>6, <1>7

(* A connection that fails on its own poller, at once.                      *)
LEMMA FailNow ==
  ASSUME SrvInv, NEW p \in Pollers, NEW c \in Conns, NEW s \in Pollers, NEW a \in Addresses, Has(map, s, a, c), home[c] = p,
         c \notin failing, failing' = failing \cup {c}, OnErr(p, c, srvTasks[p]),
         UNCHANGED <<backlog, taken, home, serverOf, data, gone>>
  PROVE  SrvInv'
  <1>1. /\ phase[c] \in {"accepted", "attached"}
        /\ \A q \in Pollers : ~InList(srvTasks, q, Err(c)) /\ ~InList(srvTasks, q, Acc(c))
    BY FitOf DEF InMap, InTasks, ToldWell, Served
  <1>2. /\ srvTasks \in Lists /\ NoDouble(srvTasks) /\ srvTasks = [srvTasks EXCEPT ![p] = srvTasks[p]]
    BY FitOf DEF Lists
  <1>3. \A d \in Conns \ {c} : Same(d, srvTasks, srvTasks, map, map)
    BY DEF Same
  <1> QED
    BY <1>1, <1>2, <1>3, OnErrStep

(* One that fails on another thread, for its poller to know.                *)
LEMMA FailLater ==
  ASSUME SrvInv, NEW c \in Conns, Served(map, c), c \notin failing, ErrLater(c),
         failing' = failing \cup {c}, UNCHANGED <<backlog, taken, home, serverOf, data, gone>>
  PROVE  SrvInv'
  <1> PICK p, s : p = home[c] /\ s = serverOf[c]
    OBVIOUS
  <1>1. /\ phase[c] \in {"accepted", "attached"} /\ srvTasks' = Pushed(srvTasks, p, Err(c))
        /\ UNCHANGED <<phase, told, map>>
    BY FitOf DEF ErrLater, Pushed, Err, InMap, Served, ToldWell
  <1>2. /\ InMap(c, map, phase[c], s, gone)
        /\ InTasks(c, srvTasks, map, phase[c], p, s, FALSE, told[c], gone)
        /\ ToldWell(c, srvTasks, map, phase[c], p, s, FALSE, told[c], gone)
        /\ p \in Pollers /\ srvTasks \in Lists /\ NoDouble(srvTasks)
    <2>1. (c \in failing) = FALSE
      BY <1>1
    <2> QED
      BY <2>1, FitOf
  <1>3. Served(map, c)
    OBVIOUS
  <1>4. \A q \in Pollers : /\ ~InList(srvTasks, q, Acc(c)) /\ ~InList(srvTasks, q, Err(c))
                           /\ \A a \in Addresses : ~InList(srvTasks, q, Era(c, a))
                           /\ InList(srvTasks, q, Att(c)) => p = q
    BY <1>1, <1>2, <1>3 DEF InTasks
  <1>5. /\ Err(c) \in SrvTasks /\ Err(c).conn = c
        /\ Err(c) # Acc(c) /\ Err(c) # Att(c) /\ \A a \in Addresses : Err(c) # Era(c, a)
    BY TaskIs
  <1>6. /\ srvTasks' \in Lists /\ NoDouble(srvTasks')
        /\ \A q \in Pollers : \A u : InList(srvTasks', q, u) <=> InList(srvTasks, q, u) \/ (q = p /\ u = Err(c))
    <2>1. ~InList(srvTasks, p, Err(c)) /\ srvTasks' = Pushed(srvTasks, p, Err(c))
      BY <1>1, <1>2, <1>4
    <2> QED
      BY <1>2, <1>5, <2>1, PushIs
  <1>7. \A d \in Conns \ {c} : Same(d, srvTasks, srvTasks', map, map')
    <2>1. ~InList(srvTasks, p, Err(c)) /\ srvTasks' = Pushed(srvTasks, p, Err(c)) /\ map' = map
      BY <1>1, <1>2, <1>4
    <2> QED
      BY <1>2, <1>5, <2>1, PushSame
  <1>8. Fit(c, srvTasks', map', phase[c], home[c], serverOf[c], c \in failing', told'[c], gone)
    <2>1. \A q \in Pollers : /\ ~InList(srvTasks', q, Acc(c))
                             /\ InList(srvTasks', q, Err(c)) => p = q
                             /\ \A a \in Addresses : ~InList(srvTasks', q, Era(c, a))
                             /\ InList(srvTasks', q, Att(c)) => p = q
      BY <1>4, <1>5, <1>6
    <2>2. InTasks(c, srvTasks', map, phase[c], p, s, TRUE, told[c], gone)
      BY <1>1, <2>1 DEF InTasks
    <2>3. ToldWell(c, srvTasks', map, phase[c], p, s, TRUE, told[c], gone)
      BY <1>1, <1>2, <1>3, <1>4 DEF ToldWell
    <2>4. (c \in failing') = TRUE
      BY <1>1
    <2> QED
      BY <1>1, <1>2, <2>2, <2>3, <2>4 DEF Fit
  <1>9. /\ phase' = [phase EXCEPT ![c] = phase[c]] /\ told' \in [Conns -> Nat]
        /\ taken' \in [Pollers -> Conns \cup {NoConn}] /\ map' \in [Pollers -> Maps]
        /\ failing' \subseteq Conns /\ data' \in [Conns -> {"waiting", "served", "dropped"}]
    BY <1>1 DEF SrvInv, SrvTyped
  <1>10. StepOf(c, phase[c])
    BY <1>1, <1>6, <1>7, <1>8, <1>9 DEF StepOf
  <1> QED
    BY <1>10, ConnStep

LEMMA FailsStep ==
  ASSUME SrvInv, NEW c \in Conns, Fails(c)
  PROVE  SrvInv'
  <1>1. /\ HasSession(c) /\ c \notin failing /\ failing' = failing \cup {c}
        /\ OnErr(home[c], c, srvTasks[home[c]])
        /\ UNCHANGED <<backlog, taken, home, serverOf, data, gone>>
    BY DEF Fails, loopVars
  <1>2. home[c] \in Pollers /\ serverOf[c] \in Pollers
    BY FitOf
  <1>3. PICK a \in Addresses : Has(map, serverOf[c], a, c)
    BY <1>1, <1>2, FitOf, SessionsAre DEF HasSession
  <1> QED
    BY <1>1, <1>2, <1>3, FailNow

LEMMA ManageShutsStep ==
  ASSUME SrvInv, NEW p \in Pollers, NEW a \in Addresses, ManageShuts(p, a)
  PROVE  SrvInv'
  <1> PICK c : c = map[p][a]
    OBVIOUS
  <1>1. /\ a \in DOMAIN map[p] /\ c \notin failing /\ failing' = failing \cup {c}
        /\ IF home[c] = p THEN OnErr(p, c, srvTasks[p]) ELSE ErrLater(c)
        /\ UNCHANGED <<backlog, taken, home, serverOf, data, gone>>
    BY DEF ManageShuts, Visits
  <1>2. map[p] \in Maps
    BY DEF SrvInv, SrvTyped
  <1>3. c \in Conns /\ Has(map, p, a, c)
    BY <1>1, <1>2, MapsAre DEF Has
  <1> QED
    BY <1>1, <1>3, FailNow, FailLater DEF Served

LEMMA RunEraseStep ==
  ASSUME SrvInv, NEW p \in Pollers, RunErase(p)
  PROVE  SrvInv'
  <1> PICK c, a : c = Head(srvTasks[p]).conn /\ a = Head(srvTasks[p]).addr
    OBVIOUS
  <1>1. /\ Starts(p, "erase") /\ srvTasks' = Taken(srvTasks, p) /\ map' = Without(p, a)
        /\ UNCHANGED <<backlog, taken, phase, home, serverOf, failing, data, told, gone>>
    BY DEF RunErase, loopVars, srvConnVars, Taken
  <1>2. c \in Conns /\ a \in Addresses /\ Head(srvTasks[p]) = Era(c, a)
    BY <1>1, StartsIs, TaskKinds
  <1>3. InList(srvTasks, p, Era(c, a))
    BY <1>1, <1>2, StartsIs
  <1>4. /\ serverOf[c] = p /\ phase[c] \in {"failed", "closed"}
        /\ p \in gone \/ Has(map, p, a, c)
        /\ \A q \in Pollers : ~InList(srvTasks, q, Acc(c))
    BY <1>2, <1>3, FitOf DEF InTasks
  <1>5. /\ srvTasks' \in Lists /\ NoDouble(srvTasks')
        /\ \A d \in Conns \ {c} : Same(d, srvTasks, srvTasks', map, map)
        /\ \A q \in Pollers : \A u : InList(srvTasks', q, u) => InList(srvTasks, q, u)
        /\ ~InList(srvTasks', p, Era(c, a))
    BY <1>1, <1>2, StartsIs
  <1>6. /\ map' \in [Pollers -> Maps]
        /\ \A q \in Pollers : \A b, d : Has(map', q, b, d) <=> Has(map, q, b, d) /\ ~(q = p /\ b = a)
    BY <1>1, FitOf, WithoutIs, <1>2
  <1>7. ASSUME NEW d \in Conns \ {c} PROVE ~Has(map, p, a, d)
    <2>1. CASE Has(map, p, a, c)
      BY <1>7, <2>1 DEF Has
    <2>2. CASE p \in gone
      BY <1>2, <1>7, <2>2, FitOf DEF InMap
    <2> QED
      BY <1>4, <2>1, <2>2
  <1>8. \A d \in Conns \ {c} : Same(d, srvTasks, srvTasks', map, map')
    <2>1. \A d \in Conns \ {c} : Same(d, srvTasks', srvTasks', map, map')
      BY <1>6, <1>7 DEF Same
    <2> QED
      BY <1>5, <2>1, SameTwice
  <1>9. Fit(c, srvTasks', map', phase[c], home[c], serverOf[c], c \in failing', told'[c], gone)
    <2>1. /\ InMap(c, map, phase[c], p, gone)
          /\ InTasks(c, srvTasks, map, phase[c], home[c], p, c \in failing, told[c], gone)
          /\ ToldWell(c, srvTasks, map, phase[c], home[c], p, c \in failing, told[c], gone)
      BY <1>2, <1>4, FitOf
    <2>2. InMap(c, map', phase[c], p, gone)
      BY <1>6, <2>1 DEF InMap
    <2>3. InTasks(c, srvTasks', map', phase[c], home[c], p, c \in failing, told[c], gone)
      <3>1. ASSUME NEW q \in Pollers, NEW b \in Addresses, InList(srvTasks', q, Era(c, b))
            PROVE  q = p /\ (q \in gone \/ Has(map', q, b, c))
        <4>1. q = p /\ (q \in gone \/ Has(map, q, b, c))
          BY <1>5, <2>1, <3>1 DEF InTasks
        <4>2. b # a
          BY <1>5, <3>1, <4>1
        <4> QED
          BY <1>6, <4>1, <4>2
      <3> QED
        BY <1>4, <1>5, <2>1, <3>1 DEF InTasks
    <2>4. ToldWell(c, srvTasks', map', phase[c], home[c], p, c \in failing, told[c], gone)
      BY <1>4, <2>1 DEF ToldWell
    <2> QED
      BY <1>1, <1>4, <2>2, <2>3, <2>4 DEF Fit
  <1>10. /\ phase' = [phase EXCEPT ![c] = phase[c]] /\ told' \in [Conns -> Nat]
         /\ taken' \in [Pollers -> Conns \cup {NoConn}]
         /\ failing' \subseteq Conns /\ data' \in [Conns -> {"waiting", "served", "dropped"}]
    BY <1>1 DEF SrvInv, SrvTyped
  <1>11. StepOf(c, phase[c])
    BY <1>1, <1>4, <1>5, <1>6, <1>8, <1>9, <1>10 DEF StepOf
  <1> QED
    BY <1>2, <1>11, ConnStep

-----------------------------------------------------------------------------
(* The other steps of a connection.                                         *)
LEMMA ReadStep ==
  ASSUME SrvInv, NEW c \in Conns, Read(c)
  PROVE  SrvInv'
  <1>1. /\ phase[c] = "attached"
        /\ data' = [data EXCEPT ![c] = IF HasSession(c) THEN "served"
                                       ELSE IF told[c] > 0 THEN "dropped" ELSE "ignored"]
        /\ UNCHANGED <<backlog, taken, srvTasks, phase, home, serverOf, failing, told, map, gone>>
    BY DEF Read, loopVars, serverVars
  <1>2. HasSession(c) \/ told[c] > 0
    <2>1. ~InList(srvTasks, home[c], Acc(c))
      BY <1>1, FitOf DEF InTasks
    <2>2. Served(map, c) \/ told[c] > 0
      BY <1>1, <2>1, FitOf DEF ToldWell
    <2> QED
      BY <2>2, FitOf, SessionsAre
  <1>3. data' \in [Conns -> {"waiting", "served", "dropped"}]
    BY <1>1, <1>2 DEF SrvInv, SrvTyped
  <1>4. SrvTyped'
    BY <1>1, <1>3 DEF SrvInv, SrvTyped
  <1> QED
    BY <1>1, <1>4 DEF SrvInv, Fit, InMap, InTasks, ToldWell, Served, Has, InList, NoDouble, BacklogInv,
                      AllServers

LEMMA ShutdownElsewhereStep ==
  ASSUME SrvInv, NEW c \in Conns, ShutdownElsewhere(c)
  PROVE  SrvInv'
  <1>1. /\ HasSession(c) /\ c \notin failing /\ failing' = failing \cup {c} /\ ErrLater(c)
        /\ UNCHANGED <<backlog, taken, home, serverOf, data, gone>>
    BY DEF ShutdownElsewhere, loopVars
  <1>2. Served(map, c)
    BY <1>1, FitOf, SessionsAre
  <1> QED
    BY <1>1, <1>2, FailLater

LEMMA CloseSocketStep ==
  ASSUME SrvInv, NEW c \in Conns, CloseSocket(c)
  PROVE  SrvInv'
  <1>1. /\ phase[c] \in {"accepted", "attached", "failed"} /\ ~HasSession(c)
        /\ ~Queued("accept", c) /\ phase' = [phase EXCEPT ![c] = "closed"]
        /\ UNCHANGED <<backlog, taken, srvTasks, home, serverOf, failing, data, told, map, gone>>
    BY DEF CloseSocket, Open, loopVars, serverVars
  <1>2. ~Served(map, c) /\ \A q \in Pollers : ~InList(srvTasks, q, Acc(c))
    BY <1>1, FitOf, SessionsAre, QueuedIs
  <1>3. Fit(c, srvTasks, map, "closed", home[c], serverOf[c], c \in failing, told[c], gone)
    <2>1. InMap(c, map, "closed", serverOf[c], gone)
      BY <1>2 DEF InMap, Served
    <2>2. InTasks(c, srvTasks, map, "closed", home[c], serverOf[c], c \in failing, told[c], gone)
      BY <1>1, <1>2, FitOf DEF InTasks
    <2>3. ToldWell(c, srvTasks, map, "closed", home[c], serverOf[c], c \in failing, told[c], gone)
      BY FitOf DEF ToldWell
    <2> QED
      BY <2>1, <2>2, <2>3 DEF Fit
  <1>4. /\ srvTasks' \in Lists /\ NoDouble(srvTasks') /\ told' \in [Conns -> Nat]
        /\ taken' \in [Pollers -> Conns \cup {NoConn}] /\ map' \in [Pollers -> Maps]
        /\ failing' \subseteq Conns /\ data' \in [Conns -> {"waiting", "served", "dropped"}]
    BY <1>1 DEF SrvInv, SrvTyped
  <1>5. \A d \in Conns : Same(d, srvTasks, srvTasks', map, map')
    BY <1>1 DEF Same
  <1>6. StepOf(c, "closed")
    BY <1>1, <1>3, <1>4, <1>5 DEF StepOf
  <1> QED
    BY <1>6, ConnStep

-----------------------------------------------------------------------------
(* The end of p's server.                                                   *)
LEMMA NoSessions == <<>> \in Maps
  <1>1. <<>> \in Seq(Conns) /\ Len(<<>>) = 0
    OBVIOUS
  <1>2. <<>> \in [1 .. 0 -> Conns] /\ 1 .. 0 \in SUBSET Addresses
    BY <1>1
  <1> QED
    BY <1>2, MapsAre

LEMMA DiesStep ==
  ASSUME SrvInv, NEW p \in Pollers, Dies(p)
  PROVE  SrvInv'
  <1>1. /\ p \notin gone /\ (p # Main => Main \in gone)
        /\ \A q \in Pollers : \A i \in 1 .. Len(srvTasks[q]) :
             srvTasks[q][i].kind = "accept" => serverOf[srvTasks[q][i].conn] # p
        /\ gone' = gone \cup {p} /\ map' = [map EXCEPT ![p] = <<>>]
        /\ told' = [c \in Conns |-> IF c \in Sessions(p) THEN told[c] + 1 ELSE told[c]]
        /\ UNCHANGED <<backlog, taken, srvTasks, phase, home, serverOf, failing, data>>
    BY DEF Dies, loopVars
  <1>2. told' \in [Conns -> Nat] /\ gone' \subseteq Pollers
    BY <1>1 DEF SrvInv, SrvTyped
  <1>3. /\ map' \in [Pollers -> Maps]
        /\ \A q \in Pollers : \A a, c : Has(map', q, a, c) <=> q # p /\ Has(map, q, a, c)
    <2>1. map \in [Pollers -> Maps]
      BY DEF SrvInv, SrvTyped
    <2>2. map'[p] = <<>> /\ \A q \in Pollers \ {p} : map'[q] = map[q]
      BY <1>1, <2>1
    <2>3. DOMAIN map'[p] = {}
      BY <2>2
    <2> QED
      BY <1>1, <2>1, <2>2, <2>3, NoSessions DEF Has
  <1>4. SrvTyped' /\ AllServers'
    BY <1>1, <1>2, <1>3 DEF SrvInv, SrvTyped, AllServers
  <1>5. ASSUME NEW c \in Conns
        PROVE  Fit(c, srvTasks, map', phase[c], home[c], serverOf[c], c \in failing, told'[c], gone')
    <2>1. c \in Sessions(p) <=> \E a \in Addresses : Has(map, p, a, c)
      BY FitOf, SessionsAre
    <2>2. /\ c \in Sessions(p) => serverOf[c] = p /\ Served(map, c)
          /\ told[c] \in Nat /\ told'[c] = IF c \in Sessions(p) THEN told[c] + 1 ELSE told[c]
      BY <1>1, <2>1, FitOf DEF InMap, Served
    <2>3. InMap(c, map', phase[c], serverOf[c], gone')
      <3>1. InMap(c, map, phase[c], serverOf[c], gone)
        BY FitOf
      <3>2. ASSUME NEW q \in Pollers, NEW a \in Addresses, Has(map', q, a, c)
            PROVE  /\ serverOf[c] = q /\ q \notin gone' /\ phase[c] \in {"accepted", "attached", "failed"}
                   /\ \A b \in Addresses : Has(map', q, b, c) => b = a
        <4>1. q # p /\ Has(map, q, a, c)
          BY <1>3, <3>2
        <4>2. q \notin gone'
          BY <1>1, <3>1, <4>1 DEF InMap
        <4> QED
          BY <1>3, <3>1, <4>1, <4>2 DEF InMap
      <3> QED
        BY <3>2 DEF InMap
    <2>4. \A q \in Pollers : InList(srvTasks, q, Acc(c)) => serverOf[c] # p
      BY <1>1, TaskIs DEF InList
    <2>5. /\ ~Served(map, c) => ~Served(map', c)
          /\ Served(map, c) => serverOf[c] = p \/ Served(map', c)
          /\ Served(map, c) /\ serverOf[c] = p => c \in Sessions(p)
      BY <1>3, <2>1, FitOf DEF Served, InMap
    <2>6. InTasks(c, srvTasks, map', phase[c], home[c], serverOf[c], c \in failing, told'[c], gone')
      <3> SUFFICES ASSUME NEW q \in Pollers
                   PROVE  /\ InList(srvTasks, q, Acc(c)) =>
                               /\ home[c] = q /\ serverOf[c] \notin gone' /\ phase[c] = "accepted"
                               /\ c \notin failing /\ told'[c] = 0
                               /\ ~Served(map', c) /\ ~InList(srvTasks, q, Att(c))
                          /\ InList(srvTasks, q, Att(c)) => home[c] = q /\ phase[c] \notin {"new", "queued"}
                          /\ InList(srvTasks, q, Err(c)) =>
                               home[c] = q /\ c \in failing /\ phase[c] \in {"accepted", "attached", "closed"}
                          /\ \A a \in Addresses : InList(srvTasks, q, Era(c, a)) =>
                               serverOf[c] = q /\ phase[c] \in {"failed", "closed"}
                                 /\ (q \in gone' \/ Has(map', q, a, c))
        BY DEF InTasks
      <3>1. ASSUME InList(srvTasks, q, Acc(c))
            PROVE  /\ home[c] = q /\ serverOf[c] \notin gone' /\ phase[c] = "accepted"
                   /\ c \notin failing /\ told'[c] = 0
                   /\ ~Served(map', c) /\ ~InList(srvTasks, q, Att(c))
        <4>1. /\ home[c] = q /\ serverOf[c] \notin gone /\ phase[c] = "accepted" /\ c \notin failing /\ told[c] = 0
              /\ ~Served(map, c) /\ ~InList(srvTasks, q, Att(c))
          BY <3>1, FitOf DEF InTasks
        <4> QED
          BY <1>1, <2>2, <2>4, <2>5, <3>1, <4>1
      <3>2. ASSUME NEW a \in Addresses, InList(srvTasks, q, Era(c, a))
            PROVE  serverOf[c] = q /\ phase[c] \in {"failed", "closed"} /\ (q \in gone' \/ Has(map', q, a, c))
        <4>1. serverOf[c] = q /\ phase[c] \in {"failed", "closed"} /\ (q \in gone \/ Has(map, q, a, c))
          BY <3>2, FitOf DEF InTasks
        <4> QED
          BY <1>1, <1>3, <4>1
      <3>3. /\ InList(srvTasks, q, Att(c)) => home[c] = q /\ phase[c] \notin {"new", "queued"}
            /\ InList(srvTasks, q, Err(c)) =>
                 home[c] = q /\ c \in failing /\ phase[c] \in {"accepted", "attached", "closed"}
        BY FitOf DEF InTasks
      <3> QED
        BY <3>1, <3>2, <3>3
    <2>7. ToldWell(c, srvTasks, map', phase[c], home[c], serverOf[c], c \in failing, told'[c], gone')
      <3>1. ToldWell(c, srvTasks, map, phase[c], home[c], serverOf[c], c \in failing, told[c], gone)
        BY FitOf
      <3>2. phase[c] \in {"new", "queued"} => c \notin Sessions(p)
        BY <2>1, FitOf DEF InMap
      <3> QED
        BY <1>1, <2>2, <2>5, <3>1, <3>2 DEF ToldWell
    <2> QED
      BY <2>3, <2>6, <2>7 DEF Fit
  <1>6. \A c \in Conns : Fit(c, srvTasks', map', phase'[c], home'[c], serverOf'[c], c \in failing', told'[c], gone')
    BY <1>1, <1>5
  <1>7. /\ NoDouble(srvTasks') /\ BacklogInv(backlog', phase') /\ taken' \in [Pollers -> Conns \cup {NoConn}]
        /\ \A q \in Pollers : taken'[q] # NoConn => phase'[taken'[q]] \notin {"new", "queued"}
    BY <1>1 DEF SrvInv
  <1> QED
    BY <1>4, <1>6, <1>7 DEF SrvInv

-----------------------------------------------------------------------------
LEMMA SrvInit == TcpInit => SrvInv
  <1> SUFFICES ASSUME TcpInit PROVE SrvInv
    OBVIOUS
  <1>1. /\ backlog = <<>> /\ taken = [p \in Pollers |-> NoConn] /\ srvTasks = [p \in Pollers |-> <<>>]
        /\ phase = [c \in Conns |-> "new"] /\ home = [c \in Conns |-> Main]
        /\ serverOf = [c \in Conns |-> Main] /\ failing = {}
        /\ data = [c \in Conns |-> "waiting"] /\ map = [p \in Pollers |-> <<>>]
        /\ told = [c \in Conns |-> 0] /\ gone = {}
    BY DEF TcpInit
  <1>2. SrvTyped
    BY <1>1, NoSessions, TcpAssumption DEF SrvTyped, Phases, Lists
  <1>3. \A p \in Pollers : /\ \A u : ~InList(srvTasks, p, u)
                           /\ \A a, c : ~Has(map, p, a, c)
    BY <1>1 DEF InList, Has
  <1>4. NoDouble(srvTasks) /\ BacklogInv(backlog, phase) /\ AllServers
    BY <1>1 DEF NoDouble, BacklogInv, AllServers
  <1>5. \A c \in Conns : Fit(c, srvTasks, map, phase[c], home[c], serverOf[c], c \in failing, told[c], gone)
    BY <1>1, <1>3 DEF Fit, InMap, InTasks, ToldWell
  <1> QED
    BY <1>1, <1>2, <1>4, <1>5 DEF SrvInv

LEMMA SrvStep == SrvInv /\ [TcpNext]_tcpVars => SrvInv'
  <1> SUFFICES ASSUME SrvInv, [TcpNext]_tcpVars PROVE SrvInv'
    OBVIOUS
  <1>1. CASE UNCHANGED tcpVars
    BY <1>1, IdleSteps DEF tcpVars, serverVars, loopVars
  <1>2. ASSUME NEW c \in Conns,
               Arrive(c) \/ Read(c) \/ Fails(c) \/ ShutdownElsewhere(c) \/ CloseSocket(c)
        PROVE  SrvInv'
    BY <1>2, ArriveStep, ReadStep, FailsStep, ShutdownElsewhereStep, CloseSocketStep
  <1>3. ASSUME NEW c \in Conns, NEW p \in Pollers,
               BeforeAcceptThrows(p, c) \/ AcceptHere(p, c) \/ AcceptNobody(p, c)
                 \/ \E q \in Pollers : AcceptFor(p, q, c)
        PROVE  SrvInv'
    BY <1>3, AcceptClosed, AcceptHereStep, AcceptForStep
  <1>4. ASSUME NEW p \in Pollers,
               StartAccept(p) \/ Retry(p) \/ AcceptNone(p) \/ AcceptFails(p) \/ StartManage(p) \/ EndManage(p)
                 \/ ReleaseOwner \/ \E a \in Addresses : ManageKeeps(p, a)
        PROVE  SrvInv'
    <2>1. UNCHANGED <<backlog, taken, srvTasks, srvConnVars, map, gone>>
      BY <1>4 DEF StartAccept, Retry, AcceptNone, AcceptFails, StartManage, EndManage, ReleaseOwner,
                  ManageKeeps, Visits, loopVars, serverVars, srvConnVars
    <2> QED
      BY <2>1, IdleSteps
  <1>5. ASSUME NEW p \in Pollers, NextAccept(p) PROVE SrvInv'
    <2>1. taken[p] \in Conns
      BY <1>5 DEF NextAccept, SrvInv
    <2> QED
      BY <1>5, <2>1, NextAcceptStep
  <1>6. ASSUME NEW p \in Pollers,
               TaskStep(p) \/ Dies(p) \/ \E a \in Addresses : ManageShuts(p, a)
        PROVE  SrvInv'
    BY <1>6, RunAcceptStep, RunAttachStep, RunErrStep, RunEraseStep, DiesStep, ManageShutsStep
       DEF TaskStep
  <1>7. CASE ReleaseOwner
    BY <1>4, <1>7, TcpAssumption
  <1> QED
    BY <1>1, <1>2, <1>3, <1>4, <1>5, <1>6, <1>7 DEF TcpNext, AcceptStep, ManageStep

LEMMA SrvServed == SrvInv => SessionsServed
  <1> SUFFICES ASSUME SrvInv, NEW c \in Conns
               PROVE  /\ data[c] # "ignored"
                      /\ phase[c] = "attached" /\ serverOf[c] \notin gone => HasSession(c)
                      /\ \A p \in Pollers : c \in Sessions(p) => p = serverOf[c]
                      /\ Main \notin gone => serverOf[c] = home[c]
                      /\ phase[c] \in {"attached", "failed"} /\ ~HasSession(c) => told[c] > 0
                      /\ told[c] > 1 => serverOf[c] \in gone
    BY DEF SessionsServed
  <1>1. data[c] # "ignored"
    BY DEF SrvInv, SrvTyped
  <1>2. /\ \A p \in Pollers : c \in Sessions(p) => p = serverOf[c]
        /\ HasSession(c) <=> Served(map, c)
    BY FitOf, SessionsAre DEF InMap
  <1>3. phase[c] = "attached" => ~InList(srvTasks, home[c], Acc(c))
    BY FitOf DEF InTasks
  <1>4. Main \notin gone => serverOf[c] = home[c]
    BY DEF SrvInv, AllServers
  <1> QED
    BY <1>1, <1>2, <1>3, <1>4, FitOf DEF ToldWell

(* Each connection that works has its session in the map of the one server  *)
(* that got it, which is the one of its own poller while the main server    *)
(* exists; no byte is read before the callbacks are set, and a session that *)
(* leaves the map was told, once unless its server ended (Socket::onAccept, *)
(* TcpServer::getServer, onAcceptConnection, _session_map).                 *)
THEOREM SessionsAreServed == TcpSpec => []SessionsServed
  <1>1. TcpInit => SrvInv
    BY SrvInit
  <1>2. SrvInv /\ [TcpNext]_tcpVars => SrvInv'
    BY SrvStep
  <1>3. SrvInv => SessionsServed
    BY SrvServed
  <1> QED
    BY <1>1, <1>2, <1>3, PTL DEF TcpSpec

-----------------------------------------------------------------------------
(* TcpClient: OneResult and ConnectedIsHeard.                               *)

Said == {"ok", "fail", "err"}
Sockets ==
  [stage : Stages, fd : {"none", "carried", "held", "closed"}, watch : {"none", "write", "all"},
   timer : BOOLEAN, asyncCb : BOOLEAN, errEmit : BOOLEAN, recv : BOOLEAN,
   inbox : 0 .. MaxInbox, edge : BOOLEAN, told : Seq(Said)]

-----------------------------------------------------------------------------
(* What was told to the client.                                             *)
Says(s, x) == \E i \in 1 .. Len(s) : s[i] = x
NoResult(s) == ~Says(s, "ok") /\ ~Says(s, "fail")
Once(s) == \A i, j \in 1 .. Len(s) : {s[i], s[j]} \subseteq {"ok", "fail"} => i = j
ErrLast(s) == \A i, j \in 1 .. Len(s) : i < j /\ s[i] = "err" => s[j] = "err"

LEMMA Telling ==
  ASSUME NEW s \in Seq(Said), NEW x \in Said
  PROVE  /\ Append(s, x) \in Seq(Said)
         /\ \A y : Says(Append(s, x), y) <=> Says(s, y) \/ y = x
         /\ Once(s) /\ (x = "err" \/ NoResult(s)) => Once(Append(s, x))
         /\ ErrLast(s) /\ (x = "err" \/ ~Says(s, "err")) => ErrLast(Append(s, x))
         /\ \A y : Append(s, x) = <<y>> => s = <<>> /\ x = y
         /\ Append(s, x) # <<>>
  <1>1. /\ Append(s, x) \in Seq(Said) /\ Len(s) \in Nat /\ Len(Append(s, x)) = Len(s) + 1
        /\ Append(s, x)[Len(s) + 1] = x /\ \A i \in 1 .. Len(s) : Append(s, x)[i] = s[i]
    OBVIOUS
  <1>2. ASSUME NEW y PROVE Says(Append(s, x), y) <=> Says(s, y) \/ y = x
    BY <1>1 DEF Says
  <1>3. ASSUME Once(s), x = "err" \/ NoResult(s) PROVE Once(Append(s, x))
    BY <1>1, <1>3 DEF Once, NoResult, Says
  <1>4. ASSUME ErrLast(s), x = "err" \/ ~Says(s, "err") PROVE ErrLast(Append(s, x))
    BY <1>1, <1>4 DEF ErrLast, Says
  <1>5. ASSUME NEW y, Append(s, x) = <<y>> PROVE s = <<>> /\ x = y
    BY <1>1, <1>5
  <1>6. Append(s, x) # <<>>
    BY <1>1
  <1> QED
    BY <1>1, <1>2, <1>3, <1>4, <1>5, <1>6

-----------------------------------------------------------------------------
(* One Socket.  While it can still have a result it has had none, nor an    *)
(* error, unless safeShutdown was early (e); what its poller watches is the *)
(* descriptor it holds; a descriptor on its way belongs to a resolver's     *)
(* task that has not run.                                                   *)
Quiet(r) == ~r.timer /\ ~r.asyncCb /\ r.watch = "none"
Pending(r) == r.timer \/ r.asyncCb \/ r.watch = "write" \/ r.stage = "asked"

Good(r, e) ==
  /\ r \in Sockets
  /\ r.stage = "new" => r = Unused
  /\ r.stage \in {"new", "asked"} => r.fd = "none" /\ Quiet(r)
  /\ r.fd = "carried" => r.stage = "resolved"
  /\ r.watch # "none" => r.fd = "held" /\ r.stage = "started"
  /\ Pending(r) => NoResult(r.told)
  /\ Once(r.told)
  /\ ~e => ErrLast(r.told) /\ (Pending(r) => ~Says(r.told, "err"))

(* One that is not the client's any more.                                   *)
Left(r) == Quiet(r) /\ r.fd # "held"

(* The client's, while the client exists, with the timer of the manager m.  *)
Heard(r, m) ==
  /\ r.told \in {<<>>, <<"ok">>} => m
  /\ r.errEmit => Says(r.told, "err")
  /\ r.told = <<"ok">> => r.watch = "all" /\ (r.inbox > 0 /\ r.recv => r.edge)

CliInv ==
  /\ current \in Attempts \cup {NoAttempt} /\ manager \in BOOLEAN /\ client \in BOOLEAN
  /\ early \subseteq Attempts /\ so \in [Attempts -> Sockets]
  /\ \A a \in Attempts : Good(so[a], a \in early) /\ (a # current => Left(so[a]))
  /\ Live => Sock.stage # "new" /\ (client => Heard(Sock, manager))
  /\ client /\ ~Live => \A a \in Attempts : so[a].stage = "new"

LEMMA UnusedIsGood == Unused \in Sockets /\ \A e \in BOOLEAN : Good(Unused, e) /\ Left(Unused)
  <1>1. /\ Unused.stage = "new" /\ Unused.fd = "none" /\ Unused.watch = "none" /\ Unused.timer = FALSE
        /\ Unused.asyncCb = FALSE /\ Unused.errEmit = FALSE /\ Unused.told = <<>>
    BY DEF Unused
  <1>2. Unused \in Sockets
    BY CliAssumption DEF Unused, Sockets, Stages
  <1>3. NoResult(<<>>) /\ Once(<<>>) /\ ErrLast(<<>>) /\ ~Says(<<>>, "err")
    BY DEF NoResult, Once, ErrLast, Says
  <1> QED
    BY <1>1, <1>2, <1>3 DEF Good, Left, Quiet, Pending

(* What the functions of Socket make of one.                                *)
LEMMA CloseIs ==
  ASSUME NEW r \in Sockets, NEW close_fd \in BOOLEAN
  PROVE  LET x == CloseSock(r, close_fd)
         IN  /\ x \in Sockets /\ Quiet(x) /\ x.edge = FALSE /\ x.recv = TRUE
             /\ x.stage = r.stage /\ x.told = r.told /\ x.inbox = r.inbox
             /\ x.errEmit = (r.errEmit /\ ~close_fd)
             /\ x.fd = IF close_fd /\ r.fd = "held" THEN "closed" ELSE r.fd
  BY DEF CloseSock, Sockets, Quiet

LEMMA FailsIs ==
  ASSUME NEW r \in Sockets, client \in BOOLEAN
  PROVE  LET x == ConCbFails(r)
         IN  /\ x \in Sockets /\ Quiet(x) /\ x.edge = FALSE
             /\ x.stage = r.stage /\ x.inbox = r.inbox /\ x.errEmit = r.errEmit
             /\ x.told = IF client THEN Append(r.told, "fail") ELSE r.told
             /\ x.fd = IF r.fd = "held" THEN "closed" ELSE r.fd
  <1> DEFINE y == [CloseSock(r, TRUE) EXCEPT !.errEmit = r.errEmit, !.recv = r.recv]
  <1>1. /\ y \in Sockets /\ Quiet(y) /\ y.edge = FALSE
        /\ y.stage = r.stage /\ y.inbox = r.inbox /\ y.errEmit = r.errEmit /\ y.told = r.told
        /\ y.fd = IF r.fd = "held" THEN "closed" ELSE r.fd
    <2>1. /\ CloseSock(r, TRUE) \in Sockets /\ Quiet(CloseSock(r, TRUE))
          /\ CloseSock(r, TRUE).edge = FALSE /\ CloseSock(r, TRUE).stage = r.stage
          /\ CloseSock(r, TRUE).told = r.told /\ CloseSock(r, TRUE).inbox = r.inbox
          /\ CloseSock(r, TRUE).fd = IF r.fd = "held" THEN "closed" ELSE r.fd
      BY CloseIs
    <2>2. r.errEmit \in BOOLEAN /\ r.recv \in BOOLEAN
      BY DEF Sockets
    <2> QED
      BY <2>1, <2>2 DEF Sockets, Quiet
  <1>2. ConCbFails(r) = IF client THEN [y EXCEPT !.told = Append(y.told, "fail")] ELSE y
    BY DEF ConCbFails, Tell
  <1> HIDE DEF y
  <1>3. r.told \in Seq(Said) /\ Append(r.told, "fail") \in Seq(Said)
    BY DEF Sockets, Said
  <1>4. CASE client
    <2>1. ConCbFails(r) = [y EXCEPT !.told = Append(r.told, "fail")]
      BY <1>1, <1>2, <1>4
    <2> QED
      BY <1>1, <1>3, <1>4, <2>1 DEF Sockets, Quiet
  <1>5. CASE ~client
    BY <1>1, <1>2, <1>5 DEF Quiet
  <1> QED
    BY <1>4, <1>5

LEMMA OkIs ==
  ASSUME NEW r \in Sockets, client \in BOOLEAN
  PROVE  LET x == ConCbOk(r)
         IN  /\ x \in Sockets /\ x.timer = FALSE /\ x.asyncCb = FALSE
             /\ x.watch = r.watch /\ x.edge = r.edge /\ x.stage = r.stage /\ x.fd = r.fd
             /\ x.inbox = r.inbox /\ x.recv = r.recv /\ x.errEmit = r.errEmit
             /\ x.told = IF client THEN Append(r.told, "ok") ELSE r.told
  <1> DEFINE y == [r EXCEPT !.timer = FALSE, !.asyncCb = FALSE]
  <1>1. /\ y \in Sockets /\ y.timer = FALSE /\ y.asyncCb = FALSE
        /\ y.watch = r.watch /\ y.edge = r.edge /\ y.stage = r.stage /\ y.fd = r.fd
        /\ y.inbox = r.inbox /\ y.recv = r.recv /\ y.errEmit = r.errEmit /\ y.told = r.told
    BY DEF Sockets
  <1>2. ConCbOk(r) = IF client THEN [y EXCEPT !.told = Append(y.told, "ok")] ELSE y
    BY DEF ConCbOk, Tell
  <1> HIDE DEF y
  <1>3. r.told \in Seq(Said) /\ Append(r.told, "ok") \in Seq(Said)
    BY DEF Sockets, Said
  <1>4. CASE client
    <2>1. ConCbOk(r) = [y EXCEPT !.told = Append(r.told, "ok")]
      BY <1>1, <1>2, <1>4
    <2> QED
      BY <1>1, <1>3, <1>4, <2>1 DEF Sockets
  <1>5. CASE ~client
    BY <1>1, <1>2, <1>5
  <1> QED
    BY <1>4, <1>5

LEMMA FailedIs == ASSUME NEW r PROVE Failed(r) <=> Says(r.told, "fail")
  BY DEF Failed, Says

-----------------------------------------------------------------------------
(* A Socket that may be given its result.                                   *)
Awaits(r, e) ==
  /\ r \in Sockets /\ r.stage \notin {"new", "asked"}
  /\ r.fd = "carried" => r.stage = "resolved"
  /\ NoResult(r.told) /\ Once(r.told)
  /\ ~e => ErrLast(r.told) /\ ~Says(r.told, "err")

LEMMA FailsKeeps ==
  ASSUME NEW r, NEW e \in BOOLEAN, Awaits(r, e), client \in BOOLEAN,
         client => (r.errEmit => Says(r.told, "err"))
  PROVE  LET x == ConCbFails(r)
         IN  /\ Good(x, e) /\ Left(x) /\ x.stage # "new"
             /\ client => Failed(x) /\ \A m \in BOOLEAN : Heard(x, m)
  <1> DEFINE x == ConCbFails(r)
  <1>1. /\ x \in Sockets /\ Quiet(x) /\ x.edge = FALSE
        /\ x.stage = r.stage /\ x.inbox = r.inbox /\ x.errEmit = r.errEmit
        /\ x.told = IF client THEN Append(r.told, "fail") ELSE r.told
        /\ x.fd = IF r.fd = "held" THEN "closed" ELSE r.fd
    BY FailsIs DEF Awaits
  <1>2. r.told \in Seq(Said) /\ "fail" \in Said
    BY DEF Awaits, Sockets, Said
  <1>3. /\ \A y : Says(Append(r.told, "fail"), y) <=> Says(r.told, y) \/ y = "fail"
        /\ Once(r.told) /\ NoResult(r.told) => Once(Append(r.told, "fail"))
        /\ ErrLast(r.told) /\ ~Says(r.told, "err") => ErrLast(Append(r.told, "fail"))
        /\ \A y : Append(r.told, "fail") = <<y>> => "fail" = y
        /\ Append(r.told, "fail") # <<>>
    BY <1>2, Telling
  <1> HIDE DEF x
  <1>4. Once(x.told) /\ (~e => ErrLast(x.told))
    BY <1>1, <1>3 DEF Awaits
  <1>5. Good(x, e)
    BY <1>1, <1>4 DEF Good, Pending, Quiet, Awaits
  <1>6. Left(x) /\ x.stage # "new"
    BY <1>1 DEF Left, Awaits
  <1>7. ASSUME client PROVE Failed(x) /\ \A m \in BOOLEAN : Heard(x, m)
    <2>1. Says(x.told, "fail") /\ x.told # <<>> /\ x.told # <<"ok">>
      BY <1>1, <1>3, <1>7
    <2>2. x.errEmit => Says(x.told, "err")
      BY <1>1, <1>3, <1>7
    <2> QED
      BY <2>1, <2>2, FailedIs DEF Heard
  <1> QED
    BY <1>5, <1>6, <1>7 DEF x

LEMMA OkKeeps ==
  ASSUME NEW r, NEW e \in BOOLEAN, Awaits(r, e), client \in BOOLEAN,
         client => (r.errEmit => Says(r.told, "err")),
         r.watch = "all", r.fd = "held", r.stage = "started",
         r.inbox > 0 /\ r.recv => r.edge
  PROVE  LET x == ConCbOk(r)
         IN  /\ Good(x, e) /\ x.stage # "new" /\ ~Failed(x)
             /\ client => \A m \in BOOLEAN : (r.told = <<>> => m) => Heard(x, m)
  <1> DEFINE x == ConCbOk(r)
  <1>1. /\ x \in Sockets /\ x.timer = FALSE /\ x.asyncCb = FALSE
        /\ x.watch = r.watch /\ x.edge = r.edge /\ x.stage = r.stage /\ x.fd = r.fd
        /\ x.inbox = r.inbox /\ x.recv = r.recv /\ x.errEmit = r.errEmit
        /\ x.told = IF client THEN Append(r.told, "ok") ELSE r.told
    BY OkIs DEF Awaits
  <1>2. r.told \in Seq(Said) /\ "ok" \in Said
    BY DEF Awaits, Sockets, Said
  <1>3. /\ \A y : Says(Append(r.told, "ok"), y) <=> Says(r.told, y) \/ y = "ok"
        /\ Once(r.told) /\ NoResult(r.told) => Once(Append(r.told, "ok"))
        /\ ErrLast(r.told) /\ ~Says(r.told, "err") => ErrLast(Append(r.told, "ok"))
        /\ \A y : Append(r.told, "ok") = <<y>> => r.told = <<>>
        /\ Append(r.told, "ok") # <<>>
    BY <1>2, Telling
  <1> HIDE DEF x
  <1>4. Once(x.told) /\ (~e => ErrLast(x.told))
    BY <1>1, <1>3 DEF Awaits
  <1>5. Good(x, e)
    BY <1>1, <1>4 DEF Good, Pending, Awaits
  <1>6. ~Failed(x)
    BY <1>1, <1>3, FailedIs DEF NoResult, Awaits
  <1>7. ASSUME client, NEW m \in BOOLEAN, r.told = <<>> => m PROVE Heard(x, m)
    <2>1. x.errEmit => Says(x.told, "err")
      BY <1>1, <1>3, <1>7
    <2>2. x.told \in {<<>>, <<"ok">>} => m
      BY <1>1, <1>3, <1>7
    <2> QED
      BY <2>1, <2>2, <1>1 DEF Heard
  <1> QED
    BY <1>5, <1>6, <1>7, <1>1 DEF x, Awaits

LEMMA CloseKeeps ==
  ASSUME NEW r, NEW e \in BOOLEAN, Good(r, e), r.stage # "new"
  PROVE  Good(CloseSock(r, TRUE), e) /\ Left(CloseSock(r, TRUE))
  <1>1. r \in Sockets
    BY DEF Good
  <1>2. LET x == CloseSock(r, TRUE)
        IN  /\ x \in Sockets /\ Quiet(x) /\ x.stage = r.stage /\ x.told = r.told
            /\ x.fd = IF r.fd = "held" THEN "closed" ELSE r.fd
    BY <1>1, CloseIs
  <1> QED
    BY <1>2 DEF Good, Left, Quiet, Pending

(* connect_l on a new Socket or one whose connect was queued.               *)
LEMMA Connects ==
  ASSUME NEW r, NEW e \in BOOLEAN, Good(r, e), r.stage \in {"new", "asked"},
         client \in BOOLEAN, NEW x \in ConnectL(r)
  PROVE  /\ Good(x, e) /\ x.stage # "new"
         /\ client => \A m \in BOOLEAN : (r.told = <<>> => m) => Heard(x, m /\ ~Failed(x))
  <1> DEFINE y == [CloseSock(r, TRUE) EXCEPT !.timer = TRUE, !.stage = "started"]
  <1>1. /\ r \in Sockets /\ r.fd = "none"
        /\ NoResult(r.told) /\ Once(r.told) /\ (~e => ErrLast(r.told) /\ ~Says(r.told, "err"))
    <2>1. CASE r.stage = "new"
      <3>1. r = Unused /\ r.told = <<>>
        BY <2>1 DEF Good, Unused
      <3>2. NoResult(<<>>) /\ ~Says(<<>>, "err")
        BY DEF NoResult, Says
      <3> QED
        BY <3>1, <3>2, <2>1 DEF Good
    <2>2. CASE r.stage = "asked"
      BY <2>2 DEF Good, Pending
    <2> QED
      BY <2>1, <2>2
  <1>2. /\ y \in Sockets /\ y.stage = "started" /\ y.fd = "none" /\ y.told = r.told
        /\ y.watch = "none" /\ y.errEmit = FALSE
    <2>1. /\ CloseSock(r, TRUE) \in Sockets /\ CloseSock(r, TRUE).told = r.told
          /\ CloseSock(r, TRUE).fd = "none" /\ CloseSock(r, TRUE).watch = "none"
          /\ CloseSock(r, TRUE).errEmit = FALSE
      BY <1>1, CloseIs DEF Quiet
    <2> QED
      BY <2>1 DEF Sockets, Stages
  <1> DEFINE z == [y EXCEPT !.fd = "closed"]
             u == [y EXCEPT !.fd = "held", !.watch = "write", !.stage = "started"]
             v == [y EXCEPT !.stage = "resolving", !.asyncCb = TRUE]
  <1>3. x \in {v, ConCbFails(y), ConCbFails(z), u}
    BY DEF ConnectL, Watched
  <1> HIDE DEF y
  <1>4. /\ z \in Sockets /\ z.stage = "started" /\ z.fd = "closed" /\ z.told = r.told
        /\ z.errEmit = FALSE
    BY <1>2 DEF Sockets
  <1>5. /\ u \in Sockets /\ u.stage = "started" /\ u.fd = "held" /\ u.told = r.told
        /\ u.errEmit = FALSE
    BY <1>2 DEF Sockets
  <1>6. /\ v \in Sockets /\ v.stage = "resolving" /\ v.fd = "none" /\ v.told = r.told
        /\ v.watch = "none" /\ v.errEmit = FALSE
    BY <1>2 DEF Sockets, Stages
  <1> HIDE DEF z, u, v
  <1>7. ASSUME NEW w \in {u, v} PROVE Good(w, e) /\ w.stage # "new"
    BY <1>1, <1>5, <1>6, <1>7 DEF Good, Pending
  <1>8. ASSUME NEW w \in {u, v}, NEW m \in BOOLEAN, r.told = <<>> => m
        PROVE  Heard(w, m /\ ~Failed(w))
    <2>1. w.told = r.told /\ w.errEmit = FALSE
      BY <1>5, <1>6
    <2>2. ~Failed(w) /\ w.told # <<"ok">>
      <3>1. ~Says(r.told, "ok") /\ ~Says(r.told, "fail") /\ Says(<<"ok">>, "ok")
        BY <1>1 DEF NoResult, Says
      <3> QED
        BY <3>1, <2>1, FailedIs
    <2> QED
      BY <2>1, <2>2, <1>8 DEF Heard
  <1>9. Awaits(y, e) /\ Awaits(z, e)
    BY <1>1, <1>2, <1>4 DEF Awaits
  <1>10. ASSUME NEW w \in {y, z}
         PROVE  /\ Good(ConCbFails(w), e) /\ ConCbFails(w).stage # "new"
                /\ client => \A m \in BOOLEAN : Heard(ConCbFails(w), m)
    <2>1. Awaits(w, e) /\ w.errEmit = FALSE
      BY <1>9, <1>2, <1>4
    <2> QED
      BY <2>1, FailsKeeps
  <1>11. ASSUME NEW m \in BOOLEAN, NEW w PROVE (m /\ ~Failed(w)) \in BOOLEAN
    BY DEF Failed
  <1>12. CASE x \in {u, v}
    BY <1>12, <1>7, <1>8
  <1>13. CASE x \in {ConCbFails(y), ConCbFails(z)}
    BY <1>13, <1>10, <1>11
  <1> QED
    BY <1>3, <1>12, <1>13

-----------------------------------------------------------------------------
(* The client's callbacks: s are the sockets when the user is called.       *)
Sound(s, E) ==
  /\ E \subseteq Attempts /\ s \in [Attempts -> Sockets] /\ current \in Attempts
  /\ \A a \in Attempts : Good(s[a], a \in E) /\ (a # current => Left(s[a]))
  /\ s[current].stage # "new"

LEMMA ReconnectKeeps ==
  ASSUME NEW s, NEW E, Sound(s, E), client, client \in BOOLEAN, client' = client, early' = E,
         Reconnects(s)
  PROVE  CliInv'
  <1>1. PICK n \in {a \in Attempts : s[a].stage = "new"} :
          \E r \in ConnectL(s[n]) :
            current' = n /\ manager' = ~Failed(r) /\ so' = StartConnectOn(s, n, r)
    BY DEF Reconnects
  <1>2. PICK r \in ConnectL(s[n]) :
          current' = n /\ manager' = ~Failed(r) /\ so' = StartConnectOn(s, n, r)
    BY <1>1
  <1>3. /\ n \in Attempts /\ s[n].stage = "new" /\ Good(s[n], n \in E)
        /\ (n \in E) \in BOOLEAN /\ s[n].stage \in {"new", "asked"} /\ s[n].told = <<>>
    BY DEF Sound, Good, Unused
  <1>4. /\ Good(r, n \in E) /\ r.stage # "new"
        /\ \A m \in BOOLEAN : (s[n].told = <<>> => m) => Heard(r, m /\ ~Failed(r))
    BY <1>3, Connects
  <1>5. Heard(r, ~Failed(r))
    <2>1. Heard(r, TRUE /\ ~Failed(r))
      BY <1>4
    <2> QED
      BY <2>1
  <1>6. so' = [a \in Attempts |->
                 IF a = n THEN r ELSE IF a = current THEN CloseSock(s[a], TRUE) ELSE s[a]]
    BY <1>2 DEF StartConnectOn
  <1>7. Good(CloseSock(s[current], TRUE), current \in E) /\ Left(CloseSock(s[current], TRUE))
    <2>1. Good(s[current], current \in E) /\ (current \in E) \in BOOLEAN /\ s[current].stage # "new"
      BY DEF Sound
    <2> QED
      BY <2>1, CloseKeeps
  <1>8. \A a \in Attempts : Good(so'[a], a \in E) /\ (a # n => Left(so'[a]))
    BY <1>4, <1>6, <1>7 DEF Sound
  <1>9. so' \in [Attempts -> Sockets]
    <2>1. \A a \in Attempts : so'[a] \in Sockets
      BY <1>8 DEF Good
    <2> QED
      BY <1>6, <2>1
  <1>10. so'[n] = r
    BY <1>3, <1>6
  <1>11. manager' \in BOOLEAN
    BY <1>2 DEF Failed
  <1>12. E \subseteq Attempts
    BY DEF Sound
  <1>13. n # NoAttempt
    BY <1>3, CliAssumption
  <1> QED
    BY <1>2, <1>3, <1>4, <1>5, <1>8, <1>9, <1>10, <1>11, <1>12, <1>13 DEF CliInv, Live, Sock

LEMMA CallbackKeeps ==
  ASSUME NEW s, NEW E, Sound(s, E), NEW stop \in BOOLEAN, client \in BOOLEAN, manager \in BOOLEAN,
         client => Heard(s[current], manager /\ ~stop),
         Callback(s, stop), client' = client, early' = E
  PROVE  CliInv'
  <1>1. CASE client /\ Reconnects(s)
    BY <1>1, ReconnectKeeps
  <1>2. CASE current' = current /\ so' = s /\ manager' = (manager /\ ~(stop /\ client))
    <2>1. client => Heard(s[current], manager')
      <3>1. client => manager' = (manager /\ ~stop)
        BY <1>2
      <3> QED
        BY <3>1
    <2>2. manager' \in BOOLEAN
      BY <1>2
    <2>3. current # NoAttempt
      BY CliAssumption DEF Sound
    <2> QED
      BY <1>2, <2>1, <2>2, <2>3 DEF CliInv, Live, Sock, Sound
  <1> QED
    BY <1>1, <1>2 DEF Callback

LEMMA ReportKeeps ==
  ASSUME CliInv, Live, NEW r, Good(r, current \in early), r.stage # "new",
         client => Heard(r, manager /\ ~Failed(r)), Report(r)
  PROVE  CliInv'
  <1>1. Sound(OnSocket(r), early)
    <2>1. r \in Sockets /\ current \in Attempts
      BY DEF CliInv, Live, Good
    <2> QED
      BY <2>1 DEF CliInv, Sound, OnSocket
  <1>2. OnSocket(r)[current] = r
    BY DEF OnSocket, CliInv, Live
  <1>3. Failed(r) \in BOOLEAN
    BY DEF Failed
  <1>4. client' = client /\ early' = early /\ Callback(OnSocket(r), Failed(r))
    BY DEF Report
  <1> QED
    BY <1>1, <1>2, <1>3, <1>4, CallbackKeeps DEF CliInv

(* An attempt may be given its result by anything it waits for.             *)
LEMMA PendingAwaits ==
  ASSUME NEW r, NEW e \in BOOLEAN, Good(r, e), r.timer \/ r.asyncCb \/ r.watch = "write"
  PROVE  Awaits(r, e)
  BY DEF Good, Pending, Quiet, Awaits

LEMMA CurrentIs ==
  ASSUME CliInv, Live
  PROVE  /\ current \in Attempts /\ Good(Sock, current \in early) /\ Sock \in Sockets
         /\ Sock.stage # "new" /\ (client => Heard(Sock, manager))
  BY DEF CliInv, Live, Sock

-----------------------------------------------------------------------------
(* What an action does to one Socket that stays where it is.                *)
LEMMA OneKeeps ==
  ASSUME CliInv, NEW a \in Attempts, NEW r, Good(r, a \in early), a # current => Left(r),
         a = current /\ client => Heard(r, manager), r.stage # "new", so[a].stage # "new",
         so' = [so EXCEPT ![a] = r], UNCHANGED <<current, manager, client, early>>
  PROVE  CliInv'
  <1>1. r \in Sockets
    BY DEF Good
  <1>2. so' \in [Attempts -> Sockets] /\ \A b \in Attempts : so'[b] = IF b = a THEN r ELSE so[b]
    BY <1>1 DEF CliInv
  <1>3. \A b \in Attempts : Good(so'[b], b \in early) /\ (b # current => Left(so'[b]))
    BY <1>2 DEF CliInv
  <1>4. Live => so'[current].stage # "new" /\ (client => Heard(so'[current], manager))
    BY <1>2 DEF CliInv, Live, Sock
  <1>5. client => Live
    BY DEF CliInv
  <1> QED
    BY <1>2, <1>3, <1>4, <1>5 DEF CliInv, Live, Sock

-----------------------------------------------------------------------------
(* The invariant, action by action.                                         *)
LEMMA StartConnectKeeps == ASSUME CliInv, NEW n \in Attempts, StartConnect(n) PROVE CliInv'
  <1>1. client /\ ~Live /\ so[n].stage = "new" /\ Good(so[n], n \in early) /\ so[n] = Unused
    BY DEF CliInv, StartConnect, Live, Good
  <1> DEFINE r == [so[n] EXCEPT !.stage = "asked"]
  <1>2. /\ r \in Sockets /\ r.stage = "asked" /\ r.fd = "none" /\ Quiet(r) /\ r.told = <<>>
        /\ r.errEmit = FALSE
    <2>1. so[n] \in Sockets
      BY <1>1 DEF Good
    <2>2. /\ so[n].timer = FALSE /\ so[n].asyncCb = FALSE /\ so[n].watch = "none"
          /\ so[n].fd = "none" /\ so[n].told = <<>> /\ so[n].errEmit = FALSE
      BY <1>1 DEF Unused
    <2> QED
      BY <2>1, <2>2 DEF Sockets, Stages, Quiet
  <1>3. so' = [so EXCEPT ![n] = r] /\ current' = n /\ manager' = TRUE
        /\ UNCHANGED <<client, early>>
    BY DEF StartConnect
  <1> HIDE DEF r
  <1>4. NoResult(<<>>) /\ Once(<<>>) /\ ErrLast(<<>>) /\ ~Says(<<>>, "err")
    BY DEF NoResult, Once, ErrLast, Says
  <1>5. Good(r, n \in early) /\ Heard(r, TRUE)
    <2>1. Good(r, n \in early)
      BY <1>2, <1>4 DEF Good, Quiet
    <2>2. <<>> # <<"ok">>
      OBVIOUS
    <2> QED
      BY <1>2, <2>1, <2>2 DEF Heard
  <1>6. \A a \in Attempts : Good(so'[a], a \in early) /\ (a # n => Left(so'[a]))
    BY <1>1, <1>3, <1>5, CliAssumption DEF CliInv, Live
  <1>7. so' \in [Attempts -> Sockets] /\ so'[n] = r
    BY <1>2, <1>3 DEF CliInv
  <1>8. n # NoAttempt
    BY CliAssumption
  <1> QED
    BY <1>2, <1>3, <1>5, <1>6, <1>7, <1>8 DEF CliInv, Live, Sock

LEMMA CliReconnectKeeps == ASSUME CliInv, CliReconnect PROVE CliInv'
  <1>1. Sound(so, early) /\ client /\ client \in BOOLEAN /\ Reconnects(so)
        /\ client' = client /\ early' = early
    BY DEF CliInv, CliReconnect, Live, Sock, Sound
  <1> QED
    BY <1>1, ReconnectKeeps

LEMMA RunConnectKeeps == ASSUME CliInv, RunConnect PROVE CliInv'
  <1>1. PICK r \in ConnectL(Sock) : Report(r)
    BY DEF RunConnect
  <1>2. /\ Live /\ Sock.stage \in {"new", "asked"} /\ Good(Sock, current \in early)
        /\ (current \in early) \in BOOLEAN /\ client \in BOOLEAN /\ manager \in BOOLEAN
        /\ (client => Heard(Sock, manager))
    BY CurrentIs DEF CliInv, RunConnect
  <1>3. /\ Good(r, current \in early) /\ r.stage # "new"
        /\ client => \A m \in BOOLEAN : (Sock.told = <<>> => m) => Heard(r, m /\ ~Failed(r))
    BY <1>2, Connects
  <1>4. client => Heard(r, manager /\ ~Failed(r))
    BY <1>2, <1>3 DEF Heard
  <1> QED
    BY <1>1, <1>2, <1>3, <1>4, ReportKeeps

LEMMA ResolvesKeeps ==
  ASSUME CliInv, NEW a \in Attempts, Resolves(a) \/ CannotResolve(a)
  PROVE  CliInv'
  <1>1. Good(so[a], a \in early) /\ so[a] \in Sockets /\ so[a].stage = "resolving"
    BY DEF CliInv, Resolves, CannotResolve
  <1> DEFINE r == [so[a] EXCEPT !.stage = "resolved", !.fd = "carried"]
             q == [so[a] EXCEPT !.stage = "unresolved"]
  <1>2. PICK x \in {r, q} : so' = [so EXCEPT ![a] = x]
    BY DEF Resolves, CannotResolve
  <1>3. /\ x \in Sockets /\ x.told = so[a].told /\ x.watch = so[a].watch
        /\ x.timer = so[a].timer /\ x.asyncCb = so[a].asyncCb /\ x.errEmit = so[a].errEmit
        /\ x.inbox = so[a].inbox /\ x.recv = so[a].recv /\ x.edge = so[a].edge
        /\ x.stage \in {"resolved", "unresolved"}
        /\ x.fd \in {so[a].fd, "carried"} /\ (x.fd = "carried" => x.stage = "resolved")
    <2>1. so[a].fd # "carried"
      BY <1>1 DEF Good
    <2> QED
      BY <1>1, <1>2, <2>1 DEF Sockets, Stages
  <1> HIDE DEF r, q
  <1>4. Good(x, a \in early)
    BY <1>1, <1>3 DEF Good, Quiet, Pending
  <1>5. a # current => Left(x)
    BY <1>3 DEF CliInv, Left, Quiet
  <1>6. a = current /\ client => Heard(x, manager)
    <2>1. a = current /\ client => Heard(so[a], manager)
      BY CliAssumption DEF CliInv, Live, Sock
    <2> QED
      BY <1>3, <2>1 DEF Heard
  <1>7. x.stage # "new" /\ so[a].stage # "new" /\ UNCHANGED <<current, manager, client, early>>
    BY <1>1, <1>3 DEF Resolves, CannotResolve
  <1> QED
    BY <1>2, <1>4, <1>5, <1>6, <1>7, OneKeeps

LEMMA TooLateKeeps == ASSUME CliInv, NEW a \in Attempts, ResultTooLate(a) PROVE CliInv'
  <1>1. /\ Good(so[a], a \in early) /\ so[a] \in Sockets
        /\ so[a].stage \in {"resolved", "unresolved"}
    BY DEF CliInv, ResultTooLate
  <1> DEFINE x == [so[a] EXCEPT !.stage = "started",
                                !.fd = IF @ = "carried" THEN "closed" ELSE @]
  <1>2. so' = [so EXCEPT ![a] = x]
    BY DEF ResultTooLate
  <1>3. /\ x \in Sockets /\ x.told = so[a].told /\ x.watch = so[a].watch
        /\ x.timer = so[a].timer /\ x.asyncCb = so[a].asyncCb /\ x.errEmit = so[a].errEmit
        /\ x.inbox = so[a].inbox /\ x.recv = so[a].recv /\ x.edge = so[a].edge
        /\ x.stage = "started" /\ x.fd # "carried" /\ x.fd \in {so[a].fd, "closed"}
    BY <1>1 DEF Sockets, Stages
  <1> HIDE DEF x
  <1>4. Good(x, a \in early)
    BY <1>1, <1>3 DEF Good, Quiet, Pending
  <1>5. a # current => Left(x)
    BY <1>3 DEF CliInv, Left, Quiet
  <1>6. a = current /\ client => Heard(x, manager)
    <2>1. a = current /\ client => Heard(so[a], manager)
      BY CliAssumption DEF CliInv, Live, Sock
    <2> QED
      BY <1>3, <2>1 DEF Heard
  <1>7. x.stage # "new" /\ so[a].stage # "new" /\ UNCHANGED <<current, manager, client, early>>
    BY <1>1, <1>3 DEF ResultTooLate
  <1> QED
    BY <1>2, <1>4, <1>5, <1>6, <1>7, OneKeeps

LEMMA ResultKeeps == ASSUME CliInv, Result PROVE CliInv'
  <1> DEFINE e == current \in early
             r == [Sock EXCEPT !.stage = "started"]
             x == [r EXCEPT !.fd = "closed"]
             y == [r EXCEPT !.fd = "held", !.watch = "write", !.stage = "started"]
  <1>1. /\ Live /\ Sock.stage \in {"resolved", "unresolved"} /\ Sock.asyncCb = TRUE
        /\ Sock \in Sockets /\ Good(Sock, e) /\ (client => Heard(Sock, manager))
        /\ client \in BOOLEAN /\ manager \in BOOLEAN /\ e \in BOOLEAN
    <2>1. Live /\ Sock.stage \in {"resolved", "unresolved"} /\ so[current].asyncCb
      BY DEF Result, Expired
    <2> QED
      BY <2>1, CurrentIs DEF Sock, CliInv, Sockets
  <1>2. Awaits(Sock, e)
    BY <1>1, PendingAwaits
  <1>3. /\ r \in Sockets /\ r.stage = "started" /\ r.told = Sock.told /\ r.errEmit = Sock.errEmit
        /\ r.fd = Sock.fd
    BY <1>1 DEF Sockets, Stages
  <1>4. PICK z : Report(z) /\ (z \in {y, ConCbFails(x)} \/ (z = ConCbFails(r) /\ Sock.stage = "unresolved"))
    BY <1>1 DEF Result, Watched
  <1> HIDE DEF r
  <1>5. /\ x \in Sockets /\ x.stage = "started" /\ x.told = Sock.told /\ x.errEmit = Sock.errEmit
        /\ x.fd = "closed"
    BY <1>3 DEF Sockets
  <1>6. /\ y \in Sockets /\ y.stage = "started" /\ y.told = Sock.told /\ y.errEmit = Sock.errEmit
        /\ y.fd = "held"
    BY <1>3 DEF Sockets
  <1> HIDE DEF x, y
  <1>7. client => (Sock.errEmit => Says(Sock.told, "err"))
    BY <1>1 DEF Heard
  <1>8. Awaits(x, e) /\ (Sock.stage = "unresolved" => Awaits(r, e))
    BY <1>1, <1>2, <1>3, <1>5 DEF Awaits, Good
  <1>9. ASSUME NEW w, Awaits(w, e), w.told = Sock.told, w.errEmit = Sock.errEmit
        PROVE  /\ Good(ConCbFails(w), e) /\ ConCbFails(w).stage # "new"
               /\ client => Heard(ConCbFails(w), manager /\ ~Failed(ConCbFails(w)))
    <2>1. client => (w.errEmit => Says(w.told, "err"))
      BY <1>7, <1>9
    <2>2. /\ Good(ConCbFails(w), e) /\ ConCbFails(w).stage # "new"
          /\ client => \A m \in BOOLEAN : Heard(ConCbFails(w), m)
      BY <1>1, <1>9, <2>1, FailsKeeps
    <2>3. (manager /\ ~Failed(ConCbFails(w))) \in BOOLEAN
      BY DEF Failed
    <2> QED
      BY <2>2, <2>3
  <1>10. Good(y, e) /\ y.stage # "new"
    BY <1>2, <1>6 DEF Good, Awaits
  <1>11. client => Heard(y, manager /\ ~Failed(y))
    <2>1. ~Failed(y) /\ y.told # <<"ok">>
      <3>1. ~Says(y.told, "fail") /\ ~Says(y.told, "ok") /\ Says(<<"ok">>, "ok")
        BY <1>2, <1>6 DEF Awaits, NoResult, Says
      <3> QED
        BY <3>1, FailedIs
    <2>2. client => (y.told \in {<<>>, <<"ok">>} => manager) /\ (y.errEmit => Says(y.told, "err"))
      BY <1>1, <1>6 DEF Heard
    <2> QED
      BY <2>1, <2>2 DEF Heard
  <1>12. Good(z, e) /\ z.stage # "new" /\ (client => Heard(z, manager /\ ~Failed(z)))
    <2>1. CASE z = y
      BY <2>1, <1>10, <1>11
    <2>2. CASE z = ConCbFails(x)
      BY <2>2, <1>8, <1>5, <1>9
    <2>3. CASE z = ConCbFails(r) /\ Sock.stage = "unresolved"
      BY <2>3, <1>8, <1>3, <1>9
    <2> QED
      BY <1>4, <2>1, <2>2, <2>3
  <1> QED
    BY <1>1, <1>4, <1>12, ReportKeeps

LEMMA TimeoutKeeps == ASSUME CliInv, ConnectTimeout PROVE CliInv'
  <1>1. /\ Live /\ Sock.timer /\ Report(ConCbFails(Sock)) /\ client \in BOOLEAN
        /\ (current \in early) \in BOOLEAN
    BY DEF ConnectTimeout, CliInv
  <1>2. Awaits(Sock, current \in early) /\ (client => (Sock.errEmit => Says(Sock.told, "err")))
    BY <1>1, CurrentIs, PendingAwaits DEF Heard
  <1>3. /\ Good(ConCbFails(Sock), current \in early) /\ ConCbFails(Sock).stage # "new"
        /\ client => \A m \in BOOLEAN : Heard(ConCbFails(Sock), m)
    BY <1>1, <1>2, FailsKeeps
  <1>4. (manager /\ ~Failed(ConCbFails(Sock))) \in BOOLEAN
    BY DEF Failed
  <1> QED
    BY <1>1, <1>3, <1>4, ReportKeeps

LEMMA ConnectedKeeps == ASSUME CliInv, OnConnected PROVE CliInv'
  <1>0. PICK b \in BOOLEAN : b <=> Sock.inbox > 0
    OBVIOUS
  <1> DEFINE e == current \in early
             x == [Sock EXCEPT !.watch = "all", !.edge = b]
  <1>1. /\ Live /\ Sock.watch = "write" /\ Sock \in Sockets /\ Good(Sock, e)
        /\ (client => Heard(Sock, manager))
        /\ client \in BOOLEAN /\ manager \in BOOLEAN /\ e \in BOOLEAN
    BY CurrentIs DEF OnConnected, CliInv
  <1>2. Awaits(Sock, e) /\ (client => (Sock.errEmit => Says(Sock.told, "err")))
    BY <1>1, PendingAwaits DEF Heard
  <1>3. PICK z \in {ConCbFails(Sock), ConCbOk(x)} : Report(z)
    <2>1. (Sock.inbox > 0) = b
      BY <1>0
    <2>2. PICK z \in Attached(Sock) : Report(z)
      BY DEF OnConnected
    <2>3. Attached(Sock) = {ConCbFails(Sock), ConCbOk(x)}
      BY <2>1, Zenon DEF Attached
    <2> QED
      BY <2>2, <2>3
  <1>4. CASE z = ConCbFails(Sock)
    <2>1. /\ Good(z, e) /\ z.stage # "new" /\ (client => \A m \in BOOLEAN : Heard(z, m))
      BY <1>1, <1>2, <1>4, FailsKeeps
    <2>2. (manager /\ ~Failed(z)) \in BOOLEAN
      BY DEF Failed
    <2> QED
      BY <1>1, <1>3, <2>1, <2>2, ReportKeeps
  <1>5. CASE z = ConCbOk(x)
    <2>1. /\ x \in Sockets /\ x.watch = "all" /\ x.edge = b /\ x.told = Sock.told
          /\ x.inbox = Sock.inbox /\ x.errEmit = Sock.errEmit /\ x.stage = Sock.stage /\ x.fd = Sock.fd
      BY <1>1 DEF Sockets
    <2>2. Sock.fd = "held" /\ Sock.stage = "started"
      BY <1>1 DEF Good
    <2> HIDE DEF x
    <2>3. Awaits(x, e) /\ (client => (x.errEmit => Says(x.told, "err")))
      BY <1>2, <2>1 DEF Awaits
    <2>4. /\ Good(z, e) /\ z.stage # "new" /\ ~Failed(z)
          /\ client => \A m \in BOOLEAN : (x.told = <<>> => m) => Heard(z, m)
      BY <1>0, <1>1, <1>5, <2>1, <2>2, <2>3, OkKeeps
    <2>5. client => Heard(z, manager)
      BY <1>1, <2>1, <2>4 DEF Heard
    <2>6. client => Heard(z, manager /\ ~Failed(z))
      <3>1. manager = (manager /\ ~Failed(z))
        BY <2>4, <1>1
      <3> QED
        BY <3>1, <2>5
    <2> QED
      BY <1>1, <1>3, <2>4, <2>6, ReportKeeps
  <1> QED
    BY <1>4, <1>5

(* Receiving changes neither what was told nor what is watched.             *)
LEMMA ReceivingKeeps ==
  ASSUME CliInv, Live, NEW i \in 0 .. MaxInbox, NEW b \in BOOLEAN, NEW g \in BOOLEAN,
         so' = OnSocket([Sock EXCEPT !.inbox = i, !.recv = b, !.edge = g]),
         client /\ Sock.told = <<"ok">> => (i > 0 /\ b => g),
         UNCHANGED <<current, manager, client, early>>
  PROVE  CliInv'
  <1> DEFINE x == [Sock EXCEPT !.inbox = i, !.recv = b, !.edge = g]
  <1>1. /\ current \in Attempts /\ Good(Sock, current \in early) /\ Sock \in Sockets
        /\ Sock.stage # "new" /\ (client => Heard(Sock, manager)) /\ Sock = so[current]
    BY CurrentIs DEF Sock
  <1>2. /\ x \in Sockets /\ x.told = Sock.told /\ x.watch = Sock.watch
        /\ x.timer = Sock.timer /\ x.asyncCb = Sock.asyncCb /\ x.errEmit = Sock.errEmit
        /\ x.inbox = i /\ x.recv = b /\ x.edge = g
        /\ x.stage = Sock.stage /\ x.fd = Sock.fd
    BY <1>1 DEF Sockets
  <1>3. so' = [so EXCEPT ![current] = x]
    BY DEF OnSocket
  <1> HIDE DEF x
  <1>4. Good(x, current \in early) /\ x.stage # "new"
    BY <1>1, <1>2 DEF Good, Quiet, Pending
  <1>5. client => Heard(x, manager)
    BY <1>1, <1>2 DEF Heard
  <1> QED
    BY <1>1, <1>3, <1>4, <1>5, OneKeeps

LEMMA PeerSendsKeeps == ASSUME CliInv, PeerSends PROVE CliInv'
  <1>1. Live /\ current \in Attempts /\ Sock \in Sockets /\ Sock.inbox < MaxInbox
        /\ UNCHANGED <<current, manager, client, early>>
    BY CurrentIs DEF PeerSends
  <1>2. PICK g \in BOOLEAN : g = (Sock.watch = "all" /\ Sock.recv)
    OBVIOUS
  <1>3. /\ Sock.inbox + 1 \in 0 .. MaxInbox /\ Sock.recv \in BOOLEAN
        /\ [Sock EXCEPT !.inbox = @ + 1, !.edge = g]
             = [Sock EXCEPT !.inbox = Sock.inbox + 1, !.recv = Sock.recv, !.edge = g]
    <2>1. Sock.inbox + 1 \in 0 .. MaxInbox
      BY <1>1, CliAssumption DEF Sockets
    <2>2. PICK i : i = Sock.inbox + 1
      OBVIOUS
    <2>3. [Sock EXCEPT !.inbox = i, !.edge = g] = [Sock EXCEPT !.inbox = i, !.recv = Sock.recv, !.edge = g]
      BY <1>1 DEF Sockets
    <2> QED
      BY <1>1, <2>1, <2>2, <2>3 DEF Sockets
  <1>4. so' = OnSocket([Sock EXCEPT !.inbox = Sock.inbox + 1, !.recv = Sock.recv, !.edge = g])
    <2>1. so' = OnSocket([Sock EXCEPT !.inbox = @ + 1, !.edge = g])
      BY <1>1, <1>2 DEF PeerSends, OnSocket, Sock, CliInv
    <2> QED
      BY <2>1, <1>3
  <1>5. client /\ Sock.told = <<"ok">> => (Sock.inbox + 1 > 0 /\ Sock.recv => g)
    BY <1>1, <1>2, CurrentIs DEF Heard
  <1> QED
    BY <1>1, <1>3, <1>4, <1>5, ReceivingKeeps

LEMMA EnabledIs ==
  ASSUME NEW r \in Sockets, NEW b \in BOOLEAN
  PROVE  \E g \in BOOLEAN :
           /\ Enabled(r, b) = [r EXCEPT !.recv = b, !.edge = g]
           /\ g = IF r.recv = b THEN r.edge ELSE b /\ r.inbox > 0
  <1>1. PICK g \in BOOLEAN : g = IF r.recv = b THEN r.edge ELSE b /\ r.inbox > 0
    BY DEF Sockets
  <1>2. Enabled(r, b) = [r EXCEPT !.recv = b, !.edge = g]
    BY <1>1 DEF Enabled, Sockets
  <1> QED
    BY <1>1, <1>2

LEMMA EnableRecvKeeps == ASSUME CliInv, NEW b \in BOOLEAN, EnableRecv(b) PROVE CliInv'
  <1>1. Live /\ current \in Attempts /\ Sock \in Sockets /\ so' = OnSocket(Enabled(Sock, b))
        /\ UNCHANGED <<current, manager, client, early>>
    BY CurrentIs DEF EnableRecv
  <1>2. PICK g \in BOOLEAN : /\ Enabled(Sock, b) = [Sock EXCEPT !.recv = b, !.edge = g]
                             /\ g = IF Sock.recv = b THEN Sock.edge ELSE b /\ Sock.inbox > 0
    BY <1>1, EnabledIs
  <1>3. /\ Sock.inbox \in 0 .. MaxInbox
        /\ [Sock EXCEPT !.recv = b, !.edge = g]
             = [Sock EXCEPT !.inbox = Sock.inbox, !.recv = b, !.edge = g]
    BY <1>1 DEF Sockets
  <1>4. client /\ Sock.told = <<"ok">> => (Sock.inbox > 0 /\ b => g)
    BY <1>1, <1>2, CurrentIs DEF Heard
  <1> QED
    BY <1>1, <1>2, <1>3, <1>4, ReceivingKeeps

LEMMA OnReadKeeps == ASSUME CliInv, OnRead PROVE CliInv'
  <1>1. Live /\ current \in Attempts /\ Sock \in Sockets /\ Sock.inbox \in 0 .. MaxInbox
        /\ Sock.recv \in BOOLEAN /\ UNCHANGED <<current, manager, client, early>>
    BY CurrentIs DEF OnRead, Sockets
  <1>2. CASE so' = OnSocket([Sock EXCEPT !.inbox = 0, !.edge = FALSE])
    <2>1. [Sock EXCEPT !.inbox = 0, !.edge = FALSE]
            = [Sock EXCEPT !.inbox = 0, !.recv = Sock.recv, !.edge = FALSE]
      BY <1>1 DEF Sockets
    <2>2. 0 \in 0 .. MaxInbox /\ ~(0 > 0) /\ FALSE \in BOOLEAN
      BY CliAssumption
    <2>3. so' = OnSocket([Sock EXCEPT !.inbox = 0, !.recv = Sock.recv, !.edge = FALSE])
      BY <1>2, <2>1
    <2> QED
      BY <1>1, <2>2, <2>3, ReceivingKeeps
  <1>3. CASE \E k \in 1 .. Sock.inbox :
               so' = OnSocket(Enabled([Sock EXCEPT !.inbox = @ - k, !.edge = FALSE], FALSE))
    <2>1. PICK k \in 1 .. Sock.inbox :
            so' = OnSocket(Enabled([Sock EXCEPT !.inbox = @ - k, !.edge = FALSE], FALSE))
      BY <1>3
    <2>2. Sock.inbox - k \in 0 .. MaxInbox
      BY <1>1, CliAssumption
    <2>3. [Sock EXCEPT !.inbox = @ - k, !.edge = FALSE] \in Sockets
      BY <1>1, <2>2 DEF Sockets
    <2>4. PICK g \in BOOLEAN :
            Enabled([Sock EXCEPT !.inbox = @ - k, !.edge = FALSE], FALSE)
              = [[Sock EXCEPT !.inbox = @ - k, !.edge = FALSE] EXCEPT !.recv = FALSE, !.edge = g]
      BY <2>3, EnabledIs
    <2>5. [[Sock EXCEPT !.inbox = @ - k, !.edge = FALSE] EXCEPT !.recv = FALSE, !.edge = g]
            = [Sock EXCEPT !.inbox = Sock.inbox - k, !.recv = FALSE, !.edge = g]
      BY <1>1, <2>2 DEF Sockets
    <2> QED
      BY <1>1, <2>1, <2>2, <2>4, <2>5, ReceivingKeeps
  <1> QED
    BY <1>2, <1>3 DEF OnRead

(* onError may come at any time, even before connect_l ran, and the user    *)
(* may start again in it.                                                   *)
LEMMA EmitErrKeeps ==
  ASSUME CliInv, Live, NEW stop \in BOOLEAN, CliEmitErr(stop), client' = client
  PROVE  CliInv'
  <1>1. /\ current \in Attempts /\ Good(Sock, current \in early) /\ Sock \in Sockets
        /\ Sock.stage # "new" /\ (client => Heard(Sock, manager)) /\ client \in BOOLEAN
        /\ manager \in BOOLEAN
    BY CurrentIs DEF CliInv
  <1>2. CASE Sock.errEmit
    <2>1. UNCHANGED <<current, so, early>> /\ manager' = (manager /\ ~stop)
      BY <1>2 DEF CliEmitErr
    <2>2. client => Heard(Sock, manager')
      <3>1. Says(Sock.told, "err") => Sock.told \notin {<<>>, <<"ok">>}
        <4>1. ~Says(<<>>, "err") /\ ~Says(<<"ok">>, "err")
          BY DEF Says
        <4> QED
          BY <4>1
      <3> QED
        BY <1>1, <1>2, <3>1 DEF Heard
    <2>3. manager' \in BOOLEAN
      BY <2>1
    <2> QED
      BY <2>1, <2>2, <2>3 DEF CliInv, Live, Sock
  <1>3. CASE ~Sock.errEmit
    <2> DEFINE y == [Sock EXCEPT !.errEmit = TRUE]
               z == Tell(y, "err")
               x == CloseSock(z, FALSE)
               E == IF Sock.stage = "asked" THEN early \cup {current} ELSE early
    <2>1. Callback(OnSocket(x), TRUE) /\ early' = E
      BY <1>3 DEF CliEmitErr
    <2>2. /\ y \in Sockets /\ y.told = Sock.told /\ y.stage = Sock.stage /\ y.fd = Sock.fd
          /\ y.told \in Seq(Said)
      BY <1>1 DEF Sockets
    <2>3. z = IF client THEN [y EXCEPT !.told = Append(y.told, "err")] ELSE y
      BY DEF Tell
    <2> HIDE DEF y, z
    <2>4. /\ Append(Sock.told, "err") \in Seq(Said)
          /\ \A w : Says(Append(Sock.told, "err"), w) <=> Says(Sock.told, w) \/ w = "err"
          /\ Once(Sock.told) => Once(Append(Sock.told, "err"))
          /\ ErrLast(Sock.told) => ErrLast(Append(Sock.told, "err"))
          /\ \A w : Append(Sock.told, "err") = <<w>> => w = "err"
          /\ Append(Sock.told, "err") # <<>>
      <3>1. Sock.told \in Seq(Said) /\ "err" \in Said
        BY <2>2 DEF Said
      <3> QED
        BY <3>1, Telling
    <2>5. /\ z \in Sockets /\ z.stage = Sock.stage /\ z.fd = Sock.fd
          /\ z.told = IF client THEN Append(Sock.told, "err") ELSE Sock.told
      BY <1>1, <2>2, <2>3, <2>4 DEF Sockets
    <2>6. /\ x \in Sockets /\ Quiet(x) /\ x.edge = FALSE /\ x.stage = Sock.stage /\ x.fd = Sock.fd
          /\ x.told = IF client THEN Append(Sock.told, "err") ELSE Sock.told
      BY <2>5, CloseIs
    <2> HIDE DEF x
    <2>7. Good(x, current \in E)
      <3>1. Once(x.told) /\ (ErrLast(Sock.told) => ErrLast(x.told))
            /\ (NoResult(Sock.told) => NoResult(x.told))
        BY <1>1, <2>4, <2>6 DEF Good, NoResult
      <3>2. Sock.stage = "asked" => current \in E
        OBVIOUS
      <3>3. current \notin E => current \notin early
        OBVIOUS
      <3> QED
        BY <1>1, <2>6, <3>1, <3>2, <3>3 DEF Good, Quiet, Pending
    <2>8. client => Heard(x, manager /\ ~TRUE)
      BY <2>4, <2>6 DEF Heard
    <2>9. /\ E \subseteq Attempts /\ OnSocket(x)[current] = x /\ OnSocket(x) \in [Attempts -> Sockets]
          /\ \A a \in Attempts \ {current} : OnSocket(x)[a] = so[a] /\ (a \in E <=> a \in early)
      BY <1>1, <2>6 DEF CliInv, OnSocket
    <2>10. Sound(OnSocket(x), E)
      <3>1. \A a \in Attempts \ {current} : Good(so[a], a \in early) /\ Left(so[a])
        BY DEF CliInv
      <3>2. \A a \in Attempts \ {current} : Good(so[a], a \in E)
        BY <2>9, <3>1 DEF Good
      <3>3. \A a \in Attempts : Good(OnSocket(x)[a], a \in E) /\ (a # current => Left(OnSocket(x)[a]))
        BY <2>7, <2>9, <3>1, <3>2
      <3> QED
        BY <1>1, <2>6, <2>9, <3>3 DEF Sound
    <2>11. client => Heard(OnSocket(x)[current], manager /\ ~TRUE)
      BY <2>8, <2>9
    <2> HIDE DEF E
    <2> QED
      BY <1>1, <2>1, <2>10, <2>11, CallbackKeeps
  <1> QED
    BY <1>2, <1>3

LEMMA ErrorKeeps == ASSUME CliInv, ConnectionFails \/ RunShutdown PROVE CliInv'
  <1>1. CASE ConnectionFails
    <2>1. Live /\ CliEmitErr(FALSE) /\ client' = client
      BY <1>1 DEF ConnectionFails
    <2> QED
      BY <2>1, EmitErrKeeps
  <1>2. CASE RunShutdown
    <2>1. CASE client /\ Live
      <3>1. CliEmitErr(TRUE) /\ client' = client
        BY <1>2, <2>1 DEF RunShutdown
      <3> QED
        BY <2>1, <3>1, EmitErrKeeps
    <2>2. CASE ~(client /\ Live)
      <3>1. UNCHANGED <<current, so, manager, early, client>>
        BY <1>2, <2>2 DEF RunShutdown
      <3> QED
        BY <3>1 DEF CliInv, Live, Sock
    <2> QED
      BY <2>1, <2>2
  <1> QED
    BY <1>1, <1>2

LEMMA ReleaseKeeps == ASSUME CliInv, Release \/ SafeShutdown PROVE CliInv'
  BY DEF CliInv, Live, Sock, Release, SafeShutdown

LEMMA DeleteKeeps == ASSUME CliInv, DeleteSocket PROVE CliInv'
  <1>1. /\ current \in Attempts /\ Good(Sock, current \in early) /\ Sock.stage # "new"
        /\ (current \in early) \in BOOLEAN
    BY CurrentIs DEF DeleteSocket
  <1> DEFINE x == CloseSock(Sock, TRUE)
  <1>2. Good(x, current \in early) /\ Left(x)
    BY <1>1, CloseKeeps
  <1> HIDE DEF x
  <1>3. /\ so' = [so EXCEPT ![current] = x] /\ current' = NoAttempt /\ client' = FALSE /\ ~client
        /\ UNCHANGED <<manager, early>>
    BY DEF DeleteSocket, OnSocket, x, CliInv
  <1>4. so' \in [Attempts -> Sockets] /\ \A a \in Attempts : so'[a] = IF a = current THEN x ELSE so[a]
    BY <1>2, <1>3 DEF CliInv, Good
  <1>5. \A a \in Attempts : Good(so'[a], a \in early) /\ Left(so'[a])
    BY <1>2, <1>4 DEF CliInv
  <1> QED
    BY <1>3, <1>4, <1>5 DEF CliInv, Live, Sock

-----------------------------------------------------------------------------
LEMMA CliInitKeeps == ASSUME CliInit PROVE CliInv
  <1>1. so = [a \in Attempts |-> Unused] /\ current = NoAttempt /\ early = {}
        /\ manager = FALSE /\ client = TRUE
    BY DEF CliInit
  <1>2. so \in [Attempts -> Sockets] /\ \A a \in Attempts : Good(so[a], a \in early) /\ Left(so[a])
    <2>1. ASSUME NEW a \in Attempts PROVE so[a] = Unused
      BY <1>1
    <2>3. ASSUME NEW a \in Attempts PROVE (a \in early) \in BOOLEAN
      OBVIOUS
    <2>2. Unused \in Sockets /\ \A e \in BOOLEAN : Good(Unused, e) /\ Left(Unused)
      BY UnusedIsGood
    <2>4. so \in [Attempts -> Sockets]
      BY <1>1, <2>2
    <2> QED
      BY <2>1, <2>2, <2>3, <2>4
  <1>3. \A a \in Attempts : so[a].stage = "new"
    BY <1>1 DEF Unused
  <1> QED
    BY <1>1, <1>2, <1>3 DEF CliInv, Live

LEMMA CliStepKeeps == ASSUME CliInv, [CliNext]_cliVars PROVE CliInv'
  <1>1. CASE UNCHANGED cliVars
    BY <1>1 DEF CliInv, Live, Sock, cliVars
  <1>2. CASE LoopTask
    BY <1>2, RunConnectKeeps, ResultKeeps, ErrorKeeps, DeleteKeeps, TooLateKeeps DEF LoopTask
  <1>3. CASE ConnectTimeout \/ OnConnected \/ OnRead \/ ConnectionFails
    BY <1>3, TimeoutKeeps, ConnectedKeeps, OnReadKeeps, ErrorKeeps
  <1>4. CASE CliReconnect \/ SafeShutdown \/ Release \/ PeerSends
    BY <1>4, CliReconnectKeeps, ReleaseKeeps, PeerSendsKeeps
  <1>5. CASE \E b \in BOOLEAN : EnableRecv(b)
    BY <1>5, EnableRecvKeeps
  <1>6. CASE \E a \in Attempts : StartConnect(a) \/ Resolves(a) \/ CannotResolve(a)
    BY <1>6, StartConnectKeeps, ResolvesKeeps
  <1> QED
    BY <1>1, <1>2, <1>3, <1>4, <1>5, <1>6 DEF CliNext

LEMMA CliInvariance == CliSpec => []CliInv
  BY CliInitKeeps, CliStepKeeps, PTL DEF CliSpec

(* However often the client reconnects, shuts down or is dropped inside its *)
(* callbacks, each attempt reports once, nothing follows its error, and the *)
(* descriptors of attempts that were left are closed (connect_l's con_cb,   *)
(* weak_task, closeSock).                                                   *)
THEOREM OneResultEach == CliSpec => []OneResult
  <1>1. CliInv => OneResult
    <2> SUFFICES ASSUME CliInv, NEW a \in Attempts
                 PROVE  /\ \A i, j \in Results(so[a]) : i = j
                        /\ \A i, j \in 1 .. Len(so[a].told) :
                             i < j /\ so[a].told[i] = "err" => so[a].told[j] = "err" \/ a \in early
                        /\ so[a].fd = "held" => a = current
                        /\ so[a].fd = "carried" => so[a].stage = "resolved"
      BY DEF OneResult
    <2>1. Good(so[a], a \in early) /\ (a # current => Left(so[a]))
      BY DEF CliInv
    <2>2. \A i, j \in Results(so[a]) : i = j
      BY <2>1 DEF Good, Once, Results
    <2>3. \A i, j \in 1 .. Len(so[a].told) :
            i < j /\ so[a].told[i] = "err" => so[a].told[j] = "err" \/ a \in early
      BY <2>1 DEF Good, ErrLast
    <2> QED
      BY <2>1, <2>2, <2>3 DEF Good, Left
  <1> QED
    BY <1>1, CliInvariance, PTL

(* A connection that is up stays watched, what has come is read, and the    *)
(* manager's timer runs (onConnected, enableRecv, TcpClient::onSockConnect).*)
THEOREM ConnectionHeard == CliSpec => []ConnectedIsHeard
  <1>1. CliInv => ConnectedIsHeard
    <2> SUFFICES ASSUME CliInv, client, Live, Sock.told = <<"ok">>
                 PROVE  /\ Sock.fd = "held" /\ Sock.watch = "all"
                        /\ Sock.inbox > 0 /\ Sock.recv => Sock.edge
                        /\ manager
      BY DEF ConnectedIsHeard
    <2>1. Good(Sock, current \in early) /\ Heard(Sock, manager)
      BY CurrentIs
    <2> QED
      BY <2>1 DEF Good, Heard
  <1> QED
    BY <1>1, CliInvariance, PTL

=============================================================================
