--------------------------- MODULE RingBufferProofs ---------------------------
(* ReadersServed for any pollers, readers and limits of the caches.         *)
EXTENDS RingBuffer, FiniteSetTheorems, SequenceTheorems, WellFoundedInduction, TLAPS

RingTyped ==
  /\ open \in BOOLEAN /\ written \in 0 .. MaxWrites /\ firstKey \in 0 .. written
  /\ ring \in Storages /\ dstore \in [Readers -> Storages]
  /\ disp \in [Pollers -> Readers \cup {None}] /\ dmap \in [Readers -> SUBSET Readers]
  /\ tasks \in [Pollers -> Seq(Tasks)]
  /\ cur \in [Pollers -> Tasks \cup {None}] /\ todo \in [Pollers -> SUBSET Readers]
  /\ home \in [Readers -> Pollers \cup {None}] /\ owner \in [Readers -> Readers \cup {None}]
  /\ ref \in [Readers -> {"new", "attached", "listening", "released", "gone"}]
  /\ mark \in [Readers -> Nat] /\ seen \in [Readers -> Seq(Nat)]
  /\ detached \in [Readers -> {0, 1}]
  /\ count \in Int /\ reporting \in SUBSET Pollers

(* The readers that dispatchers were created for.                           *)
Made == {d \in Readers : owner[d] = d}

About(task, d) == task.op # "dealloc" /\ task.disp = d
InQueue(q, d) == \E i \in 1 .. Len(q) : About(q[i], d)
Runs(p, d) == cur[p] # None /\ cur[p].disp = d
Pending(d) == InQueue(tasks[home[d]], d) \/ Runs(home[d], d)

(* Readers belong to a dispatcher of their poller.                          *)
OwnerInv ==
  /\ \A r \in Readers : (ref[r] = "new" <=> owner[r] = None) /\ (owner[r] = None <=> home[r] = None)
  /\ \A r \in Readers : owner[r] # None => owner[r] \in Made /\ home[owner[r]] = home[r]

(* A poller is in the ring's map as long as it has readers.                 *)
MapInv ==
  /\ \A d \in Readers : \A r \in dmap[d] : owner[r] = d
  /\ \A p \in Pollers : disp[p] # None =>
       open /\ disp[p] \in Made /\ home[disp[p]] = p /\ dmap[disp[p]] # {}
  /\ open => \A r \in Readers : Registered(r) => disp[home[r]] = owner[r]

(* A task is for a dispatcher or a reader of its poller.                    *)
Settled(p, task) ==
  IF task.op = "dealloc" THEN home[task.reader] = p /\ ref[task.reader] \in {"released", "gone"}
  ELSE task.disp \in Made /\ home[task.disp] = p

QueueInv == \A p \in Pollers : \A i \in 1 .. Len(tasks[p]) : Settled(p, tasks[p][i])

VisitInv ==
  \A p \in Pollers :
    /\ cur[p] # None => cur[p].op = "write" /\ cur[p].disp \in Made /\ home[cur[p].disp] = p
    /\ \A r \in todo[p] : cur[p] # None /\ owner[r] = cur[p].disp

(* A dispatcher is deleted by the last task that holds it.                  *)
DeletesLast(q) ==
  \A i, j \in 1 .. Len(q) : q[i].op = "delete" /\ About(q[j], q[i].disp) => j = i

LastInv ==
  /\ \A r \in Readers : Alive(r) => Registered(r) \/ detached[r] = 1
  /\ \A r \in Readers : detached[r] = 1 =>
       ~open /\ ~Registered(r) /\ owner[r] # None /\ ~Pending(owner[r])
  /\ ~open => \A r \in Readers : Alive(r) /\ detached[r] = 0 => Pending(owner[r])
  /\ \A p \in Pollers : DeletesLast(tasks[p])
  /\ \A p \in Pollers : \A i \in 1 .. Len(tasks[p]) :
       tasks[p][i].op = "delete" => ~open /\ ~Runs(p, tasks[p][i].disp)

CountInv == open => IsFiniteSet({r \in Readers : Registered(r)})
                    /\ count = Cardinality({r \in Readers : Registered(r)})

(* The numbers of a cache, or of what was seen, are a stretch that ends     *)
(* with n.                                                                  *)
CacheTo(c, n) == \A i \in 1 .. Len(c) : c[i].n + (Len(c) - i) = n
SeenTo(s, n) == \A i \in 1 .. Len(s) : s[i] + (Len(s) - i) = n

(* A storage after the write of item n, where k is the first key frame.     *)
StoredTo(s, n, k) ==
  /\ CacheTo(s.cache, n)
  /\ s.started /\ ~s.idr => s.cache = <<>>
  /\ s.idr => s.started /\ s.cache # <<>>
  /\ ~s.started => k = 0 \/ n < k
  /\ s.cache # <<>> => s.cache[1].key \/ k = 0 \/ s.cache[1].n < k

GoodItem(item, k) == ~item.key => item.n # k

(* The writes queued for a dispatcher are those of the items n + 1 .. m.    *)
Writes(q, d) == {i \in 1 .. Len(q) : IsWriteFor(q[i], d)}

Lined(q, d, n, m) ==
  /\ \A i \in Writes(q, d) : q[i].item.n \in n + 1 .. m
  /\ \A i, j \in Writes(q, d) : i < j => q[i].item.n < q[j].item.n
  /\ \A k \in n + 1 .. m : \E i \in Writes(q, d) : q[i].item.n = k

Served(d) == disp[home[d]] = d \/ \E r \in Readers : Alive(r) /\ owner[r] = d

(* d has dispatched the items up to n, and the items up to m are queued.    *)
NumbersAt(d, n, m) == n <= m /\ m <= written /\ (Served(d) => m = written)

CachedTo(d, n) ==
  IF Runs(home[d], d) THEN cur[home[d]].item.n = n /\ StoredTo(dstore[d], n - 1, firstKey)
  ELSE StoredTo(dstore[d], n, firstKey)

ReadTo(r, n) == SeenTo(seen[r], n) /\ (seen[r] = <<>> => mark[r] = n)

ServedTo(d, n) ==
  \A r \in Readers : ref[r] = "listening" /\ owner[r] = d =>
    IF r \in todo[home[d]] THEN ReadTo(r, n - 1) ELSE ReadTo(r, n)

DispAt(d, n, m) ==
  /\ NumbersAt(d, n, m)
  /\ Lined(tasks[home[d]], d, n, m)
  /\ CachedTo(d, n)
  /\ ServedTo(d, n)

GoodItems(k) ==
  \A p \in Pollers :
    /\ cur[p] # None => GoodItem(cur[p].item, k)
    /\ \A i \in 1 .. Len(tasks[p]) : tasks[p][i].op = "write" => GoodItem(tasks[p][i].item, k)

StreamInv ==
  /\ StoredTo(ring, written, firstKey)
  /\ \A d \in Made : \E n, m \in Nat : DispAt(d, n, m)
  /\ \A d \in Readers : d \notin Made => dstore[d] = EmptyStorage
  /\ GoodItems(firstKey)

HomeInv == OwnerInv /\ MapInv /\ QueueInv /\ VisitInv

RingInv == RingTyped /\ HomeInv /\ LastInv /\ CountInv /\ StreamInv

-----------------------------------------------------------------------------
(* The storage.                                                             *)

LEMMA FirstOf ==
  ASSUME NEW S \in SUBSET Nat, S # {}
  PROVE  LET i == CHOOSE i \in S : \A j \in S : i <= j IN i \in S
  <1> DEFINE R == OpToRel(<, Nat)
  <1>1. IsWellFoundedOn(R, Nat)
    BY NatLessThanWellFounded
  <1> HIDE DEF R
  <1>2. PICK x \in S : \A y \in S : <<y, x>> \notin R
    BY <1>1, WFMin
  <1>3. \A y \in S : ~(y < x)
    BY <1>2 DEF R, OpToRel
  <1>4. x \in S /\ \A n \in S : x <= n
    BY <1>3
  <1> QED
    BY <1>4

LEMMA ItemParts ==
  ASSUME NEW x \in Items
  PROVE  x.n \in Nat /\ x.n \in 1 .. MaxWrites /\ x.key \in BOOLEAN
  BY BoundAssumption DEF Items

StartsWell(c, k) == c # <<>> => c[1].key \/ k = 0 \/ c[1].n < k

(* What of a cache begins where a gop does.                                 *)
LEMMA CutAtHead ==
  ASSUME NEW c \in Seq(Items), NEW i \in Heads(c), NEW n \in Int, NEW k \in Nat,
         CacheTo(c, n), StartsWell(c, k)
  PROVE  /\ From(c, i) \in Seq(Items) /\ From(c, i) # <<>>
         /\ CacheTo(From(c, i), n) /\ StartsWell(From(c, i), k)
  <1>1. i \in 1 .. Len(c) /\ (i = 1 \/ c[i].key) /\ Len(c) \in Nat /\ c # <<>>
    BY DEF Heads
  <1>2. \A j \in i .. Len(c) : c[j] \in Items
    BY <1>1, ElementOfSeq
  <1>3. i \in Int /\ Len(c) \in Int /\ i <= Len(c)
    BY <1>1
  <1>4. /\ From(c, i) \in Seq(Items) /\ Len(From(c, i)) = Len(c) - i + 1
        /\ \A j \in 1 .. Len(c) - i + 1 : From(c, i)[j] = c[i + j - 1]
    BY <1>2, <1>3, SubSeqProperties DEF From
  <1>5. From(c, i) # <<>> /\ From(c, i)[1] = c[i]
    BY <1>1, <1>4
  <1>6. CacheTo(From(c, i), n)
    <2>1. PICK l : l = Len(c)
      OBVIOUS
    <2>2. PICK d : d = From(c, i)
      OBVIOUS
    <2>3. \A j \in 1 .. l : c[j].n \in Int /\ c[j].n + (l - j) = n
      <3>1. \A j \in 1 .. l : c[j].n \in Int
        BY <2>1, ElementOfSeq, ItemParts
      <3> QED
        BY <2>1, <3>1 DEF CacheTo
    <2>4. l \in Nat /\ i \in 1 .. l /\ Len(d) = l - i + 1
      BY <1>1, <1>4, <2>1, <2>2
    <2>5. \A j \in 1 .. l - i + 1 : d[j] = c[i + j - 1]
      BY <1>4, <2>1, <2>2
    <2>6. \A j \in 1 .. l - i + 1 : d[j].n + (l - i + 1 - j) = n
      <3>1. SUFFICES ASSUME NEW j \in 1 .. l - i + 1
                     PROVE  d[j].n + (l - i + 1 - j) = n
        OBVIOUS
      <3>2. PICK a : a = i + j - 1
        OBVIOUS
      <3>3. a \in 1 .. l /\ d[j] = c[a]
        BY <2>4, <2>5, <3>2
      <3>4. c[a].n \in Int /\ c[a].n + (l - a) = n
        BY <2>3, <3>3
      <3> QED
        BY <2>4, <3>2, <3>3, <3>4
    <2> QED
      BY <2>2, <2>4, <2>6 DEF CacheTo
  <1> QED
    BY <1>1, <1>4, <1>5, <1>6 DEF StartsWell

LEMMA HeadsAreNumbers ==
  ASSUME NEW c, NEW S \in SUBSET Heads(c)
  PROVE  S \in SUBSET Nat
  BY DEF Heads

LEMMA EmptyCache ==
  ASSUME NEW n, NEW k
  PROVE  <<>> \in Seq(Items) /\ CacheTo(<<>>, n) /\ StartsWell(<<>>, k)
  BY DEF CacheTo, StartsWell

LEMMA StartGopKeeps ==
  ASSUME NEW c \in Seq(Items), NEW n \in Int, NEW k \in Nat, CacheTo(c, n), StartsWell(c, k)
  PROVE  StartGop(c) \in Seq(Items) /\ CacheTo(StartGop(c), n) /\ StartsWell(StartGop(c), k)
  <1>1. PopFrontGop(c) \in Seq(Items) /\ CacheTo(PopFrontGop(c), n) /\ StartsWell(PopFrontGop(c), k)
    <2> DEFINE later == Heads(c) \ {1}
               i == CHOOSE i \in later : \A j \in later : i <= j
    <2>1. CASE later = {}
      BY <2>1, EmptyCache DEF PopFrontGop
    <2>2. CASE later # {}
      <3>1. i \in Heads(c)
        BY <2>2, HeadsAreNumbers, FirstOf
      <3>2. PopFrontGop(c) = From(c, i)
        BY <2>2 DEF PopFrontGop
      <3> QED
        BY <3>1, <3>2, CutAtHead
    <2> QED
      BY <2>1, <2>2
  <1> QED
    BY <1>1 DEF StartGop

LEMMA FlushGopKeeps ==
  ASSUME NEW c \in Seq(Items), NEW n \in Int, NEW k \in Nat, CacheTo(c, n), StartsWell(c, k),
         NEW gops
  PROVE  FlushGop(c, gops) \in Seq(Items) /\ CacheTo(FlushGop(c, gops), n)
  <1> DEFINE kept == {i \in Heads(c) : Cardinality({j \in Heads(c) : j >= i}) <= gops}
             i == CHOOSE i \in kept : \A j \in kept : i <= j
  <1>1. CASE kept = {}
    BY <1>1, EmptyCache DEF FlushGop
  <1>2. CASE kept # {}
    <2>1. i \in Heads(c)
      BY <1>2, HeadsAreNumbers, FirstOf
    <2>2. FlushGop(c, gops) = From(c, i)
      BY <1>2 DEF FlushGop
    <2> QED
      BY <2>1, <2>2, CutAtHead
  <1> QED
    BY <1>1, <1>2

(* Overflow drops gops from the front, or everything.                       *)
LEMMA TrimKeeps ==
  ASSUME NEW s \in Storages, NEW n \in Int, NEW k \in Nat, s.cache # <<>>,
         CacheTo(s.cache, n), StartsWell(s.cache, k)
  PROVE  /\ Trim(s) \in Storages /\ CacheTo(Trim(s).cache, n) /\ StartsWell(Trim(s).cache, k)
         /\ Trim(s).started = s.started
         /\ \/ Trim(s).idr = s.idr /\ Trim(s).cache # <<>>
            \/ Trim(s).idr = FALSE /\ Trim(s).cache = <<>>
  <1> DEFINE i == CHOOSE i \in Fits(s.cache) : \A j \in Fits(s.cache) : i <= j
             t == [s EXCEPT !.cache = From(s.cache, i)]
  <1>1. CASE Trim(s) = s
    BY <1>1
  <1>2. CASE Trim(s) = ClearCache(s)
    <2>1. ClearCache(s).idr = FALSE /\ ClearCache(s).cache = <<>> /\ ClearCache(s).started = s.started
      BY DEF ClearCache, Storages
    <2>2. ClearCache(s) \in Storages
      BY EmptyCache DEF ClearCache, Storages
    <2> QED
      BY <1>2, <2>1, <2>2, EmptyCache
  <1>3. CASE Fits(s.cache) # {} /\ Trim(s) = t
    <2>1. i \in Heads(s.cache)
      <3>1. Fits(s.cache) \in SUBSET Heads(s.cache)
        BY DEF Fits
      <3> QED
        BY <1>3, <3>1, HeadsAreNumbers, FirstOf
    <2>2. s.cache \in Seq(Items)
      BY DEF Storages
    <2>3. /\ From(s.cache, i) \in Seq(Items) /\ From(s.cache, i) # <<>>
          /\ CacheTo(From(s.cache, i), n) /\ StartsWell(From(s.cache, i), k)
      BY <2>1, <2>2, CutAtHead
    <2> HIDE DEF i
    <2>4. t \in Storages /\ t.cache = From(s.cache, i) /\ t.started = s.started /\ t.idr = s.idr
      BY <2>3 DEF Storages
    <2> QED
      BY <1>3, <2>3, <2>4
  <1> QED
    BY <1>1, <1>2, <1>3 DEF Trim

LEMMA CacheAppend ==
  ASSUME NEW c \in Seq(Items), NEW n \in Nat, NEW k \in Nat, CacheTo(c, n), StartsWell(c, k),
         NEW x \in Items, x.n = n + 1, c = <<>> => x.key \/ k = 0 \/ n + 1 < k
  PROVE  /\ Append(c, x) \in Seq(Items) /\ Append(c, x) # <<>>
         /\ CacheTo(Append(c, x), n + 1) /\ StartsWell(Append(c, x), k)
  <1>1. PICK l : l = Len(c)
    OBVIOUS
  <1>2. PICK d : d = Append(c, x)
    OBVIOUS
  <1>3. /\ l \in Nat /\ d \in Seq(Items) /\ Len(d) = l + 1 /\ d[l + 1] = x
        /\ \A i \in 1 .. l : d[i] = c[i]
    BY <1>1, <1>2
  <1>4. \A i \in 1 .. l : c[i].n \in Int /\ c[i].n + (l - i) = n
    <2>1. \A i \in 1 .. l : c[i].n \in Int
      BY <1>1, ElementOfSeq, ItemParts
    <2> QED
      BY <1>1, <2>1 DEF CacheTo
  <1>5. \A i \in 1 .. l + 1 : d[i].n + (l + 1 - i) = n + 1
    <2>1. SUFFICES ASSUME NEW i \in 1 .. l + 1
                   PROVE  d[i].n + (l + 1 - i) = n + 1
      OBVIOUS
    <2>2. CASE i = l + 1
      BY <1>3, <2>2
    <2>3. CASE i \in 1 .. l
      <3>1. d[i] = c[i] /\ c[i].n \in Int /\ c[i].n + (l - i) = n
        BY <1>3, <1>4, <2>3
      <3> QED
        BY <1>3, <2>3, <3>1
    <2> QED
      BY <1>3, <2>2, <2>3
  <1>6. StartsWell(d, k)
    <2>1. CASE c = <<>>
      <3>1. d[1] = x
        BY <1>1, <1>3, <2>1
      <3> QED
        BY <2>1, <3>1 DEF StartsWell
    <2>2. CASE c # <<>>
      <3>1. d[1] = c[1]
        BY <1>1, <1>3, <2>2
      <3> QED
        BY <2>2, <3>1 DEF StartsWell
    <2> QED
      BY <2>1, <2>2
  <1>7. CacheTo(d, n + 1)
    <2>1. PICK j : j = l + 1
      OBVIOUS
    <2>2. Len(d) = j /\ \A i \in 1 .. j : d[i].n + (j - i) = n + 1
      BY <1>3, <1>5, <2>1
    <2> QED
      BY <2>2 DEF CacheTo
  <1> QED
    BY <1>2, <1>3, <1>6, <1>7

(* The next item of the stream is cached where it may be.                   *)
LEMMA WriteStorageKeeps ==
  ASSUME NEW s \in Storages, NEW n \in Nat, NEW k \in Nat, StoredTo(s, n, k),
         NEW x \in Items, x.n = n + 1, GoodItem(x, k)
  PROVE  WriteStorage(s, x) \in Storages /\ StoredTo(WriteStorage(s, x), n + 1, k)
  <1>1. /\ s.cache \in Seq(Items) /\ s.started \in BOOLEAN /\ s.idr \in BOOLEAN
        /\ CacheTo(s.cache, n) /\ StartsWell(s.cache, k) /\ x.key \in BOOLEAN
    BY ItemParts DEF StoredTo, StartsWell, Storages
  <1>2. CASE x.key
    <2> DEFINE c == Append(StartGop(s.cache), x)
               t == [started |-> TRUE, idr |-> TRUE, cache |-> StartGop(s.cache)]
               u == [t EXCEPT !.cache = c]
    <2>1. StartGop(s.cache) \in Seq(Items) /\ CacheTo(StartGop(s.cache), n)
          /\ StartsWell(StartGop(s.cache), k)
      BY <1>1, StartGopKeeps
    <2>2. c \in Seq(Items) /\ c # <<>> /\ CacheTo(c, n + 1) /\ StartsWell(c, k)
      BY <1>2, <2>1, CacheAppend
    <2>3. WriteStorage(s, x) = Trim(u)
      <3>1. t.idr /\ Append(t.cache, x) = c
        OBVIOUS
      <3>2. WriteStorage(s, x) = IF ~t.idr /\ t.started THEN t
                                 ELSE Trim([t EXCEPT !.cache = Append(t.cache, x)])
        BY <1>2, Zenon DEF WriteStorage
      <3> QED
        BY <3>1, <3>2
    <2> HIDE DEF c
    <2>4. u \in Storages /\ u.cache = c /\ u.started = TRUE /\ u.idr = TRUE
      <3>1. t \in Storages /\ t.started = TRUE /\ t.idr = TRUE
        BY <2>1 DEF Storages
      <3> HIDE DEF t
      <3> QED
        BY <2>2, <3>1 DEF Storages
    <2> HIDE DEF u
    <2>m. /\ u \in Storages /\ n + 1 \in Int /\ u.cache # <<>>
          /\ CacheTo(u.cache, n + 1) /\ StartsWell(u.cache, k)
      BY <2>2, <2>4
    <2>5. /\ Trim(u) \in Storages /\ CacheTo(Trim(u).cache, n + 1) /\ StartsWell(Trim(u).cache, k)
          /\ Trim(u).started = TRUE
          /\ \/ Trim(u).idr = TRUE /\ Trim(u).cache # <<>>
             \/ Trim(u).idr = FALSE /\ Trim(u).cache = <<>>
      BY <2>m, <2>4, TrimKeeps
    <2> QED
      BY <2>3, <2>5 DEF StoredTo, StartsWell
  <1>3. CASE ~x.key /\ ~s.idr /\ s.started
    <2>1. WriteStorage(s, x) = s /\ s.cache = <<>>
      BY <1>3 DEF WriteStorage, StoredTo
    <2> QED
      BY <1>3, <2>1, EmptyCache DEF StoredTo
  <1>4. CASE ~x.key /\ ~(~s.idr /\ s.started)
    <2> DEFINE c == Append(s.cache, x)
               u == [s EXCEPT !.cache = c]
    <2>1. s.cache = <<>> => k = 0 \/ n + 1 < k
      BY <1>1, <1>4 DEF StoredTo, GoodItem
    <2>2. c \in Seq(Items) /\ c # <<>> /\ CacheTo(c, n + 1) /\ StartsWell(c, k)
      BY <1>1, <2>1, CacheAppend
    <2>3. WriteStorage(s, x) = Trim(u)
      BY <1>4 DEF WriteStorage
    <2> HIDE DEF c
    <2>4. u \in Storages /\ u.cache = c /\ u.started = s.started /\ u.idr = s.idr
      BY <2>2 DEF Storages
    <2> HIDE DEF u
    <2>m. /\ u \in Storages /\ n + 1 \in Int /\ u.cache # <<>>
          /\ CacheTo(u.cache, n + 1) /\ StartsWell(u.cache, k)
      BY <2>2, <2>4
    <2>5. /\ Trim(u) \in Storages /\ CacheTo(Trim(u).cache, n + 1) /\ StartsWell(Trim(u).cache, k)
          /\ Trim(u).started = s.started
          /\ \/ Trim(u).idr = s.idr /\ Trim(u).cache # <<>>
             \/ Trim(u).idr = FALSE /\ Trim(u).cache = <<>>
      BY <2>m, <2>4, TrimKeeps
    <2>6. ~s.started => k = 0 \/ n + 1 < k
      BY <1>4 DEF StoredTo, GoodItem
    <2> QED
      BY <1>1, <1>4, <2>3, <2>5, <2>6 DEF StoredTo, StartsWell
  <1> QED
    BY <1>1, <1>2, <1>3, <1>4

-----------------------------------------------------------------------------
(* The queues.                                                              *)

LEMMA TaskParts ==
  ASSUME NEW x \in Tasks
  PROVE  /\ x.op \in {"write", "clear", "delete", "dealloc"} /\ x # None
         /\ x.op # "dealloc" => x.disp \in Readers
         /\ x.op = "write" => x.item \in Items
         /\ x.op = "dealloc" => x.reader \in Readers
  BY NoTaskAssumption DEF Tasks

LEMMA AppendIs ==
  ASSUME NEW q \in Seq(Tasks), NEW x \in Tasks
  PROVE  /\ Append(q, x) \in Seq(Tasks) /\ Len(q) \in Nat /\ Len(Append(q, x)) = Len(q) + 1
         /\ Append(q, x)[Len(q) + 1] = x
         /\ \A i \in 1 .. Len(q) : Append(q, x)[i] = q[i] /\ q[i] \in Tasks
  OBVIOUS

LEMMA TailIs ==
  ASSUME NEW q \in Seq(Tasks), q # <<>>
  PROVE  /\ Tail(q) \in Seq(Tasks) /\ Head(q) \in Tasks /\ Head(q) = q[1]
         /\ Len(q) \in Nat \ {0} /\ Len(Tail(q)) = Len(q) - 1
         /\ \A i \in 1 .. Len(q) - 1 : Tail(q)[i] = q[i + 1] /\ Tail(q)[i] \in Tasks
         /\ \A i \in 1 .. Len(q) : q[i] \in Tasks
  OBVIOUS

LEMMA WriteNumber ==
  ASSUME NEW q \in Seq(Tasks), NEW d, NEW i \in Writes(q, d)
  PROVE  i \in Nat /\ i \in 1 .. Len(q) /\ q[i].item.n \in Nat
  <1>1. i \in 1 .. Len(q) /\ q[i].op = "write" /\ q[i] \in Tasks
    BY DEF Writes, IsWriteFor
  <1> QED
    BY <1>1, TaskParts, ItemParts

LEMMA LinedAppend ==
  ASSUME NEW q \in Seq(Tasks), NEW d, NEW n \in Nat, NEW m \in Nat, n <= m, Lined(q, d, n, m),
         NEW x \in Tasks, IsWriteFor(x, d), x.item.n = m + 1
  PROVE  Lined(Append(q, x), d, n, m + 1)
  <1>1. PICK l : l = Len(q)
    OBVIOUS
  <1>2. PICK e : e = Append(q, x)
    OBVIOUS
  <1>3. /\ e \in Seq(Tasks) /\ l \in Nat /\ Len(e) = l + 1 /\ e[l + 1] = x
        /\ \A i \in 1 .. l : e[i] = q[i]
    BY <1>1, <1>2, AppendIs
  <1>4. Writes(e, d) = Writes(q, d) \cup {l + 1}
    BY <1>1, <1>3 DEF Writes
  <1>5. \A i \in Writes(q, d) : i \in 1 .. l /\ q[i].item.n \in n + 1 .. m /\ e[i] = q[i]
    BY <1>1, <1>3, WriteNumber DEF Lined
  <1>6. \A i \in Writes(e, d) : e[i].item.n \in n + 1 .. m + 1
    BY <1>3, <1>4, <1>5
  <1>7. ASSUME NEW i \in Writes(e, d), NEW j \in Writes(e, d), i < j
        PROVE  e[i].item.n < e[j].item.n
    <2>1. i \in Writes(q, d)
      <3>1. j \in 1 .. l + 1 /\ i \in 1 .. l + 1
        BY <1>3 DEF Writes
      <3>2. i # l + 1
        BY <1>3, <1>7, <3>1
      <3> QED
        BY <1>4, <3>2
    <2>2. CASE j = l + 1
      <3>1. e[i].item.n \in n + 1 .. m
        BY <1>5, <2>1
      <3>2. e[j].item.n = m + 1
        BY <1>3, <2>2
      <3> QED
        BY <3>1, <3>2
    <2>3. CASE j \in Writes(q, d)
      BY <1>5, <1>7, <2>1, <2>3 DEF Lined
    <2> QED
      BY <1>4, <2>2, <2>3
  <1>8. ASSUME NEW k \in n + 1 .. m + 1
        PROVE  \E i \in Writes(e, d) : e[i].item.n = k
    <2>1. CASE k = m + 1
      BY <1>3, <1>4, <2>1
    <2>2. CASE k \in n + 1 .. m
      <3>1. PICK i \in Writes(q, d) : q[i].item.n = k
        BY <2>2 DEF Lined
      <3> QED
        BY <1>4, <1>5, <3>1
    <2> QED
      BY <2>1, <2>2
  <1> QED
    BY <1>2, <1>6, <1>7, <1>8 DEF Lined

LEMMA LinedAppendOther ==
  ASSUME NEW q \in Seq(Tasks), NEW d, NEW n \in Nat, NEW m \in Nat, Lined(q, d, n, m),
         NEW x \in Tasks, ~IsWriteFor(x, d)
  PROVE  Lined(Append(q, x), d, n, m)
  <1>1. PICK l : l = Len(q)
    OBVIOUS
  <1>2. PICK e : e = Append(q, x)
    OBVIOUS
  <1>3. /\ e \in Seq(Tasks) /\ l \in Nat /\ Len(e) = l + 1 /\ e[l + 1] = x
        /\ \A i \in 1 .. l : e[i] = q[i]
    BY <1>1, <1>2, AppendIs
  <1>4. Writes(e, d) = Writes(q, d)
    BY <1>1, <1>3 DEF Writes
  <1>5. \A i \in Writes(q, d) : e[i] = q[i]
    BY <1>1, <1>3, WriteNumber
  <1> QED
    BY <1>2, <1>4, <1>5 DEF Lined

LEMMA TailWrites ==
  ASSUME NEW q \in Seq(Tasks), q # <<>>, NEW d
  PROVE  /\ \A i \in Writes(Tail(q), d) : i + 1 \in Writes(q, d) /\ Tail(q)[i] = q[i + 1] /\ i \in Nat
         /\ \A i \in Writes(q, d) : i \in Nat \ {0}
         /\ \A i \in Writes(q, d) : i # 1 => i - 1 \in Writes(Tail(q), d) /\ Tail(q)[i - 1] = q[i]
         /\ 1 \in Writes(q, d) <=> IsWriteFor(Head(q), d)
  <1>1. PICK l : l = Len(q)
    OBVIOUS
  <1>2. PICK e : e = Tail(q)
    OBVIOUS
  <1>3. /\ l \in Nat \ {0} /\ Len(e) = l - 1 /\ Head(q) = q[1]
        /\ \A i \in 1 .. l - 1 : e[i] = q[i + 1]
    BY <1>1, <1>2, TailIs
  <1>4. ASSUME NEW i \in Writes(e, d)
        PROVE  i + 1 \in Writes(q, d) /\ e[i] = q[i + 1] /\ i \in Nat
    <2>1. i \in 1 .. l - 1 /\ IsWriteFor(e[i], d)
      BY <1>3 DEF Writes
    <2>2. i + 1 \in 1 .. l /\ e[i] = q[i + 1] /\ i \in Nat
      BY <1>3, <2>1
    <2> QED
      BY <1>1, <2>1, <2>2 DEF Writes
  <1>5. ASSUME NEW i \in Writes(q, d), i # 1
        PROVE  i - 1 \in Writes(e, d) /\ e[i - 1] = q[i]
    <2>1. i \in 1 .. l /\ IsWriteFor(q[i], d)
      BY <1>1 DEF Writes
    <2>2. i - 1 \in 1 .. l - 1 /\ i - 1 + 1 = i
      BY <1>3, <1>5, <2>1
    <2>3. e[i - 1] = q[i]
      BY <1>3, <2>2
    <2> QED
      BY <1>3, <2>1, <2>2, <2>3 DEF Writes
  <1>6. \A i \in Writes(q, d) : i \in Nat \ {0}
    BY DEF Writes
  <1>7. 1 \in Writes(q, d) <=> IsWriteFor(Head(q), d)
    BY <1>1, <1>3 DEF Writes
  <1> QED
    BY <1>2, <1>4, <1>5, <1>6, <1>7

LEMMA LinedTail ==
  ASSUME NEW q \in Seq(Tasks), q # <<>>, NEW d, NEW n \in Nat, NEW m \in Nat, Lined(q, d, n, m),
         IsWriteFor(Head(q), d)
  PROVE  Head(q).item.n = n + 1 /\ n + 1 <= m /\ Lined(Tail(q), d, n + 1, m)
  <1>1. PICK e : e = Tail(q)
    OBVIOUS
  <1>2. /\ \A i \in Writes(e, d) : i + 1 \in Writes(q, d) /\ e[i] = q[i + 1] /\ i \in Nat
        /\ \A i \in Writes(q, d) : i \in Nat \ {0}
        /\ \A i \in Writes(q, d) : i # 1 => i - 1 \in Writes(e, d) /\ e[i - 1] = q[i]
        /\ 1 \in Writes(q, d) /\ Head(q) = q[1]
    <2>1. Head(q) = q[1]
      BY TailIs
    <2> QED
      BY <1>1, <2>1, TailWrites
  <1>3. /\ \A i \in Writes(q, d) : q[i].item.n \in n + 1 .. m
        /\ \A i, j \in Writes(q, d) : i < j => q[i].item.n < q[j].item.n
        /\ \A k \in n + 1 .. m : \E i \in Writes(q, d) : q[i].item.n = k
    BY DEF Lined
  <1>4. q[1].item.n = n + 1 /\ n + 1 <= m
    <2>1. q[1].item.n \in n + 1 .. m
      BY <1>2, <1>3
    <2>2. n + 1 \in n + 1 .. m
      BY <2>1
    <2>3. PICK i \in Writes(q, d) : q[i].item.n = n + 1
      BY <1>3, <2>2
    <2>4. CASE i = 1
      BY <2>2, <2>3, <2>4
    <2>5. CASE i # 1
      <3>1. 1 < i
        BY <1>2, <2>5
      <3>2. q[1].item.n < n + 1
        BY <1>2, <1>3, <2>3, <3>1
      <3> QED
        BY <2>1, <3>2
    <2> QED
      BY <2>4, <2>5
  <1>5. ASSUME NEW i \in Writes(e, d)
        PROVE  e[i].item.n \in n + 1 + 1 .. m
    <2>1. 1 < i + 1 /\ i + 1 \in Writes(q, d) /\ e[i] = q[i + 1]
      <3>1. i + 1 \in Writes(q, d) /\ e[i] = q[i + 1] /\ i \in Nat
        BY <1>2
      <3>2. i # 0
        BY DEF Writes
      <3> QED
        BY <3>1, <3>2
    <2>2. q[1].item.n < q[i + 1].item.n /\ q[i + 1].item.n \in n + 1 .. m
      BY <1>2, <1>3, <2>1
    <2> QED
      BY <1>4, <2>1, <2>2
  <1>6. ASSUME NEW i \in Writes(e, d), NEW j \in Writes(e, d), i < j
        PROVE  e[i].item.n < e[j].item.n
    <2>1. i + 1 < j + 1
      BY <1>2, <1>6
    <2>2. q[i + 1].item.n < q[j + 1].item.n
      BY <1>2, <1>3, <2>1
    <2> QED
      BY <1>2, <2>2
  <1>7. ASSUME NEW k \in n + 1 + 1 .. m
        PROVE  \E i \in Writes(e, d) : e[i].item.n = k
    <2>1. k \in n + 1 .. m /\ k # n + 1
      OBVIOUS
    <2>2. PICK i \in Writes(q, d) : q[i].item.n = k
      BY <1>3, <2>1
    <2>3. i # 1
      BY <1>4, <2>1, <2>2
    <2> QED
      BY <1>2, <2>2, <2>3
  <1> QED
    BY <1>1, <1>2, <1>4, <1>5, <1>6, <1>7 DEF Lined

LEMMA LinedTailOther ==
  ASSUME NEW q \in Seq(Tasks), q # <<>>, NEW d, NEW n \in Nat, NEW m \in Nat, Lined(q, d, n, m),
         ~IsWriteFor(Head(q), d)
  PROVE  Lined(Tail(q), d, n, m)
  <1>1. PICK e : e = Tail(q)
    OBVIOUS
  <1>2. /\ \A i \in Writes(e, d) : i + 1 \in Writes(q, d) /\ e[i] = q[i + 1] /\ i \in Nat
        /\ \A i \in Writes(q, d) : i \in Nat \ {0}
        /\ \A i \in Writes(q, d) : i # 1 => i - 1 \in Writes(e, d) /\ e[i - 1] = q[i]
        /\ 1 \notin Writes(q, d)
    BY <1>1, TailWrites
  <1>3. /\ \A i \in Writes(q, d) : q[i].item.n \in n + 1 .. m
        /\ \A i, j \in Writes(q, d) : i < j => q[i].item.n < q[j].item.n
        /\ \A k \in n + 1 .. m : \E i \in Writes(q, d) : q[i].item.n = k
    BY DEF Lined
  <1>4. \A i \in Writes(e, d) : e[i].item.n \in n + 1 .. m
    BY <1>2, <1>3
  <1>5. ASSUME NEW i \in Writes(e, d), NEW j \in Writes(e, d), i < j
        PROVE  e[i].item.n < e[j].item.n
    <2>1. i + 1 < j + 1
      BY <1>2, <1>5
    <2> QED
      BY <1>2, <1>3, <2>1
  <1>6. ASSUME NEW k \in n + 1 .. m
        PROVE  \E i \in Writes(e, d) : e[i].item.n = k
    <2>1. PICK i \in Writes(q, d) : q[i].item.n = k
      BY <1>3
    <2> QED
      BY <1>2, <2>1
  <1> QED
    BY <1>1, <1>4, <1>5, <1>6 DEF Lined

LEMMA LinedNone ==
  ASSUME NEW q, NEW d, NEW n \in Nat, Writes(q, d) = {}
  PROVE  Lined(q, d, n, n)
  BY DEF Lined

(* As many writes are queued as items are lacking.                          *)
LEMMA LinedCount ==
  ASSUME NEW q \in Seq(Tasks), NEW d, NEW n \in Nat, NEW m \in Nat, n <= m, Lined(q, d, n, m)
  PROVE  Cardinality(Writes(q, d)) = m - n
  <1> DEFINE f == [i \in Writes(q, d) |-> q[i].item.n]
  <1>1. \A i \in Writes(q, d) : i \in Nat /\ q[i].item.n \in Nat
    BY WriteNumber
  <1>2. f \in [Writes(q, d) -> n + 1 .. m]
    BY DEF Lined
  <1>3. \A i, j \in Writes(q, d) : f[i] = f[j] => i = j
    <2>1. \A i, j \in Writes(q, d) : i < j => q[i].item.n < q[j].item.n
      BY DEF Lined
    <2>2. \A i, j \in Writes(q, d) : i < j \/ j < i \/ i = j
      BY <1>1
    <2>3. \A i, j \in Writes(q, d) : q[i].item.n < q[j].item.n => q[i].item.n # q[j].item.n
      BY <1>1
    <2> QED
      BY <2>1, <2>2, <2>3
  <1>4. \A k \in n + 1 .. m : \E i \in Writes(q, d) : f[i] = k
    BY DEF Lined
  <1> HIDE DEF f
  <1>5. f \in Injection(Writes(q, d), n + 1 .. m) /\ f \in Surjection(Writes(q, d), n + 1 .. m)
    BY <1>2, <1>3, <1>4 DEF Injection, IsInjective, Surjection
  <1>6. IsFiniteSet(n + 1 .. m) /\ Cardinality(n + 1 .. m) = m - n
    <2>1. n + 1 \in Int /\ m \in Int
      OBVIOUS
    <2>2. /\ IsFiniteSet(n + 1 .. m)
          /\ Cardinality(n + 1 .. m) = IF n + 1 > m THEN 0 ELSE m - (n + 1) + 1
      BY <2>1, FS_Interval
    <2> QED
      BY <2>2
  <1> QED
    BY <1>5, <1>6, FS_Injection

LEMMA InGrown ==
  ASSUME NEW q \in Seq(Tasks), NEW x \in Tasks, NEW d
  PROVE  InQueue(Append(q, x), d) <=> InQueue(q, d) \/ About(x, d)
  <1>1. PICK e : e = Append(q, x)
    OBVIOUS
  <1>2. PICK l : l = Len(q)
    OBVIOUS
  <1>3. /\ l \in Nat /\ Len(e) = l + 1 /\ e[l + 1] = x /\ \A i \in 1 .. l : e[i] = q[i]
    BY <1>1, <1>2, AppendIs
  <1>4. \A i \in 1 .. l + 1 : i = l + 1 \/ i \in 1 .. l
    BY <1>3
  <1>5. l + 1 \in 1 .. l + 1 /\ \A i \in 1 .. l : i \in 1 .. l + 1
    BY <1>3
  <1> QED
    BY <1>1, <1>2, <1>3, <1>4, <1>5 DEF InQueue

LEMMA InTail ==
  ASSUME NEW q \in Seq(Tasks), q # <<>>, NEW d
  PROVE  InQueue(q, d) <=> About(Head(q), d) \/ InQueue(Tail(q), d)
  <1>1. PICK e : e = Tail(q)
    OBVIOUS
  <1>2. PICK l : l = Len(q)
    OBVIOUS
  <1>3. /\ l \in Nat \ {0} /\ Len(e) = l - 1 /\ Head(q) = q[1] /\ \A i \in 1 .. l - 1 : e[i] = q[i + 1]
    BY <1>1, <1>2, TailIs
  <1>4. \A i \in 1 .. l : i = 1 \/ (i - 1 \in 1 .. l - 1 /\ e[i - 1] = q[i])
    <2>1. SUFFICES ASSUME NEW i \in 1 .. l, i # 1
                   PROVE  i - 1 \in 1 .. l - 1 /\ e[i - 1] = q[i]
      OBVIOUS
    <2>2. i - 1 \in 1 .. l - 1 /\ i - 1 + 1 = i
      BY <1>3, <2>1
    <2> QED
      BY <1>3, <2>2
  <1>5. 1 \in 1 .. l /\ \A i \in 1 .. l - 1 : i + 1 \in 1 .. l
    BY <1>3
  <1>6. ASSUME InQueue(q, d)
        PROVE  About(Head(q), d) \/ InQueue(e, d)
    <2>1. PICK i \in 1 .. l : About(q[i], d)
      BY <1>2, <1>6 DEF InQueue
    <2> QED
      BY <1>3, <1>4, <2>1 DEF InQueue
  <1>7. ASSUME InQueue(e, d)
        PROVE  InQueue(q, d)
    <2>1. PICK i \in 1 .. l - 1 : About(e[i], d)
      BY <1>3, <1>7 DEF InQueue
    <2> QED
      BY <1>2, <1>3, <1>5, <2>1 DEF InQueue
  <1>8. About(Head(q), d) => InQueue(q, d)
    BY <1>2, <1>3, <1>5 DEF InQueue
  <1> QED
    BY <1>1, <1>6, <1>7, <1>8

LEMMA DeletesGrow ==
  ASSUME NEW q \in Seq(Tasks), NEW x \in Tasks, DeletesLast(q),
         x.op = "delete" => ~InQueue(q, x.disp),
         x.op = "dealloc" \/ \A i \in 1 .. Len(q) : q[i].op # "delete"
  PROVE  DeletesLast(Append(q, x))
  <1>1. PICK e : e = Append(q, x)
    OBVIOUS
  <1>2. PICK l : l = Len(q)
    OBVIOUS
  <1>3. /\ l \in Nat /\ Len(e) = l + 1 /\ e[l + 1] = x /\ \A i \in 1 .. l : e[i] = q[i]
    BY <1>1, <1>2, AppendIs
  <1>4. \A i \in 1 .. l + 1 : i = l + 1 \/ i \in 1 .. l
    BY <1>3
  <1>5. ASSUME NEW i \in 1 .. l + 1, NEW j \in 1 .. l + 1,
               e[i].op = "delete", About(e[j], e[i].disp)
        PROVE  j = i
    <2>1. CASE i = l + 1 /\ j \in 1 .. l
      <3>1. x.op = "delete" /\ About(q[j], x.disp)
        BY <1>3, <1>5, <2>1
      <3> QED
        BY <1>2, <2>1, <3>1 DEF InQueue
    <2>2. CASE i \in 1 .. l /\ j = l + 1
      BY <1>2, <1>3, <1>5, <2>2 DEF About
    <2>3. CASE i \in 1 .. l /\ j \in 1 .. l
      BY <1>2, <1>3, <1>5, <2>3 DEF DeletesLast
    <2> QED
      BY <1>4, <2>1, <2>2, <2>3
  <1> QED
    BY <1>1, <1>3, <1>5 DEF DeletesLast

LEMMA DeletesTail ==
  ASSUME NEW q \in Seq(Tasks), q # <<>>, DeletesLast(q)
  PROVE  /\ DeletesLast(Tail(q))
         /\ Head(q).op # "dealloc" =>
              \A i \in 1 .. Len(Tail(q)) : Tail(q)[i].op = "delete" => Tail(q)[i].disp # Head(q).disp
         /\ Head(q).op = "delete" => ~InQueue(Tail(q), Head(q).disp)
  <1>1. PICK e : e = Tail(q)
    OBVIOUS
  <1>2. PICK l : l = Len(q)
    OBVIOUS
  <1>3. /\ l \in Nat \ {0} /\ Len(e) = l - 1 /\ Head(q) = q[1] /\ \A i \in 1 .. l - 1 : e[i] = q[i + 1]
    BY <1>1, <1>2, TailIs
  <1>4. \A i \in 1 .. l - 1 : i + 1 \in 1 .. l /\ i + 1 # 1 /\ 1 \in 1 .. l
    BY <1>3
  <1>5. ASSUME NEW i \in 1 .. l - 1, NEW j \in 1 .. l - 1,
               e[i].op = "delete", About(e[j], e[i].disp)
        PROVE  j = i
    <2>1. q[i + 1].op = "delete" /\ About(q[j + 1], q[i + 1].disp) /\ i + 1 \in 1 .. l /\ j + 1 \in 1 .. l
      BY <1>3, <1>4, <1>5
    <2>2. j + 1 = i + 1
      BY <1>2, <2>1 DEF DeletesLast
    <2> QED
      BY <2>2
  <1>6. ASSUME NEW i \in 1 .. l - 1, Head(q).op # "dealloc", e[i].op = "delete"
        PROVE  e[i].disp # Head(q).disp
    <2>1. q[i + 1].op = "delete" /\ i + 1 \in 1 .. l /\ i + 1 # 1 /\ 1 \in 1 .. l /\ e[i] = q[i + 1]
      BY <1>3, <1>4, <1>6
    <2>2. ~About(q[1], q[i + 1].disp)
      BY <1>2, <2>1 DEF DeletesLast
    <2> QED
      BY <1>3, <1>6, <2>1, <2>2 DEF About
  <1>7. ASSUME Head(q).op = "delete"
        PROVE  ~InQueue(e, Head(q).disp)
    <2>1. SUFFICES ASSUME NEW i \in 1 .. l - 1, About(e[i], Head(q).disp)
                   PROVE  FALSE
      BY <1>3 DEF InQueue
    <2>2. i + 1 \in 1 .. l /\ i + 1 # 1 /\ 1 \in 1 .. l /\ q[1].op = "delete" /\ About(q[i + 1], q[1].disp)
      BY <1>3, <1>4, <1>7, <2>1
    <2> QED
      BY <1>2, <2>2 DEF DeletesLast
  <1> QED
    BY <1>1, <1>3, <1>5, <1>6, <1>7 DEF DeletesLast

-----------------------------------------------------------------------------
(* What the invariant says of a reader, a dispatcher and a poller.          *)

LEMMA Owned ==
  ASSUME RingTyped, OwnerInv, NEW r \in Readers, owner[r] # None
  PROVE  /\ owner[r] \in Made /\ owner[r] \in Readers /\ owner[owner[r]] = owner[r]
         /\ home[owner[r]] = home[r] /\ home[r] \in Pollers /\ ref[r] # "new"
  BY DEF RingTyped, OwnerInv, Made

LEMMA AliveOwned ==
  ASSUME RingTyped, OwnerInv, NEW r \in Readers, Alive(r)
  PROVE  owner[r] # None
  BY DEF RingTyped, OwnerInv, Alive

LEMMA MadeIs ==
  ASSUME RingTyped, OwnerInv, NEW d \in Made
  PROVE  d \in Readers /\ owner[d] = d /\ d # None /\ home[d] \in Pollers /\ ref[d] # "new"
  <1>1. d \in Readers /\ owner[d] = d /\ d # None
    BY NoneAssumption DEF Made
  <1> QED
    BY <1>1, Owned

LEMMA NumbersIs ==
  ASSUME RingTyped
  PROVE  written \in Nat /\ firstKey \in Nat /\ firstKey <= written
  BY DEF RingTyped

(* While the ring is open every reader that is alive is in its map.         *)
LEMMA WhileOpen ==
  ASSUME RingTyped, HomeInv, LastInv, open
  PROVE  /\ \A r \in Readers : detached[r] = 0
         /\ \A r \in Readers : Alive(r) => Registered(r) /\ disp[home[r]] = owner[r]
         /\ \A p \in Pollers : \A i \in 1 .. Len(tasks[p]) : tasks[p][i].op # "delete"
         /\ \A d \in Made : Served(d) => disp[home[d]] = d
  <1>1. \A r \in Readers : detached[r] = 0
    BY DEF RingTyped, LastInv
  <1>2. \A r \in Readers : Alive(r) => Registered(r) /\ disp[home[r]] = owner[r]
    BY <1>1 DEF LastInv, HomeInv, MapInv
  <1>3. \A p \in Pollers : \A i \in 1 .. Len(tasks[p]) : tasks[p][i].op # "delete"
    BY DEF LastInv
  <1>4. ASSUME NEW d \in Made, Served(d)
        PROVE  disp[home[d]] = d
    <2>1. SUFFICES ASSUME NEW r \in Readers, Alive(r), owner[r] = d
                   PROVE  disp[home[d]] = d
      BY <1>4 DEF Served
    <2>2. home[d] = home[r]
      BY <2>1, AliveOwned, Owned DEF HomeInv
    <2> QED
      BY <1>2, <2>1, <2>2
  <1> QED
    BY <1>1, <1>2, <1>3, <1>4

LEMMA WhileIdle ==
  ASSUME RingTyped, VisitInv, NEW p \in Pollers, cur[p] = None
  PROVE  todo[p] = {} /\ \A d : ~Runs(p, d)
  BY DEF RingTyped, VisitInv, Runs

(* What a step has to leave alone for a dispatcher to stay where it is.     *)
LEMMA SameCached ==
  ASSUME NEW d, NEW n, CachedTo(d, n), home'[d] = home[d], cur'[home[d]] = cur[home[d]],
         dstore'[d] = dstore[d], firstKey' = firstKey
  PROVE  CachedTo(d, n)'
  <1>1. cur[home[d]]' = cur[home[d]]
    OBVIOUS
  <1> QED
    BY <1>1 DEF CachedTo, Runs, StoredTo

LEMMA SameServedTo ==
  ASSUME NEW d, NEW n, ServedTo(d, n), home'[d] = home[d],
         \A r \in Readers : ref'[r] = "listening" /\ owner'[r] = d =>
           /\ ref[r] = "listening" /\ owner[r] = d /\ seen'[r] = seen[r] /\ mark'[r] = mark[r]
           /\ r \in todo'[home[d]] <=> r \in todo[home[d]]
  PROVE  ServedTo(d, n)'
  <1>1. SUFFICES ASSUME NEW r \in Readers, ref'[r] = "listening", owner'[r] = d
                 PROVE  IF r \in todo'[home'[d]] THEN ReadTo(r, n - 1)' ELSE ReadTo(r, n)'
    BY DEF ServedTo
  <1>2. /\ ref[r] = "listening" /\ owner[r] = d /\ seen'[r] = seen[r] /\ mark'[r] = mark[r]
        /\ r \in todo'[home[d]] <=> r \in todo[home[d]]
    BY <1>1
  <1>3. IF r \in todo[home[d]] THEN ReadTo(r, n - 1) ELSE ReadTo(r, n)
    BY <1>2 DEF ServedTo
  <1>4. \A k : ReadTo(r, k) => ReadTo(r, k)'
    BY <1>2 DEF ReadTo
  <1> QED
    BY <1>2, <1>3, <1>4

LEMMA SameNumbers ==
  ASSUME NEW d, NEW n, NEW m, NumbersAt(d, n, m), d # None, home'[d] = home[d], written' = written,
         disp'[home[d]] \in {disp[home[d]], None},
         \A r \in Readers : Alive(r)' /\ owner'[r] = d => Alive(r) /\ owner[r] = d
  PROVE  NumbersAt(d, n, m)'
  <1>1. Served(d)' => Served(d)
    BY DEF Served
  <1> QED
    BY <1>1 DEF NumbersAt

LEMMA SamePending ==
  ASSUME NEW d, home'[d] = home[d], cur'[home[d]] = cur[home[d]],
         InQueue(tasks'[home[d]], d) <=> InQueue(tasks[home[d]], d)
  PROVE  Pending(d)' <=> Pending(d)
  <1>1. home[d]' = home[d] /\ cur[home[d]]' = cur[home[d]] /\ tasks[home[d]]' = tasks'[home[d]]
    OBVIOUS
  <1> QED
    BY <1>1 DEF Pending, Runs, InQueue

LEMMA QueueGrows ==
  ASSUME RingTyped, QueueInv,
         \A q \in Pollers : \A x \in Tasks : Settled(q, x) => Settled(q, x)',
         \A q \in Pollers : tasks'[q] = tasks[q]
           \/ \E x \in Tasks : Settled(q, x)' /\ tasks'[q] = Append(tasks[q], x)
  PROVE  QueueInv'
  <1>1. SUFFICES ASSUME NEW q \in Pollers, NEW e, e = tasks'[q], NEW i \in 1 .. Len(e)
                 PROVE  Settled(q, e[i])'
    BY DEF QueueInv
  <1>2. tasks[q] \in Seq(Tasks)
    BY DEF RingTyped
  <1>3. \A j \in 1 .. Len(tasks[q]) : \E x \in Tasks : x = tasks[q][j] /\ Settled(q, x)'
    BY <1>2, ElementOfSeq DEF QueueInv
  <1>4. CASE tasks'[q] = tasks[q]
    BY <1>1, <1>3, <1>4
  <1>5. ASSUME NEW x \in Tasks, Settled(q, x)', tasks'[q] = Append(tasks[q], x)
        PROVE  Settled(q, e[i])'
    <2>1. PICK l : l = Len(tasks[q])
      OBVIOUS
    <2>2. /\ l \in Nat /\ Len(e) = l + 1 /\ e[l + 1] = x
          /\ \A j \in 1 .. l : e[j] = tasks[q][j]
      BY <1>1, <1>2, <1>5, <2>1, AppendIs
    <2>3. i = l + 1 \/ i \in 1 .. l
      BY <2>2
    <2> QED
      BY <1>3, <1>5, <2>1, <2>2, <2>3
  <1> QED
    BY <1>4, <1>5

LEMMA QueueShrinks ==
  ASSUME RingTyped, QueueInv, NEW p \in Pollers, tasks[p] # <<>>,
         \A q \in Pollers : \A x \in Tasks : Settled(q, x) => Settled(q, x)',
         tasks' = [tasks EXCEPT ![p] = Tail(@)]
  PROVE  QueueInv'
  <1>1. SUFFICES ASSUME NEW q \in Pollers, NEW e, e = tasks'[q], NEW i \in 1 .. Len(e)
                 PROVE  Settled(q, e[i])'
    BY DEF QueueInv
  <1>2. tasks[q] \in Seq(Tasks)
    BY DEF RingTyped
  <1>3. \A j \in 1 .. Len(tasks[q]) : \E x \in Tasks : x = tasks[q][j] /\ Settled(q, x)'
    BY <1>2, ElementOfSeq DEF QueueInv
  <1>4. CASE q # p
    BY <1>1, <1>3, <1>4 DEF RingTyped
  <1>5. CASE q = p
    <2>1. tasks'[q] = Tail(tasks[q])
      BY <1>5 DEF RingTyped
    <2>2. PICK l : l = Len(tasks[q])
      OBVIOUS
    <2>3. /\ l \in Nat \ {0} /\ Len(e) = l - 1
          /\ \A j \in 1 .. l - 1 : e[j] = tasks[q][j + 1]
      BY <1>1, <1>2, <1>5, <2>1, <2>2, TailIs
    <2>4. i + 1 \in 1 .. l /\ e[i] = tasks[q][i + 1]
      BY <2>3
    <2> QED
      BY <1>3, <2>2, <2>4
  <1> QED
    BY <1>4, <1>5

LEMMA GoodGrows ==
  ASSUME RingTyped, NEW k, GoodItems(k), cur' = cur,
         \A p \in Pollers : tasks'[p] = tasks[p]
           \/ \E x \in Tasks : /\ x.op = "write" => GoodItem(x.item, k)
                             /\ tasks'[p] = Append(tasks[p], x)
  PROVE  GoodItems(k)'
  <1>1. SUFFICES ASSUME NEW p \in Pollers, NEW i \in 1 .. Len(tasks'[p])
                 PROVE  tasks'[p][i].op = "write" => GoodItem(tasks'[p][i].item, k)
    BY DEF GoodItems, GoodItem
  <1>2. tasks[p] \in Seq(Tasks)
    BY DEF RingTyped
  <1>3. \A j \in 1 .. Len(tasks[p]) : tasks[p][j].op = "write" => GoodItem(tasks[p][j].item, k)
    BY DEF GoodItems
  <1>4. CASE tasks'[p] = tasks[p]
    BY <1>1, <1>3, <1>4
  <1>5. ASSUME NEW x \in Tasks, x.op = "write" => GoodItem(x.item, k), tasks'[p] = Append(tasks[p], x)
        PROVE  tasks'[p][i].op = "write" => GoodItem(tasks'[p][i].item, k)
    <2>1. PICK q : q = tasks[p]
      OBVIOUS
    <2>2. PICK e : e = tasks'[p]
      OBVIOUS
    <2>3. /\ Len(q) \in Nat /\ Len(e) = Len(q) + 1 /\ e[Len(q) + 1] = x
          /\ \A j \in 1 .. Len(q) : e[j] = q[j]
      BY <1>2, <1>5, <2>1, <2>2, AppendIs
    <2>4. i = Len(q) + 1 \/ i \in 1 .. Len(q)
      BY <1>1, <2>2, <2>3
    <2> QED
      BY <1>3, <1>5, <2>1, <2>2, <2>3, <2>4
  <1> QED
    BY <1>4, <1>5

LEMMA GoodShrinks ==
  ASSUME RingTyped, NEW k, GoodItems(k), NEW p \in Pollers, tasks[p] # <<>>,
         tasks' = [tasks EXCEPT ![p] = Tail(@)]
  PROVE  \A q \in Pollers : \A i \in 1 .. Len(tasks'[q]) :
           tasks'[q][i].op = "write" => GoodItem(tasks'[q][i].item, k)
  <1>1. SUFFICES ASSUME NEW q \in Pollers, NEW i \in 1 .. Len(tasks'[q])
                 PROVE  tasks'[q][i].op = "write" => GoodItem(tasks'[q][i].item, k)
    OBVIOUS
  <1>2. tasks[q] \in Seq(Tasks)
    BY DEF RingTyped
  <1>3. \A j \in 1 .. Len(tasks[q]) : tasks[q][j].op = "write" => GoodItem(tasks[q][j].item, k)
    BY DEF GoodItems
  <1>4. CASE q # p
    BY <1>1, <1>3, <1>4 DEF RingTyped
  <1>5. CASE q = p
    <2>1. tasks'[q] = Tail(tasks[q])
      BY <1>5 DEF RingTyped
    <2>2. PICK l : l = Len(tasks[q])
      OBVIOUS
    <2>3. PICK e : e = tasks'[q]
      OBVIOUS
    <2>4. /\ l \in Nat \ {0} /\ Len(e) = l - 1
          /\ \A j \in 1 .. l - 1 : e[j] = tasks[q][j + 1]
      BY <1>2, <1>5, <2>1, <2>2, <2>3, TailIs
    <2>5. i + 1 \in 1 .. l /\ e[i] = tasks[q][i + 1]
      BY <1>1, <2>3, <2>4
    <2> QED
      BY <1>3, <2>2, <2>3, <2>5
  <1> QED
    BY <1>4, <1>5

(* The queues after a task was queued for the dispatcher of every poller    *)
(* that has readers.                                                        *)
LEMMA WithTaskIs ==
  ASSUME RingTyped, NEW T, \A d \in Readers : T[d] \in Tasks, tasks' = WithTask(T)
  PROVE  /\ tasks' \in [Pollers -> Seq(Tasks)]
         /\ \A p \in Pollers : disp[p] = None => tasks'[p] = tasks[p]
         /\ \A p \in Pollers : disp[p] # None =>
              T[disp[p]] \in Tasks /\ tasks'[p] = Append(tasks[p], T[disp[p]])
  <1>1. \A p \in Pollers : disp[p] # None => disp[p] \in Readers /\ T[disp[p]] \in Tasks
    BY DEF RingTyped
  <1>2. \A p \in Pollers : tasks[p] \in Seq(Tasks)
    BY DEF RingTyped
  <1>3. \A p \in Pollers : tasks'[p] = IF disp[p] = None THEN tasks[p] ELSE Append(tasks[p], T[disp[p]])
    BY DEF WithTask
  <1>4. \A p \in Pollers : tasks'[p] \in Seq(Tasks)
    BY <1>1, <1>2, <1>3, AppendIs
  <1> QED
    BY <1>1, <1>3, <1>4 DEF WithTask

LEMMA ItemsAreWritten ==
  ASSUME RingInv, NEW p \in Pollers
  PROVE  /\ cur[p] # None => cur[p].item \in Items /\ cur[p].item.n <= written
         /\ \A i \in 1 .. Len(tasks[p]) : tasks[p][i].op = "write" =>
              tasks[p][i].item \in Items /\ tasks[p][i].item.n <= written
  <1> USE DEF RingInv, HomeInv
  <1>1. written \in Nat
    BY NumbersIs
  <1>2. ASSUME cur[p] # None
        PROVE  cur[p].item \in Items /\ cur[p].item.n <= written
    <2>1. cur[p] \in Tasks /\ cur[p].op = "write" /\ cur[p].disp \in Made /\ home[cur[p].disp] = p
      BY <1>2 DEF VisitInv, RingTyped
    <2>2. PICK n \in Nat, m \in Nat : DispAt(cur[p].disp, n, m)
      BY <2>1 DEF StreamInv
    <2>3. Runs(home[cur[p].disp], cur[p].disp)
      BY <1>2, <2>1 DEF Runs
    <2>4. cur[p].item.n = n /\ n <= m /\ m <= written
      BY <2>1, <2>2, <2>3 DEF DispAt, CachedTo, NumbersAt
    <2> QED
      BY <1>1, <2>1, <2>4, TaskParts
  <1>3. ASSUME NEW i \in 1 .. Len(tasks[p]), tasks[p][i].op = "write"
        PROVE  tasks[p][i].item \in Items /\ tasks[p][i].item.n <= written
    <2>1. tasks[p] \in Seq(Tasks)
      BY DEF RingTyped
    <2>2. tasks[p][i] \in Tasks
      BY <2>1, ElementOfSeq
    <2>3. PICK d : d = tasks[p][i].disp
      OBVIOUS
    <2>4. d \in Made /\ home[d] = p
      BY <1>3, <2>3 DEF QueueInv, Settled
    <2>5. PICK n \in Nat, m \in Nat : DispAt(d, n, m)
      BY <2>4 DEF StreamInv
    <2>6. i \in Writes(tasks[p], d)
      BY <1>3, <2>3 DEF Writes, IsWriteFor
    <2>7. tasks[p][i].item.n \in n + 1 .. m /\ m <= written
      BY <2>4, <2>5, <2>6 DEF DispAt, Lined, NumbersAt
    <2> QED
      BY <1>1, <1>3, <2>2, <2>7, TaskParts
  <1> QED
    BY <1>2, <1>3

-----------------------------------------------------------------------------
(* What groups of steps keep.                                               *)

(* The steps that write nothing and hand nothing out.                       *)
LEMMA StreamMoved ==
  ASSUME RingInv, written' = written, firstKey' = firstKey, home' = home, owner' = owner,
         StoredTo(ring', written, firstKey),
         \A d \in Made : \A n \in Nat : CachedTo(d, n) => CachedTo(d, n)',
         \A d \in Readers : d \notin Made => dstore'[d] = dstore[d],
         \A p \in Pollers : disp'[p] \in {disp[p], None},
         \A p \in Pollers : \A d \in Readers : \A n, m \in Nat :
           Lined(tasks[p], d, n, m) => Lined(tasks'[p], d, n, m),
         \A r \in Readers : Alive(r)' => Alive(r),
         \A r \in Readers : ref'[r] = "listening" =>
           /\ ref[r] = "listening" /\ seen'[r] = seen[r] /\ mark'[r] = mark[r]
           /\ \A p \in Pollers : r \in todo'[p] <=> r \in todo[p],
         GoodItems(firstKey)'
  PROVE  StreamInv'
  <1> USE DEF RingInv, HomeInv
  <1>1. Made' = Made
    BY DEF Made
  <1>2. ASSUME NEW d \in Made
        PROVE  \E n, m \in Nat : DispAt(d, n, m)'
    <2>1. PICK n \in Nat, m \in Nat : DispAt(d, n, m)
      BY DEF StreamInv
    <2>2. d \in Readers /\ d # None /\ home[d] \in Pollers
      BY MadeIs
    <2>3. NumbersAt(d, n, m)'
      BY <2>1, <2>2, SameNumbers DEF DispAt
    <2>4. Lined(tasks[home[d]], d, n, m)'
      BY <2>1, <2>2 DEF DispAt
    <2>5. CachedTo(d, n)'
      BY <2>1 DEF DispAt
    <2>6. ServedTo(d, n)'
      BY <2>1, <2>2, SameServedTo DEF DispAt
    <2> QED
      BY <2>3, <2>4, <2>5, <2>6 DEF DispAt
  <1>3. StoredTo(ring, written, firstKey)'
    OBVIOUS
  <1>4. \A d \in Readers : d \notin Made => dstore'[d] = EmptyStorage
    BY DEF StreamInv
  <1> QED
    BY <1>1, <1>2, <1>3, <1>4 DEF StreamInv

(* The steps that do not cache an item either.                              *)
LEMMA StreamKept ==
  ASSUME RingInv, written' = written, firstKey' = firstKey, dstore' = dstore, cur' = cur,
         home' = home, owner' = owner, StoredTo(ring', written, firstKey),
         \A p \in Pollers : disp'[p] \in {disp[p], None},
         \A p \in Pollers : \A d \in Readers : \A n, m \in Nat :
           Lined(tasks[p], d, n, m) => Lined(tasks'[p], d, n, m),
         \A r \in Readers : Alive(r)' => Alive(r),
         \A r \in Readers : ref'[r] = "listening" =>
           /\ ref[r] = "listening" /\ seen'[r] = seen[r] /\ mark'[r] = mark[r]
           /\ \A p \in Pollers : r \in todo'[p] <=> r \in todo[p],
         GoodItems(firstKey)'
  PROVE  StreamInv'
  <1>1. \A d \in Made : \A n \in Nat : CachedTo(d, n) => CachedTo(d, n)'
    BY SameCached
  <1> QED
    BY <1>1, StreamMoved

LEMMA LinedGrows ==
  ASSUME RingTyped,
         \A p \in Pollers : tasks'[p] = tasks[p]
           \/ \E x \in Tasks : x.op # "write" /\ tasks'[p] = Append(tasks[p], x)
  PROVE  \A p \in Pollers : \A d \in Readers : \A n, m \in Nat :
           Lined(tasks[p], d, n, m) => Lined(tasks'[p], d, n, m)
  <1>1. ASSUME NEW p \in Pollers, NEW d \in Readers, NEW n \in Nat, NEW m \in Nat,
               Lined(tasks[p], d, n, m)
        PROVE  Lined(tasks'[p], d, n, m)
    <2>1. CASE tasks'[p] = tasks[p]
      BY <1>1, <2>1
    <2>2. ASSUME NEW x \in Tasks, x.op # "write", tasks'[p] = Append(tasks[p], x)
          PROVE  Lined(tasks'[p], d, n, m)
      <3>1. tasks[p] \in Seq(Tasks) /\ ~IsWriteFor(x, d)
        BY <2>2 DEF RingTyped, IsWriteFor
      <3> QED
        BY <1>1, <2>2, <3>1, LinedAppendOther
    <2> QED
      BY <2>1, <2>2
  <1> QED
    BY <1>1

LEMMA ClearKeepsStored ==
  ASSUME NEW s \in Storages, NEW n \in Int, NEW k \in Nat, StoredTo(s, n, k)
  PROVE  ClearCache(s) \in Storages /\ StoredTo(ClearCache(s), n, k)
  <1>1. ClearCache(s).idr = FALSE /\ ClearCache(s).cache = <<>> /\ ClearCache(s).started = s.started
    BY DEF ClearCache, Storages
  <1>2. ClearCache(s) \in Storages
    BY EmptyCache DEF ClearCache, Storages
  <1> QED
    BY <1>1, <1>2, EmptyCache DEF StoredTo

LEMMA NoDeleteGrows ==
  ASSUME \A p \in Pollers : tasks[p] \in Seq(Tasks) /\ \A i \in 1 .. Len(tasks[p]) : tasks[p][i].op # "delete",
         \A p \in Pollers : tasks'[p] = tasks[p]
           \/ \E y \in Tasks : y.op # "delete" /\ tasks'[p] = Append(tasks[p], y)
  PROVE  \A p \in Pollers : \A i \in 1 .. Len(tasks'[p]) : tasks'[p][i].op # "delete"
  <1>1. ASSUME NEW p \in Pollers, NEW y \in Tasks, y.op # "delete", tasks'[p] = Append(tasks[p], y)
        PROVE  \A i \in 1 .. Len(tasks'[p]) : tasks'[p][i].op # "delete"
    <2>1. PICK e : e = tasks'[p]
      OBVIOUS
    <2>2. PICK l : l = Len(tasks[p])
      OBVIOUS
    <2>3. /\ l \in Nat /\ Len(e) = l + 1 /\ e[l + 1] = y /\ \A i \in 1 .. l : e[i] = tasks[p][i]
      BY <1>1, <2>1, <2>2, AppendIs
    <2>4. \A i \in 1 .. Len(e) : i = l + 1 \/ i \in 1 .. l
      BY <2>3
    <2> QED
      BY <1>1, <2>1, <2>2, <2>3, <2>4
  <1> QED
    BY <1>1

LEMMA LastSame ==
  ASSUME LastInv, tasks' = tasks, cur' = cur, home' = home, owner' = owner, open' = open,
         detached' = detached,
         \A x \in Readers : Alive(x)' => Alive(x) /\ (Registered(x) => Registered(x)'),
         \A x \in Readers : Registered(x)' => Registered(x)
  PROVE  LastInv'
  <1>1. \A p \in Pollers : DeletesLast(tasks[p])'
    BY DEF LastInv
  <1>2. \A p \in Pollers : \A i \in 1 .. Len(tasks[p]) :
          tasks[p][i].op = "delete" => ~open /\ ~Runs(p, tasks[p][i].disp)
    BY DEF LastInv
  <1>3. \A p \in Pollers : \A i \in 1 .. Len(tasks'[p]) :
          tasks'[p][i].op = "delete" => ~open' /\ ~Runs(p, tasks[p][i].disp)'
    BY <1>2 DEF Runs
  <1>4. \A x \in Readers : Alive(x)' => Registered(x)' \/ detached'[x] = 1
    BY DEF LastInv
  <1>5. \A x \in Readers : detached'[x] = 1 =>
          ~open' /\ ~Registered(x)' /\ owner'[x] # None /\ ~Pending(owner[x])
    BY DEF LastInv
  <1>6. ~open' => \A x \in Readers : Alive(x)' /\ detached'[x] = 0 => Pending(owner[x])
    BY DEF LastInv
  <1>7. \A x \in Readers : Pending(owner[x])' <=> Pending(owner[x])
    BY DEF Pending, Runs, InQueue
  <1> QED
    BY <1>1, <1>3, <1>4, <1>5, <1>6, <1>7 DEF LastInv

(* Who waits to be told is still waiting, or was told now.                  *)
LEMMA LastMoved ==
  ASSUME RingTyped, HomeInv, LastInv, home' = home, owner' = owner, open' = open, detached' = detached,
         \A c \in Made : Pending(c)' <=> Pending(c),
         \A x \in Readers : Alive(x)' => Alive(x) /\ (Registered(x) => Registered(x)'),
         \A x \in Readers : Registered(x)' => Registered(x),
         \A q \in Pollers : DeletesLast(tasks'[q]),
         \A q \in Pollers : \A d \in Readers : Runs(q, d)' => Runs(q, d) \/
           \A i \in 1 .. Len(tasks'[q]) : tasks'[q][i].op = "delete" => tasks'[q][i].disp # d,
         \A q \in Pollers : tasks'[q] \in Seq(Tasks),
         \A q \in Pollers : \A i \in 1 .. Len(tasks'[q]) :
           tasks'[q][i].op = "delete" => ~open /\ ~Runs(q, tasks'[q][i].disp)
  PROVE  LastInv'
  <1> USE DEF HomeInv
  <1>1. \A x \in Readers : Alive(x)' => Registered(x)' \/ detached'[x] = 1
    BY DEF LastInv
  <1>2. \A x \in Readers : owner[x] # None => owner[x] \in Made
    BY Owned
  <1>3. \A x \in Readers : owner[x] # None => (Pending(owner[x])' <=> Pending(owner[x]))
    <2>1. SUFFICES ASSUME NEW x \in Readers, owner[x] # None
                   PROVE  Pending(owner[x])' <=> Pending(owner[x])
      OBVIOUS
    <2>2. PICK c \in Made : c = owner[x] /\ c = owner'[x]
      BY <1>2, <2>1
    <2> QED
      BY <2>2
  <1>4. \A x \in Readers : detached'[x] = 1 =>
          ~open' /\ ~Registered(x)' /\ owner'[x] # None /\ ~Pending(owner[x])'
    BY <1>3 DEF LastInv
  <1>5. ~open' => \A x \in Readers : Alive(x)' /\ detached'[x] = 0 => Pending(owner[x])'
    BY <1>3, AliveOwned DEF LastInv
  <1>6. \A q \in Pollers : \A i \in 1 .. Len(tasks'[q]) :
          tasks'[q][i].op = "delete" => ~open' /\ ~Runs(q, tasks[q][i].disp)'
    <2>1. SUFFICES ASSUME NEW q \in Pollers, NEW i \in 1 .. Len(tasks'[q]), tasks'[q][i].op = "delete"
                   PROVE  ~open' /\ ~Runs(q, tasks[q][i].disp)'
      OBVIOUS
    <2>2. PICK d : d = tasks'[q][i].disp
      OBVIOUS
    <2>3. tasks'[q][i] \in Tasks
      BY <2>1, ElementOfSeq
    <2>4. d \in Readers /\ ~open /\ ~Runs(q, d)
      BY <2>1, <2>2, <2>3, TaskParts
    <2>5. ~Runs(q, d)'
      BY <2>1, <2>2, <2>4
    <2> QED
      BY <2>2, <2>4, <2>5
  <1>7. \A q \in Pollers : DeletesLast(tasks[q])'
    OBVIOUS
  <1> QED
    BY <1>1, <1>4, <1>5, <1>6, <1>7 DEF LastInv

(* A reader leaves the map of its dispatcher.                               *)
LEMMA ForgetKeeps ==
  ASSUME RingTyped, OwnerInv, MapInv, CountInv, NEW p \in Pollers, NEW r \in Readers, home[r] = p,
         open' = open, home' = home, owner' = owner, Forget(p, r)
  PROVE  /\ MapInv' /\ CountInv'
         /\ disp' \in [Pollers -> Readers \cup {None}] /\ dmap' \in [Readers -> SUBSET Readers]
         /\ count' \in Int /\ reporting' \in SUBSET Pollers
         /\ \A x \in Readers : Registered(x)' <=> Registered(x) /\ x # r
         /\ \A q \in Pollers : disp'[q] \in {disp[q], None}
  <1>1. owner[r] # None
    BY NoneAssumption DEF OwnerInv
  <1>2. PICK d \in Made : d = owner[r] /\ d \in Readers /\ owner[d] = d /\ home[d] = p
    BY <1>1, Owned
  <1>3. Made' = Made
    BY DEF Made
  <1>4. CASE ~Registered(r)
    <2>1. UNCHANGED <<disp, dmap, count, reporting>>
      BY <1>4 DEF Forget, countVars
    <2>2. \A x \in Readers : Registered(x)' <=> Registered(x)
      BY <2>1 DEF Registered
    <2>3. {x \in Readers : Registered(x)}' = {x \in Readers : Registered(x)}
      BY <2>2
    <2>4. CountInv'
      BY <2>1, <2>3 DEF CountInv
    <2>5. MapInv'
      BY <1>3, <2>1, <2>2 DEF MapInv
    <2> QED
      BY <1>4, <2>1, <2>2, <2>4, <2>5 DEF RingTyped
  <1>5. CASE Registered(r)
    <2>1. /\ dmap' = [dmap EXCEPT ![d] = @ \ {r}]
          /\ disp' = IF dmap'[d] = {} THEN [disp EXCEPT ![p] = None] ELSE disp
          /\ open => count' = count + (-1) /\ reporting' = reporting \cup {p}
          /\ ~open => count' = count /\ reporting' = reporting
      BY <1>2, <1>5 DEF Forget, SizeChanged, countVars
    <2>2. /\ dmap'[d] = dmap[d] \ {r} /\ \A c \in Readers : c # d => dmap'[c] = dmap[c]
          /\ dmap' \in [Readers -> SUBSET Readers]
      BY <1>2, <2>1 DEF RingTyped
    <2>3. /\ \A q \in Pollers : disp'[q] \in {disp[q], None}
          /\ \A q \in Pollers : q # p => disp'[q] = disp[q]
          /\ IF dmap'[d] = {} THEN disp'[p] = None ELSE disp'[p] = disp[p]
          /\ disp' \in [Pollers -> Readers \cup {None}]
      BY <2>1 DEF RingTyped
    <2>4. count' \in Int /\ reporting' \in SUBSET Pollers
      BY <2>1 DEF RingTyped
    <2>5. \A x \in Readers : Registered(x)' <=> Registered(x) /\ x # r
      <3>1. SUFFICES ASSUME NEW x \in Readers
                     PROVE  Registered(x)' <=> Registered(x) /\ x # r
        OBVIOUS
      <3>2. owner[x] \in Readers \cup {None}
        BY DEF RingTyped
      <3>3. CASE owner[x] = d
        BY <2>2, <3>3 DEF Registered
      <3>4. CASE owner[x] # d
        BY <1>2, <2>2, <3>2, <3>4 DEF Registered
      <3> QED
        BY <3>3, <3>4
    <2>6. MapInv'
      <3>1. \A c \in Readers : \A x \in dmap'[c] : owner[x] = c
        BY <1>2, <2>2 DEF MapInv
      <3>2. ASSUME NEW q \in Pollers, disp'[q] # None
            PROVE  open /\ disp'[q] \in Made /\ home[disp'[q]] = q /\ dmap'[disp'[q]] # {}
        <4>1. PICK c \in Made : c = disp[q] /\ c = disp'[q] /\ open /\ home[c] = q /\ dmap[c] # {}
          BY <2>3, <3>2 DEF MapInv
        <4>2. c \in Readers
          BY MadeIs
        <4>3. dmap'[c] # {}
          BY <1>2, <2>2, <2>3, <3>2, <4>1, <4>2
        <4> QED
          BY <4>1, <4>3
      <3>3. ASSUME open, NEW x \in Readers, Registered(x), x # r
            PROVE  disp'[home[x]] = owner[x]
        <4>1. owner[x] # None /\ disp[home[x]] = owner[x] /\ disp[p] = d
          BY <1>2, <1>5, <3>3 DEF MapInv, Registered
        <4>2. home[x] \in Pollers
          BY <4>1, Owned
        <4>3. CASE home[x] = p
          <5>1. x \in dmap'[d]
            BY <2>2, <3>3, <4>1, <4>3 DEF Registered
          <5> QED
            BY <2>3, <4>1, <4>3, <5>1
        <4>4. CASE home[x] # p
          BY <2>3, <4>1, <4>2, <4>4
        <4> QED
          BY <4>3, <4>4
      <3> QED
        BY <1>3, <2>5, <3>1, <3>2, <3>3 DEF MapInv
    <2>7. CountInv'
      <3>1. SUFFICES ASSUME open
                     PROVE  IsFiniteSet({x \in Readers : Registered(x)}')
                            /\ count' = Cardinality({x \in Readers : Registered(x)}')
        BY DEF CountInv
      <3>2. PICK S : S = {x \in Readers : Registered(x)}
        OBVIOUS
      <3>3. IsFiniteSet(S) /\ count = Cardinality(S) /\ r \in S
        BY <1>5, <3>1, <3>2 DEF CountInv
      <3>4. {x \in Readers : Registered(x)}' = S \ {r}
        BY <2>5, <3>2
      <3>5. IsFiniteSet(S \ {r}) /\ Cardinality(S \ {r}) = Cardinality(S) - 1 /\ Cardinality(S) \in Nat
        BY <3>3, FS_RemoveElement, FS_CardinalityType
      <3> QED
        BY <2>1, <3>1, <3>3, <3>4, <3>5
    <2> QED
      BY <2>2, <2>3, <2>4, <2>5, <2>6, <2>7
  <1> QED
    BY <1>4, <1>5

-----------------------------------------------------------------------------
(* The steps of readers and of the poller that visits them.                 *)

LEMMA ReleaseKeeps ==
  ASSUME RingInv, NEW r \in Readers, Release(r)
  PROVE  RingInv'
  <1> USE DEF RingInv, HomeInv
  <1>1. /\ Alive(r)
        /\ ref' = [ref EXCEPT ![r] = "gone"] /\ seen' = [seen EXCEPT ![r] = <<>>] /\ mark' = [mark EXCEPT ![r] = 0]
        /\ Forget(home[r], r) /\ todo' = [todo EXCEPT ![home[r]] = @ \ {r}]
        /\ open' = open /\ written' = written /\ firstKey' = firstKey /\ ring' = ring /\ dstore' = dstore
        /\ tasks' = tasks /\ cur' = cur /\ home' = home /\ owner' = owner /\ detached' = detached
    BY DEF Release, Leaves, streamVars
  <1>2. owner[r] # None /\ home[r] \in Pollers /\ ref[r] # "new"
    BY <1>1, AliveOwned, Owned
  <1>3. /\ MapInv' /\ CountInv'
        /\ disp' \in [Pollers -> Readers \cup {None}] /\ dmap' \in [Readers -> SUBSET Readers]
        /\ count' \in Int /\ reporting' \in SUBSET Pollers
        /\ \A x \in Readers : Registered(x)' <=> Registered(x) /\ x # r
        /\ \A q \in Pollers : disp'[q] \in {disp[q], None}
    BY <1>1, <1>2, ForgetKeeps
  <1>4. /\ ref'[r] = "gone"
        /\ \A x \in Readers : x # r => ref'[x] = ref[x] /\ seen'[x] = seen[x] /\ mark'[x] = mark[x]
        /\ \A q \in Pollers : todo'[q] = todo[q] \ {r} \/ (q # home[r] /\ todo'[q] = todo[q])
    BY <1>1 DEF RingTyped
  <1>5. \A x \in Readers : Alive(x)' <=> Alive(x) /\ x # r
    BY <1>4 DEF Alive
  <1>6. Made' = Made
    BY <1>1 DEF Made
  <1>7. RingTyped'
    <2>1. <<>> \in Seq(Nat)
      OBVIOUS
    <2> QED
      BY <1>1, <1>3, <2>1 DEF RingTyped
  <1>8. HomeInv'
    <2>1. OwnerInv'
      BY <1>1, <1>2, <1>4, <1>6 DEF OwnerInv
    <2>2. QueueInv'
      <3>1. \A p \in Pollers : \A y \in Tasks : Settled(p, y) => Settled(p, y)'
        BY <1>1, <1>4, <1>6, TaskParts DEF Settled
      <3> QED
        BY <1>1, <3>1, QueueGrows
    <2>3. VisitInv'
      BY <1>1, <1>4, <1>6 DEF VisitInv
    <2> QED
      BY <1>3, <2>1, <2>2, <2>3
  <1>9. LastInv'
    <2>1. \A x \in Readers : Alive(x)' => Alive(x) /\ (Registered(x) => Registered(x)')
      BY <1>3, <1>5
    <2>2. \A x \in Readers : Registered(x)' => Registered(x)
      BY <1>3
    <2> QED
      BY <1>1, <2>1, <2>2, LastSame
  <1>10. StreamInv'
    <2>1. GoodItems(firstKey)'
      BY <1>1 DEF StreamInv, GoodItems, GoodItem
    <2>2. ASSUME NEW x \in Readers, ref'[x] = "listening"
          PROVE  /\ ref[x] = "listening" /\ seen'[x] = seen[x] /\ mark'[x] = mark[x]
                 /\ \A p \in Pollers : x \in todo'[p] <=> x \in todo[p]
      BY <1>4, <2>2
    <2>3. StoredTo(ring', written, firstKey)
      BY <1>1 DEF StreamInv
    <2> QED
      BY <1>1, <1>3, <1>5, <2>1, <2>2, <2>3, StreamKept
  <1> QED
    BY <1>3, <1>7, <1>8, <1>9, <1>10

LEMMA SeenAppend ==
  ASSUME NEW s \in Seq(Nat), NEW n \in Nat, SeenTo(s, n - 1)
  PROVE  SeenTo(Append(s, n), n) /\ Append(s, n) # <<>>
  <1>1. PICK l : l = Len(s)
    OBVIOUS
  <1>2. PICK e : e = Append(s, n)
    OBVIOUS
  <1>3. /\ l \in Nat /\ Len(e) = l + 1 /\ e[l + 1] = n /\ e # <<>>
        /\ \A i \in 1 .. l : e[i] = s[i] /\ s[i] \in Nat
    BY <1>1, <1>2
  <1>4. \A i \in 1 .. l : s[i] + (l - i) = n - 1
    BY <1>1 DEF SeenTo
  <1>5. ASSUME NEW i \in 1 .. l + 1
        PROVE  e[i] + (l + 1 - i) = n
    <2>1. CASE i = l + 1
      BY <1>3, <2>1
    <2>2. CASE i \in 1 .. l
      <3>1. PICK v \in Nat : v = s[i]
        BY <1>3, <2>2
      <3>2. e[i] = v /\ v + (l - i) = n - 1
        BY <1>3, <1>4, <2>2, <3>1
      <3>3. v + (l + 1 - i) = n
        BY <1>3, <2>2, <3>2
      <3> QED
        BY <3>2, <3>3
    <2> QED
      BY <1>3, <2>1, <2>2
  <1>6. SeenTo(e, n)
    <2>1. PICK j : j = l + 1
      OBVIOUS
    <2>2. Len(e) = j /\ \A i \in 1 .. j : e[i] + (j - i) = n
      BY <1>3, <1>5, <2>1
    <2> QED
      BY <2>2 DEF SeenTo
  <1> QED
    BY <1>2, <1>3, <1>6

LEMMA OnReadKeeps ==
  ASSUME RingInv, NEW p \in Pollers, NEW r \in Readers, OnRead(p, r)
  PROVE  RingInv'
  <1> USE DEF RingInv, HomeInv
  <1>1. PICK k : k = cur[p].item.n
    OBVIOUS
  <1>2. /\ r \in todo[p] /\ todo' = [todo EXCEPT ![p] = @ \ {r}]
        /\ seen' = IF ref[r] = "listening" THEN [seen EXCEPT ![r] = Append(@, k)] ELSE seen
        /\ open' = open /\ written' = written /\ firstKey' = firstKey /\ ring' = ring
        /\ disp' = disp /\ dstore' = dstore /\ dmap' = dmap /\ tasks' = tasks /\ cur' = cur
        /\ home' = home /\ owner' = owner /\ ref' = ref /\ mark' = mark /\ detached' = detached
        /\ count' = count /\ reporting' = reporting
    BY <1>1 DEF OnRead, streamVars, mapVars, countVars
  <1>3. PICK d \in Made : d = owner[r] /\ cur[p] # None /\ cur[p].disp = d /\ home[d] = p
    BY <1>2 DEF VisitInv
  <1>4. k \in Nat
    BY <1>1, <1>3, ItemsAreWritten, ItemParts
  <1>5. /\ todo'[p] = todo[p] \ {r} /\ \A q \in Pollers : q # p => todo'[q] = todo[q]
        /\ todo' \in [Pollers -> SUBSET Readers]
        /\ \A x \in Readers : x # r => seen'[x] = seen[x]
        /\ ref[r] = "listening" => seen'[r] = Append(seen[r], k)
        /\ seen' \in [Readers -> Seq(Nat)]
    BY <1>2, <1>4 DEF RingTyped
  <1>6. Made' = Made /\ \A x \in Readers : (Alive(x)' <=> Alive(x)) /\ (Registered(x)' <=> Registered(x))
    BY <1>2 DEF Made, Alive, Registered
  <1>7. RingTyped'
    BY <1>2, <1>5 DEF RingTyped
  <1>8. HomeInv'
    <2>1. OwnerInv' /\ MapInv' /\ VisitInv'
      BY <1>2, <1>5, <1>6 DEF OwnerInv, MapInv, VisitInv
    <2>2. QueueInv'
      <3>1. \A q \in Pollers : \A y \in Tasks : Settled(q, y) => Settled(q, y)'
        BY <1>2, <1>6 DEF Settled
      <3> QED
        BY <1>2, <3>1, QueueGrows
    <2> QED
      BY <2>1, <2>2
  <1>9. LastInv'
    BY <1>2, <1>6, LastSame
  <1>10. CountInv'
    <2>1. {x \in Readers : Registered(x)}' = {x \in Readers : Registered(x)}
      BY <1>6
    <2> QED
      BY <1>2, <2>1 DEF CountInv
  <1>11. ASSUME NEW c \in Made
         PROVE  \E n, m \in Nat : DispAt(c, n, m)'
    <2>1. PICK n \in Nat, m \in Nat : DispAt(c, n, m)
      BY DEF StreamInv
    <2>2. c \in Readers /\ c # None /\ home[c] \in Pollers
      BY MadeIs
    <2>3. NumbersAt(c, n, m)'
      BY <1>2, <1>6, <2>1, <2>2, SameNumbers DEF DispAt
    <2>4. Lined(tasks[home[c]], c, n, m)' /\ CachedTo(c, n)'
      BY <1>2, <2>1, SameCached DEF DispAt
    <2>5. ServedTo(c, n)'
      <3>1. CASE c # d
        <4>1. \A x \in Readers : owner[x] = c => x # r
          BY <1>3, <3>1
        <4>2. \A x \in Readers : x # r => (x \in todo'[home[c]] <=> x \in todo[home[c]])
          BY <1>5, <2>2
        <4> QED
          BY <1>2, <1>5, <2>1, <4>1, <4>2, SameServedTo DEF DispAt
      <3>2. CASE c = d
        <4>1. k = n
          BY <1>1, <1>3, <2>1, <3>2 DEF DispAt, CachedTo, Runs
        <4>2. ASSUME NEW x \in Readers, ref'[x] = "listening", owner'[x] = c, x # r
              PROVE  IF x \in todo'[home'[c]] THEN ReadTo(x, n - 1)' ELSE ReadTo(x, n)'
          <5>1. IF x \in todo[home[c]] THEN ReadTo(x, n - 1) ELSE ReadTo(x, n)
            BY <1>2, <2>1, <4>2 DEF DispAt, ServedTo
          <5>2. \A i : ReadTo(x, i) => ReadTo(x, i)'
            BY <1>2, <1>5, <4>2 DEF ReadTo
          <5>3. x \in todo'[home'[c]] <=> x \in todo[home[c]]
            BY <1>2, <1>3, <1>5, <3>2, <4>2
          <5> QED
            BY <5>1, <5>2, <5>3
        <4>3. ASSUME ref'[r] = "listening", owner'[r] = c
              PROVE  r \notin todo'[home'[c]] /\ ReadTo(r, n)'
          <5>1. r \notin todo'[home'[c]] /\ seen'[r] = Append(seen[r], n)
            BY <1>2, <1>3, <1>5, <3>2, <4>1, <4>3
          <5>2. SeenTo(seen[r], n - 1)
            BY <1>2, <1>3, <2>1, <3>2, <4>3 DEF DispAt, ServedTo, ReadTo
          <5>3. PICK s \in Seq(Nat) : s = seen[r]
            BY DEF RingTyped
          <5>4. SeenTo(Append(s, n), n) /\ Append(s, n) # <<>>
            BY <5>2, <5>3, SeenAppend
          <5> QED
            BY <5>1, <5>3, <5>4 DEF ReadTo
        <4> QED
          BY <4>2, <4>3 DEF ServedTo
      <3> QED
        BY <3>1, <3>2
    <2> QED
      BY <2>3, <2>4, <2>5 DEF DispAt
  <1>12. StreamInv'
    <2>1. StoredTo(ring, written, firstKey)' /\ GoodItems(firstKey)'
      BY <1>2 DEF StreamInv, GoodItems, GoodItem
    <2> QED
      BY <1>2, <1>6, <1>11, <2>1 DEF StreamInv
  <1> QED
    BY <1>7, <1>8, <1>9, <1>10, <1>12

(* The steps that change nothing but who reports.                           *)
LEMMA OthersKeep ==
  ASSUME RingInv, reporting' \in SUBSET Pollers,
         UNCHANGED <<open, streamVars, mapVars, pollerVars, readerVars, count>>
  PROVE  RingInv'
  <1> USE DEF RingInv, HomeInv
  <1>1. /\ open' = open /\ written' = written /\ firstKey' = firstKey /\ ring' = ring
        /\ disp' = disp /\ dstore' = dstore /\ dmap' = dmap /\ tasks' = tasks /\ cur' = cur /\ todo' = todo
        /\ home' = home /\ owner' = owner /\ ref' = ref /\ mark' = mark /\ seen' = seen /\ detached' = detached
        /\ count' = count
    BY DEF streamVars, mapVars, pollerVars, readerVars
  <1>2. Made' = Made /\ \A x \in Readers : (Alive(x)' <=> Alive(x)) /\ (Registered(x)' <=> Registered(x))
    BY <1>1 DEF Made, Alive, Registered
  <1>3. RingTyped'
    BY <1>1 DEF RingTyped
  <1>4. HomeInv'
    <2>1. OwnerInv' /\ MapInv' /\ VisitInv'
      BY <1>1, <1>2 DEF OwnerInv, MapInv, VisitInv
    <2>2. \A q \in Pollers : \A y \in Tasks : Settled(q, y) => Settled(q, y)'
      BY <1>1, <1>2 DEF Settled
    <2> QED
      BY <1>1, <2>1, <2>2, QueueGrows
  <1>5. LastInv'
    BY <1>1, <1>2, LastSame
  <1>6. CountInv'
    <2>1. {x \in Readers : Registered(x)}' = {x \in Readers : Registered(x)}
      BY <1>2
    <2> QED
      BY <1>1, <2>1 DEF CountInv
  <1>7. StreamInv'
    <2>1. GoodItems(firstKey)' /\ StoredTo(ring', written, firstKey)
      BY <1>1 DEF StreamInv, GoodItems, GoodItem
    <2> QED
      BY <1>1, <1>2, <2>1, StreamKept
  <1> QED
    BY <1>3, <1>4, <1>5, <1>6, <1>7

LEMMA OnReaderChangedKeeps ==
  ASSUME RingInv, NEW p \in Pollers, OnReaderChanged(p)
  PROVE  RingInv'
  <1>1. /\ reporting' = reporting \ {p}
        /\ UNCHANGED <<open, streamVars, mapVars, pollerVars, readerVars, count>>
    BY DEF OnReaderChanged
  <1>2. reporting' \in SUBSET Pollers
    BY <1>1 DEF RingInv, RingTyped
  <1> QED
    BY <1>1, <1>2, OthersKeep

LEMMA NothingKeeps ==
  ASSUME RingInv, UNCHANGED vars
  PROVE  RingInv'
  <1>1. UNCHANGED <<open, streamVars, mapVars, pollerVars, readerVars, count>> /\ reporting' = reporting
    BY DEF vars, countVars
  <1>2. reporting' \in SUBSET Pollers
    BY <1>1 DEF RingInv, RingTyped
  <1> QED
    BY <1>1, <1>2, OthersKeep

LEMMA DropExpiredKeeps ==
  ASSUME RingInv, NEW p \in Pollers, NEW r \in Readers, DropExpired(p, r)
  PROVE  RingInv'
  <1> USE DEF RingInv, HomeInv
  <1>1. /\ r \in todo[p] /\ ~Alive(r) /\ todo' = [todo EXCEPT ![p] = @ \ {r}] /\ Forget(p, r)
        /\ open' = open /\ written' = written /\ firstKey' = firstKey /\ ring' = ring
        /\ dstore' = dstore /\ tasks' = tasks /\ cur' = cur
        /\ home' = home /\ owner' = owner /\ ref' = ref /\ mark' = mark /\ seen' = seen /\ detached' = detached
    BY DEF DropExpired, streamVars, readerVars
  <1>2. home[r] = p
    <2>1. cur[p] # None /\ owner[r] = cur[p].disp /\ cur[p].disp \in Made /\ home[cur[p].disp] = p
      BY <1>1 DEF VisitInv
    <2>2. owner[r] # None
      BY <2>1, MadeIs
    <2> QED
      BY <2>1, <2>2, Owned
  <1>3. /\ MapInv' /\ CountInv'
        /\ disp' \in [Pollers -> Readers \cup {None}] /\ dmap' \in [Readers -> SUBSET Readers]
        /\ count' \in Int /\ reporting' \in SUBSET Pollers
        /\ \A x \in Readers : Registered(x)' <=> Registered(x) /\ x # r
        /\ \A q \in Pollers : disp'[q] \in {disp[q], None}
    BY <1>1, <1>2, ForgetKeeps
  <1>4. /\ todo' \in [Pollers -> SUBSET Readers]
        /\ \A q \in Pollers : todo'[q] = todo[q] \ {r} \/ todo'[q] = todo[q]
    BY <1>1 DEF RingTyped
  <1>5. Made' = Made /\ \A x \in Readers : Alive(x)' <=> Alive(x)
    BY <1>1 DEF Made, Alive
  <1>6. RingTyped'
    BY <1>1, <1>3, <1>4 DEF RingTyped
  <1>7. HomeInv'
    <2>1. OwnerInv' /\ VisitInv'
      BY <1>1, <1>4, <1>5 DEF OwnerInv, VisitInv
    <2>2. \A q \in Pollers : \A y \in Tasks : Settled(q, y) => Settled(q, y)'
      BY <1>1, <1>5 DEF Settled
    <2> QED
      BY <1>1, <1>3, <2>1, <2>2, QueueGrows
  <1>8. LastInv'
    <2>1. \A x \in Readers : Alive(x) => x # r
      BY <1>1
    <2> QED
      BY <1>1, <1>3, <1>5, <2>1, LastSame
  <1>9. StreamInv'
    <2>1. GoodItems(firstKey)' /\ StoredTo(ring', written, firstKey)
      BY <1>1 DEF StreamInv, GoodItems, GoodItem
    <2>2. ASSUME NEW x \in Readers, ref'[x] = "listening"
          PROVE  /\ ref[x] = "listening" /\ seen'[x] = seen[x] /\ mark'[x] = mark[x]
                 /\ \A q \in Pollers : x \in todo'[q] <=> x \in todo[q]
      <3>1. x # r
        BY <1>1, <2>2 DEF Alive
      <3> QED
        BY <1>1, <1>4, <2>2, <3>1
    <2> QED
      BY <1>1, <1>3, <1>5, <2>1, <2>2, StreamKept
  <1> QED
    BY <1>3, <1>6, <1>7, <1>8, <1>9

-----------------------------------------------------------------------------
(* The tasks.                                                               *)

(* A task is taken from a queue.                                            *)
LEMMA Takes ==
  ASSUME RingTyped, QueueInv, LastInv, NEW p \in Pollers, tasks[p] # <<>>,
         tasks' = [tasks EXCEPT ![p] = Tail(@)]
  PROVE  /\ tasks' \in [Pollers -> Seq(Tasks)] /\ tasks[p] \in Seq(Tasks)
         /\ tasks'[p] = Tail(tasks[p]) /\ \A q \in Pollers : q # p => tasks'[q] = tasks[q]
         /\ Head(tasks[p]) \in Tasks /\ Settled(p, Head(tasks[p]))
         /\ \A d : InQueue(tasks[p], d) <=> About(Head(tasks[p]), d) \/ InQueue(tasks'[p], d)
         /\ \A q \in Pollers : DeletesLast(tasks'[q])
         /\ \A q \in Pollers : \A i \in 1 .. Len(tasks'[q]) :
              tasks'[q][i].op = "delete" => ~open /\ ~Runs(q, tasks'[q][i].disp)
         /\ Head(tasks[p]).op # "dealloc" =>
              \A i \in 1 .. Len(tasks'[p]) : tasks'[p][i].op = "delete" =>
                tasks'[p][i].disp # Head(tasks[p]).disp
         /\ Head(tasks[p]).op = "delete" => ~InQueue(tasks'[p], Head(tasks[p]).disp)
  <1>1. PICK q \in Seq(Tasks) : q = tasks[p]
    BY DEF RingTyped
  <1>2. /\ q # <<>> /\ DeletesLast(q)
        /\ \A i \in 1 .. Len(q) : Settled(p, q[i]) /\ (q[i].op = "delete" => ~open /\ ~Runs(p, q[i].disp))
    BY <1>1 DEF QueueInv, LastInv
  <1>3. PICK e : e = Tail(q)
    OBVIOUS
  <1>4. PICK l : l = Len(q)
    OBVIOUS
  <1>5. /\ e \in Seq(Tasks) /\ Head(q) \in Tasks /\ Head(q) = q[1] /\ l \in Nat \ {0} /\ Len(e) = l - 1
        /\ \A i \in 1 .. l - 1 : e[i] = q[i + 1]
    BY <1>2, <1>3, <1>4, TailIs
  <1>6. tasks'[p] = e /\ \A r \in Pollers : r # p => tasks'[r] = tasks[r]
    BY <1>1, <1>3 DEF RingTyped
  <1>7. tasks' \in [Pollers -> Seq(Tasks)]
    BY <1>1, <1>3, <1>5 DEF RingTyped
  <1>8. Settled(p, Head(q))
    <2>1. 1 \in 1 .. l
      BY <1>5
    <2> QED
      BY <1>2, <1>4, <1>5, <2>1
  <1>9. \A d : InQueue(q, d) <=> About(Head(q), d) \/ InQueue(e, d)
    BY <1>2, <1>3, InTail
  <1>10. /\ DeletesLast(e)
         /\ Head(q).op # "dealloc" =>
              \A i \in 1 .. Len(e) : e[i].op = "delete" => e[i].disp # Head(q).disp
         /\ Head(q).op = "delete" => ~InQueue(e, Head(q).disp)
    BY <1>2, <1>3, DeletesTail
  <1>11. \A i \in 1 .. Len(e) : e[i].op = "delete" => ~open /\ ~Runs(p, e[i].disp)
    <2>1. \A i \in 1 .. l - 1 : i + 1 \in 1 .. l
      BY <1>5
    <2> QED
      BY <1>2, <1>4, <1>5, <2>1
  <1>12. \A r \in Pollers : r # p => DeletesLast(tasks'[r]) /\ \A i \in 1 .. Len(tasks'[r]) :
           tasks'[r][i].op = "delete" => ~open /\ ~Runs(r, tasks'[r][i].disp)
    BY <1>6 DEF LastInv
  <1>13. \A r \in Pollers : DeletesLast(tasks'[r]) /\ \A i \in 1 .. Len(tasks'[r]) :
           tasks'[r][i].op = "delete" => ~open /\ ~Runs(r, tasks'[r][i].disp)
    BY <1>6, <1>10, <1>11, <1>12
  <1> QED
    BY <1>1, <1>5, <1>6, <1>7, <1>8, <1>9, <1>10, <1>13

LEMMA LinedTakes ==
  ASSUME RingTyped, NEW p \in Pollers, tasks[p] # <<>>, tasks' = [tasks EXCEPT ![p] = Tail(@)],
         NEW q \in Pollers, NEW d, NEW n \in Nat, NEW m \in Nat, Lined(tasks[q], d, n, m),
         q # p \/ ~IsWriteFor(Head(tasks[p]), d)
  PROVE  Lined(tasks'[q], d, n, m)
  <1>1. CASE q # p
    BY <1>1 DEF RingTyped
  <1>2. CASE q = p
    <2>1. tasks'[q] = Tail(tasks[q]) /\ tasks[q] \in Seq(Tasks) /\ tasks[q] # <<>>
      BY <1>2 DEF RingTyped
    <2>2. Lined(Tail(tasks[q]), d, n, m)
      BY <1>2, <2>1, LinedTailOther
    <2> QED
      BY <2>1, <2>2
  <1> QED
    BY <1>1, <1>2

(* The readers that are left are told.                                      *)
LEMMA DetachKeeps ==
  ASSUME RingTyped, OwnerInv, MapInv, LastInv, ~open, NEW d \in Readers, Detach(d),
         owner' = owner, home' = home, open' = open, disp' = disp
  PROVE  /\ MapInv'
         /\ dmap' \in [Readers -> SUBSET Readers] /\ detached' \in [Readers -> {0, 1}]
         /\ \A x \in Readers : Registered(x)' <=> Registered(x) /\ owner[x] # d
         /\ \A x \in Readers :
              detached'[x] = IF Registered(x) /\ owner[x] = d /\ Alive(x) THEN 1 ELSE detached[x]
  <1>1. /\ dmap'[d] = {} /\ \A c \in Readers : c # d => dmap'[c] = dmap[c]
        /\ dmap' \in [Readers -> SUBSET Readers]
    BY DEF Detach, RingTyped
  <1>2. d # None
    BY NoneAssumption
  <1>3. \A x \in Readers : x \in dmap[d] <=> Registered(x) /\ owner[x] = d
    BY <1>2 DEF MapInv, Registered
  <1>4. \A x \in Readers : Registered(x) => detached[x] = 0
    BY DEF LastInv, RingTyped
  <1>5. \A x \in Readers :
          detached'[x] = IF x \in dmap[d] /\ Alive(x) THEN detached[x] + 1 ELSE detached[x]
    BY DEF Detach
  <1>6. \A x \in Readers :
          detached'[x] = IF Registered(x) /\ owner[x] = d /\ Alive(x) THEN 1 ELSE detached[x]
    BY <1>3, <1>4, <1>5
  <1>7. detached' \in [Readers -> {0, 1}]
    <2>1. detached' = [x \in Readers |-> IF x \in dmap[d] /\ Alive(x) THEN detached[x] + 1
                                         ELSE detached[x]]
      BY DEF Detach
    <2>2. \A x \in Readers : (IF x \in dmap[d] /\ Alive(x) THEN detached[x] + 1 ELSE detached[x]) \in {0, 1}
      BY <1>3, <1>4 DEF RingTyped
    <2> QED
      BY <2>1, <2>2
  <1>8. \A x \in Readers : Registered(x)' <=> Registered(x) /\ owner[x] # d
    <2>1. SUFFICES ASSUME NEW x \in Readers
                   PROVE  Registered(x)' <=> Registered(x) /\ owner[x] # d
      OBVIOUS
    <2>2. owner[x] \in Readers \cup {None}
      BY DEF RingTyped
    <2>3. CASE owner[x] = d
      BY <1>1, <2>3 DEF Registered
    <2>4. CASE owner[x] # d
      BY <1>1, <2>2, <2>4 DEF Registered
    <2> QED
      BY <2>3, <2>4
  <1>9. MapInv'
    <2>1. \A p \in Pollers : disp[p] = None
      BY DEF MapInv
    <2>2. \A c \in Readers : \A x \in dmap'[c] : owner[x] = c
      BY <1>1 DEF MapInv
    <2> QED
      BY <2>1, <2>2 DEF MapInv
  <1> QED
    BY <1>1, <1>6, <1>7, <1>8, <1>9

(* A dispatcher may lose the last task that holds it.                       *)
LEMMA LastStep ==
  ASSUME RingTyped, HomeInv, LastInv, home' = home, owner' = owner, open' = open, ref' = ref,
         disp' = disp, NEW d \in Made,
         \A c \in Made : c # d => (Pending(c)' <=> Pending(c)),
         Pending(d)' => Pending(d),
         \/ dmap' = dmap /\ detached' = detached /\ (open \/ Pending(d)')
         \/ ~open /\ Detach(d) /\ ~Pending(d)',
         \A q \in Pollers : \A c \in Readers : Runs(q, c)' => Runs(q, c),
         \A q \in Pollers : tasks'[q] \in Seq(Tasks) /\ DeletesLast(tasks'[q]),
         \A q \in Pollers : \A i \in 1 .. Len(tasks'[q]) :
           tasks'[q][i].op = "delete" => ~open /\ ~Runs(q, tasks'[q][i].disp)
  PROVE  /\ LastInv' /\ MapInv'
         /\ dmap' \in [Readers -> SUBSET Readers] /\ detached' \in [Readers -> {0, 1}]
         /\ \A x \in Readers : Registered(x)' => Registered(x)
         /\ open => dmap' = dmap
  <1> USE DEF HomeInv
  <1>1. \A x \in Readers : Alive(x)' <=> Alive(x)
    BY DEF Alive
  <1>2. Made' = Made
    BY DEF Made
  <1>3. CASE dmap' = dmap /\ detached' = detached /\ (open \/ Pending(d)')
    <2>1. \A x \in Readers : Registered(x)' <=> Registered(x)
      BY <1>3 DEF Registered
    <2>2. MapInv'
      BY <1>2, <1>3, <2>1 DEF MapInv
    <2>3. dmap' \in [Readers -> SUBSET Readers] /\ detached' \in [Readers -> {0, 1}]
      BY <1>3 DEF RingTyped
    <2>4. CASE ~open
      <3>1. \A c \in Made : Pending(c)' <=> Pending(c)
        BY <1>3, <2>4
      <3> QED
        BY <1>1, <1>3, <2>1, <2>2, <2>3, <2>4, <3>1, LastMoved
    <2>5. CASE open
      <3>1. \A x \in Readers : detached'[x] = 0
        BY <1>3, <2>5, WhileOpen
      <3>2. \A x \in Readers : Alive(x)' => Registered(x)'
        BY <1>1, <2>1, <2>5, WhileOpen
      <3>3. \A q \in Pollers : \A i \in 1 .. Len(tasks'[q]) : tasks'[q][i].op # "delete"
        BY <2>5
      <3> QED
        BY <1>3, <2>1, <2>2, <2>3, <2>5, <3>1, <3>2, <3>3 DEF LastInv
    <2> QED
      BY <2>4, <2>5
  <1>4. CASE ~open /\ Detach(d) /\ ~Pending(d)'
    <2>0. d \in Readers /\ owner[d] = d /\ d # None
      BY MadeIs
    <2>1. /\ MapInv'
          /\ dmap' \in [Readers -> SUBSET Readers] /\ detached' \in [Readers -> {0, 1}]
          /\ \A x \in Readers : Registered(x)' <=> Registered(x) /\ owner[x] # d
          /\ \A x \in Readers :
               detached'[x] = IF Registered(x) /\ owner[x] = d /\ Alive(x) THEN 1 ELSE detached[x]
      BY <1>4, <2>0, DetachKeeps
    <2>2. \A x \in Readers : Alive(x)' => Registered(x)' \/ detached'[x] = 1
      BY <1>1, <2>1 DEF LastInv
    <2>3. ASSUME NEW x \in Readers, owner[x] # None
          PROVE  \E c \in Made : c = owner[x] /\ (Pending(owner[x])' <=> Pending(c)')
      <3>1. PICK c \in Made : c = owner[x] /\ c = owner'[x]
        BY <2>3, Owned
      <3> QED
        BY <3>1
    <2>4. ASSUME NEW x \in Readers, detached'[x] = 1
          PROVE  ~Registered(x)' /\ owner'[x] # None /\ ~Pending(owner[x])'
      <3>1. CASE Registered(x) /\ owner[x] = d /\ Alive(x)
        BY <1>4, <2>0, <2>1, <2>3, <3>1
      <3>2. CASE detached[x] = 1
        <4>1. ~Registered(x) /\ owner[x] # None /\ ~Pending(owner[x])
          BY <3>2 DEF LastInv
        <4>2. PICK c \in Made : c = owner[x] /\ (Pending(owner[x])' <=> Pending(c)')
          BY <2>3, <4>1
        <4> QED
          BY <2>1, <4>1, <4>2
      <3> QED
        BY <2>1, <2>4, <3>1, <3>2
    <2>5. ASSUME NEW x \in Readers, Alive(x)', detached'[x] = 0
          PROVE  Pending(owner[x])'
      <3>1. Alive(x) /\ owner[x] # None
        BY <1>1, <2>5, AliveOwned
      <3>2. detached[x] = 0 /\ ~(Registered(x) /\ owner[x] = d)
        BY <2>1, <2>5, <3>1
      <3>3. Pending(owner[x]) /\ Registered(x)
        BY <1>4, <3>1, <3>2 DEF LastInv
      <3>4. PICK c \in Made : c = owner[x] /\ (Pending(owner[x])' <=> Pending(c)')
        BY <2>3, <3>1
      <3> QED
        BY <3>2, <3>3, <3>4
    <2>6. \A q \in Pollers : \A i \in 1 .. Len(tasks'[q]) :
            tasks'[q][i].op = "delete" => ~open' /\ ~Runs(q, tasks[q][i].disp)'
      <3>1. SUFFICES ASSUME NEW q \in Pollers, NEW i \in 1 .. Len(tasks'[q]), tasks'[q][i].op = "delete"
                     PROVE  ~open' /\ ~Runs(q, tasks[q][i].disp)'
        OBVIOUS
      <3>2. PICK c : c = tasks'[q][i].disp
        OBVIOUS
      <3>3. tasks'[q][i] \in Tasks
        BY <3>1, ElementOfSeq
      <3>4. c \in Readers /\ ~open /\ ~Runs(q, c)
        BY <3>1, <3>2, <3>3, TaskParts
      <3> QED
        BY <3>1, <3>2, <3>4
    <2>7. \A q \in Pollers : DeletesLast(tasks[q])'
      OBVIOUS
    <2> QED
      BY <1>4, <2>1, <2>2, <2>4, <2>5, <2>6, <2>7 DEF LastInv
  <1> QED
    BY <1>3, <1>4


LEMMA EndWriteKeeps ==
  ASSUME RingInv, NEW p \in Pollers, EndWrite(p)
  PROVE  RingInv'
  <1> USE DEF RingInv, HomeInv
  <1>1. PICK d \in Made, x \in Items : d = cur[p].disp /\ x = cur[p].item /\ home[d] = p
    <2>1. cur[p] # None
      BY DEF EndWrite
    <2> QED
      BY <2>1, ItemsAreWritten DEF VisitInv
  <1>2. d \in Readers /\ owner[d] = d /\ d # None
    BY MadeIs
  <1>3. /\ cur[p] # None /\ todo[p] = {} /\ cur' = [cur EXCEPT ![p] = None]
        /\ dstore' = [dstore EXCEPT ![d] = WriteStorage(@, x)]
        /\ open' = open /\ written' = written /\ firstKey' = firstKey /\ ring' = ring
        /\ disp' = disp /\ tasks' = tasks /\ todo' = todo
        /\ home' = home /\ owner' = owner /\ ref' = ref /\ mark' = mark /\ seen' = seen
        /\ count' = count /\ reporting' = reporting
    BY <1>1 DEF EndWrite, streamVars, countVars
  <1>4. IF open \/ InQueue(tasks[p], d) THEN dmap' = dmap /\ detached' = detached ELSE Detach(d)
    BY <1>1 DEF EndWrite, InQueue, About
  <1>5. Made' = Made /\ \A r \in Readers : Alive(r)' <=> Alive(r)
    BY <1>3 DEF Made, Alive
  <1>6. cur'[p] = None /\ \A q \in Pollers : q # p => cur'[q] = cur[q]
    BY <1>3 DEF RingTyped
  <1>7. PICK n \in Nat, m \in Nat : DispAt(d, n, m)
    BY DEF StreamInv
  <1>8. x.n = n /\ StoredTo(dstore[d], n - 1, firstKey) /\ GoodItem(x, firstKey)
    <2>1. Runs(home[d], d)
      BY <1>1, <1>3 DEF Runs
    <2>2. cur[home[d]].item.n = n /\ StoredTo(dstore[d], n - 1, firstKey)
      BY <1>7, <2>1 DEF DispAt, CachedTo
    <2>3. GoodItem(x, firstKey)
      BY <1>1, <1>3 DEF StreamInv, GoodItems
    <2> QED
      BY <1>1, <2>2, <2>3
  <1>9. PICK s : s = WriteStorage(dstore[d], x)
    OBVIOUS
  <1>10. s \in Storages /\ StoredTo(s, n, firstKey)
    <2>1. PICK j \in Nat : j = n - 1
      BY <1>8, ItemParts DEF Items
    <2>2. dstore[d] \in Storages /\ firstKey \in Nat
      BY <1>2, NumbersIs DEF RingTyped
    <2>3. StoredTo(dstore[d], j, firstKey) /\ x.n = j + 1 /\ n = j + 1
      BY <1>8, <2>1
    <2> QED
      BY <1>8, <1>9, <2>2, <2>3, WriteStorageKeeps
  <1>11. dstore'[d] = s /\ \A c \in Readers : c # d => dstore'[c] = dstore[c]
    BY <1>2, <1>3, <1>9 DEF RingTyped
  <1>12. dstore' \in [Readers -> Storages]
    BY <1>3, <1>9, <1>10 DEF RingTyped
  <1>13. \A c \in Made : c # d => (Pending(c)' <=> Pending(c))
    <2>1. SUFFICES ASSUME NEW c \in Made, c # d
                   PROVE  Pending(c)' <=> Pending(c)
      OBVIOUS
    <2>2. home[c] \in Pollers
      BY MadeIs
    <2>3. CASE home[c] = p
      <3>1. ~Runs(p, c) /\ ~Runs(p, c)'
        BY <1>1, <1>6, <2>1 DEF Runs
      <3> QED
        BY <1>3, <2>3, <3>1 DEF Pending, InQueue
    <2>4. CASE home[c] # p
      BY <1>3, <1>6, <2>2, <2>4, SamePending
    <2> QED
      BY <2>3, <2>4
  <1>14. (Pending(d)' <=> InQueue(tasks[p], d)) /\ Pending(d)
    BY <1>1, <1>3, <1>6 DEF Pending, Runs, InQueue
  <1>15. \A q \in Pollers : \A c \in Readers : Runs(q, c)' => Runs(q, c)
    BY <1>6 DEF Runs
  <1>16. \A q \in Pollers : \A i \in 1 .. Len(tasks'[q]) :
           tasks'[q][i].op = "delete" => ~open /\ ~Runs(q, tasks'[q][i].disp)
    BY <1>3 DEF LastInv
  <1>17. \A q \in Pollers : tasks'[q] \in Seq(Tasks) /\ DeletesLast(tasks'[q])
    BY <1>3 DEF LastInv, RingTyped
  <1>18. \/ dmap' = dmap /\ detached' = detached /\ (open \/ Pending(d)')
         \/ ~open /\ Detach(d) /\ ~Pending(d)'
    BY <1>4, <1>14
  <1>19. /\ LastInv' /\ MapInv'
         /\ dmap' \in [Readers -> SUBSET Readers] /\ detached' \in [Readers -> {0, 1}]
         /\ \A r \in Readers : Registered(r)' => Registered(r)
         /\ open => dmap' = dmap
    BY <1>3, <1>13, <1>14, <1>15, <1>16, <1>17, <1>18, LastStep
  <1>20. RingTyped'
    BY <1>3, <1>12, <1>19 DEF RingTyped
  <1>21. HomeInv'
    <2>1. OwnerInv'
      BY <1>3, <1>5 DEF OwnerInv
    <2>2. VisitInv'
      BY <1>3, <1>5, <1>6 DEF VisitInv
    <2>3. \A q \in Pollers : \A y \in Tasks : Settled(q, y) => Settled(q, y)'
      BY <1>3, <1>5 DEF Settled
    <2> QED
      BY <1>3, <1>19, <2>1, <2>2, <2>3, QueueGrows
  <1>22. CountInv'
    <2>1. open => {r \in Readers : Registered(r)}' = {r \in Readers : Registered(r)}
      BY <1>3, <1>19 DEF Registered
    <2> QED
      BY <1>3, <2>1 DEF CountInv
  <1>23. ASSUME NEW c \in Made, NEW i \in Nat, CachedTo(c, i)
         PROVE  CachedTo(c, i)'
    <2>0. c \in Readers /\ home[c] \in Pollers
      BY MadeIs
    <2>1. CASE c = d
      <3>1. i = n
        BY <1>1, <1>3, <1>8, <1>23, <2>1 DEF CachedTo, Runs
      <3>2. ~Runs(home[c], c)'
        BY <1>1, <1>3, <1>6, <2>1 DEF Runs
      <3>3. StoredTo(dstore'[c], i, firstKey')
        BY <1>3, <1>10, <1>11, <2>1, <3>1
      <3> QED
        BY <3>2, <3>3 DEF CachedTo
    <2>2. CASE c # d /\ home[c] = p
      <3>1. ~Runs(home[c], c) /\ ~Runs(home[c], c)'
        BY <1>1, <1>3, <1>6, <2>2 DEF Runs
      <3>2. StoredTo(dstore'[c], i, firstKey')
        BY <1>3, <1>11, <1>23, <2>0, <2>2, <3>1 DEF CachedTo
      <3> QED
        BY <3>1, <3>2 DEF CachedTo
    <2>3. CASE c # d /\ home[c] # p
      BY <1>3, <1>6, <1>11, <1>23, <2>0, <2>3, SameCached
    <2> QED
      BY <2>1, <2>2, <2>3
  <1>24. StreamInv'
    <2>1. GoodItems(firstKey)' /\ StoredTo(ring', written, firstKey)
      BY <1>3, <1>6 DEF StreamInv, GoodItems, GoodItem
    <2>2. \A c \in Readers : c \notin Made => dstore'[c] = dstore[c]
      BY <1>11
    <2> QED
      BY <1>3, <1>5, <1>23, <2>1, <2>2, StreamMoved
  <1> QED
    BY <1>19, <1>20, <1>21, <1>22, <1>24

LEMMA InRest ==
  ASSUME NEW q \in Seq(Tasks), q # <<>>, NEW d
  PROVE  (\E i \in 2 .. Len(q) : q[i].op # "dealloc" /\ q[i].disp = d) <=> InQueue(Tail(q), d)
  <1>1. PICK e : e = Tail(q)
    OBVIOUS
  <1>2. PICK l : l = Len(q)
    OBVIOUS
  <1>3. /\ l \in Nat \ {0} /\ Len(e) = l - 1 /\ \A i \in 1 .. l - 1 : e[i] = q[i + 1]
    BY <1>1, <1>2, TailIs
  <1>4. ASSUME NEW i \in 2 .. l, About(q[i], d)
        PROVE  InQueue(e, d)
    <2>1. PICK j : j = i - 1
      OBVIOUS
    <2>2. j \in 1 .. l - 1 /\ j + 1 = i
      BY <1>3, <2>1
    <2>3. About(e[j], d)
      BY <1>3, <1>4, <2>2
    <2> QED
      BY <1>3, <2>2, <2>3 DEF InQueue
  <1>5. ASSUME InQueue(e, d)
        PROVE  \E i \in 2 .. l : About(q[i], d)
    <2>1. PICK j \in 1 .. l - 1 : About(e[j], d)
      BY <1>3, <1>5 DEF InQueue
    <2>2. j + 1 \in 2 .. l /\ e[j] = q[j + 1]
      BY <1>3, <2>1
    <2> QED
      BY <2>1, <2>2
  <1> QED
    BY <1>1, <1>2, <1>4, <1>5 DEF About

(* Who is waited for when a poller takes a task that is over at once.       *)
LEMMA PendingTakes ==
  ASSUME RingTyped, HomeInv, LastInv, NEW p \in Pollers, tasks[p] # <<>>, cur[p] = None,
         tasks' = [tasks EXCEPT ![p] = Tail(@)], cur' = cur, home' = home
  PROVE  /\ \A c \in Made : ~About(Head(tasks[p]), c) => (Pending(c)' <=> Pending(c))
         /\ \A c \in Made : About(Head(tasks[p]), c) =>
              home[c] = p /\ Pending(c) /\ (Pending(c)' <=> InQueue(tasks'[p], c))
  <1> USE DEF HomeInv
  <1>1. PICK x \in Tasks : x = Head(tasks[p])
    BY Takes
  <1>2. /\ \A q \in Pollers : q # p => tasks'[q] = tasks[q]
        /\ Settled(p, x)
        /\ \A d : InQueue(tasks[p], d) <=> About(x, d) \/ InQueue(tasks'[p], d)
    BY <1>1, Takes
  <1>3. ASSUME NEW c \in Made, ~About(x, c)
        PROVE  Pending(c)' <=> Pending(c)
    <2>1. home[c] \in Pollers
      BY MadeIs
    <2>2. InQueue(tasks'[home[c]], c) <=> InQueue(tasks[home[c]], c)
      BY <1>2, <1>3, <2>1
    <2> QED
      BY <2>2, SamePending
  <1>4. ASSUME NEW c \in Made, About(x, c)
        PROVE  home[c] = p /\ Pending(c) /\ (Pending(c)' <=> InQueue(tasks'[p], c))
    <2>1. home[c] = p
      BY <1>2, <1>4 DEF Settled, About
    <2>2. Pending(c)
      BY <1>2, <1>4, <2>1 DEF Pending
    <2>3. ~Runs(home[c], c)'
      BY <2>1 DEF Runs
    <2>4. Pending(c)' <=> InQueue(tasks'[p], c)
      BY <2>1, <2>3 DEF Pending, InQueue
    <2> QED
      BY <2>1, <2>2, <2>4
  <1> QED
    BY <1>1, <1>3, <1>4

LEMMA RunClearKeeps ==
  ASSUME RingInv, NEW p \in Pollers, RunClear(p)
  PROVE  RingInv'
  <1> USE DEF RingInv, HomeInv
  <1>1. PICK x : x = Head(tasks[p])
    OBVIOUS
  <1>2. PICK d : d = x.disp
    OBVIOUS
  <1>3. /\ cur[p] = None /\ tasks[p] # <<>> /\ x.op = "clear" /\ tasks' = [tasks EXCEPT ![p] = Tail(@)]
        /\ dstore' = IF dmap[d] = {} THEN [dstore EXCEPT ![d] = ClearCache(@)] ELSE dstore
        /\ open' = open /\ written' = written /\ firstKey' = firstKey /\ ring' = ring
        /\ disp' = disp /\ cur' = cur /\ todo' = todo
        /\ home' = home /\ owner' = owner /\ ref' = ref /\ mark' = mark /\ seen' = seen
        /\ count' = count /\ reporting' = reporting
    BY <1>1, <1>2 DEF RunClear, StartTask, PollerIdle, streamVars, countVars
  <1>4. /\ tasks' \in [Pollers -> Seq(Tasks)] /\ tasks[p] \in Seq(Tasks) /\ tasks'[p] = Tail(tasks[p])
        /\ x \in Tasks /\ Settled(p, x)
        /\ \A q \in Pollers : DeletesLast(tasks'[q])
        /\ \A q \in Pollers : \A i \in 1 .. Len(tasks'[q]) :
             tasks'[q][i].op = "delete" => ~open /\ ~Runs(q, tasks'[q][i].disp)
    BY <1>1, <1>3, Takes
  <1>5. d \in Made /\ d \in Readers /\ About(x, d) /\ \A c : About(x, c) => c = d
    <2>1. d \in Made
      BY <1>2, <1>3, <1>4 DEF Settled
    <2> QED
      BY <1>2, <1>3, <2>1, MadeIs DEF About
  <1>6. IF open \/ InQueue(tasks'[p], d) THEN dmap' = dmap /\ detached' = detached ELSE Detach(d)
    <2>1. (\E i \in 2 .. Len(tasks[p]) : tasks[p][i].op # "dealloc" /\ tasks[p][i].disp = d)
            <=> InQueue(tasks'[p], d)
      BY <1>3, <1>4, InRest
    <2> QED
      BY <1>1, <1>2, <2>1 DEF RunClear
  <1>7. Made' = Made /\ \A r \in Readers : Alive(r)' <=> Alive(r)
    BY <1>3 DEF Made, Alive
  <1>8. /\ \A c \in Made : c # d => (Pending(c)' <=> Pending(c))
        /\ Pending(d) /\ (Pending(d)' <=> InQueue(tasks'[p], d))
    BY <1>1, <1>3, <1>5, PendingTakes
  <1>9. \A q \in Pollers : \A c \in Readers : Runs(q, c)' => Runs(q, c)
    BY <1>3 DEF Runs
  <1>10. \/ dmap' = dmap /\ detached' = detached /\ (open \/ Pending(d)')
         \/ ~open /\ Detach(d) /\ ~Pending(d)'
    BY <1>6, <1>8
  <1>11. \A q \in Pollers : tasks'[q] \in Seq(Tasks) /\ DeletesLast(tasks'[q])
    BY <1>4
  <1>12. /\ LastInv' /\ MapInv'
         /\ dmap' \in [Readers -> SUBSET Readers] /\ detached' \in [Readers -> {0, 1}]
         /\ \A r \in Readers : Registered(r)' => Registered(r)
         /\ open => dmap' = dmap
    BY <1>3, <1>4, <1>5, <1>8, <1>9, <1>10, <1>11, LastStep
  <1>13. \A c \in Readers : dstore'[c] = dstore[c] \/ dstore'[c] = ClearCache(dstore[c])
    BY <1>3 DEF RingTyped
  <1>14. dstore' \in [Readers -> Storages]
    <2>1. \A s \in Storages : ClearCache(s) \in Storages
      BY EmptyCache DEF ClearCache, Storages
    <2> QED
      BY <1>3, <1>5, <2>1 DEF RingTyped
  <1>15. RingTyped'
    BY <1>3, <1>4, <1>12, <1>14 DEF RingTyped
  <1>16. HomeInv'
    <2>1. OwnerInv' /\ VisitInv'
      BY <1>3, <1>7 DEF OwnerInv, VisitInv
    <2>2. \A q \in Pollers : \A y \in Tasks : Settled(q, y) => Settled(q, y)'
      BY <1>3, <1>7 DEF Settled
    <2>3. QueueInv'
      BY <1>3, <2>2, QueueShrinks
    <2> QED
      BY <1>12, <2>1, <2>3
  <1>17. CountInv'
    <2>1. open => {r \in Readers : Registered(r)}' = {r \in Readers : Registered(r)}
      BY <1>3, <1>12 DEF Registered
    <2> QED
      BY <1>3, <2>1 DEF CountInv
  <1>18. ASSUME NEW c \in Made, NEW i \in Nat, CachedTo(c, i)
         PROVE  CachedTo(c, i)'
    <2>1. c \in Readers /\ dstore[c] \in Storages /\ firstKey \in Nat
      BY MadeIs, NumbersIs DEF RingTyped
    <2>2. \A j \in Int : StoredTo(dstore[c], j, firstKey) => StoredTo(dstore'[c], j, firstKey)
      BY <1>13, <2>1, ClearKeepsStored
    <2>3. Runs(home[c], c)' <=> Runs(home[c], c)
      BY <1>3 DEF Runs
    <2>4. i \in Int /\ i - 1 \in Int
      OBVIOUS
    <2> QED
      BY <1>3, <1>18, <2>2, <2>3, <2>4 DEF CachedTo
  <1>19. StreamInv'
    <2>1. GoodItems(firstKey)
      BY DEF StreamInv
    <2>2. \A q \in Pollers : \A i \in 1 .. Len(tasks'[q]) :
            tasks'[q][i].op = "write" => GoodItem(tasks'[q][i].item, firstKey)
      BY <1>3, <2>1, GoodShrinks
    <2>3. GoodItems(firstKey)'
      BY <1>3, <2>1, <2>2 DEF GoodItems, GoodItem
    <2>4. StoredTo(ring', written, firstKey)
      BY <1>3 DEF StreamInv
    <2>5. \A q \in Pollers : \A c \in Readers : \A n, m \in Nat :
            Lined(tasks[q], c, n, m) => Lined(tasks'[q], c, n, m)
      <3>1. \A c : ~IsWriteFor(Head(tasks[p]), c)
        BY <1>1, <1>3 DEF IsWriteFor
      <3> QED
        BY <1>3, <3>1, LinedTakes
    <2>6. \A c \in Readers : c \notin Made => dstore'[c] = dstore[c]
      BY <1>3, <1>5 DEF RingTyped
    <2> QED
      BY <1>3, <1>7, <1>18, <2>3, <2>4, <2>5, <2>6, StreamMoved
  <1> QED
    BY <1>12, <1>15, <1>16, <1>17, <1>19

LEMMA RunDeleteKeeps ==
  ASSUME RingInv, NEW p \in Pollers, RunDelete(p)
  PROVE  RingInv'
  <1> USE DEF RingInv, HomeInv
  <1>1. PICK x : x = Head(tasks[p])
    OBVIOUS
  <1>2. PICK d : d = x.disp
    OBVIOUS
  <1>3. /\ cur[p] = None /\ tasks[p] # <<>> /\ x.op = "delete" /\ tasks' = [tasks EXCEPT ![p] = Tail(@)]
        /\ Detach(d)
        /\ open' = open /\ written' = written /\ firstKey' = firstKey /\ ring' = ring
        /\ disp' = disp /\ dstore' = dstore /\ cur' = cur /\ todo' = todo
        /\ home' = home /\ owner' = owner /\ ref' = ref /\ mark' = mark /\ seen' = seen
        /\ count' = count /\ reporting' = reporting
    BY <1>1, <1>2 DEF RunDelete, StartTask, PollerIdle, streamVars, countVars
  <1>4. /\ tasks' \in [Pollers -> Seq(Tasks)] /\ tasks[p] \in Seq(Tasks) /\ tasks'[p] = Tail(tasks[p])
        /\ x \in Tasks /\ x = tasks[p][1] /\ 1 \in 1 .. Len(tasks[p]) /\ Settled(p, x)
        /\ \A q \in Pollers : DeletesLast(tasks'[q])
        /\ \A q \in Pollers : \A i \in 1 .. Len(tasks'[q]) :
             tasks'[q][i].op = "delete" => ~open /\ ~Runs(q, tasks'[q][i].disp)
        /\ ~InQueue(tasks'[p], d)
    <2>1. tasks[p] \in Seq(Tasks)
      BY DEF RingTyped
    <2>2. x = tasks[p][1] /\ 1 \in 1 .. Len(tasks[p])
      BY <1>1, <1>3, <2>1, TailIs
    <2> QED
      BY <1>1, <1>2, <1>3, <2>2, Takes
  <1>5. d \in Made /\ d \in Readers /\ About(x, d) /\ \A c : About(x, c) => c = d
    <2>1. d \in Made
      BY <1>2, <1>3, <1>4 DEF Settled
    <2> QED
      BY <1>2, <1>3, <2>1, MadeIs DEF About
  <1>6. ~open
    BY <1>3, <1>4 DEF LastInv
  <1>7. Made' = Made /\ \A r \in Readers : Alive(r)' <=> Alive(r)
    BY <1>3 DEF Made, Alive
  <1>8. /\ \A c \in Made : c # d => (Pending(c)' <=> Pending(c))
        /\ Pending(d) /\ (Pending(d)' <=> InQueue(tasks'[p], d))
    BY <1>1, <1>3, <1>5, PendingTakes
  <1>9. \A q \in Pollers : \A c \in Readers : Runs(q, c)' => Runs(q, c)
    BY <1>3 DEF Runs
  <1>10. ~open /\ Detach(d) /\ ~Pending(d)'
    BY <1>3, <1>4, <1>6, <1>8
  <1>11. \A q \in Pollers : tasks'[q] \in Seq(Tasks) /\ DeletesLast(tasks'[q])
    BY <1>4
  <1>12. /\ LastInv' /\ MapInv'
         /\ dmap' \in [Readers -> SUBSET Readers] /\ detached' \in [Readers -> {0, 1}]
         /\ \A r \in Readers : Registered(r)' => Registered(r)
    BY <1>3, <1>4, <1>5, <1>8, <1>9, <1>10, <1>11, LastStep
  <1>13. RingTyped'
    BY <1>3, <1>4, <1>12 DEF RingTyped
  <1>14. HomeInv'
    <2>1. OwnerInv' /\ VisitInv'
      BY <1>3, <1>7 DEF OwnerInv, VisitInv
    <2>2. \A q \in Pollers : \A y \in Tasks : Settled(q, y) => Settled(q, y)'
      BY <1>3, <1>7 DEF Settled
    <2>3. QueueInv'
      BY <1>3, <2>2, QueueShrinks
    <2> QED
      BY <1>12, <2>1, <2>3
  <1>15. CountInv'
    BY <1>3, <1>6 DEF CountInv
  <1>16. StreamInv'
    <2>1. GoodItems(firstKey)
      BY DEF StreamInv
    <2>2. \A q \in Pollers : \A i \in 1 .. Len(tasks'[q]) :
            tasks'[q][i].op = "write" => GoodItem(tasks'[q][i].item, firstKey)
      BY <1>3, <2>1, GoodShrinks
    <2>3. GoodItems(firstKey)'
      BY <1>3, <2>1, <2>2 DEF GoodItems, GoodItem
    <2>4. StoredTo(ring', written, firstKey)
      BY <1>3 DEF StreamInv
    <2>5. \A q \in Pollers : \A c \in Readers : \A n, m \in Nat :
            Lined(tasks[q], c, n, m) => Lined(tasks'[q], c, n, m)
      <3>1. \A c : ~IsWriteFor(Head(tasks[p]), c)
        BY <1>1, <1>3 DEF IsWriteFor
      <3> QED
        BY <1>3, <3>1, LinedTakes
    <2> QED
      BY <1>3, <1>7, <2>3, <2>4, <2>5, StreamKept
  <1> QED
    BY <1>12, <1>13, <1>14, <1>15, <1>16

LEMMA RunDeallocKeeps ==
  ASSUME RingInv, NEW p \in Pollers, RunDealloc(p)
  PROVE  RingInv'
  <1> USE DEF RingInv, HomeInv
  <1>1. PICK x : x = Head(tasks[p])
    OBVIOUS
  <1>2. PICK r : r = x.reader
    OBVIOUS
  <1>3. /\ cur[p] = None /\ tasks[p] # <<>> /\ x.op = "dealloc" /\ tasks' = [tasks EXCEPT ![p] = Tail(@)]
        /\ ref' = [ref EXCEPT ![r] = "gone"] /\ Forget(p, r)
        /\ open' = open /\ written' = written /\ firstKey' = firstKey /\ ring' = ring
        /\ dstore' = dstore /\ cur' = cur /\ todo' = todo
        /\ home' = home /\ owner' = owner /\ mark' = mark /\ seen' = seen /\ detached' = detached
    BY <1>1, <1>2 DEF RunDealloc, StartTask, PollerIdle, streamVars
  <1>4. /\ tasks' \in [Pollers -> Seq(Tasks)]
        /\ x \in Tasks /\ Settled(p, x)
        /\ \A q \in Pollers : DeletesLast(tasks'[q])
        /\ \A q \in Pollers : \A i \in 1 .. Len(tasks'[q]) :
             tasks'[q][i].op = "delete" => ~open /\ ~Runs(q, tasks'[q][i].disp)
    BY <1>1, <1>3, Takes
  <1>5. r \in Readers /\ home[r] = p /\ ref[r] \in {"released", "gone"}
    BY <1>2, <1>3, <1>4, TaskParts DEF Settled
  <1>6. /\ MapInv' /\ CountInv'
        /\ disp' \in [Pollers -> Readers \cup {None}] /\ dmap' \in [Readers -> SUBSET Readers]
        /\ count' \in Int /\ reporting' \in SUBSET Pollers
        /\ \A y \in Readers : Registered(y)' <=> Registered(y) /\ y # r
        /\ \A q \in Pollers : disp'[q] \in {disp[q], None}
    BY <1>3, <1>5, ForgetKeeps
  <1>7. ref'[r] = "gone" /\ \A y \in Readers : y # r => ref'[y] = ref[y]
    BY <1>3, <1>5 DEF RingTyped
  <1>8. Made' = Made /\ \A y \in Readers : (Alive(y)' <=> Alive(y)) /\ (Alive(y) => y # r)
    BY <1>3, <1>5, <1>7 DEF Made, Alive
  <1>9. RingTyped'
    BY <1>3, <1>4, <1>6 DEF RingTyped
  <1>10. HomeInv'
    <2>1. OwnerInv'
      BY <1>3, <1>5, <1>7, <1>8 DEF OwnerInv
    <2>2. VisitInv'
      BY <1>3, <1>8 DEF VisitInv
    <2>3. \A q \in Pollers : \A y \in Tasks : Settled(q, y) => Settled(q, y)'
      BY <1>3, <1>7, <1>8, TaskParts DEF Settled
    <2>4. QueueInv'
      BY <1>3, <2>3, QueueShrinks
    <2> QED
      BY <1>6, <2>1, <2>2, <2>4
  <1>11. LastInv'
    <2>1. \A c \in Made : Pending(c)' <=> Pending(c)
      <3>1. \A c : ~About(x, c)
        BY <1>3 DEF About
      <3> QED
        BY <1>1, <1>3, <3>1, PendingTakes
    <2>2. \A y \in Readers : Alive(y)' => Alive(y) /\ (Registered(y) => Registered(y)')
      BY <1>6, <1>8
    <2>3. \A y \in Readers : Registered(y)' => Registered(y)
      BY <1>6
    <2>4. \A q \in Pollers : \A c \in Readers : Runs(q, c)' => Runs(q, c)
      BY <1>3 DEF Runs
    <2>5. \A q \in Pollers : tasks'[q] \in Seq(Tasks)
      BY <1>4
    <2> QED
      BY <1>3, <1>4, <2>1, <2>2, <2>3, <2>4, <2>5, LastMoved
  <1>12. StreamInv'
    <2>1. GoodItems(firstKey)
      BY DEF StreamInv
    <2>2. \A q \in Pollers : \A i \in 1 .. Len(tasks'[q]) :
            tasks'[q][i].op = "write" => GoodItem(tasks'[q][i].item, firstKey)
      BY <1>3, <2>1, GoodShrinks
    <2>3. GoodItems(firstKey)'
      BY <1>3, <2>1, <2>2 DEF GoodItems, GoodItem
    <2>4. StoredTo(ring', written, firstKey)
      BY <1>3 DEF StreamInv
    <2>5. \A q \in Pollers : \A c \in Readers : \A n, m \in Nat :
            Lined(tasks[q], c, n, m) => Lined(tasks'[q], c, n, m)
      <3>1. \A c : ~IsWriteFor(Head(tasks[p]), c)
        BY <1>1, <1>3 DEF IsWriteFor
      <3> QED
        BY <1>3, <3>1, LinedTakes
    <2>6. ASSUME NEW y \in Readers, ref'[y] = "listening"
          PROVE  /\ ref[y] = "listening" /\ seen'[y] = seen[y] /\ mark'[y] = mark[y]
                 /\ \A q \in Pollers : y \in todo'[q] <=> y \in todo[q]
      BY <1>3, <1>7, <2>6
    <2> QED
      BY <1>3, <1>6, <1>8, <2>3, <2>4, <2>5, <2>6, StreamKept
  <1> QED
    BY <1>6, <1>9, <1>10, <1>11, <1>12

LEMMA StartWriteKeeps ==
  ASSUME RingInv, NEW p \in Pollers, StartWrite(p)
  PROVE  RingInv'
  <1> USE DEF RingInv, HomeInv
  <1>1. PICK x : x = Head(tasks[p])
    OBVIOUS
  <1>2. PICK d : d = x.disp
    OBVIOUS
  <1>3. /\ cur[p] = None /\ tasks[p] # <<>> /\ x.op = "write" /\ tasks' = [tasks EXCEPT ![p] = Tail(@)]
        /\ cur' = [cur EXCEPT ![p] = x] /\ todo' = [todo EXCEPT ![p] = dmap[d]]
        /\ open' = open /\ written' = written /\ firstKey' = firstKey /\ ring' = ring
        /\ disp' = disp /\ dstore' = dstore /\ dmap' = dmap
        /\ home' = home /\ owner' = owner /\ ref' = ref /\ mark' = mark /\ seen' = seen
        /\ detached' = detached /\ count' = count /\ reporting' = reporting
    BY <1>1, <1>2 DEF StartWrite, StartTask, PollerIdle, streamVars, mapVars, readerVars, countVars
  <1>4. /\ tasks' \in [Pollers -> Seq(Tasks)] /\ tasks[p] \in Seq(Tasks) /\ tasks'[p] = Tail(tasks[p])
        /\ \A q \in Pollers : q # p => tasks'[q] = tasks[q]
        /\ x \in Tasks /\ x = tasks[p][1] /\ 1 \in 1 .. Len(tasks[p]) /\ Settled(p, x)
        /\ \A c : InQueue(tasks[p], c) <=> About(x, c) \/ InQueue(tasks'[p], c)
        /\ \A q \in Pollers : DeletesLast(tasks'[q])
        /\ \A q \in Pollers : \A i \in 1 .. Len(tasks'[q]) :
             tasks'[q][i].op = "delete" => ~open /\ ~Runs(q, tasks'[q][i].disp)
        /\ \A i \in 1 .. Len(tasks'[p]) : tasks'[p][i].op = "delete" => tasks'[p][i].disp # d
    <2>1. tasks[p] \in Seq(Tasks)
      BY DEF RingTyped
    <2>2. x = tasks[p][1] /\ 1 \in 1 .. Len(tasks[p])
      BY <1>1, <1>3, <2>1, TailIs
    <2>3. x.op # "dealloc"
      BY <1>3
    <2>4. /\ tasks' \in [Pollers -> Seq(Tasks)] /\ tasks'[p] = Tail(tasks[p])
          /\ \A q \in Pollers : q # p => tasks'[q] = tasks[q]
          /\ x \in Tasks /\ Settled(p, x)
          /\ \A c : InQueue(tasks[p], c) <=> About(x, c) \/ InQueue(tasks'[p], c)
      BY <1>1, <1>3, Takes
    <2>5. /\ \A q \in Pollers : DeletesLast(tasks'[q])
          /\ \A q \in Pollers : \A i \in 1 .. Len(tasks'[q]) :
               tasks'[q][i].op = "delete" => ~open /\ ~Runs(q, tasks'[q][i].disp)
          /\ \A i \in 1 .. Len(tasks'[p]) : tasks'[p][i].op = "delete" => tasks'[p][i].disp # d
      BY <1>1, <1>2, <1>3, <2>3, Takes
    <2> QED
      BY <2>1, <2>2, <2>4, <2>5
  <1>5. d \in Made /\ d \in Readers /\ d # None /\ home[d] = p /\ \A c : About(x, c) <=> c = d
    <2>1. d \in Made /\ home[d] = p
      BY <1>2, <1>3, <1>4 DEF Settled
    <2> QED
      BY <1>2, <1>3, <2>1, MadeIs DEF About
  <1>6. todo[p] = {} /\ \A c : ~Runs(p, c)
    BY <1>3, WhileIdle
  <1>7. /\ cur'[p] = x /\ todo'[p] = dmap[d] /\ x # None
        /\ \A q \in Pollers : q # p => cur'[q] = cur[q] /\ todo'[q] = todo[q]
    BY <1>3, <1>4, TaskParts DEF RingTyped
  <1>8. Made' = Made /\ \A r \in Readers : (Alive(r)' <=> Alive(r)) /\ (Registered(r)' <=> Registered(r))
    BY <1>3 DEF Made, Alive, Registered
  <1>9. \A c : Runs(p, c)' <=> c = d
    BY <1>2, <1>7 DEF Runs
  <1>10. \A c \in Made : Pending(c)' <=> Pending(c)
    <2>1. SUFFICES ASSUME NEW c \in Made
                   PROVE  Pending(c)' <=> Pending(c)
      OBVIOUS
    <2>2. home[c] \in Pollers
      BY MadeIs
    <2>3. CASE home[c] = p
      <3>1. Pending(c) <=> c = d \/ InQueue(tasks'[p], c)
        BY <1>4, <1>5, <1>6, <2>3 DEF Pending
      <3>2. Pending(c)' <=> c = d \/ InQueue(tasks'[p], c)
        BY <1>3, <1>9, <2>3 DEF Pending, InQueue
      <3> QED
        BY <3>1, <3>2
    <2>4. CASE home[c] # p
      BY <1>3, <1>4, <1>7, <2>2, <2>4, SamePending
    <2> QED
      BY <2>3, <2>4
  <1>11. RingTyped'
    BY <1>3, <1>4, <1>5 DEF RingTyped
  <1>12. HomeInv'
    <2>1. OwnerInv' /\ MapInv'
      BY <1>3, <1>8 DEF OwnerInv, MapInv
    <2>2. VisitInv'
      <3>1. SUFFICES ASSUME NEW q \in Pollers
                     PROVE  /\ cur'[q] # None => cur'[q].op = "write" /\ cur'[q].disp \in Made /\ home[cur'[q].disp] = q
                            /\ \A r \in todo'[q] : cur'[q] # None /\ owner[r] = cur'[q].disp
        BY <1>3, <1>8 DEF VisitInv
      <3>2. CASE q = p
        BY <1>2, <1>3, <1>5, <1>7, <3>2 DEF MapInv
      <3>3. CASE q # p
        BY <1>7, <3>3 DEF VisitInv
      <3> QED
        BY <3>2, <3>3
    <2>3. \A q \in Pollers : \A y \in Tasks : Settled(q, y) => Settled(q, y)'
      BY <1>3, <1>8 DEF Settled
    <2>4. QueueInv'
      BY <1>3, <2>3, QueueShrinks
    <2> QED
      BY <2>1, <2>2, <2>4
  <1>13. LastInv'
    <2>1. \A q \in Pollers : \A c \in Readers : Runs(q, c)' => Runs(q, c) \/
            \A i \in 1 .. Len(tasks'[q]) : tasks'[q][i].op = "delete" => tasks'[q][i].disp # c
      <3>1. ASSUME NEW q \in Pollers, NEW c \in Readers, q # p
            PROVE  Runs(q, c)' <=> Runs(q, c)
        BY <1>7, <3>1 DEF Runs
      <3> QED
        BY <1>4, <1>9, <3>1
    <2>2. \A q \in Pollers : tasks'[q] \in Seq(Tasks)
      BY <1>4
    <2> QED
      BY <1>3, <1>4, <1>8, <1>10, <2>1, <2>2, LastMoved
  <1>14. CountInv'
    <2>1. {r \in Readers : Registered(r)}' = {r \in Readers : Registered(r)}
      BY <1>8
    <2> QED
      BY <1>3, <2>1 DEF CountInv
  <1>15. ASSUME NEW c \in Made, c # d
         PROVE  \E n, m \in Nat : DispAt(c, n, m)'
    <2>1. PICK n \in Nat, m \in Nat : DispAt(c, n, m)
      BY DEF StreamInv
    <2>2. c \in Readers /\ c # None /\ home[c] \in Pollers
      BY MadeIs
    <2>3. NumbersAt(c, n, m)'
      BY <1>3, <1>8, <2>1, <2>2, SameNumbers DEF DispAt
    <2>4. Lined(tasks[home[c]], c, n, m)'
      <3>1. ~IsWriteFor(Head(tasks[p]), c)
        BY <1>1, <1>2, <1>15 DEF IsWriteFor
      <3>2. Lined(tasks'[home[c]], c, n, m)
        BY <1>3, <2>1, <2>2, <3>1, LinedTakes DEF DispAt
      <3> QED
        BY <1>3, <3>2
    <2>5. CachedTo(c, n)'
      <3>1. CASE home[c] = p
        <4>1. ~Runs(home[c], c) /\ ~Runs(home[c], c)'
          BY <1>3, <1>6, <1>9, <1>15, <3>1
        <4>2. StoredTo(dstore'[c], n, firstKey')
          BY <1>3, <2>1, <4>1 DEF DispAt, CachedTo
        <4> QED
          BY <4>1, <4>2 DEF CachedTo
      <3>2. CASE home[c] # p
        BY <1>3, <1>7, <2>1, <2>2, <3>2, SameCached DEF DispAt
      <3> QED
        BY <3>1, <3>2
    <2>6. ServedTo(c, n)'
      <3>1. \A r \in Readers : owner[r] = c => (r \in todo'[home[c]] <=> r \in todo[home[c]])
        <4>1. \A r \in dmap[d] : owner[r] = d
          BY <1>5 DEF MapInv
        <4> QED
          BY <1>6, <1>7, <1>15, <2>2, <4>1
      <3> QED
        BY <1>3, <2>1, <3>1, SameServedTo DEF DispAt
    <2> QED
      BY <2>3, <2>4, <2>5, <2>6 DEF DispAt
  <1>16. \E n, m \in Nat : DispAt(d, n, m)'
    <2>1. PICK n \in Nat, m \in Nat : DispAt(d, n, m)
      BY <1>5 DEF StreamInv
    <2>2. PICK j \in Nat : j = n + 1
      OBVIOUS
    <2>3. j - 1 = n
      BY <2>2
    <2>4. x.item.n = j /\ j <= m /\ Lined(tasks'[p], d, j, m)
      <3>1. IsWriteFor(Head(tasks[p]), d) /\ Lined(tasks[p], d, n, m)
        BY <1>1, <1>2, <1>3, <1>5, <2>1 DEF IsWriteFor, DispAt
      <3> QED
        BY <1>1, <1>3, <1>4, <2>2, <3>1, LinedTail
    <2>5. NumbersAt(d, j, m)'
      <3>1. NumbersAt(d, n, m)'
        BY <1>3, <1>5, <1>8, <2>1, SameNumbers DEF DispAt
      <3> QED
        BY <2>4, <3>1 DEF NumbersAt
    <2>6. Lined(tasks[home[d]], d, j, m)'
      BY <1>3, <1>5, <2>4
    <2>7. CachedTo(d, j)'
      <3>1. StoredTo(dstore[d], n, firstKey)
        BY <1>5, <1>6, <2>1 DEF DispAt, CachedTo
      <3>2. Runs(home[d], d)' /\ cur'[home'[d]].item.n = j /\ StoredTo(dstore'[d], j - 1, firstKey')
        BY <1>3, <1>5, <1>7, <1>9, <2>3, <2>4, <3>1
      <3> QED
        BY <3>2 DEF CachedTo
    <2>8. ServedTo(d, j)'
      <3>1. SUFFICES ASSUME NEW r \in Readers, ref'[r] = "listening", owner'[r] = d
                     PROVE  r \in todo'[home'[d]] /\ ReadTo(r, j - 1)'
        BY DEF ServedTo
      <3>2. Alive(r) /\ owner[r] = d /\ ref[r] = "listening"
        BY <1>3, <3>1 DEF Alive
      <3>3. Pending(d)
        BY <1>4, <1>5 DEF Pending
      <3>4. Registered(r)
        BY <3>2, <3>3 DEF LastInv
      <3>5. r \in todo'[home'[d]]
        BY <1>3, <1>5, <1>7, <3>2, <3>4 DEF Registered
      <3>6. ReadTo(r, n)
        BY <1>5, <1>6, <2>1, <3>2 DEF DispAt, ServedTo
      <3>7. ReadTo(r, j - 1)'
        BY <1>3, <2>3, <3>6 DEF ReadTo
      <3> QED
        BY <3>5, <3>7
    <2> QED
      BY <2>2, <2>5, <2>6, <2>7, <2>8 DEF DispAt
  <1>17. StreamInv'
    <2>1. GoodItems(firstKey)
      BY DEF StreamInv
    <2>2. \A q \in Pollers : \A i \in 1 .. Len(tasks'[q]) :
            tasks'[q][i].op = "write" => GoodItem(tasks'[q][i].item, firstKey)
      BY <1>3, <2>1, GoodShrinks
    <2>3. \A q \in Pollers : cur'[q] # None => GoodItem(cur'[q].item, firstKey)
      BY <1>3, <1>4, <1>7, <2>1 DEF GoodItems
    <2>4. GoodItems(firstKey)'
      BY <1>3, <2>2, <2>3 DEF GoodItems, GoodItem
    <2>5. StoredTo(ring, written, firstKey)'
      BY <1>3 DEF StreamInv
    <2>6. \A c \in Readers : c \notin Made' => dstore'[c] = EmptyStorage
      BY <1>3, <1>8 DEF StreamInv
    <2>7. \A c \in Made' : \E n, m \in Nat : DispAt(c, n, m)'
      BY <1>8, <1>15, <1>16
    <2> QED
      BY <2>4, <2>5, <2>6, <2>7 DEF StreamInv
  <1> QED
    BY <1>11, <1>12, <1>13, <1>14, <1>17

LEMMA ReleaseElsewhereKeeps ==
  ASSUME RingInv, NEW r \in Readers, ReleaseElsewhere(r)
  PROVE  RingInv'
  <1> USE DEF RingInv, HomeInv
  <1>1. PICK p : p = home[r]
    OBVIOUS
  <1>2. PICK x : x = [op |-> "dealloc", reader |-> r]
    OBVIOUS
  <1>3. /\ Alive(r)
        /\ ref' = [ref EXCEPT ![r] = "released"] /\ seen' = [seen EXCEPT ![r] = <<>>] /\ mark' = [mark EXCEPT ![r] = 0]
        /\ tasks' = [tasks EXCEPT ![p] = Append(@, x)]
        /\ open' = open /\ written' = written /\ firstKey' = firstKey /\ ring' = ring
        /\ disp' = disp /\ dstore' = dstore /\ dmap' = dmap /\ cur' = cur /\ todo' = todo
        /\ home' = home /\ owner' = owner /\ detached' = detached
        /\ count' = count /\ reporting' = reporting
    BY <1>1, <1>2 DEF ReleaseElsewhere, Leaves, streamVars, mapVars, countVars
  <1>4. p \in Pollers /\ ref[r] # "new" /\ tasks[p] \in Seq(Tasks)
    BY <1>1, <1>3, AliveOwned, Owned DEF RingTyped
  <1>5. x \in Tasks /\ x.op = "dealloc" /\ x.reader = r
    BY <1>2 DEF Tasks
  <1>6. /\ tasks'[p] = Append(tasks[p], x) /\ \A q \in Pollers : q # p => tasks'[q] = tasks[q]
        /\ tasks' \in [Pollers -> Seq(Tasks)]
    BY <1>3, <1>4, <1>5, AppendIs DEF RingTyped
  <1>7. ref'[r] = "released" /\ \A y \in Readers : y # r => ref'[y] = ref[y] /\ seen'[y] = seen[y] /\ mark'[y] = mark[y]
    BY <1>3 DEF RingTyped
  <1>8. /\ Made' = Made
        /\ \A y \in Readers : (Alive(y)' <=> Alive(y) /\ y # r) /\ (Registered(y)' <=> Registered(y))
    BY <1>3, <1>7 DEF Made, Alive, Registered
  <1>9. RingTyped'
    <2>1. <<>> \in Seq(Nat)
      OBVIOUS
    <2> QED
      BY <1>3, <1>6, <2>1 DEF RingTyped
  <1>10. HomeInv'
    <2>1. OwnerInv'
      BY <1>3, <1>4, <1>7, <1>8 DEF OwnerInv
    <2>2. MapInv' /\ VisitInv'
      BY <1>3, <1>8 DEF MapInv, VisitInv
    <2>3. \A q \in Pollers : \A y \in Tasks : Settled(q, y) => Settled(q, y)'
      BY <1>3, <1>7, <1>8, TaskParts DEF Settled
    <2>4. Settled(p, x)'
      BY <1>1, <1>3, <1>5, <1>7 DEF Settled
    <2>5. \A q \in Pollers : tasks'[q] = tasks[q]
            \/ \E y \in Tasks : Settled(q, y)' /\ tasks'[q] = Append(tasks[q], y)
      BY <1>5, <1>6, <2>4
    <2> QED
      BY <2>1, <2>2, <2>3, <2>5, QueueGrows
  <1>11. LastInv'
    <2>1. \A c : InQueue(tasks'[p], c) <=> InQueue(tasks[p], c)
      BY <1>4, <1>5, <1>6, InGrown DEF About
    <2>2. ASSUME NEW c \in Made
          PROVE  Pending(c)' <=> Pending(c)
      <3>1. home[c] \in Pollers
        BY MadeIs
      <3>2. InQueue(tasks'[home[c]], c) <=> InQueue(tasks[home[c]], c)
        BY <1>6, <2>1, <3>1
      <3> QED
        BY <1>3, <3>2, SamePending
    <2>3. \A q \in Pollers : DeletesLast(tasks'[q])
      <3>1. DeletesLast(tasks'[p])
        <4>1. DeletesLast(tasks[p])
          BY <1>4 DEF LastInv
        <4>2. x.op = "delete" => ~InQueue(tasks[p], x.disp)
          BY <1>5
        <4> QED
          BY <1>4, <1>5, <1>6, <4>1, <4>2, DeletesGrow
      <3> QED
        BY <1>6, <3>1 DEF LastInv
    <2>4. \A q \in Pollers : \A i \in 1 .. Len(tasks'[q]) :
            tasks'[q][i].op = "delete" => ~open /\ ~Runs(q, tasks'[q][i].disp)
      <3>1. \A i \in 1 .. Len(tasks'[p]) :
              tasks'[p][i].op = "delete" => ~open /\ ~Runs(p, tasks'[p][i].disp)
        <4>1. PICK e : e = tasks'[p]
          OBVIOUS
        <4>2. PICK l : l = Len(tasks[p])
          OBVIOUS
        <4>3. /\ l \in Nat /\ Len(e) = l + 1 /\ e[l + 1] = x /\ \A i \in 1 .. l : e[i] = tasks[p][i]
          BY <1>4, <1>5, <1>6, <4>1, <4>2, AppendIs
        <4>4. \A i \in 1 .. Len(e) : i = l + 1 \/ i \in 1 .. l
          BY <4>3
        <4>5. \A i \in 1 .. l : e[i].op = "delete" => ~open /\ ~Runs(p, e[i].disp)
          BY <1>4, <4>2, <4>3 DEF LastInv
        <4> QED
          BY <1>5, <4>1, <4>3, <4>4, <4>5
      <3> QED
        BY <1>6, <3>1 DEF LastInv
    <2>5. \A q \in Pollers : \A c \in Readers : Runs(q, c)' => Runs(q, c)
      BY <1>3 DEF Runs
    <2>6. \A q \in Pollers : tasks'[q] \in Seq(Tasks)
      BY <1>6
    <2> QED
      BY <1>3, <1>8, <2>2, <2>3, <2>4, <2>5, <2>6, LastMoved
  <1>12. CountInv'
    <2>1. {y \in Readers : Registered(y)}' = {y \in Readers : Registered(y)}
      BY <1>8
    <2> QED
      BY <1>3, <2>1 DEF CountInv
  <1>13. StreamInv'
    <2>1. GoodItems(firstKey)
      BY DEF StreamInv
    <2>2. \A q \in Pollers : tasks'[q] = tasks[q]
            \/ \E y \in Tasks : y.op # "write" /\ tasks'[q] = Append(tasks[q], y)
      BY <1>5, <1>6
    <2>3. GoodItems(firstKey)'
      <3>1. GoodItems(firstKey) /\ \A q \in Pollers : tasks'[q] = tasks[q]
              \/ \E y \in Tasks : (y.op = "write" => GoodItem(y.item, firstKey)) /\ tasks'[q] = Append(tasks[q], y)
        BY <2>1, <2>2
      <3>2. PICK k : k = firstKey /\ k = firstKey'
        BY <1>3
      <3>3. GoodItems(k)'
        BY <1>3, <3>1, <3>2, GoodGrows
      <3> QED
        BY <3>2, <3>3
    <2>4. StoredTo(ring', written, firstKey)
      BY <1>3 DEF StreamInv
    <2>5. \A q \in Pollers : \A c \in Readers : \A n, m \in Nat :
            Lined(tasks[q], c, n, m) => Lined(tasks'[q], c, n, m)
      BY <2>2, LinedGrows
    <2>6. ASSUME NEW y \in Readers, ref'[y] = "listening"
          PROVE  /\ ref[y] = "listening" /\ seen'[y] = seen[y] /\ mark'[y] = mark[y]
                 /\ \A q \in Pollers : y \in todo'[q] <=> y \in todo[q]
      BY <1>3, <1>7, <2>6
    <2> QED
      BY <1>3, <1>8, <2>3, <2>4, <2>5, <2>6, StreamKept
  <1> QED
    BY <1>9, <1>10, <1>11, <1>12, <1>13

-----------------------------------------------------------------------------
(* The steps of the ring's owner, and readers that come.                    *)

LEMMA OpenLast ==
  ASSUME RingTyped, LastInv, open, open' = open, detached' = detached,
         \A x \in Readers : Alive(x)' => Registered(x)',
         \A p \in Pollers : \A i \in 1 .. Len(tasks'[p]) : tasks'[p][i].op # "delete"
  PROVE  LastInv'
  <1>1. \A x \in Readers : detached'[x] = 0
    BY DEF LastInv, RingTyped
  <1>2. \A p \in Pollers : DeletesLast(tasks'[p])
    BY DEF DeletesLast
  <1>3. \A p \in Pollers : DeletesLast(tasks[p])'
    BY <1>2
  <1> QED
    BY <1>1, <1>3 DEF LastInv

LEMMA ClearKeeps ==
  ASSUME RingInv, Clear
  PROVE  RingInv'
  <1> USE DEF RingInv, HomeInv
  <1>1. PICK T : T = [d \in Readers |-> [op |-> "clear", disp |-> d]]
    OBVIOUS
  <1>2. /\ open /\ ring' = ClearCache(ring) /\ tasks' = WithTask(T)
        /\ open' = open /\ written' = written /\ firstKey' = firstKey
        /\ disp' = disp /\ dstore' = dstore /\ dmap' = dmap /\ cur' = cur /\ todo' = todo
        /\ home' = home /\ owner' = owner /\ ref' = ref /\ mark' = mark /\ seen' = seen
        /\ detached' = detached /\ count' = count /\ reporting' = reporting
    BY <1>1 DEF Clear, mapVars, readerVars, countVars
  <1>3. \A d \in Readers : T[d] \in Tasks /\ T[d].op = "clear" /\ T[d].disp = d
    BY <1>1 DEF Tasks
  <1>4. /\ tasks' \in [Pollers -> Seq(Tasks)]
        /\ \A p \in Pollers : disp[p] = None => tasks'[p] = tasks[p]
        /\ \A p \in Pollers : disp[p] # None =>
             T[disp[p]] \in Tasks /\ tasks'[p] = Append(tasks[p], T[disp[p]])
    BY <1>2, <1>3, WithTaskIs
  <1>5. \A p \in Pollers : disp[p] # None => disp[p] \in Readers /\ disp[p] \in Made /\ home[disp[p]] = p
    BY DEF RingTyped, MapInv
  <1>6. Made' = Made /\ \A x \in Readers : (Alive(x)' <=> Alive(x)) /\ (Registered(x)' <=> Registered(x))
    BY <1>2 DEF Made, Alive, Registered
  <1>7. ClearCache(ring) \in Storages /\ StoredTo(ClearCache(ring), written, firstKey)
    <2>1. ring \in Storages /\ written \in Int /\ firstKey \in Nat /\ StoredTo(ring, written, firstKey)
      BY NumbersIs DEF RingTyped, StreamInv
    <2> QED
      BY <2>1, ClearKeepsStored
  <1>8. RingTyped'
    BY <1>2, <1>4, <1>7 DEF RingTyped
  <1>9. HomeInv'
    <2>1. OwnerInv' /\ MapInv' /\ VisitInv'
      BY <1>2, <1>6 DEF OwnerInv, MapInv, VisitInv
    <2>2. \A q \in Pollers : \A y \in Tasks : Settled(q, y) => Settled(q, y)'
      BY <1>2, <1>6 DEF Settled
    <2>3. \A q \in Pollers : tasks'[q] = tasks[q]
            \/ \E y \in Tasks : Settled(q, y)' /\ tasks'[q] = Append(tasks[q], y)
      <3>1. \A q \in Pollers : disp[q] # None =>
              \E y \in Tasks : Settled(q, y)' /\ tasks'[q] = Append(tasks[q], y)
        <4>1. SUFFICES ASSUME NEW q \in Pollers, disp[q] # None
                       PROVE  \E y \in Tasks : Settled(q, y)' /\ tasks'[q] = Append(tasks[q], y)
          OBVIOUS
        <4>2. PICK y \in Tasks : y = T[disp[q]]
          BY <1>4, <4>1
        <4>3. y.op = "clear" /\ y.disp \in Made' /\ home'[y.disp] = q
          BY <1>2, <1>3, <1>5, <1>6, <4>1, <4>2
        <4>4. Settled(q, y)'
          BY <4>3 DEF Settled
        <4> QED
          BY <1>4, <4>1, <4>2, <4>4
      <3> QED
        BY <1>4, <3>1
    <2> QED
      BY <2>1, <2>2, <2>3, QueueGrows
  <1>10. \A q \in Pollers : tasks'[q] = tasks[q]
           \/ \E y \in Tasks : y.op = "clear" /\ tasks'[q] = Append(tasks[q], y)
    BY <1>3, <1>4, <1>5
  <1>11. LastInv'
    <2>1. \A q \in Pollers : \A i \in 1 .. Len(tasks'[q]) : tasks'[q][i].op # "delete"
      <3>1. \A q \in Pollers : tasks[q] \in Seq(Tasks) /\ \A i \in 1 .. Len(tasks[q]) : tasks[q][i].op # "delete"
        BY <1>2, WhileOpen DEF RingTyped
      <3>2. \A q \in Pollers : tasks'[q] = tasks[q]
              \/ \E y \in Tasks : y.op # "delete" /\ tasks'[q] = Append(tasks[q], y)
        BY <1>10
      <3> QED
        BY <3>1, <3>2, NoDeleteGrows
    <2>2. \A x \in Readers : Alive(x)' => Registered(x)'
      BY <1>2, <1>6, WhileOpen
    <2> QED
      BY <1>2, <2>1, <2>2, OpenLast
  <1>12. CountInv'
    <2>1. {y \in Readers : Registered(y)}' = {y \in Readers : Registered(y)}
      BY <1>6
    <2> QED
      BY <1>2, <2>1 DEF CountInv
  <1>13. StreamInv'
    <2>1. \A q \in Pollers : tasks'[q] = tasks[q]
            \/ \E y \in Tasks : y.op # "write" /\ tasks'[q] = Append(tasks[q], y)
      BY <1>10
    <2>2. GoodItems(firstKey)'
      <3>1. PICK k : k = firstKey /\ k = firstKey'
        BY <1>2
      <3>2. GoodItems(k) /\ \A q \in Pollers : tasks'[q] = tasks[q]
              \/ \E y \in Tasks : (y.op = "write" => GoodItem(y.item, k)) /\ tasks'[q] = Append(tasks[q], y)
        BY <2>1, <3>1 DEF StreamInv
      <3>3. GoodItems(k)'
        BY <1>2, <3>2, GoodGrows
      <3> QED
        BY <3>1, <3>3
    <2>3. \A q \in Pollers : \A c \in Readers : \A n, m \in Nat :
            Lined(tasks[q], c, n, m) => Lined(tasks'[q], c, n, m)
      BY <2>1, LinedGrows
    <2>4. StoredTo(ring', written, firstKey)
      BY <1>2, <1>7
    <2> QED
      BY <1>2, <1>6, <2>2, <2>3, <2>4, StreamKept
  <1> QED
    BY <1>8, <1>9, <1>11, <1>12, <1>13

LEMMA CloseKeeps ==
  ASSUME RingInv, Close
  PROVE  RingInv'
  <1> USE DEF RingInv, HomeInv
  <1>1. /\ open /\ open' = FALSE /\ disp' = [p \in Pollers |-> None]
        /\ tasks' = [p \in Pollers |->
                       IF disp[p] = None \/ Holds(p, disp[p]) THEN tasks[p]
                       ELSE Append(tasks[p], [op |-> "delete", disp |-> disp[p]])]
        /\ written' = written /\ firstKey' = firstKey /\ ring' = ring
        /\ dstore' = dstore /\ dmap' = dmap /\ cur' = cur /\ todo' = todo
        /\ home' = home /\ owner' = owner /\ ref' = ref /\ mark' = mark /\ seen' = seen
        /\ detached' = detached /\ count' = count /\ reporting' = reporting
    BY DEF Close, streamVars, readerVars, countVars
  <1>2. \A p \in Pollers : disp[p] # None => disp[p] \in Readers /\ disp[p] \in Made /\ home[disp[p]] = p
    BY <1>1 DEF RingTyped, MapInv
  <1>3. ASSUME NEW p \in Pollers
        PROVE  \/ tasks'[p] = tasks[p] /\ (disp[p] = None \/ Holds(p, disp[p]))
               \/ \E x \in Tasks : /\ x.op = "delete" /\ x.disp = disp[p] /\ disp[p] # None
                                   /\ ~Holds(p, disp[p]) /\ tasks'[p] = Append(tasks[p], x)
    <2>1. CASE disp[p] = None \/ Holds(p, disp[p])
      BY <1>1, <2>1
    <2>2. CASE ~(disp[p] = None \/ Holds(p, disp[p]))
      <3>1. PICK x : x = [op |-> "delete", disp |-> disp[p]]
        OBVIOUS
      <3>2. x \in Tasks /\ x.op = "delete" /\ x.disp = disp[p]
        BY <1>2, <2>2, <3>1 DEF Tasks
      <3>3. tasks'[p] = Append(tasks[p], x)
        BY <1>1, <2>2, <3>1
      <3> QED
        BY <2>2, <3>2, <3>3
    <2> QED
      BY <2>1, <2>2
  <1>4. /\ \A r \in Readers : detached[r] = 0
        /\ \A r \in Readers : Alive(r) => Registered(r) /\ disp[home[r]] = owner[r]
        /\ \A p \in Pollers : \A i \in 1 .. Len(tasks[p]) : tasks[p][i].op # "delete"
    BY <1>1, WhileOpen
  <1>5. \A p \in Pollers : tasks[p] \in Seq(Tasks)
    BY DEF RingTyped
  <1>6. Made' = Made /\ \A x \in Readers : (Alive(x)' <=> Alive(x)) /\ (Registered(x)' <=> Registered(x))
    BY <1>1 DEF Made, Alive, Registered
  <1>7. tasks' \in [Pollers -> Seq(Tasks)]
    <2>1. \A p \in Pollers : tasks'[p] \in Seq(Tasks)
      BY <1>3, <1>5, AppendIs
    <2> QED
      BY <1>1, <2>1
  <1>8. \A p \in Pollers : disp'[p] = None
    BY <1>1
  <1>9. RingTyped'
    BY <1>1, <1>7 DEF RingTyped
  <1>10. HomeInv'
    <2>1. OwnerInv' /\ MapInv' /\ VisitInv'
      BY <1>1, <1>6, <1>8 DEF OwnerInv, MapInv, VisitInv
    <2>2. \A q \in Pollers : \A y \in Tasks : Settled(q, y) => Settled(q, y)'
      BY <1>1, <1>6 DEF Settled
    <2>3. \A q \in Pollers : tasks'[q] = tasks[q]
            \/ \E y \in Tasks : Settled(q, y)' /\ tasks'[q] = Append(tasks[q], y)
      <3>1. SUFFICES ASSUME NEW q \in Pollers, NEW y \in Tasks, y.op = "delete", y.disp = disp[q],
                            disp[q] # None, tasks'[q] = Append(tasks[q], y)
                     PROVE  Settled(q, y)'
        BY <1>3
      <3>2. y.disp \in Made' /\ home'[y.disp] = q
        BY <1>1, <1>2, <1>6, <3>1
      <3> QED
        BY <3>1, <3>2 DEF Settled
    <2> QED
      BY <2>1, <2>2, <2>3, QueueGrows
  <1>11. \A p \in Pollers : \A d : Holds(p, d) <=> InQueue(tasks[p], d) \/ Runs(p, d)
    <2>1. SUFFICES ASSUME NEW p \in Pollers, NEW d
                   PROVE  Holds(p, d) <=> InQueue(tasks[p], d) \/ Runs(p, d)
      OBVIOUS
    <2>2. \A i \in 1 .. Len(tasks[p]) : tasks[p][i].op \in {"write", "clear"} <=> tasks[p][i].op # "dealloc"
      <3>1. \A i \in 1 .. Len(tasks[p]) : tasks[p][i] \in Tasks
        BY <1>5, ElementOfSeq
      <3> QED
        BY <1>4, <3>1, TaskParts
    <2> QED
      BY <2>2 DEF Holds, InQueue, About, Runs
  <1>12. LastInv'
    <2>1. \A x \in Readers : Alive(x)' => Registered(x)'
      BY <1>4, <1>6
    <2>2. \A x \in Readers : detached'[x] = 0
      BY <1>1, <1>4
    <2>3. ASSUME NEW x \in Readers, Alive(x)'
          PROVE  Pending(owner[x])'
      <3>1. PICK d \in Made : d = owner[x] /\ d = owner'[x] /\ home[d] = home[x] /\ disp[home[x]] = d
        BY <1>1, <1>4, <1>6, <2>3, AliveOwned, Owned
      <3>2. PICK p \in Pollers : p = home[d] /\ p = home'[d] /\ d # None /\ disp[p] = d
        BY <1>1, <3>1, MadeIs
      <3>3. CASE Holds(p, d) /\ tasks'[p] = tasks[p]
        <4>1. InQueue(tasks'[p], d) \/ (cur'[p] # None /\ cur'[p].disp = d)
          BY <1>1, <1>11, <3>3 DEF Runs
        <4>2. Pending(d)'
          BY <3>2, <4>1 DEF Pending, Runs, InQueue
        <4> QED
          BY <3>1, <4>2
      <3>4. ASSUME NEW y \in Tasks, y.op = "delete", y.disp = d, tasks'[p] = Append(tasks[p], y)
            PROVE  Pending(d)'
        <4>1. InQueue(tasks'[p], d)
          BY <1>5, <3>4, InGrown DEF About
        <4> QED
          BY <3>2, <4>1 DEF Pending, InQueue
      <3>5. Pending(d)'
        BY <1>3, <3>1, <3>2, <3>3, <3>4
      <3> QED
        BY <3>1, <3>5
    <2>4. \A p \in Pollers : DeletesLast(tasks'[p])
      <3>1. SUFFICES ASSUME NEW p \in Pollers, NEW y \in Tasks, y.op = "delete", y.disp = disp[p],
                            ~Holds(p, disp[p]), tasks'[p] = Append(tasks[p], y)
                     PROVE  DeletesLast(tasks'[p])
        BY <1>3 DEF LastInv
      <3>2. DeletesLast(tasks[p])
        BY DEF LastInv
      <3>3. ~InQueue(tasks[p], y.disp) /\ \A i \in 1 .. Len(tasks[p]) : tasks[p][i].op # "delete"
        BY <1>4, <1>11, <3>1
      <3> QED
        BY <1>5, <3>1, <3>2, <3>3, DeletesGrow
    <2>5. ASSUME NEW p \in Pollers, NEW i \in 1 .. Len(tasks'[p]), tasks'[p][i].op = "delete"
          PROVE  ~open' /\ ~Runs(p, tasks[p][i].disp)'
      <3>1. PICK y \in Tasks : y.op = "delete" /\ y.disp = disp[p] /\ ~Holds(p, disp[p])
                               /\ tasks'[p] = Append(tasks[p], y)
        BY <1>3, <1>4, <2>5
      <3>2. tasks'[p][i].disp = disp[p]
        <4>1. PICK l : l = Len(tasks[p])
          OBVIOUS
        <4>2. PICK e : e = tasks'[p]
          OBVIOUS
        <4>3. /\ l \in Nat /\ Len(e) = l + 1 /\ e[l + 1] = y /\ \A j \in 1 .. l : e[j] = tasks[p][j]
          BY <1>5, <3>1, <4>1, <4>2, AppendIs
        <4>4. i = l + 1 \/ i \in 1 .. l
          BY <2>5, <4>2, <4>3
        <4> QED
          BY <1>4, <2>5, <3>1, <4>1, <4>2, <4>3, <4>4
      <3>3. ~(cur'[p] # None /\ cur'[p].disp = tasks'[p][i].disp)
        BY <1>1, <1>11, <3>1, <3>2 DEF Runs
      <3> QED
        BY <1>1, <3>3 DEF Runs
    <2>6. \A p \in Pollers : DeletesLast(tasks[p])'
      BY <2>4
    <2> QED
      BY <2>1, <2>2, <2>3, <2>5, <2>6 DEF LastInv
  <1>13. CountInv'
    BY <1>1 DEF CountInv
  <1>14. StreamInv'
    <2>1. \A q \in Pollers : tasks'[q] = tasks[q]
            \/ \E y \in Tasks : y.op # "write" /\ tasks'[q] = Append(tasks[q], y)
      BY <1>3
    <2>2. GoodItems(firstKey)'
      <3>1. PICK k : k = firstKey /\ k = firstKey'
        BY <1>1
      <3>2. GoodItems(k) /\ \A q \in Pollers : tasks'[q] = tasks[q]
              \/ \E y \in Tasks : (y.op = "write" => GoodItem(y.item, k)) /\ tasks'[q] = Append(tasks[q], y)
        BY <2>1, <3>1 DEF StreamInv
      <3>3. GoodItems(k)'
        BY <1>1, <3>2, GoodGrows
      <3> QED
        BY <3>1, <3>3
    <2>3. \A q \in Pollers : \A c \in Readers : \A n, m \in Nat :
            Lined(tasks[q], c, n, m) => Lined(tasks'[q], c, n, m)
      BY <2>1, LinedGrows
    <2>4. StoredTo(ring', written, firstKey)
      BY <1>1 DEF StreamInv
    <2> QED
      BY <1>1, <1>6, <1>8, <2>2, <2>3, <2>4, StreamKept
  <1> QED
    BY <1>9, <1>10, <1>12, <1>13, <1>14

(* The first key frame may still come after what a storage was written.     *)
LEMMA StoredLater ==
  ASSUME NEW s \in Storages, NEW n \in Int, NEW k \in Nat, NEW j \in Nat, StoredTo(s, n, k),
         j = k \/ (k = 0 /\ n < j)
  PROVE  StoredTo(s, n, j)
  <1>1. CASE j = k
    BY <1>1
  <1>2. CASE k = 0 /\ n < j
    <2>1. ASSUME s.cache # <<>>
          PROVE  s.cache[1].n < j
      <3>1. PICK c \in Seq(Items) : c = s.cache
        BY DEF Storages
      <3>2. PICK l : l = Len(c)
        OBVIOUS
      <3>3. l \in Nat \ {0} /\ 1 \in 1 .. l /\ c[1] \in Items
        BY <2>1, <3>1, <3>2
      <3>4. c[1].n \in Nat
        BY <3>3, ItemParts
      <3>5. c[1].n + (l - 1) = n
        BY <3>1, <3>2, <3>3 DEF StoredTo, CacheTo
      <3> QED
        BY <1>2, <3>1, <3>3, <3>4, <3>5
    <2> QED
      BY <1>2, <2>1 DEF StoredTo
  <1> QED
    BY <1>1, <1>2

LEMMA WriteKeeps ==
  ASSUME RingInv, NEW key \in BOOLEAN, Write(key)
  PROVE  RingInv'
  <1> USE DEF RingInv, HomeInv
  <1>1. PICK x : x = [n |-> written + 1, key |-> key]
    OBVIOUS
  <1>2. PICK T : T = [d \in Readers |-> [op |-> "write", disp |-> d, item |-> x]]
    OBVIOUS
  <1>3. PICK w : w = written
    OBVIOUS
  <1>4. PICK f : f = firstKey'
    OBVIOUS
  <1>5. /\ open /\ w < MaxWrites /\ tasks' = WithTask(T) /\ ring' = WriteStorage(ring, x)
        /\ written' = w + 1 /\ f = IF key /\ firstKey = 0 THEN w + 1 ELSE firstKey
        /\ open' = open /\ disp' = disp /\ dstore' = dstore /\ dmap' = dmap /\ cur' = cur /\ todo' = todo
        /\ home' = home /\ owner' = owner /\ ref' = ref /\ mark' = mark /\ seen' = seen
        /\ detached' = detached /\ count' = count /\ reporting' = reporting
    BY <1>1, <1>2, <1>3, <1>4 DEF Write, mapVars, readerVars, countVars
  <1>6. w \in Nat /\ firstKey \in Nat /\ firstKey <= w /\ f \in Nat /\ f <= w + 1
    BY <1>3, <1>5, NumbersIs
  <1>7. x \in Items /\ x.n = w + 1 /\ x.key = key
    BY <1>1, <1>3, <1>5, <1>6, BoundAssumption DEF Items
  <1>8. GoodItem(x, f)
    BY <1>5, <1>6, <1>7 DEF GoodItem
  <1>9. f = firstKey \/ (firstKey = 0 /\ w < f)
    BY <1>5, <1>6
  <1>10. \A d \in Readers : T[d] \in Tasks /\ T[d].op = "write" /\ T[d].disp = d /\ T[d].item = x
    BY <1>2, <1>7 DEF Tasks
  <1>11. /\ tasks' \in [Pollers -> Seq(Tasks)]
         /\ \A p \in Pollers : disp[p] = None => tasks'[p] = tasks[p]
         /\ \A p \in Pollers : disp[p] # None =>
              T[disp[p]] \in Tasks /\ tasks'[p] = Append(tasks[p], T[disp[p]])
    BY <1>5, <1>10, WithTaskIs
  <1>12. \A p \in Pollers : disp[p] # None => disp[p] \in Readers /\ disp[p] \in Made /\ home[disp[p]] = p
    BY DEF RingTyped, MapInv
  <1>13. ASSUME NEW p \in Pollers
         PROVE  \/ tasks'[p] = tasks[p] /\ disp[p] = None
                \/ \E y \in Tasks : /\ y.op = "write" /\ y.disp = disp[p] /\ y.item = x
                                    /\ tasks'[p] = Append(tasks[p], y) /\ disp[p] # None
    BY <1>10, <1>11, <1>12
  <1>14. Made' = Made /\ \A r \in Readers : (Alive(r)' <=> Alive(r)) /\ (Registered(r)' <=> Registered(r))
    BY <1>5 DEF Made, Alive, Registered
  <1>15. \A s \in Storages : \A n \in Int : n <= w /\ StoredTo(s, n, firstKey) => StoredTo(s, n, f)
    <2>1. SUFFICES ASSUME NEW s \in Storages, NEW n \in Int, n <= w, StoredTo(s, n, firstKey)
                   PROVE  StoredTo(s, n, f)
      OBVIOUS
    <2>2. f = firstKey \/ (firstKey = 0 /\ n < f)
      BY <1>6, <1>9, <2>1
    <2> QED
      BY <1>6, <2>1, <2>2, StoredLater
  <1>16. ring' \in Storages /\ StoredTo(ring', w + 1, f)
    <2>1. ring \in Storages /\ StoredTo(ring, w, firstKey)
      BY <1>3 DEF RingTyped, StreamInv
    <2>2. StoredTo(ring, w, f)
      BY <1>6, <1>15, <2>1
    <2> QED
      BY <1>5, <1>6, <1>7, <1>8, <2>1, <2>2, WriteStorageKeeps
  <1>17. RingTyped'
    <2>1. written' \in 0 .. MaxWrites /\ firstKey' \in 0 .. written'
      BY <1>4, <1>5, <1>6, BoundAssumption
    <2> QED
      BY <1>5, <1>11, <1>16, <2>1 DEF RingTyped
  <1>18. HomeInv'
    <2>1. OwnerInv' /\ MapInv' /\ VisitInv'
      BY <1>5, <1>14 DEF OwnerInv, MapInv, VisitInv
    <2>2. \A q \in Pollers : \A y \in Tasks : Settled(q, y) => Settled(q, y)'
      BY <1>5, <1>14 DEF Settled
    <2>3. \A q \in Pollers : tasks'[q] = tasks[q]
            \/ \E y \in Tasks : Settled(q, y)' /\ tasks'[q] = Append(tasks[q], y)
      <3>1. ASSUME NEW q \in Pollers, NEW y \in Tasks, y.op = "write", y.disp = disp[q], disp[q] # None
            PROVE  Settled(q, y)'
        <4>1. y.disp \in Made' /\ home'[y.disp] = q
          BY <1>5, <1>12, <1>14, <3>1
        <4> QED
          BY <3>1, <4>1 DEF Settled
      <3> QED
        BY <1>13, <3>1
    <2> QED
      BY <2>1, <2>2, <2>3, QueueGrows
  <1>19. LastInv'
    <2>1. \A q \in Pollers : \A i \in 1 .. Len(tasks'[q]) : tasks'[q][i].op # "delete"
      <3>1. \A q \in Pollers : tasks[q] \in Seq(Tasks) /\ \A i \in 1 .. Len(tasks[q]) : tasks[q][i].op # "delete"
        BY <1>5, WhileOpen DEF RingTyped
      <3>2. \A q \in Pollers : tasks'[q] = tasks[q]
              \/ \E y \in Tasks : y.op # "delete" /\ tasks'[q] = Append(tasks[q], y)
        BY <1>13
      <3> QED
        BY <3>1, <3>2, NoDeleteGrows
    <2>2. \A r \in Readers : Alive(r)' => Registered(r)'
      BY <1>5, <1>14, WhileOpen
    <2> QED
      BY <1>5, <2>1, <2>2, OpenLast
  <1>20. CountInv'
    <2>1. {r \in Readers : Registered(r)}' = {r \in Readers : Registered(r)}
      BY <1>14
    <2> QED
      BY <1>5, <2>1 DEF CountInv
  <1>21. ASSUME NEW d \in Made
         PROVE  \E n, m \in Nat : DispAt(d, n, m)'
    <2>1. PICK n \in Nat, m \in Nat : DispAt(d, n, m)
      BY DEF StreamInv
    <2>2. d \in Readers /\ d # None /\ home[d] \in Pollers
      BY MadeIs
    <2>3. PICK p \in Pollers : p = home[d] /\ p = home'[d]
      BY <1>5, <2>2
    <2>4. n <= m /\ m <= w /\ (Served(d) => m = w) /\ Lined(tasks[p], d, n, m) /\ tasks[p] \in Seq(Tasks)
      BY <1>3, <2>1, <2>3 DEF DispAt, NumbersAt, RingTyped
    <2>5. CachedTo(d, n)'
      <3>1. dstore[d] \in Storages /\ n \in Int /\ n - 1 \in Int /\ n <= w /\ n - 1 <= w
        BY <1>6, <2>2, <2>4 DEF RingTyped
      <3>2. Runs(home[d], d)' <=> Runs(home[d], d)
        BY <1>5 DEF Runs
      <3>3. IF Runs(home[d], d) THEN cur[home[d]].item.n = n /\ StoredTo(dstore[d], n - 1, f)
            ELSE StoredTo(dstore[d], n, f)
        BY <1>15, <2>1, <3>1 DEF DispAt, CachedTo
      <3> QED
        BY <1>4, <1>5, <3>2, <3>3 DEF CachedTo
    <2>6. ServedTo(d, n)'
      BY <1>5, <2>1, SameServedTo DEF DispAt
    <2>7. Served(d)' <=> Served(d)
      BY <1>5, <1>14 DEF Served
    <2>8. CASE disp[p] = d
      <3>1. m = w
        BY <2>3, <2>4, <2>8 DEF Served
      <3>2. PICK y \in Tasks : y.op = "write" /\ y.disp = d /\ y.item = x /\ tasks'[p] = Append(tasks[p], y)
        BY <1>13, <2>2, <2>8
      <3>3. Lined(tasks'[p], d, n, m + 1)
        BY <1>7, <2>4, <3>1, <3>2, LinedAppend DEF IsWriteFor
      <3>4. PICK j \in Nat : j = m + 1
        OBVIOUS
      <3>5. NumbersAt(d, n, j)'
        BY <1>5, <2>4, <3>1, <3>4 DEF NumbersAt
      <3>6. Lined(tasks[home[d]], d, n, j)'
        BY <2>3, <3>3, <3>4
      <3> QED
        BY <2>5, <2>6, <3>4, <3>5, <3>6 DEF DispAt
    <2>9. CASE disp[p] # d
      <3>1. ~Served(d)
        BY <1>5, <2>3, <2>9, WhileOpen
      <3>2. NumbersAt(d, n, m)'
        BY <1>5, <1>6, <2>4, <2>7, <3>1 DEF NumbersAt
      <3>3. Lined(tasks'[p], d, n, m)
        <4>1. CASE tasks'[p] = tasks[p]
          BY <2>4, <4>1
        <4>2. ASSUME NEW y \in Tasks, y.disp = disp[p], tasks'[p] = Append(tasks[p], y)
              PROVE  Lined(tasks'[p], d, n, m)
          <5>1. ~IsWriteFor(y, d)
            BY <2>9, <4>2 DEF IsWriteFor
          <5> QED
            BY <2>4, <4>2, <5>1, LinedAppendOther
        <4> QED
          BY <1>13, <4>1, <4>2
      <3>4. Lined(tasks[home[d]], d, n, m)'
        BY <2>3, <3>3
      <3> QED
        BY <2>5, <2>6, <3>2, <3>4 DEF DispAt
    <2> QED
      BY <2>8, <2>9
  <1>22. StreamInv'
    <2>1. GoodItems(f)
      <3>1. SUFFICES ASSUME NEW p \in Pollers
                     PROVE  /\ cur[p] # None => GoodItem(cur[p].item, f)
                            /\ \A i \in 1 .. Len(tasks[p]) : tasks[p][i].op = "write" => GoodItem(tasks[p][i].item, f)
        BY DEF GoodItems
      <3>2. /\ cur[p] # None => GoodItem(cur[p].item, firstKey) /\ cur[p].item \in Items /\ cur[p].item.n <= w
            /\ \A i \in 1 .. Len(tasks[p]) : tasks[p][i].op = "write" =>
                 GoodItem(tasks[p][i].item, firstKey) /\ tasks[p][i].item \in Items /\ tasks[p][i].item.n <= w
        BY <1>3, ItemsAreWritten DEF StreamInv, GoodItems
      <3>3. \A y \in Items : y.n <= w /\ GoodItem(y, firstKey) => GoodItem(y, f)
        <4>1. \A y \in Items : y.n \in Nat
          BY ItemParts
        <4> QED
          BY <1>6, <1>9, <4>1 DEF GoodItem
      <3> QED
        BY <3>2, <3>3
    <2>2. GoodItems(f)'
      <3>1. \A q \in Pollers : tasks'[q] = tasks[q]
              \/ \E y \in Tasks : (y.op = "write" => GoodItem(y.item, f)) /\ tasks'[q] = Append(tasks[q], y)
        BY <1>8, <1>13
      <3> QED
        BY <1>5, <2>1, <3>1, GoodGrows
    <2>3. GoodItems(firstKey)'
      BY <1>4, <2>2
    <2>4. StoredTo(ring, written, firstKey)'
      BY <1>4, <1>5, <1>16
    <2>5. \A c \in Readers : c \notin Made' => dstore'[c] = EmptyStorage
      BY <1>5, <1>14 DEF StreamInv
    <2>6. \A c \in Made' : \E n, m \in Nat : DispAt(c, n, m)'
      BY <1>14, <1>21
    <2> QED
      BY <2>3, <2>4, <2>5, <2>6 DEF StreamInv
  <1> QED
    BY <1>17, <1>18, <1>19, <1>20, <1>22

LEMMA AttachKeeps ==
  ASSUME RingInv, NEW p \in Pollers, NEW r \in Readers, Attach(p, r)
  PROVE  RingInv'
  <1> USE DEF RingInv, HomeInv
  <1>1. PICK d : d = IF disp[p] = None THEN r ELSE disp[p]
    OBVIOUS
  <1>2. /\ open /\ cur[p] = None /\ ref[r] = "new"
        /\ disp' = [disp EXCEPT ![p] = d]
        /\ dstore' = IF d = r THEN [dstore EXCEPT ![d] = ring] ELSE dstore
        /\ dmap' = [dmap EXCEPT ![d] = @ \cup {r}]
        /\ owner' = [owner EXCEPT ![r] = d] /\ home' = [home EXCEPT ![r] = p]
        /\ ref' = [ref EXCEPT ![r] = "attached"]
        /\ count' = count + 1 /\ reporting' = reporting \cup {p}
        /\ open' = open /\ written' = written /\ firstKey' = firstKey /\ ring' = ring
        /\ tasks' = tasks /\ cur' = cur /\ todo' = todo
        /\ mark' = mark /\ seen' = seen /\ detached' = detached
    BY <1>1 DEF Attach, PollerIdle, SizeChanged, streamVars, pollerVars
  <1>3. owner[r] = None /\ home[r] = None /\ r \notin Made /\ r # None
    BY <1>2, NoneAssumption DEF OwnerInv, Made
  <1>4. \A c \in Made : c \in Readers /\ c # None /\ c # r /\ home[c] \in Pollers /\ owner[c] = c
    BY <1>3, MadeIs
  <1>5. disp[p] # None => d = disp[p] /\ d \in Made /\ home[d] = p
    BY <1>1 DEF MapInv
  <1>6. d \in Readers /\ d # None /\ (d = r <=> disp[p] = None)
    BY <1>1, <1>3, <1>4, <1>5
  <1>7. /\ disp'[p] = d /\ \A q \in Pollers : q # p => disp'[q] = disp[q]
        /\ dmap'[d] = dmap[d] \cup {r} /\ \A c \in Readers : c # d => dmap'[c] = dmap[c]
        /\ owner'[r] = d /\ home'[r] = p /\ ref'[r] = "attached"
        /\ \A x \in Readers : x # r => owner'[x] = owner[x] /\ home'[x] = home[x] /\ ref'[x] = ref[x]
        /\ \A c \in Readers : c # r => dstore'[c] = dstore[c]
        /\ d = r => dstore'[r] = ring
    BY <1>2, <1>6 DEF RingTyped
  <1>8. /\ \A c \in Made : c \in Made' /\ home'[c] = home[c]
        /\ d \in Made' /\ home'[d] = p
        /\ \A c \in Made' : c \in Made \/ (c = r /\ d = r)
    <2>1. \A c \in Readers : c \in Made' <=> owner'[c] = c
      BY DEF Made
    <2>2. \A c \in Readers : c \in Made <=> owner[c] = c
      BY DEF Made
    <2>3. \A c \in Made' : c \in Readers
      BY DEF Made
    <2>4. \A c \in Made : c \in Made' /\ home'[c] = home[c]
      BY <1>4, <1>7, <2>1
    <2>5. d \in Made' /\ home'[d] = p
      BY <1>5, <1>6, <1>7, <2>1, <2>4
    <2>6. \A c \in Made' : c \in Made \/ (c = r /\ d = r)
      BY <1>7, <2>1, <2>2, <2>3
    <2> QED
      BY <2>4, <2>5, <2>6
  <1>9. \A x \in Readers : Alive(x)' <=> Alive(x) \/ x = r
    BY <1>7 DEF Alive
  <1>10. \A x \in Readers : Registered(x)' <=> Registered(x) \/ x = r
    <2>1. SUFFICES ASSUME NEW x \in Readers
                   PROVE  Registered(x)' <=> Registered(x) \/ x = r
      OBVIOUS
    <2>2. CASE x = r
      BY <1>6, <1>7, <2>2 DEF Registered
    <2>3. CASE x # r
      <3>1. owner[x] \in Readers \cup {None} /\ owner'[x] = owner[x]
        BY <1>7, <2>3 DEF RingTyped
      <3>2. owner[x] # None => (x \in dmap'[owner[x]] <=> x \in dmap[owner[x]])
        BY <1>7, <2>3, <3>1
      <3> QED
        BY <2>3, <3>1, <3>2 DEF Registered
    <2> QED
      BY <2>2, <2>3
  <1>11. ~Registered(r)
    BY <1>3 DEF Registered
  <1>12. RingTyped'
    BY <1>2, <1>6 DEF RingTyped
  <1>13. HomeInv'
    <2>1. OwnerInv'
      <3>1. ASSUME NEW x \in Readers
            PROVE  /\ (ref'[x] = "new" <=> owner'[x] = None) /\ (owner'[x] = None <=> home'[x] = None)
                   /\ owner'[x] # None => owner'[x] \in Made' /\ home'[owner'[x]] = home'[x]
        <4>1. CASE x = r
          BY <1>6, <1>7, <1>8, <4>1, NoneAssumption
        <4>2. CASE x # r
          BY <1>7, <1>8, <4>2 DEF OwnerInv
        <4> QED
          BY <4>1, <4>2
      <3> QED
        BY <3>1 DEF OwnerInv
    <2>2. MapInv'
      <3>1. ASSUME NEW c \in Readers, NEW y \in dmap'[c]
            PROVE  owner'[y] = c
        <4>1. y \in dmap[c] \/ (c = d /\ y = r)
          BY <1>7, <3>1
        <4>2. y \in dmap[c] => y \in Readers /\ owner[y] = c
          BY DEF MapInv, RingTyped
        <4>3. y \in dmap[c] => y # r
          BY <1>3, <4>2, NoneAssumption
        <4> QED
          BY <1>7, <4>1, <4>2, <4>3
      <3>2. ASSUME NEW q \in Pollers, disp'[q] # None
            PROVE  open' /\ disp'[q] \in Made' /\ home'[disp'[q]] = q /\ dmap'[disp'[q]] # {}
        <4>1. CASE q = p
          BY <1>2, <1>7, <1>8, <4>1
        <4>2. CASE q # p
          <5>1. PICK c \in Made : c = disp[q] /\ c = disp'[q] /\ home[c] = q /\ dmap[c] # {}
            BY <1>7, <3>2, <4>2 DEF MapInv
          <5>2. dmap'[c] # {}
            BY <1>4, <1>7, <5>1
          <5> QED
            BY <1>2, <1>8, <5>1, <5>2
        <4> QED
          BY <4>1, <4>2
      <3>3. ASSUME NEW x \in Readers, Registered(x)'
            PROVE  disp'[home'[x]] = owner'[x]
        <4>1. CASE x = r
          BY <1>7, <4>1
        <4>2. CASE x # r
          <5>1. Registered(x) /\ owner[x] # None /\ disp[home[x]] = owner[x]
            BY <1>2, <1>10, <3>3, <4>2 DEF MapInv, Registered
          <5>2. home[x] \in Pollers
            BY <5>1, Owned
          <5>3. disp'[home[x]] = owner[x]
            BY <1>5, <1>7, <5>1, <5>2
          <5> QED
            BY <1>7, <4>2, <5>3
        <4> QED
          BY <4>1, <4>2
      <3> QED
        BY <3>1, <3>2, <3>3 DEF MapInv
    <2>3. QueueInv'
      <3>1. ASSUME NEW q \in Pollers, NEW y \in Tasks, Settled(q, y)
            PROVE  Settled(q, y)'
        <4>1. CASE y.op = "dealloc"
          <5>1. y.reader \in Readers /\ home[y.reader] = q /\ ref[y.reader] \in {"released", "gone"}
            BY <3>1, <4>1, TaskParts DEF Settled
          <5>2. y.reader # r
            BY <1>2, <5>1
          <5> QED
            BY <1>7, <4>1, <5>1, <5>2 DEF Settled
        <4>2. CASE y.op # "dealloc"
          BY <1>8, <3>1, <4>2 DEF Settled
        <4> QED
          BY <4>1, <4>2
      <3> QED
        BY <1>2, <3>1, QueueGrows
    <2>4. VisitInv'
      <3>1. SUFFICES ASSUME NEW q \in Pollers
                     PROVE  /\ cur[q] # None => cur[q].op = "write" /\ cur[q].disp \in Made' /\ home'[cur[q].disp] = q
                            /\ \A x \in todo[q] : cur[q] # None /\ owner'[x] = cur[q].disp
        BY <1>2 DEF VisitInv
      <3>2. cur[q] # None => cur[q].op = "write" /\ cur[q].disp \in Made /\ home[cur[q].disp] = q
        BY DEF VisitInv
      <3>3. \A x \in todo[q] : x \in Readers /\ cur[q] # None /\ owner[x] = cur[q].disp
        BY DEF VisitInv, RingTyped
      <3>4. r \notin todo[q]
        BY <1>3, <1>4, <3>2, <3>3
      <3> QED
        BY <1>7, <1>8, <3>2, <3>3, <3>4
    <2> QED
      BY <2>1, <2>2, <2>3, <2>4
  <1>14. LastInv'
    <2>1. \A q \in Pollers : \A i \in 1 .. Len(tasks'[q]) : tasks'[q][i].op # "delete"
      BY <1>2, WhileOpen
    <2>2. \A x \in Readers : Alive(x)' => Registered(x)'
      BY <1>2, <1>9, <1>10, WhileOpen
    <2> QED
      BY <1>2, <2>1, <2>2, OpenLast
  <1>15. CountInv'
    <2>1. PICK S : S = {x \in Readers : Registered(x)}
      OBVIOUS
    <2>2. IsFiniteSet(S) /\ count = Cardinality(S) /\ r \notin S
      BY <1>2, <1>11, <2>1 DEF CountInv
    <2>3. {x \in Readers : Registered(x)}' = S \cup {r}
      BY <1>10, <2>1
    <2>4. IsFiniteSet(S \cup {r}) /\ Cardinality(S \cup {r}) = Cardinality(S) + 1
      BY <2>2, FS_AddElement
    <2> QED
      BY <1>2, <2>2, <2>3, <2>4 DEF CountInv
  <1>16. ASSUME NEW c \in Made
         PROVE  \E n, m \in Nat : DispAt(c, n, m)'
    <2>1. PICK n \in Nat, m \in Nat : DispAt(c, n, m)
      BY DEF StreamInv
    <2>2. c \in Readers /\ c # None /\ c # r /\ home[c] \in Pollers /\ home'[c] = home[c]
      BY <1>4, <1>8
    <2>3. Served(c)' => Served(c)
      <3>1. disp'[home[c]] = c => disp[home[c]] = c
        BY <1>5, <1>6, <1>7, <2>2
      <3>2. ASSUME NEW x \in Readers, Alive(x)', owner'[x] = c
            PROVE  Served(c)
        <4>1. CASE x = r
          <5>1. d = c /\ disp[p] = c /\ home[c] = p
            BY <1>5, <1>6, <1>7, <2>2, <3>2, <4>1
          <5> QED
            BY <5>1 DEF Served
        <4>2. CASE x # r
          BY <1>7, <1>9, <3>2, <4>2 DEF Served
        <4> QED
          BY <4>1, <4>2
      <3> QED
        BY <2>2, <3>1, <3>2 DEF Served
    <2>4. NumbersAt(c, n, m)'
      BY <1>2, <2>1, <2>3 DEF DispAt, NumbersAt
    <2>5. Lined(tasks[home[c]], c, n, m)'
      BY <1>2, <2>1, <2>2 DEF DispAt
    <2>6. CachedTo(c, n)'
      BY <1>2, <1>7, <2>1, <2>2, SameCached DEF DispAt
    <2>7. ServedTo(c, n)'
      <3>1. ASSUME NEW x \in Readers, ref'[x] = "listening", owner'[x] = c
            PROVE  /\ ref[x] = "listening" /\ owner[x] = c /\ seen'[x] = seen[x] /\ mark'[x] = mark[x]
                   /\ x \in todo'[home[c]] <=> x \in todo[home[c]]
        <4>1. x # r
          BY <1>7, <3>1
        <4> QED
          BY <1>2, <1>7, <3>1, <4>1
      <3> QED
        BY <2>1, <2>2, <3>1, SameServedTo DEF DispAt
    <2> QED
      BY <2>4, <2>5, <2>6, <2>7 DEF DispAt
  <1>17. ASSUME d = r
         PROVE  \E n, m \in Nat : DispAt(r, n, m)'
    <2>1. PICK w \in Nat : w = written /\ w = written'
      BY <1>2, NumbersIs
    <2>2. \A i \in 1 .. Len(tasks[p]) : ~IsWriteFor(tasks[p][i], r)
      <3>1. \A i \in 1 .. Len(tasks[p]) : tasks[p][i].op # "dealloc" => tasks[p][i].disp \in Made
        BY DEF QueueInv, Settled
      <3> QED
        BY <1>3, <3>1 DEF IsWriteFor
    <2>3. Lined(tasks[p], r, w, w)
      <3>1. Writes(tasks[p], r) = {}
        BY <2>2 DEF Writes
      <3> QED
        BY <3>1, LinedNone
    <2>4. NumbersAt(r, w, w)'
      BY <2>1 DEF NumbersAt
    <2>5. Lined(tasks[home[r]], r, w, w)'
      BY <1>2, <1>7, <2>3
    <2>6. CachedTo(r, w)'
      <3>1. ~Runs(home[r], r)'
        BY <1>2, <1>7 DEF Runs
      <3>2. StoredTo(dstore'[r], w, firstKey')
        BY <1>2, <1>7, <1>17, <2>1 DEF StreamInv
      <3> QED
        BY <3>1, <3>2 DEF CachedTo
    <2>7. ServedTo(r, w)'
      <3>1. \A x \in Readers : x # r => owner[x] # r
        BY <1>3, <1>4, Owned
      <3>2. \A x \in Readers : owner'[x] = r => ref'[x] # "listening"
        BY <1>7, <3>1
      <3> QED
        BY <3>2 DEF ServedTo
    <2> QED
      BY <2>4, <2>5, <2>6, <2>7 DEF DispAt
  <1>18. StreamInv'
    <2>1. StoredTo(ring, written, firstKey)' /\ GoodItems(firstKey)'
      BY <1>2 DEF StreamInv, GoodItems, GoodItem
    <2>2. \A c \in Readers : c \notin Made' => dstore'[c] = EmptyStorage
      <3>1. \A c \in Readers : c \notin Made' => c # d /\ c \notin Made
        BY <1>8
      <3>2. \A c \in Readers : c # d => dstore'[c] = dstore[c]
        BY <1>2 DEF RingTyped
      <3> QED
        BY <3>1, <3>2 DEF StreamInv
    <2>3. \A c \in Made' : \E n, m \in Nat : DispAt(c, n, m)'
      BY <1>8, <1>16, <1>17
    <2> QED
      BY <2>1, <2>2, <2>3 DEF StreamInv
  <1> QED
    BY <1>12, <1>13, <1>14, <1>15, <1>18

LEMMA NumbersOf ==
  ASSUME NEW c \in Seq(Items), NEW n \in Int, CacheTo(c, n)
  PROVE  Numbers(c) \in Seq(Nat) /\ SeenTo(Numbers(c), n) /\ (Numbers(c) = <<>> <=> c = <<>>)
  <1>1. PICK l : l = Len(c)
    OBVIOUS
  <1>2. PICK s : s = Numbers(c)
    OBVIOUS
  <1>3. l \in Nat /\ \A i \in 1 .. l : c[i].n \in Nat
    BY <1>1, ElementOfSeq, ItemParts
  <1>4. s = [i \in 1 .. l |-> c[i].n]
    BY <1>1, <1>2 DEF Numbers
  <1>5. s \in Seq(Nat) /\ Len(s) = l /\ \A i \in 1 .. l : s[i] = c[i].n
    BY <1>3, <1>4
  <1>6. SeenTo(s, n)
    BY <1>1, <1>5 DEF SeenTo, CacheTo
  <1>7. s = <<>> <=> c = <<>>
    BY <1>1, <1>5
  <1> QED
    BY <1>2, <1>5, <1>6, <1>7

LEMMA SetReadCBKeeps ==
  ASSUME RingInv, NEW r \in Readers, NEW gops, SetReadCB(r, gops)
  PROVE  RingInv'
  <1> USE DEF RingInv, HomeInv
  <1>1. PICK d : d = owner[r]
    OBVIOUS
  <1>2. PICK p : p = home[r]
    OBVIOUS
  <1>3. PICK g : g = FlushGop(dstore[d].cache, gops)
    OBVIOUS
  <1>4. /\ ref[r] = "attached" /\ cur[p] = None
        /\ ref' = [ref EXCEPT ![r] = "listening"]
        /\ seen' = [seen EXCEPT ![r] = Numbers(g)]
        /\ mark' = [mark EXCEPT ![r] = IF g = <<>> THEN written - Behind(r) ELSE 0]
        /\ open' = open /\ written' = written /\ firstKey' = firstKey /\ ring' = ring
        /\ disp' = disp /\ dstore' = dstore /\ dmap' = dmap
        /\ tasks' = tasks /\ cur' = cur /\ todo' = todo
        /\ home' = home /\ owner' = owner /\ detached' = detached
        /\ count' = count /\ reporting' = reporting
    BY <1>1, <1>2, <1>3 DEF SetReadCB, PollerIdle, streamVars, mapVars, pollerVars, countVars
  <1>5. Alive(r) /\ owner[r] # None
    BY <1>4, AliveOwned DEF Alive
  <1>6. d \in Made /\ d \in Readers /\ d # None /\ home[d] = p /\ p \in Pollers
    BY <1>1, <1>2, <1>5, Owned, MadeIs
  <1>7. todo[p] = {} /\ ~Runs(p, d)
    BY <1>4, <1>6, WhileIdle
  <1>8. PICK n \in Nat, m \in Nat : DispAt(d, n, m)
    BY <1>6 DEF StreamInv
  <1>9. n <= m /\ m = written /\ Lined(tasks[p], d, n, m) /\ StoredTo(dstore[d], n, firstKey)
    <2>1. Served(d)
      BY <1>1, <1>5 DEF Served
    <2> QED
      BY <1>6, <1>7, <1>8, <2>1 DEF DispAt, NumbersAt, CachedTo
  <1>10. g \in Seq(Items) /\ CacheTo(g, n)
    <2>1. PICK c \in Seq(Items) : c = dstore[d].cache
      BY <1>6 DEF RingTyped, Storages
    <2>2. CacheTo(c, n) /\ StartsWell(c, firstKey) /\ firstKey \in Nat
      BY <1>9, <2>1, NumbersIs DEF StoredTo, StartsWell
    <2> QED
      BY <1>3, <2>1, <2>2, FlushGopKeeps
  <1>11. Numbers(g) \in Seq(Nat) /\ SeenTo(Numbers(g), n) /\ (Numbers(g) = <<>> <=> g = <<>>)
    BY <1>10, NumbersOf
  <1>12. written - Behind(r) = n
    <2>1. tasks[p] \in Seq(Tasks)
      BY <1>6 DEF RingTyped
    <2>2. Cardinality(Writes(tasks[p], d)) = m - n
      BY <1>9, <2>1, LinedCount
    <2>3. Behind(r) = Cardinality(Writes(tasks[p], d)) + 0
      BY <1>1, <1>2, <1>7 DEF Behind, Writes
    <2> QED
      BY <1>9, <2>2, <2>3
  <1>13. /\ ref'[r] = "listening" /\ seen'[r] = Numbers(g) /\ (g = <<>> => mark'[r] = n)
         /\ \A x \in Readers : x # r => ref'[x] = ref[x] /\ seen'[x] = seen[x] /\ mark'[x] = mark[x]
         /\ mark' \in [Readers -> Nat]
    BY <1>4, <1>12 DEF RingTyped
  <1>14. Made' = Made /\ \A x \in Readers : (Alive(x)' <=> Alive(x)) /\ (Registered(x)' <=> Registered(x))
    BY <1>4, <1>5, <1>13 DEF Made, Alive, Registered
  <1>15. RingTyped'
    BY <1>4, <1>11, <1>13 DEF RingTyped
  <1>16. HomeInv'
    <2>1. OwnerInv' /\ MapInv' /\ VisitInv'
      BY <1>4, <1>13, <1>14 DEF OwnerInv, MapInv, VisitInv
    <2>2. \A q \in Pollers : \A y \in Tasks : Settled(q, y) => Settled(q, y)'
      <3>1. SUFFICES ASSUME NEW q \in Pollers, NEW y \in Tasks, Settled(q, y)
                     PROVE  Settled(q, y)'
        OBVIOUS
      <3>2. CASE y.op = "dealloc"
        <4>1. y.reader \in Readers /\ y.reader # r /\ home[y.reader] = q /\ ref[y.reader] \in {"released", "gone"}
          BY <1>4, <3>1, <3>2, TaskParts DEF Settled
        <4> QED
          BY <1>4, <1>13, <3>2, <4>1 DEF Settled
      <3>3. CASE y.op # "dealloc"
        BY <1>4, <1>14, <3>1, <3>3 DEF Settled
      <3> QED
        BY <3>2, <3>3
    <2> QED
      BY <1>4, <2>1, <2>2, QueueGrows
  <1>17. LastInv'
    BY <1>4, <1>14, LastSame
  <1>18. CountInv'
    <2>1. {x \in Readers : Registered(x)}' = {x \in Readers : Registered(x)}
      BY <1>14
    <2> QED
      BY <1>4, <2>1 DEF CountInv
  <1>19. ASSUME NEW c \in Made
         PROVE  \E i, j \in Nat : DispAt(c, i, j)'
    <2>1. PICK i \in Nat, j \in Nat : DispAt(c, i, j) /\ (c = d => i = n /\ j = m)
      <3>1. CASE c = d
        BY <1>8, <3>1
      <3>2. CASE c # d
        BY <3>2 DEF StreamInv
      <3> QED
        BY <3>1, <3>2
    <2>2. c \in Readers /\ c # None /\ home[c] \in Pollers
      BY MadeIs
    <2>3. NumbersAt(c, i, j)'
      BY <1>4, <1>14, <2>1, <2>2, SameNumbers DEF DispAt
    <2>4. Lined(tasks[home[c]], c, i, j)' /\ CachedTo(c, i)'
      BY <1>4, <2>1, SameCached DEF DispAt
    <2>5. ServedTo(c, i)'
      <3>1. ASSUME NEW x \in Readers, ref'[x] = "listening", owner'[x] = c, x # r
            PROVE  IF x \in todo'[home'[c]] THEN ReadTo(x, i - 1)' ELSE ReadTo(x, i)'
        <4>1. IF x \in todo[home[c]] THEN ReadTo(x, i - 1) ELSE ReadTo(x, i)
          BY <1>4, <1>13, <2>1, <3>1 DEF DispAt, ServedTo
        <4>2. \A k : ReadTo(x, k) => ReadTo(x, k)'
          BY <1>13, <3>1 DEF ReadTo
        <4> QED
          BY <1>4, <4>1, <4>2
      <3>2. ASSUME owner'[r] = c
            PROVE  r \notin todo'[home'[c]] /\ ReadTo(r, i)'
        <4>1. c = d /\ i = n
          BY <1>1, <1>4, <2>1, <3>2
        <4>2. r \notin todo'[home'[c]]
          BY <1>4, <1>6, <1>7, <4>1
        <4>3. ReadTo(r, i)'
          BY <1>11, <1>13, <4>1 DEF ReadTo
        <4> QED
          BY <4>2, <4>3
      <3> QED
        BY <3>1, <3>2 DEF ServedTo
    <2> QED
      BY <2>3, <2>4, <2>5 DEF DispAt
  <1>20. StreamInv'
    <2>1. StoredTo(ring, written, firstKey)' /\ GoodItems(firstKey)'
      BY <1>4 DEF StreamInv, GoodItems, GoodItem
    <2> QED
      BY <1>4, <1>14, <1>19, <2>1 DEF StreamInv
  <1> QED
    BY <1>15, <1>16, <1>17, <1>18, <1>20

LEMMA InitHolds ==
  Init => RingInv
  <1> SUFFICES ASSUME Init
               PROVE  RingInv
    OBVIOUS
  <1>1. EmptyStorage \in Storages /\ StoredTo(EmptyStorage, 0, 0)
    <2>1. <<>> \in Seq(Items) /\ CacheTo(<<>>, 0)
      BY EmptyCache
    <2> QED
      BY <2>1 DEF EmptyStorage, Storages, StoredTo
  <1>2. \A r \in Readers : owner[r] = None /\ r # None
    BY NoneAssumption DEF Init
  <1>3. Made = {}
    BY <1>2 DEF Made
  <1>4. \A r \in Readers : ~Registered(r) /\ ~Alive(r)
    BY <1>2 DEF Registered, Alive, Init
  <1>5. RingTyped
    <2>1. <<>> \in Seq(Nat) /\ <<>> \in Seq(Tasks)
      OBVIOUS
    <2> QED
      BY <1>1, <2>1, BoundAssumption DEF Init, RingTyped
  <1>6. HomeInv
    BY <1>2, <1>3, <1>4 DEF Init, HomeInv, OwnerInv, MapInv, QueueInv, VisitInv
  <1>7. LastInv
    BY <1>4 DEF Init, LastInv, DeletesLast
  <1>8. CountInv
    <2>1. {r \in Readers : Registered(r)} = {}
      BY <1>4
    <2> QED
      BY <2>1, FS_EmptySet DEF Init, CountInv
  <1>9. StreamInv
    BY <1>1, <1>3 DEF Init, StreamInv, GoodItems
  <1> QED
    BY <1>5, <1>6, <1>7, <1>8, <1>9 DEF RingInv

LEMMA NextKeeps ==
  RingInv /\ [Next]_vars => RingInv'
  <1> SUFFICES ASSUME RingInv, [Next]_vars
               PROVE  RingInv'
    OBVIOUS
  <1>1. CASE \E key \in BOOLEAN : Write(key)
    BY <1>1, WriteKeeps
  <1>2. CASE Clear \/ Close
    BY <1>2, ClearKeeps, CloseKeeps
  <1>3. ASSUME NEW r \in Readers,
               \/ Release(r) \/ ReleaseElsewhere(r)
               \/ \E p \in Pollers : Attach(p, r)
               \/ \E gops \in GopLimits : SetReadCB(r, gops)
        PROVE  RingInv'
    BY <1>3, ReleaseKeeps, ReleaseElsewhereKeeps, AttachKeeps, SetReadCBKeeps
  <1>4. ASSUME NEW p \in Pollers, PollerStep(p)
        PROVE  RingInv'
    <2>1. CASE StartWrite(p) \/ EndWrite(p) \/ RunClear(p) \/ RunDealloc(p) \/ RunDelete(p)
      BY <2>1, StartWriteKeeps, EndWriteKeeps, RunClearKeeps, RunDeallocKeeps, RunDeleteKeeps
    <2>2. CASE OnReaderChanged(p)
      BY <2>2, OnReaderChangedKeeps
    <2>3. CASE \E r \in Readers : OnRead(p, r) \/ DropExpired(p, r)
      BY <2>3, OnReadKeeps, DropExpiredKeeps
    <2> QED
      BY <1>4, <2>1, <2>2, <2>3 DEF PollerStep
  <1>5. CASE UNCHANGED vars
    BY <1>5, NothingKeeps
  <1> QED
    BY <1>1, <1>2, <1>3, <1>4, <1>5 DEF Next

-----------------------------------------------------------------------------
(* What the invariant says of the readers.                                  *)

LEMMA InvSees ==
  RingInv => SeesEveryItem
  <1> SUFFICES ASSUME RingInv, NEW r \in Readers, ref[r] = "listening"
               PROVE  /\ \A i \in 1 .. Len(seen[r]) - 1 : seen[r][i + 1] = seen[r][i] + 1
                      /\ Position(r) + Behind(r) = written
    BY DEF SeesEveryItem
  <1> USE DEF RingInv, HomeInv
  <1>1. PICK d : d = owner[r]
    OBVIOUS
  <1>2. PICK p : p = home[r]
    OBVIOUS
  <1>3. Alive(r) /\ owner[r] # None
    BY AliveOwned DEF Alive
  <1>4. d \in Made /\ d \in Readers /\ home[d] = p /\ p \in Pollers
    BY <1>1, <1>2, <1>3, Owned
  <1>5. PICK n \in Nat, m \in Nat : DispAt(d, n, m)
    BY <1>4 DEF StreamInv
  <1>6. n <= m /\ m = written /\ Lined(tasks[p], d, n, m)
    <2>1. Served(d)
      BY <1>1, <1>3 DEF Served
    <2> QED
      BY <1>4, <1>5, <2>1 DEF DispAt, NumbersAt
  <1>7. PICK t \in {0, 1} : t = IF r \in todo[p] THEN 1 ELSE 0
    OBVIOUS
  <1>8. PICK k \in Int : k = n - t
    BY <1>7
  <1>9. ReadTo(r, k)
    <2>1. IF r \in todo[p] THEN ReadTo(r, n - 1) ELSE ReadTo(r, n)
      BY <1>1, <1>4, <1>5 DEF DispAt, ServedTo
    <2>2. CASE r \in todo[p]
      BY <1>7, <1>8, <2>1, <2>2
    <2>3. CASE r \notin todo[p]
      <3>1. k = n
        BY <1>7, <1>8, <2>3
      <3> QED
        BY <2>1, <2>3, <3>1
    <2> QED
      BY <2>2, <2>3
  <1>10. Behind(r) = m - n + t
    <2>1. tasks[p] \in Seq(Tasks)
      BY <1>4 DEF RingTyped
    <2>2. Cardinality(Writes(tasks[p], d)) = m - n
      BY <1>6, <2>1, LinedCount
    <2>3. Behind(r) = Cardinality(Writes(tasks[p], d)) + t
      BY <1>1, <1>2, <1>7 DEF Behind, Writes
    <2> QED
      BY <2>2, <2>3
  <1>11. PICK s \in Seq(Nat) : s = seen[r]
    BY DEF RingTyped
  <1>12. PICK l \in Nat : l = Len(s)
    OBVIOUS
  <1>13. \A i \in 1 .. l : s[i] \in Nat /\ s[i] + (l - i) = k
    <2>1. \A i \in 1 .. l : s[i] \in Nat
      BY <1>12
    <2> QED
      BY <1>9, <1>11, <1>12, <2>1 DEF ReadTo, SeenTo
  <1>14. ASSUME NEW i \in 1 .. l - 1
         PROVE  s[i + 1] = s[i] + 1
    <2>1. PICK j : j = i + 1
      OBVIOUS
    <2>2. i \in 1 .. l /\ j \in 1 .. l /\ i \in Int /\ j \in Int
      BY <1>12, <2>1
    <2>3. PICK a \in Nat : a = s[i]
      BY <1>13, <2>2
    <2>4. PICK b \in Nat : b = s[j]
      BY <1>13, <2>2
    <2>5. a + (l - i) = k
      BY <1>13, <2>2, <2>3
    <2>6. b + (l - j) = k
      BY <1>13, <2>2, <2>4
    <2>7. b = a + 1
      BY <2>1, <2>2, <2>5, <2>6
    <2> QED
      BY <2>1, <2>3, <2>4, <2>7
  <1>15. Position(r) = k
    <2>1. CASE s = <<>>
      BY <1>9, <1>11, <2>1 DEF ReadTo, Position
    <2>2. CASE s # <<>>
      <3>1. l \in 1 .. l
        BY <1>12, <2>2
      <3>2. PICK a \in Nat : a = s[l]
        BY <1>13, <3>1
      <3>3. a + (l - l) = k
        BY <1>13, <3>1, <3>2
      <3>4. a = k
        BY <3>3
      <3> QED
        BY <1>11, <1>12, <2>2, <3>2, <3>4 DEF Position
    <2> QED
      BY <2>1, <2>2
  <1>16. k + (m - n + t) = written
    BY <1>6, <1>7, <1>8
  <1> QED
    BY <1>10, <1>11, <1>12, <1>14, <1>15, <1>16

LEMMA InvStarts ==
  RingInv => StartsAtKey
  <1> SUFFICES ASSUME RingInv
               PROVE  StartsAtKey
    OBVIOUS
  <1> USE DEF RingInv
  <1>1. StartsWell(ring.cache, firstKey)
    BY DEF StreamInv, StoredTo, StartsWell
  <1>2. ASSUME NEW d \in Readers
        PROVE  StartsWell(dstore[d].cache, firstKey)
    <2>1. CASE d \in Made
      <3>1. PICK n \in Nat, m \in Nat : DispAt(d, n, m)
        BY <2>1 DEF StreamInv
      <3> QED
        BY <3>1 DEF DispAt, CachedTo, StoredTo, StartsWell
    <2>2. CASE d \notin Made
      BY <2>2 DEF StreamInv, EmptyStorage, StartsWell
    <2> QED
      BY <2>1, <2>2
  <1> QED
    BY <1>1, <1>2 DEF StartsAtKey, StartsWell

LEMMA InvCounts ==
  RingInv => CountsReaders
  <1> SUFFICES ASSUME RingInv, open
               PROVE  /\ count = Cardinality({r \in Readers : Registered(r)})
                      /\ \A p \in Pollers : disp[p] # None <=> \E r \in Readers : home[r] = p /\ Registered(r)
    BY DEF CountsReaders
  <1> USE DEF RingInv, HomeInv
  <1>1. ASSUME NEW p \in Pollers, disp[p] # None
        PROVE  \E r \in Readers : home[r] = p /\ Registered(r)
    <2>1. PICK d \in Made : d = disp[p] /\ home[d] = p /\ dmap[d] # {} /\ d \in Readers /\ d # None
      BY <1>1, MadeIs DEF MapInv
    <2>2. PICK r \in dmap[d] : r \in Readers /\ owner[r] = d
      BY <2>1 DEF MapInv, RingTyped
    <2>3. home[r] = p
      BY <2>1, <2>2, Owned
    <2> QED
      BY <2>1, <2>2, <2>3 DEF Registered
  <1>2. ASSUME NEW r \in Readers, Registered(r)
        PROVE  disp[home[r]] # None
    BY <1>2 DEF MapInv, Registered
  <1> QED
    BY <1>1, <1>2 DEF CountInv

LEMMA InvDetached ==
  RingInv => DetachedLast
  <1> SUFFICES ASSUME RingInv, NEW r \in Readers
               PROVE  /\ detached[r] <= 1
                      /\ detached[r] = 1 => ~open /\ Behind(r) = 0
                      /\ ~open /\ Alive(r) /\ PollerIdle(home[r]) /\ tasks[home[r]] = <<>> => detached[r] = 1
    BY DEF DetachedLast
  <1> USE DEF RingInv, HomeInv
  <1>1. detached[r] \in {0, 1}
    BY DEF RingTyped
  <1>2. PICK p : p = home[r]
    OBVIOUS
  <1>3. PICK d : d = owner[r]
    OBVIOUS
  <1>4. ASSUME detached[r] = 1
        PROVE  ~open /\ Behind(r) = 0
    <2>1. ~open /\ owner[r] # None /\ ~Pending(owner[r])
      BY <1>4 DEF LastInv
    <2>2. home[d] = p /\ p \in Pollers
      BY <1>2, <1>3, <2>1, Owned
    <2>3. ~InQueue(tasks[p], d) /\ ~Runs(p, d)
      BY <1>3, <2>1, <2>2 DEF Pending
    <2>4. {i \in 1 .. Len(tasks[p]) : IsWriteFor(tasks[p][i], d)} = {}
      BY <2>3 DEF InQueue, About, IsWriteFor
    <2>5. r \notin todo[p]
      BY <1>3, <2>2, <2>3 DEF VisitInv, Runs
    <2>6. Cardinality({i \in 1 .. Len(tasks[p]) : IsWriteFor(tasks[p][i], d)}) = 0
      BY <2>4, FS_EmptySet
    <2>7. Behind(r) = Cardinality({i \in 1 .. Len(tasks[p]) : IsWriteFor(tasks[p][i], d)}) + 0
      BY <1>2, <1>3, <2>5 DEF Behind
    <2> QED
      BY <2>1, <2>6, <2>7
  <1>5. ASSUME ~open, Alive(r), PollerIdle(p), tasks[p] = <<>>
        PROVE  detached[r] = 1
    <2>1. home[d] = p
      BY <1>2, <1>3, <1>5, AliveOwned, Owned
    <2>2. ~InQueue(tasks[p], d)
      BY <1>5 DEF InQueue
    <2>3. ~Runs(p, d)
      BY <1>5 DEF PollerIdle, Runs
    <2>4. ~Pending(owner[r])
      BY <1>3, <2>1, <2>2, <2>3 DEF Pending
    <2> QED
      BY <1>1, <1>5, <2>4 DEF LastInv
  <1> QED
    BY <1>1, <1>2, <1>4, <1>5

(* RingBuffer: a reader gets one stretch of what is written, the caches it  *)
(* is served from start at key frames, and readers are counted once and     *)
(* told once and last that the ring is gone.                                *)
THEOREM ReadersAreServed == Spec => []ReadersServed
  <1>1. RingInv => ReadersServed
    BY InvSees, InvStarts, InvCounts, InvDetached DEF ReadersServed
  <1> QED
    BY InitHolds, NextKeeps, <1>1, PTL DEF Spec
=============================================================================
