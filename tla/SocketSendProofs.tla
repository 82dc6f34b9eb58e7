--------------------------- MODULE SocketSendProofs ---------------------------
(* Theorems about SocketSend, for any senders, bounds and kernel buffer.    *)
EXTENDS SocketSend, Integers, SequenceTheorems, TLAPS

-----------------------------------------------------------------------------
(* Units.                                                                   *)
Els(s) == {s[i] : i \in 1 .. Len(s)}
Once(s) == \A i, j \in 1 .. Len(s) : s[i] = s[j] => i = j
Rising(s) == \A i, j \in 1 .. Len(s) : i < j => s[i] < s[j]
Below(A, B) == \A x \in A, y \in B : x < y

(* No unit is in two places: w and s are the buffers, t what the threads    *)
(* are flushing, and k the stream.                                          *)
Distinct(w, s, t, k) ==
  /\ Once(w) /\ Once(s) /\ Once(k) /\ \A a \in Actors : Once(t[a])
  /\ Els(w) \cap Els(s) = {} /\ Els(w) \cap Els(k) = {} /\ Els(s) \cap Els(k) = {}
  /\ \A a \in Actors : Els(t[a]) \cap (Els(w) \cup Els(s) \cup Els(k)) = {}
  /\ \A a, b \in Actors : a # b => Els(t[a]) \cap Els(t[b]) = {}

Held(u, w, s, t, k) ==
  u \in Els(w) \/ u \in Els(s) \/ u \in Els(k) \/ \E a \in Actors : u \in Els(t[a])

Where == {"idle", "flush", "take", "takeWaiting", "write", "sent", "arm", "rollback", "looking",
          "detach", "close", "detachLast", "closeLast"}

Requests == [op : {"watch", "close"}, conn : Nat]

SendTyped ==
  /\ waiting \in Seq(Nat) /\ sending \in Seq(Nat) /\ tmp \in [Actors -> Seq(Nat)]
  /\ kernel \in Seq(Nat) /\ received \in Seq(Nat)
  /\ count \in Nat /\ conns \in Nat \ {0} /\ base \in Nat
  /\ pc \in [Actors -> Where]
  /\ tasks \in Seq(Requests)
  /\ conn \in {"up", "detached", "none"}
  /\ sendable \in BOOLEAN /\ onEvent \in BOOLEAN /\ armed \in BOOLEAN /\ edge \in BOOLEAN
  /\ broken \in BOOLEAN /\ errEmit \in BOOLEAN /\ alone \in BOOLEAN

Flushing == {"write", "arm", "rollback"}

PlacesInv ==
  /\ Distinct(waiting, sending, tmp, Stream)
  /\ \A u : Held(u, waiting, sending, tmp, Stream) => u \in 1 .. count
  /\ \A a \in Actors : tmp[a] # <<>> => pc[a] \in Flushing

(* On the first connection: what will close it means an error.              *)
First == conns = 1 /\ conn # "none" /\ ~errEmit
FirstInv ==
  First =>
    /\ \A i \in 1 .. Len(tasks) : tasks[i].op # "close"
    /\ pc[Poller] \notin {"detach", "detachLast"}
    /\ ~Switching => \A u \in 1 .. count : Held(u, waiting, sending, tmp, Stream)

(* The poller alone.                                                        *)
AloneInv ==
  alone =>
    /\ tasks = <<>> /\ \A a \in Senders : pc[a] = "idle"
    /\ pc[Poller] \in {"takeWaiting", "write", "sent", "arm", "rollback"} => sending = <<>>
    /\ pc[Poller] \in {"looking", "detach", "detachLast", "close", "closeLast"} => waiting = <<>>
    /\ pc[Poller] \in {"detachLast", "closeLast"} => sending = <<>>
    /\ pc[Poller] \in {"detach", "detachLast"} => errEmit
    /\ conn = "detached" => errEmit

(* Then the stream, what the poller is flushing, the second buffer and the  *)
(* first one follow each other,                                             *)
Ordered(w, s, t, k) ==
  /\ Rising(w) /\ Rising(s) /\ Rising(t) /\ Rising(k)
  /\ Below(Els(k), Els(t) \cup Els(s) \cup Els(w))
  /\ Below(Els(t), Els(s) \cup Els(w)) /\ Below(Els(s), Els(w))

All(w, s, t, k) == Els(w) \cup Els(s) \cup Els(t) \cup Els(k)

(* without a hole until an error, and begin on this connection.             *)
Whole(w, s, t, k) ==
  IF Switching THEN \A u, v \in Els(k) : u .. v \subseteq Els(k)
               ELSE \A u \in All(w, s, t, k) : u .. count \subseteq All(w, s, t, k)

OrderInv ==
  alone =>
    /\ Ordered(waiting, sending, tmp[Poller], Stream)
    /\ ~errEmit => Whole(waiting, sending, tmp[Poller], Stream)
    /\ ~Switching => \A u \in All(waiting, sending, tmp[Poller], Stream) : base <= u
    /\ base <= count + 1

(* And what waits has its event.                                            *)
WatchInv ==
  alone =>
    /\ pc[Poller] = "write" => tmp[Poller] # <<>>
    /\ onEvent => pc[Poller] \in {"take", "takeWaiting", "write", "sent", "rollback"}
    /\ conn = "up" /\ ~errEmit =>
         /\ ~sendable => armed
         /\ onEvent => armed
         /\ pc[Poller] \in {"looking", "rollback"} => armed
         /\ sending # <<>> => armed
         /\ pc[Poller] \in {"idle", "write", "sent", "arm", "rollback"} /\ waiting # <<>> => armed
         /\ armed => \/ edge \/ kernel # <<>>
                     \/ pc[Poller] = "looking"
                     \/ onEvent /\ pc[Poller] \in {"take", "takeWaiting", "write"}

SendInv == SendTyped /\ PlacesInv /\ FirstInv /\ AloneInv /\ OrderInv /\ WatchInv
-----------------------------------------------------------------------------
(* What appending, concatenating and cutting do to the units.               *)
LEMMA NoUnits == Els(<<>>) = {} /\ Once(<<>>) /\ Rising(<<>>)
  BY DEF Els, Once, Rising

LEMMA RisingOnce == ASSUME NEW s \in Seq(Nat), Rising(s) PROVE Once(s)
  <1> SUFFICES ASSUME NEW i \in 1 .. Len(s), NEW j \in 1 .. Len(s), s[i] = s[j] PROVE i = j
    BY DEF Once
  <1>1. s[i] \in Nat /\ i \in Nat /\ j \in Nat
    OBVIOUS
  <1> QED
    BY <1>1 DEF Rising

LEMMA ElsNat == ASSUME NEW s \in Seq(Nat) PROVE Els(s) \subseteq Nat /\ (s # <<>> <=> Els(s) # {})
  <1>1. Len(s) \in Nat /\ \A i \in 1 .. Len(s) : s[i] \in Nat
    OBVIOUS
  <1>2. s # <<>> => 1 \in 1 .. Len(s)
    OBVIOUS
  <1>3. s = <<>> => Els(s) = {}
    BY NoUnits
  <1> QED
    BY <1>1, <1>2, <1>3 DEF Els

LEMMA ConcatUnits ==
  ASSUME NEW s \in Seq(Nat), NEW t \in Seq(Nat)
  PROVE  /\ s \o t \in Seq(Nat)
         /\ Els(s \o t) = Els(s) \cup Els(t)
         /\ Once(s) /\ Once(t) /\ Els(s) \cap Els(t) = {} => Once(s \o t)
         /\ Rising(s) /\ Rising(t) /\ Below(Els(s), Els(t)) => Rising(s \o t)
  <1> DEFINE c == s \o t
  <1>1. PICK m \in Nat, n \in Nat : m = Len(s) /\ n = Len(t)
    OBVIOUS
  <1>2. /\ c \in Seq(Nat) /\ Len(c) = m + n
        /\ \A i \in 1 .. m : c[i] = s[i]
        /\ \A i \in 1 .. n : c[m + i] = t[i]
    BY <1>1
  <1>3. \A i \in 1 .. m + n : i \in 1 .. m \/ (i - m \in 1 .. n /\ c[i] = t[i - m])
    <2> TAKE i \in 1 .. m + n
    <2>1. CASE i <= m
      BY <2>1
    <2>2. CASE i > m
      <3>1. i - m \in 1 .. n /\ m + (i - m) = i
        BY <2>2
      <3> QED
        BY <3>1, <1>2
    <2>3. i <= m \/ i > m
      OBVIOUS
    <2> QED
      BY <2>1, <2>2, <2>3
  <1> HIDE DEF c
  <1>4. Els(c) = Els(s) \cup Els(t)
    <2>1. Els(s) \subseteq Els(c)
      <3> SUFFICES ASSUME NEW i \in 1 .. m PROVE s[i] \in Els(c)
        BY <1>1 DEF Els
      <3>1. i \in 1 .. m + n
        OBVIOUS
      <3> QED
        BY <3>1, <1>2 DEF Els
    <2>2. Els(t) \subseteq Els(c)
      <3> SUFFICES ASSUME NEW i \in 1 .. n PROVE t[i] \in Els(c)
        BY <1>1 DEF Els
      <3>1. m + i \in 1 .. m + n
        OBVIOUS
      <3> QED
        BY <3>1, <1>2 DEF Els
    <2>3. Els(c) \subseteq Els(s) \cup Els(t)
      <3> SUFFICES ASSUME NEW i \in 1 .. m + n PROVE c[i] \in Els(s) \cup Els(t)
        BY <1>2 DEF Els
      <3> QED
        BY <1>1, <1>2, <1>3 DEF Els
    <2> QED
      BY <2>1, <2>2, <2>3
  <1>5. \A i \in 1 .. m : s[i] \in Els(s)
    BY <1>1 DEF Els
  <1>6. \A i \in 1 .. n : t[i] \in Els(t)
    BY <1>1 DEF Els
  <1>7. ASSUME Once(s), Once(t), Els(s) \cap Els(t) = {} PROVE Once(c)
    <2> SUFFICES ASSUME NEW i \in 1 .. m + n, NEW j \in 1 .. m + n, c[i] = c[j] PROVE i = j
      BY <1>2 DEF Once
    <2>1. CASE i \in 1 .. m /\ j \in 1 .. m
      BY <2>1, <1>1, <1>2, <1>7 DEF Once
    <2>2. CASE i \in 1 .. m /\ j \notin 1 .. m
      BY <2>2, <1>2, <1>3, <1>5, <1>6, <1>7
    <2>3. CASE i \notin 1 .. m /\ j \in 1 .. m
      BY <2>3, <1>2, <1>3, <1>5, <1>6, <1>7
    <2>4. CASE i \notin 1 .. m /\ j \notin 1 .. m
      <3>1. i - m \in 1 .. n /\ j - m \in 1 .. n /\ t[i - m] = t[j - m]
        BY <2>4, <1>3
      <3>2. i - m = j - m
        BY <3>1, <1>1, <1>7 DEF Once
      <3> QED
        BY <3>2
    <2> QED
      BY <2>1, <2>2, <2>3, <2>4
  <1>8. ASSUME Rising(s), Rising(t), Below(Els(s), Els(t)) PROVE Rising(c)
    <2> SUFFICES ASSUME NEW i \in 1 .. m + n, NEW j \in 1 .. m + n, i < j PROVE c[i] < c[j]
      BY <1>2 DEF Rising
    <2>1. CASE i \in 1 .. m /\ j \in 1 .. m
      BY <2>1, <1>1, <1>2, <1>8 DEF Rising
    <2>2. CASE i \in 1 .. m /\ j \notin 1 .. m
      <3>1. c[i] = s[i] /\ c[j] = t[j - m] /\ j - m \in 1 .. n
        BY <2>2, <1>2, <1>3
      <3> QED
        BY <2>2, <3>1, <1>5, <1>6, <1>8 DEF Below
    <2>3. CASE i \notin 1 .. m
      <3>1. i - m \in 1 .. n /\ j - m \in 1 .. n /\ c[i] = t[i - m] /\ c[j] = t[j - m] /\ i - m < j - m
        BY <2>3, <1>3
      <3> QED
        BY <3>1, <1>1, <1>8 DEF Rising
    <2> QED
      BY <2>1, <2>2, <2>3
  <1> QED
    BY <1>2, <1>4, <1>7, <1>8 DEF c

LEMMA AppendUnit ==
  ASSUME NEW s \in Seq(Nat), NEW x \in Nat
  PROVE  /\ Append(s, x) \in Seq(Nat)
         /\ Els(Append(s, x)) = Els(s) \cup {x}
         /\ Once(s) /\ x \notin Els(s) => Once(Append(s, x))
         /\ Rising(s) /\ Below(Els(s), {x}) => Rising(Append(s, x))
  <1>1. Append(s, x) = s \o <<x>> /\ <<x>> \in Seq(Nat)
    OBVIOUS
  <1>2. PICK o : o = <<x>>
    OBVIOUS
  <1>3. Len(o) = 1 /\ o[1] = x /\ o \in Seq(Nat)
    BY <1>2
  <1>4. Els(o) = {x} /\ Once(o) /\ Rising(o)
    BY <1>3 DEF Els, Once, Rising
  <1>5. Append(s, x) = s \o o
    BY <1>2
  <1>6. Once(s) /\ x \notin Els(s) => Els(s) \cap Els(o) = {}
    BY <1>4
  <1>7. /\ s \o o \in Seq(Nat)
        /\ Els(s \o o) = Els(s) \cup Els(o)
        /\ Once(s) /\ Once(o) /\ Els(s) \cap Els(o) = {} => Once(s \o o)
        /\ Rising(s) /\ Rising(o) /\ Below(Els(s), Els(o)) => Rising(s \o o)
    BY <1>3, ConcatUnits
  <1> QED
    BY <1>4, <1>5, <1>6, <1>7

LEMMA RestIs ==
  ASSUME NEW S, NEW s \in Seq(S), NEW k \in Nat, k <= Len(s)
  PROVE  /\ SubSeq(s, k + 1, Len(s)) \in Seq(S) /\ Len(SubSeq(s, k + 1, Len(s))) = Len(s) - k
         /\ \A j \in 1 .. Len(s) - k : SubSeq(s, k + 1, Len(s))[j] = s[k + j]
  OBVIOUS

Cut(s, n, p, q) == p = SubSeq(s, 1, n) /\ q = SubSeq(s, n + 1, Len(s))

LEMMA CutUnits ==
  ASSUME NEW s \in Seq(Nat), NEW n \in 0 .. Len(s), NEW p, NEW q, Cut(s, n, p, q)
  PROVE  /\ p \in Seq(Nat) /\ q \in Seq(Nat)
         /\ Len(p) = n /\ Len(q) = Len(s) - n
         /\ Els(s) = Els(p) \cup Els(q)
         /\ Once(s) => Once(p) /\ Once(q) /\ Els(p) \cap Els(q) = {}
         /\ Rising(s) => Rising(p) /\ Rising(q) /\ Below(Els(p), Els(q))
  <1>1. PICK m \in Nat : m = Len(s)
    OBVIOUS
  <1>3. n \in Nat /\ n <= m /\ n + 1 \in Nat
    BY <1>1
  <1>10. p \in Seq(Nat) /\ Len(p) = n /\ \A i \in 1 .. n : p[i] = s[i]
    BY <1>1, <1>3 DEF Cut
  <1>11. /\ q \in Seq(Nat) /\ Len(q) = m - n
        /\ \A i \in 1 .. m - n : q[i] = s[n + i]
    BY <1>1, <1>3, RestIs DEF Cut
  <1>2. /\ p \in Seq(Nat) /\ Len(p) = n /\ \A i \in 1 .. n : p[i] = s[i]
        /\ q \in Seq(Nat) /\ Len(q) = m - n /\ \A i \in 1 .. m - n : q[i] = s[n + i]
    BY <1>10, <1>11
  <1>4. \A i \in 1 .. n : i \in 1 .. m
    BY <1>3
  <1>5. \A i \in 1 .. m - n : n + i \in 1 .. m
    BY <1>3
  <1>6. \A i \in 1 .. m : i \in 1 .. n \/ (i - n \in 1 .. m - n /\ q[i - n] = s[i])
    <2> TAKE i \in 1 .. m
    <2>1. CASE i <= n
      BY <2>1, <1>3
    <2>2. CASE i > n
      <3>1. i - n \in 1 .. m - n /\ n + (i - n) = i
        BY <2>2, <1>3
      <3> QED
        BY <3>1, <1>2
    <2>3. i <= n \/ i > n
      BY <1>3
    <2> QED
      BY <2>1, <2>2, <2>3
  <1>7. Els(s) = Els(p) \cup Els(q)
    <2>1. Els(s) \subseteq Els(p) \cup Els(q)
      <3> SUFFICES ASSUME NEW i \in 1 .. m PROVE s[i] \in Els(p) \cup Els(q)
        BY <1>1 DEF Els
      <3> QED
        BY <1>2, <1>6 DEF Els
    <2>2. Els(p) \subseteq Els(s)
      BY <1>1, <1>2, <1>4, SMTT(20) DEF Els
    <2>3. Els(q) \subseteq Els(s)
      <3> SUFFICES ASSUME NEW i \in 1 .. m - n PROVE q[i] \in Els(s)
        BY <1>2 DEF Els
      <3> QED
        BY <1>1, <1>2, <1>5 DEF Els
    <2> QED
      BY <2>1, <2>2, <2>3
  <1>12. /\ \A x \in Els(p) : \E i \in 1 .. n : x = s[i]
         /\ \A x \in Els(q) : \E j \in 1 .. m - n : x = s[n + j]
    <2>1. ASSUME NEW x \in Els(p) PROVE \E i \in 1 .. n : x = s[i]
      <3>1. PICK i \in 1 .. Len(p) : x = p[i]
        BY DEF Els
      <3> QED
        BY <1>2, <3>1
    <2>2. ASSUME NEW x \in Els(q) PROVE \E j \in 1 .. m - n : x = s[n + j]
      <3>1. PICK j \in 1 .. Len(q) : x = q[j]
        BY DEF Els
      <3> QED
        BY <1>2, <3>1
    <2> QED
      BY <2>1, <2>2
  <1>8. ASSUME Once(s) PROVE Once(p) /\ Once(q) /\ Els(p) \cap Els(q) = {}
    <2>1. Once(p)
      BY <1>1, <1>2, <1>4, <1>8 DEF Once
    <2>2. Once(q)
      <3> SUFFICES ASSUME NEW i \in 1 .. m - n, NEW j \in 1 .. m - n, q[i] = q[j] PROVE i = j
        BY <1>2 DEF Once
      <3>1. n + i = n + j
        <4>1. n + i \in 1 .. m /\ n + j \in 1 .. m
          BY <1>5
        <4>2. s[n + i] = s[n + j]
          BY <1>2
        <4> QED
          BY <1>1, <1>8, <4>1, <4>2 DEF Once
      <3> QED
        BY <3>1, <1>3
    <2>3. ASSUME NEW x \in Els(p) \cap Els(q) PROVE FALSE
      <3>1. PICK i \in 1 .. n : x = s[i]
        BY <2>3, <1>12
      <3>2. PICK j \in 1 .. m - n : x = s[n + j]
        BY <2>3, <1>12
      <3>3. i = n + j
        BY <1>1, <1>4, <1>5, <1>8, <3>1, <3>2 DEF Once
      <3> QED
        BY <3>3, <1>3
    <2> QED
      BY <2>1, <2>2, <2>3
  <1>9. ASSUME Rising(s) PROVE Rising(p) /\ Rising(q) /\ Below(Els(p), Els(q))
    <2>1. Rising(p)
      BY <1>1, <1>2, <1>4, <1>9 DEF Rising
    <2>2. Rising(q)
      <3> SUFFICES ASSUME NEW i \in 1 .. m - n, NEW j \in 1 .. m - n, i < j PROVE q[i] < q[j]
        BY <1>2 DEF Rising
      <3>1. n + i < n + j /\ n + i \in 1 .. m /\ n + j \in 1 .. m
        BY <1>3, <1>5
      <3> QED
        BY <3>1, <1>1, <1>2, <1>9 DEF Rising
    <2>3. Below(Els(p), Els(q))
      <3> SUFFICES ASSUME NEW x \in Els(p), NEW y \in Els(q) PROVE x < y
        BY DEF Below
      <3>1. PICK i \in 1 .. n : x = s[i]
        BY <1>12
      <3>2. PICK j \in 1 .. m - n : y = s[n + j]
        BY <1>12
      <3>3. i < n + j /\ i \in 1 .. m /\ n + j \in 1 .. m
        BY <1>3, <1>4, <1>5
      <3> QED
        BY <3>1, <3>2, <3>3, <1>1, <1>9 DEF Rising
    <2> QED
      BY <2>1, <2>2, <2>3
  <1> QED
    BY <1>1, <1>2, <1>7, <1>8, <1>9

-----------------------------------------------------------------------------
(* Types.                                                                   *)
LEMMA StreamIs == ASSUME SendTyped PROVE Stream \in Seq(Nat)
  BY DEF SendTyped, Stream

LEMMA TypedInit == SendInit => SendTyped
  <1> SUFFICES ASSUME SendInit PROVE SendTyped
    OBVIOUS
  <1>1. tmp \in [Actors -> Seq(Nat)] /\ pc \in [Actors -> Where]
    BY DEF SendInit, Where
  <1>2. /\ waiting = <<>> /\ sending = <<>> /\ kernel = <<>> /\ received = <<>> /\ tasks = <<>>
        /\ count = 0 /\ conns = 1 /\ base = 1 /\ conn = "up"
        /\ sendable = TRUE /\ onEvent = FALSE /\ armed = TRUE /\ edge = TRUE
        /\ broken = FALSE /\ errEmit = FALSE /\ alone \in BOOLEAN
    BY DEF SendInit
  <1>3. <<>> \in Seq(Nat) /\ <<>> \in Seq(Requests) /\ 1 \in Nat \ {0} /\ 0 \in Nat
    OBVIOUS
  <1> QED
    BY <1>1, <1>2, <1>3 DEF SendTyped

LEMMA Going ==
  ASSUME SendTyped, NEW a \in Actors, NEW w \in Where, Goto(a, w)
  PROVE  pc' \in [Actors -> Where] /\ pc'[a] = w /\ \A b \in Actors \ {a} : pc'[b] = pc[b]
  BY DEF SendTyped, Goto

LEMMA Asking ==
  ASSUME SendTyped, NEW x \in {"watch", "close"}
  PROVE  /\ Append(tasks, Task(x)) \in Seq(Requests)
         /\ Len(Append(tasks, Task(x))) = Len(tasks) + 1
         /\ Append(tasks, Task(x))[Len(tasks) + 1].op = x
         /\ \A i \in 1 .. Len(tasks) : Append(tasks, Task(x))[i] = tasks[i]
  <1>1. Task(x) \in Requests /\ Task(x).op = x
    BY DEF Task, Requests, SendTyped
  <1>2. tasks \in Seq(Requests)
    BY DEF SendTyped
  <1> QED
    BY <1>1, <1>2

LEMMA ErrDoes ==
  ASSUME SendTyped, NEW a \in Actors, EmitErr(a)
  PROVE  /\ errEmit' = TRUE /\ sendable' \in BOOLEAN
         /\ waiting' \in {waiting, <<>>} /\ waiting' \in Seq(Nat)
         /\ tasks' \in Seq(Requests) /\ (errEmit \/ a = Poller => tasks' = tasks)
         /\ pc' \in [Actors -> Where] /\ \A b \in Actors \ {a} : pc'[b] = pc[b]
         /\ pc'[a] \in {"idle", "detach"} /\ (pc'[a] = "detach" => a = Poller /\ waiting' = <<>>)
         /\ (a = Poller /\ pc'[a] = "idle" => errEmit)
  <1>1. {"idle", "detach"} \subseteq Where
    BY DEF Where
  <1>2. <<>> \in Seq(Nat) /\ waiting \in Seq(Nat) /\ tasks \in Seq(Requests) /\ sendable \in BOOLEAN
    BY DEF SendTyped
  <1>3. CASE a = Poller /\ ~errEmit
    <2>1. errEmit' = TRUE /\ sendable' = TRUE /\ waiting' = <<>> /\ tasks' = tasks /\ Goto(a, "detach")
      BY <1>3 DEF EmitErr, StartClose
    <2> QED
      BY <1>1, <1>2, <1>3, <2>1, Going
  <1>4. CASE ~(a = Poller /\ ~errEmit)
    <2>1. /\ errEmit' = TRUE /\ sendable' = sendable /\ waiting' = waiting /\ Goto(a, "idle")
          /\ tasks' = IF errEmit THEN tasks ELSE Append(tasks, Task("close"))
      BY <1>4 DEF EmitErr
    <2>2. tasks' \in Seq(Requests)
      BY <1>2, <2>1, Asking
    <2> QED
      BY <1>1, <1>2, <1>4, <2>1, <2>2, Going
  <1> QED
    BY <1>3, <1>4

LEMMA PartsTyped ==
  ASSUME NEW s \in Seq(Nat), NEW n \in 0 .. Len(s)
  PROVE  SubSeq(s, 1, n) \in Seq(Nat) /\ SubSeq(s, n + 1, Len(s)) \in Seq(Nat)
  <1>1. n \in Nat /\ n <= Len(s)
    OBVIOUS
  <1>2. SubSeq(s, 1, n) \in Seq(Nat)
    BY <1>1
  <1> QED
    BY <1>1, <1>2, RestIs

LEMMA FlushTyped ==
  ASSUME SendTyped, NEW a \in Actors, FlushStep(a), UNCHANGED alone
  PROVE  SendTyped'
  <1> USE DEF SendTyped
  <1>0. <<>> \in Seq(Nat) /\ tmp[a] \in Seq(Nat) /\ pc[a] \in Where
        /\ {"idle", "take", "takeWaiting", "write", "sent", "arm", "rollback"} \subseteq Where
    BY DEF Where
  <1>1. CASE FlushAll(a)
    BY <1>1 DEF FlushAll, Goto, Where, bufVars, epollVars, connVars, dataVars
  <1>2. CASE TakeSending(a)
    BY <1>2 DEF TakeSending, Goto, Where, epollVars, connVars, dataVars
  <1>3. CASE TakeWaiting(a)
    <2>1. waiting' \in Seq(Nat) /\ tmp' \in [Actors -> Seq(Nat)]
      BY <1>0, <1>3 DEF TakeWaiting
    <2>3. /\ sendable' \in BOOLEAN /\ armed' \in BOOLEAN /\ edge' \in BOOLEAN
          /\ onEvent' \in BOOLEAN
      BY <1>3 DEF TakeWaiting, StopWriteAble, Watch
    <2>2. pc' \in [Actors -> Where]
      BY <1>0, <1>3, Going DEF TakeWaiting
    <2> QED
      BY <1>3, <2>1, <2>2, <2>3 DEF TakeWaiting, connVars, dataVars
  <1>4. CASE Write(a)
    <2>1. PICK n \in 0 .. Len(tmp[a]) :
            /\ kernel' = kernel \o SubSeq(tmp[a], 1, n)
            /\ tmp' = [tmp EXCEPT ![a] = SubSeq(@, n + 1, Len(@))]
            /\ Goto(a, IF n = Len(tmp[a]) THEN "sent"
                       ELSE IF a = Poller /\ onEvent THEN "rollback" ELSE "arm")
      BY <1>4 DEF Write
    <2>2. SubSeq(tmp[a], 1, n) \in Seq(Nat) /\ SubSeq(tmp[a], n + 1, Len(tmp[a])) \in Seq(Nat)
      BY <1>0, PartsTyped
    <2>3. kernel' \in Seq(Nat) /\ tmp' \in [Actors -> Seq(Nat)]
      BY <2>1, <2>2
    <2>4. pc' \in [Actors -> Where]
      BY <1>0, <2>1, Going
    <2> QED
      BY <1>4, <2>3, <2>4 DEF Write, epollVars, connVars
  <1>5. CASE WriteFails(a)
    <2>1. EmitErr(a) /\ tmp' = [tmp EXCEPT ![a] = <<>>]
          /\ onEvent' = (IF a = Poller THEN FALSE ELSE onEvent)
          /\ UNCHANGED <<sending, armed, edge, conn, broken, conns, base, dataVars>>
      BY <1>5 DEF WriteFails
    <2>2. tmp' \in [Actors -> Seq(Nat)]
      BY <1>0, <2>1
    <2> QED
      BY <2>1, <2>2, ErrDoes DEF dataVars
  <1>6. CASE Sent(a)
    BY <1>6 DEF Sent, Goto, Where, bufVars, epollVars, connVars, dataVars
  <1>7. CASE Arm(a)
    <2>2. sendable' = FALSE /\ armed' \in BOOLEAN /\ edge' \in BOOLEAN
      BY <1>7 DEF Arm, Watch
    <2>3. tasks' \in Seq(Requests)
      BY <1>7, Asking DEF Arm
    <2>4. pc' \in [Actors -> Where]
      BY <1>0, <1>7, Going DEF Arm
    <2> QED
      BY <1>7, <2>2, <2>3, <2>4 DEF Arm, bufVars, connVars, dataVars
  <1>8. CASE Rollback(a)
    <2>1. tmp[a] \o sending \in Seq(Nat)
      BY <1>0
    <2>2. sending' \in Seq(Nat) /\ tmp' \in [Actors -> Seq(Nat)] /\ onEvent' \in BOOLEAN
      BY <1>0, <1>8, <2>1 DEF Rollback
    <2>3. pc' \in [Actors -> Where]
      BY <1>0, <1>8, Going DEF Rollback
    <2> QED
      BY <1>8, <2>2, <2>3 DEF Rollback, epollVars, connVars, dataVars
  <1>9. CASE SendTimeOut(a)
    BY <1>9, ErrDoes DEF SendTimeOut, dataVars
  <1> QED
    BY <1>1, <1>2, <1>3, <1>4, <1>5, <1>6, <1>7, <1>8, <1>9 DEF FlushStep

LEMMA LoopTyped ==
  ASSUME SendTyped, LoopStep \/ Reconnect \/ Connect, UNCHANGED alone
  PROVE  SendTyped'
  <1> USE DEF SendTyped
  <1>0. /\ Poller \in Actors /\ <<>> \in Seq(Nat)
        /\ tasks # <<>> => Tail(tasks) \in Seq(Requests)
        /\ {"idle", "detach", "detachLast", "close", "closeLast"} \subseteq Where
    BY DEF Actors, Where
  <1>1. CASE OnWriteAble
    BY <1>0, <1>1 DEF OnWriteAble, Goto, Where, bufVars, connVars, dataVars
  <1>2. CASE LookAtSending
    BY <1>0, <1>2 DEF LookAtSending, StopWriteAble, Watch, Goto, Where, bufVars, connVars, dataVars
  <1>3. CASE RunWatch
    <2>1. tasks' \in Seq(Requests) /\ armed' \in BOOLEAN /\ edge' \in BOOLEAN
      BY <1>0, <1>3 DEF RunWatch, Watch
    <2> QED
      BY <1>3, <2>1 DEF RunWatch, bufVars, connVars, dataVars
  <1>4. CASE OnError
    BY <1>0, <1>4, ErrDoes DEF OnError, dataVars
  <1>5. CASE RunClose
    <2>1. tasks' \in Seq(Requests) /\ pc' \in [Actors -> Where]
      BY <1>0, <1>5, Going DEF RunClose, StartClose
    <2> QED
      BY <1>0, <1>5, <2>1 DEF RunClose, StartClose, connVars, dataVars
  <1>6. CASE ClearSending
    <2>1. sending' \in Seq(Nat) /\ pc' \in [Actors -> Where]
      BY <1>0, <1>6, Going DEF ClearSending
    <2> QED
      BY <1>6, <2>1 DEF ClearSending, epollVars, connVars, dataVars
  <1>7. CASE Detach
    BY <1>0, <1>7 DEF Detach, Goto, Where, bufVars, dataVars
  <1>8. CASE CloseLast
    <2>1. pc' \in [Actors -> Where]
      BY <1>0, <1>8, Going DEF CloseLast
    <2>2. kernel' \in Seq(Nat) /\ received' \in Seq(Nat)
      BY <1>0, <1>8 DEF CloseLast
    <2> QED
      BY <1>8, <2>1, <2>2 DEF CloseLast, bufVars
  <1>9. CASE Reconnect
    BY <1>0, <1>9 DEF Reconnect, StartClose, Goto, Where, epollVars, dataVars
  <1>10. CASE Connect
    BY <1>10 DEF Connect, bufVars, dataVars
  <1> QED
    BY <1>1, <1>2, <1>3, <1>4, <1>5, <1>6, <1>7, <1>8, <1>9, <1>10 DEF LoopStep

LEMMA StepTyped == SendTyped /\ SendNext /\ UNCHANGED alone => SendTyped'
  <1> SUFFICES ASSUME SendTyped, SendNext, UNCHANGED alone PROVE SendTyped'
    OBVIOUS
  <1>1. ASSUME NEW a \in Actors, Submit(a) PROVE SendTyped'
    <2>1. count' = count + 1 /\ waiting' = Append(waiting, count') /\ Goto(a, "flush")
      BY <1>1 DEF Submit
    <2>2. count' \in Nat /\ waiting' \in Seq(Nat) /\ pc' \in [Actors -> Where]
      BY <2>1 DEF SendTyped, Goto, Where
    <2> QED
      BY <1>1, <2>2 DEF Submit, SendTyped, epollVars, connVars
  <1>2. CASE Drain
    BY <1>2 DEF Drain, SendTyped, bufVars, connVars
  <1>3. CASE Break
    BY <1>3 DEF Break, SendTyped, bufVars, epollVars, dataVars
  <1> QED
    BY <1>1, <1>2, <1>3, FlushTyped, LoopTyped DEF SendNext

-----------------------------------------------------------------------------
(* What moves units from place to place.                                    *)
LEMMA SubmitMoves ==
  ASSUME NEW w \in Seq(Nat), NEW s \in Seq(Nat), NEW t \in [Actors -> Seq(Nat)], NEW k \in Seq(Nat),
         NEW x \in Nat, Distinct(w, s, t, k), ~Held(x, w, s, t, k)
  PROVE  /\ Distinct(Append(w, x), s, t, k)
         /\ \A e : Held(e, Append(w, x), s, t, k) <=> Held(e, w, s, t, k) \/ e = x
  <1>1. /\ Els(Append(w, x)) = Els(w) \cup {x} /\ Once(w) /\ x \notin Els(w)
        /\ Once(w) /\ x \notin Els(w) => Once(Append(w, x))
    BY AppendUnit DEF Distinct, Held
  <1>2. Distinct(Append(w, x), s, t, k)
    BY <1>1 DEF Distinct, Held
  <1>3. \A e : Held(e, Append(w, x), s, t, k) <=> Held(e, w, s, t, k) \/ e = x
    BY <1>1 DEF Held
  <1> QED
    BY <1>2, <1>3

LEMMA TakeMoves ==
  ASSUME NEW w \in Seq(Nat), NEW s \in Seq(Nat), NEW t \in [Actors -> Seq(Nat)], NEW k \in Seq(Nat),
         NEW a \in Actors, t[a] = <<>>, Distinct(w, s, t, k)
  PROVE  /\ Distinct(w, <<>>, [t EXCEPT ![a] = s], k)
         /\ \A e : Held(e, w, <<>>, [t EXCEPT ![a] = s], k) <=> Held(e, w, s, t, k)
         /\ Distinct(<<>>, s, [t EXCEPT ![a] = w], k)
         /\ \A e : Held(e, <<>>, s, [t EXCEPT ![a] = w], k) <=> Held(e, w, s, t, k)
  <1>1. Els(t[a]) = {}
    BY NoUnits
  <1>2. PICK u : u = [t EXCEPT ![a] = s]
    OBVIOUS
  <1>3. u[a] = s /\ \A b \in Actors \ {a} : u[b] = t[b]
    BY <1>2
  <1>4. Distinct(w, <<>>, u, k) /\ (\A e : Held(e, w, <<>>, u, k) <=> Held(e, w, s, t, k))
    BY <1>1, <1>3, NoUnits DEF Distinct, Held
  <1>5. PICK v : v = [t EXCEPT ![a] = w]
    OBVIOUS
  <1>6. v[a] = w /\ \A b \in Actors \ {a} : v[b] = t[b]
    BY <1>5
  <1>7. Distinct(<<>>, s, v, k) /\ (\A e : Held(e, <<>>, s, v, k) <=> Held(e, w, s, t, k))
    BY <1>1, <1>6, NoUnits DEF Distinct, Held
  <1> QED
    BY <1>2, <1>4, <1>5, <1>7

Wrote(t, k, a, n, u, l) ==
  /\ u = [t EXCEPT ![a] = SubSeq(t[a], n + 1, Len(t[a]))]
  /\ l = k \o SubSeq(t[a], 1, n)

LEMMA WriteMoves ==
  ASSUME NEW w \in Seq(Nat), NEW s \in Seq(Nat), NEW t \in [Actors -> Seq(Nat)], NEW k \in Seq(Nat),
         NEW a \in Actors, NEW n \in 0 .. Len(t[a]), Distinct(w, s, t, k),
         NEW u, NEW l, Wrote(t, k, a, n, u, l)
  PROVE  Distinct(w, s, u, l) /\ (\A e : Held(e, w, s, u, l) <=> Held(e, w, s, t, k))
  <1>1. PICK p, q : p = SubSeq(t[a], 1, n) /\ q = SubSeq(t[a], n + 1, Len(t[a]))
    OBVIOUS
  <1>2. PICK z \in Seq(Nat) : z = t[a]
    OBVIOUS
  <1>3. /\ p \in Seq(Nat) /\ q \in Seq(Nat) /\ Els(t[a]) = Els(p) \cup Els(q)
        /\ Once(t[a]) => Once(p) /\ Once(q) /\ Els(p) \cap Els(q) = {}
    <2>1. /\ p \in Seq(Nat) /\ q \in Seq(Nat)
          /\ Len(p) = n /\ Len(q) = Len(z) - n
          /\ Els(z) = Els(p) \cup Els(q)
          /\ Once(z) => Once(p) /\ Once(q) /\ Els(p) \cap Els(q) = {}
          /\ Rising(z) => Rising(p) /\ Rising(q) /\ Below(Els(p), Els(q))
      <3>1. n \in 0 .. Len(z) /\ Cut(z, n, p, q)
        BY <1>1, <1>2 DEF Cut
      <3> QED
        BY <3>1, CutUnits
    <2> QED
      BY <1>2, <2>1
  <1>4. u[a] = q /\ (\A b \in Actors \ {a} : u[b] = t[b]) /\ l = k \o p
    BY <1>1 DEF Wrote
  <1>5. Once(t[a]) /\ Els(p) \cap Els(k) = {} /\ Once(k)
    BY <1>3 DEF Distinct
  <1>6. Once(p) /\ Once(q) /\ Els(p) \cap Els(q) = {}
    BY <1>3, <1>5
  <1>7. Once(l) /\ Els(l) = Els(k) \cup Els(p)
    <2>1. /\ Els(k \o p) = Els(k) \cup Els(p)
          /\ Once(k) /\ Once(p) /\ Els(k) \cap Els(p) = {} => Once(k \o p)
      BY <1>3, ConcatUnits
    <2> QED
      BY <2>1, <1>4, <1>5, <1>6
  <1>8. Distinct(w, s, u, l)
    BY <1>3, <1>4, <1>6, <1>7 DEF Distinct
  <1>9. \A e : Held(e, w, s, u, l) <=> Held(e, w, s, t, k)
    BY <1>3, <1>4, <1>7 DEF Held
  <1> QED
    BY <1>8, <1>9

LEMMA BackMoves ==
  ASSUME NEW w \in Seq(Nat), NEW s \in Seq(Nat), NEW t \in [Actors -> Seq(Nat)], NEW k \in Seq(Nat),
         NEW a \in Actors, Distinct(w, s, t, k), NEW u, u = [t EXCEPT ![a] = <<>>],
         NEW r, r = t[a] \o s
  PROVE  Distinct(w, r, u, k) /\ (\A e : Held(e, w, r, u, k) <=> Held(e, w, s, t, k))
  <1>1. u[a] = <<>> /\ \A b \in Actors \ {a} : u[b] = t[b]
    OBVIOUS
  <1>2. t[a] \in Seq(Nat) /\ Once(t[a]) /\ Once(s) /\ Els(t[a]) \cap Els(s) = {}
    BY DEF Distinct
  <1>3. Once(r) /\ Els(r) = Els(t[a]) \cup Els(s)
    BY <1>2, ConcatUnits
  <1>4. Distinct(w, r, u, k)
    BY <1>1, <1>3, NoUnits DEF Distinct
  <1>5. \A e : Held(e, w, r, u, k) <=> Held(e, w, s, t, k)
    BY <1>1, <1>3, NoUnits DEF Held
  <1> QED
    BY <1>4, <1>5

(* What drops units.                                                        *)
LEMMA DropMoves ==
  ASSUME NEW w, NEW s, NEW t \in [Actors -> Seq(Nat)], NEW k, Distinct(w, s, t, k)
  PROVE  /\ Distinct(<<>>, s, t, k) /\ (\A e : Held(e, <<>>, s, t, k) => Held(e, w, s, t, k))
         /\ Distinct(w, <<>>, t, k) /\ (\A e : Held(e, w, <<>>, t, k) => Held(e, w, s, t, k))
         /\ Distinct(w, s, t, <<>>) /\ (\A e : Held(e, w, s, t, <<>>) => Held(e, w, s, t, k))
         /\ \A a \in Actors : LET u == [t EXCEPT ![a] = <<>>]
                              IN Distinct(w, s, u, k) /\ (\A e : Held(e, w, s, u, k) => Held(e, w, s, t, k))
  <1>1. Distinct(<<>>, s, t, k) /\ (\A e : Held(e, <<>>, s, t, k) => Held(e, w, s, t, k))
    BY NoUnits DEF Distinct, Held
  <1>2. Distinct(w, <<>>, t, k) /\ (\A e : Held(e, w, <<>>, t, k) => Held(e, w, s, t, k))
    BY NoUnits DEF Distinct, Held
  <1>3. Distinct(w, s, t, <<>>) /\ (\A e : Held(e, w, s, t, <<>>) => Held(e, w, s, t, k))
    BY NoUnits DEF Distinct, Held
  <1>4. ASSUME NEW a \in Actors, NEW u, u = [t EXCEPT ![a] = <<>>]
        PROVE  Distinct(w, s, u, k) /\ (\A e : Held(e, w, s, u, k) => Held(e, w, s, t, k))
    <2>1. u[a] = <<>> /\ \A b \in Actors \ {a} : u[b] = t[b]
      BY <1>4
    <2>2. Distinct(w, s, u, k)
      BY <2>1, NoUnits DEF Distinct
    <2>3. \A e : Held(e, w, s, u, k) => Held(e, w, s, t, k)
      BY <2>1, NoUnits DEF Held
    <2> QED
      BY <2>2, <2>3
  <1> QED
    BY <1>1, <1>2, <1>3, <1>4

-----------------------------------------------------------------------------
(* No unit is in two places.                                                *)
LEMMA StreamStays == UNCHANGED <<kernel, received>> => Stream' = Stream
  BY DEF Stream

LEMMA Associates ==
  ASSUME NEW r \in Seq(Nat), NEW s \in Seq(Nat), NEW t \in Seq(Nat)
  PROVE  (r \o s) \o t = r \o (s \o t)
  OBVIOUS

Joined(k, p, l) == l = k \o p

LEMMA Grows ==
  ASSUME NEW r \in Seq(Nat), NEW k \in Seq(Nat), NEW p \in Seq(Nat), NEW l, Joined(k, p, l)
  PROVE  Joined(r \o k, p, r \o l)
  BY Associates DEF Joined

LEMMA ConcatIs ==
  ASSUME NEW s \in Seq(Nat), NEW t \in Seq(Nat), NEW m \in Nat, NEW n \in Nat,
         m = Len(s), n = Len(t)
  PROVE  /\ s \o t \in Seq(Nat) /\ Len(s \o t) = m + n
         /\ \A i \in 1 .. m : (s \o t)[i] = s[i]
         /\ \A i \in 1 .. n : (s \o t)[m + i] = t[i]
  OBVIOUS

LEMMA HeadMoves ==
  ASSUME NEW r \in Seq(Nat), NEW k \in Seq(Nat), k # <<>>
  PROVE  Append(r, Head(k)) \o Tail(k) = r \o k
  <1>1. PICK h \in Nat, t \in Seq(Nat) : h = Head(k) /\ t = Tail(k)
    BY HeadTailProperties
  <1>2. <<h>> \o t = k /\ <<h>> \in Seq(Nat)
    <2>1. PICK m \in Nat : m = Len(t)
      OBVIOUS
    <2>0. PICK p : p = <<h>>
      OBVIOUS
    <2>8. p \in Seq(Nat) /\ Len(p) = 1 /\ p[1] = h
      BY <2>0
    <2>2. PICK o \in Seq(Nat) : o = p /\ Len(o) = 1 /\ o[1] = h
      BY <2>8
    <2>3. Len(k) = m + 1 /\ k[1] = h /\ \A i \in 1 .. m : t[i] = k[i + 1]
      BY <1>1, <2>1
    <2>4. /\ o \o t \in Seq(Nat) /\ Len(o \o t) = m + 1 /\ (o \o t)[1] = h
          /\ \A i \in 1 .. m : (o \o t)[1 + i] = t[i]
      <3>1. PICK n \in Nat : n = 1 /\ n = Len(o)
        BY <2>2
      <3>2. /\ o \o t \in Seq(Nat) /\ Len(o \o t) = n + m
            /\ \A i \in 1 .. n : (o \o t)[i] = o[i]
            /\ \A i \in 1 .. m : (o \o t)[n + i] = t[i]
        <4>1. n = Len(o) /\ m = Len(t)
          BY <2>1, <3>1
        <4> QED
          BY <4>1, ConcatIs
      <3>3. n + m = m + 1 /\ 1 \in 1 .. n
        BY <3>1
      <3>4. (o \o t)[1] = h /\ Len(o \o t) = m + 1
        BY <2>2, <3>2, <3>3
      <3> QED
        BY <3>1, <3>2, <3>4
    <2>5. \A j \in 1 .. m + 1 : j = 1 \/ (j - 1 \in 1 .. m /\ j = 1 + (j - 1))
      OBVIOUS
    <2>6. ASSUME NEW j \in 1 .. m + 1 PROVE (o \o t)[j] = k[j]
      <3>1. CASE j = 1
        BY <2>3, <2>4, <3>1
      <3>2. CASE j # 1
        <4>1. PICK i \in 1 .. m : i = j - 1 /\ j = 1 + i /\ j = i + 1
          BY <2>5, <3>2
        <4> QED
          BY <2>3, <2>4, <4>1
      <3> QED
        BY <3>1, <3>2
    <2>7. o \o t = k
      BY <2>3, <2>4, <2>6, SeqEqual
    <2> QED
      BY <2>0, <2>8, <2>2, <2>7
  <1>3. Append(r, h) = r \o <<h>>
    OBVIOUS
  <1>4. (r \o <<h>>) \o t = r \o (<<h>> \o t)
    BY <1>2, Associates
  <1> QED
    BY <1>1, <1>2, <1>3, <1>4

Apart == Distinct(waiting, sending, tmp, Stream)
Has(u) == Held(u, waiting, sending, tmp, Stream)
AtWork == \A a \in Actors : tmp[a] # <<>> => pc[a] \in Flushing

LEMMA Still ==
  ASSUME UNCHANGED <<bufVars, kernel, received>>
  PROVE  Apart' = Apart /\ \A u : Has(u)' <=> Has(u)
  BY StreamStays DEF Apart, Has, bufVars

LEMMA FlushMoves ==
  ASSUME SendTyped, Apart, AtWork, NEW a \in Actors, FlushStep(a)
  PROVE  /\ Apart' /\ AtWork'
         /\ \A u : Has(u)' => Has(u)
         /\ ~errEmit' => \A u : Has(u) => Has(u)'
  <1>0. /\ waiting \in Seq(Nat) /\ sending \in Seq(Nat) /\ tmp \in [Actors -> Seq(Nat)]
        /\ Stream \in Seq(Nat) /\ kernel \in Seq(Nat) /\ received \in Seq(Nat)
        /\ pc \in [Actors -> Where]
    BY StreamIs DEF SendTyped
  <1>1. CASE FlushAll(a)
    <2>1. UNCHANGED <<bufVars, kernel, received>> /\ pc[a] = "flush" /\ \A b \in Actors \ {a} : pc'[b] = pc[b]
      BY <1>0, <1>1 DEF FlushAll, Goto, dataVars
    <2>2. AtWork'
      BY <2>1 DEF AtWork, Flushing, bufVars
    <2> QED
      BY <2>1, <2>2, Still
  <1>2. CASE TakeSending(a)
    <2>1. /\ waiting' = waiting /\ sending' = <<>> /\ tmp' = [tmp EXCEPT ![a] = sending]
          /\ UNCHANGED <<kernel, received>> /\ pc[a] = "take"
          /\ pc' = [pc EXCEPT ![a] = IF sending = <<>> THEN "takeWaiting" ELSE "write"]
      BY <1>2 DEF TakeSending, Goto, dataVars
    <2>2. tmp[a] = <<>>
      BY <2>1 DEF AtWork, Flushing
    <2>3. AtWork'
      BY <1>0, <2>1 DEF AtWork, Flushing
    <2>4. Stream' = Stream
      BY <2>1, StreamStays
    <2> QED
      BY <1>0, <2>1, <2>2, <2>3, <2>4, TakeMoves DEF Apart, Has
  <1>3. CASE TakeWaiting(a)
    <2>1. pc[a] = "takeWaiting" /\ UNCHANGED <<sending, kernel, received>>
      BY <1>3 DEF TakeWaiting, dataVars
    <2>2. tmp[a] = <<>>
      BY <2>1 DEF AtWork, Flushing
    <2>3. Stream' = Stream
      BY <2>1, StreamStays
    <2>4. CASE waiting # <<>>
      <3>1. waiting' = <<>> /\ tmp' = [tmp EXCEPT ![a] = waiting] /\ pc' = [pc EXCEPT ![a] = "write"]
        BY <1>3, <2>4 DEF TakeWaiting, Goto
      <3>2. AtWork'
        BY <1>0, <3>1 DEF AtWork, Flushing
      <3> QED
        BY <1>0, <2>1, <2>2, <2>3, <3>1, <3>2, TakeMoves DEF Apart, Has
    <2>5. CASE waiting = <<>>
      <3>1. waiting' = waiting /\ tmp' = tmp /\ pc' = [pc EXCEPT ![a] = "idle"]
        BY <1>3, <2>5 DEF TakeWaiting, Goto
      <3>2. AtWork'
        BY <1>0, <2>2, <3>1 DEF AtWork, Flushing
      <3> QED
        BY <2>1, <3>1, <3>2, Still DEF bufVars
    <2> QED
      BY <2>4, <2>5
  <1>4. CASE Write(a)
    <2>1. PICK n \in 0 .. Len(tmp[a]) :
            /\ kernel' = kernel \o SubSeq(tmp[a], 1, n)
            /\ tmp' = [tmp EXCEPT ![a] = SubSeq(@, n + 1, Len(@))]
            /\ Goto(a, IF n = Len(tmp[a]) THEN "sent"
                       ELSE IF a = Poller /\ onEvent THEN "rollback" ELSE "arm")
      BY <1>4 DEF Write
    <2>2. UNCHANGED <<waiting, sending, received>>
      BY <1>4 DEF Write
    <2>3. PICK t \in Seq(Nat) : t = tmp[a]
      BY <1>0
    <2>4. SubSeq(t, 1, n) \in Seq(Nat)
      BY <2>3, PartsTyped
    <2>5. Stream' = Stream \o SubSeq(tmp[a], 1, n)
      <3>1. PICK p \in Seq(Nat) : p = SubSeq(tmp[a], 1, n)
        BY <2>3, <2>4
      <3>2. Joined(received \o kernel, p, received \o kernel')
        <4>1. Joined(kernel, p, kernel')
          BY <2>1, <3>1 DEF Joined
        <4> QED
          BY <1>0, <4>1, Grows
      <3> QED
        BY <2>2, <3>1, <3>2 DEF Stream, Joined
    <2>6. tmp' = [tmp EXCEPT ![a] = SubSeq(tmp[a], n + 1, Len(tmp[a]))]
      BY <2>1
    <2>7. Distinct(waiting, sending, tmp', Stream')
          /\ (\A e : Held(e, waiting, sending, tmp', Stream') <=> Held(e, waiting, sending, tmp, Stream))
      <3>1. PICK u, l : u = tmp' /\ l = Stream'
        OBVIOUS
      <3>2. Wrote(tmp, Stream, a, n, u, l)
        BY <2>5, <2>6, <3>1 DEF Wrote
      <3>3. Distinct(waiting, sending, tmp, Stream)
        BY DEF Apart
      <3>4. Distinct(waiting, sending, u, l)
            /\ (\A e : Held(e, waiting, sending, u, l) <=> Held(e, waiting, sending, tmp, Stream))
        BY <1>0, <3>2, <3>3, WriteMoves
      <3> QED
        BY <3>1, <3>4
    <2>8. n = Len(t) => SubSeq(t, n + 1, Len(t)) = <<>>
      OBVIOUS
    <2>9. AtWork'
      <3> SUFFICES ASSUME NEW b \in Actors, tmp'[b] # <<>> PROVE pc'[b] \in Flushing
        BY DEF AtWork
      <3>1. CASE b # a
        BY <3>1, <1>0, <2>1 DEF AtWork, Goto
      <3>2. CASE b = a
        BY <3>2, <1>0, <2>1, <2>3, <2>6, <2>8 DEF Flushing, Goto
      <3> QED
        BY <3>1, <3>2
    <2> QED
      BY <2>2, <2>7, <2>9 DEF Apart, Has
  <1>5. CASE WriteFails(a)
    <2>1. /\ tmp' = [tmp EXCEPT ![a] = <<>>] /\ EmitErr(a)
          /\ UNCHANGED <<sending, kernel, received>>
      BY <1>5 DEF WriteFails, dataVars
    <2>2. errEmit' /\ waiting' \in {waiting, <<>>} /\ \A b \in Actors \ {a} : pc'[b] = pc[b]
      BY <2>1, ErrDoes
    <2>3. AtWork'
      BY <1>0, <2>1, <2>2 DEF AtWork
    <2>4. Stream' = Stream
      BY <2>1, StreamStays
    <2>5. Distinct(waiting, sending, tmp', Stream)
          /\ (\A e : Held(e, waiting, sending, tmp', Stream) => Held(e, waiting, sending, tmp, Stream))
      BY <1>0, <2>1, DropMoves DEF Apart
    <2>7. tmp' \in [Actors -> Seq(Nat)]
      BY <1>0, <2>1
    <2>6. Distinct(<<>>, sending, tmp', Stream)
          /\ (\A e : Held(e, <<>>, sending, tmp', Stream) => Held(e, waiting, sending, tmp', Stream))
      BY <1>0, <2>5, <2>7, DropMoves
    <2> QED
      BY <2>1, <2>2, <2>3, <2>4, <2>5, <2>6 DEF Apart, Has
  <1>6. CASE Sent(a)
    <2>1. UNCHANGED <<bufVars, kernel, received>> /\ pc[a] = "sent" /\ \A b \in Actors \ {a} : pc'[b] = pc[b]
      BY <1>0, <1>6 DEF Sent, Goto, dataVars
    <2>2. AtWork'
      BY <2>1 DEF AtWork, Flushing, bufVars
    <2> QED
      BY <2>1, <2>2, Still
  <1>7. CASE Arm(a)
    <2>1. UNCHANGED <<bufVars, kernel, received>> /\ pc' = [pc EXCEPT ![a] = "rollback"]
      BY <1>7 DEF Arm, Goto, dataVars
    <2>2. AtWork'
      BY <1>0, <2>1 DEF AtWork, Flushing, bufVars
    <2> QED
      BY <2>1, <2>2, Still
  <1>8. CASE Rollback(a)
    <2>1. /\ sending' = tmp[a] \o sending /\ tmp' = [tmp EXCEPT ![a] = <<>>]
          /\ UNCHANGED <<waiting, kernel, received>> /\ pc' = [pc EXCEPT ![a] = "idle"]
      BY <1>8 DEF Rollback, Goto, dataVars
    <2>2. AtWork'
      BY <1>0, <2>1 DEF AtWork
    <2>3. Stream' = Stream
      BY <2>1, StreamStays
    <2> QED
      BY <1>0, <2>1, <2>2, <2>3, BackMoves DEF Apart, Has
  <1>9. CASE SendTimeOut(a)
    <2>1. EmitErr(a) /\ UNCHANGED <<sending, tmp, kernel, received>> /\ pc[a] = "flush"
      BY <1>9 DEF SendTimeOut, dataVars
    <2>2. errEmit' /\ waiting' \in {waiting, <<>>} /\ \A b \in Actors \ {a} : pc'[b] = pc[b]
      BY <2>1, ErrDoes
    <2>3. AtWork'
      BY <2>1, <2>2 DEF AtWork, Flushing
    <2>4. Stream' = Stream
      BY <2>1, StreamStays
    <2>5. Distinct(<<>>, sending, tmp, Stream)
          /\ (\A e : Held(e, <<>>, sending, tmp, Stream) => Held(e, waiting, sending, tmp, Stream))
      BY <1>0, DropMoves DEF Apart
    <2> QED
      BY <2>1, <2>2, <2>3, <2>4, <2>5 DEF Apart, Has
  <1> QED
    BY <1>1, <1>2, <1>3, <1>4, <1>5, <1>6, <1>7, <1>8, <1>9 DEF FlushStep


LEMMA LoopMoves ==
  ASSUME SendTyped, Apart, AtWork, LoopStep \/ Reconnect \/ Connect
  PROVE  /\ Apart' /\ AtWork'
         /\ \A u : Has(u)' => Has(u)
         /\ \/ errEmit' \/ Switching' \/ conn' = "none" \/ pc'[Poller] \in {"detach", "detachLast"}
            \/ \A u : Has(u) => Has(u)'
  <1>0. /\ waiting \in Seq(Nat) /\ sending \in Seq(Nat) /\ tmp \in [Actors -> Seq(Nat)]
        /\ Stream \in Seq(Nat) /\ pc \in [Actors -> Where] /\ Poller \in Actors
    BY StreamIs DEF SendTyped, Actors
  <1>1. ASSUME pc[Poller] \notin Flushing, \A b \in Actors \ {Poller} : pc'[b] = pc[b], UNCHANGED tmp
        PROVE  AtWork'
    BY <1>1 DEF AtWork
  <1>2. ASSUME UNCHANGED <<bufVars, kernel, received>>, pc[Poller] \notin Flushing,
               \A b \in Actors \ {Poller} : pc'[b] = pc[b]
        PROVE  Apart' /\ AtWork' /\ (\A u : Has(u)' <=> Has(u))
    BY <1>1, <1>2, Still DEF bufVars
  <1>3. CASE OnWriteAble \/ LookAtSending \/ Detach
    <2>1. UNCHANGED <<bufVars, kernel, received>> /\ pc[Poller] \notin Flushing
      BY <1>3 DEF OnWriteAble, LookAtSending, Detach, Flushing, dataVars
    <2>2. \A b \in Actors \ {Poller} : pc'[b] = pc[b]
      BY <1>0, <1>3 DEF OnWriteAble, LookAtSending, Detach, Goto
    <2> QED
      BY <1>2, <2>1, <2>2
  <1>4. CASE RunWatch \/ Connect
    <2>1. UNCHANGED <<bufVars, kernel, received, pc>> /\ pc[Poller] \notin Flushing
      BY <1>4 DEF RunWatch, Connect, Flushing, dataVars
    <2> QED
      BY <1>2, <2>1
  <1>5. CASE OnError
    <2>1. EmitErr(Poller) /\ UNCHANGED <<sending, tmp, kernel, received>> /\ pc[Poller] \notin Flushing
      BY <1>5 DEF OnError, dataVars, Flushing
    <2>2. errEmit' /\ waiting' \in {waiting, <<>>} /\ \A b \in Actors \ {Poller} : pc'[b] = pc[b]
      BY <1>0, <2>1, ErrDoes
    <2>3. AtWork'
      BY <1>1, <2>1, <2>2
    <2>4. Stream' = Stream
      BY <2>1, StreamStays
    <2>5. Distinct(<<>>, sending, tmp, Stream)
          /\ (\A e : Held(e, <<>>, sending, tmp, Stream) => Held(e, waiting, sending, tmp, Stream))
      BY <1>0, DropMoves DEF Apart
    <2> QED
      BY <2>1, <2>2, <2>3, <2>4, <2>5 DEF Apart, Has
  <1>6. CASE RunClose \/ Reconnect
    <2>1. /\ waiting' = <<>> /\ UNCHANGED <<sending, tmp, kernel, received>> /\ pc[Poller] \notin Flushing
          /\ pc'[Poller] \in {"detach", "close"} /\ \A b \in Actors \ {Poller} : pc'[b] = pc[b]
      BY <1>0, <1>6 DEF RunClose, Reconnect, StartClose, Goto, dataVars, Flushing
    <2>2. AtWork'
      BY <1>1, <2>1
    <2>3. Stream' = Stream
      BY <2>1, StreamStays
    <2>4. Distinct(<<>>, sending, tmp, Stream)
          /\ (\A e : Held(e, <<>>, sending, tmp, Stream) => Held(e, waiting, sending, tmp, Stream))
      BY <1>0, DropMoves DEF Apart
    <2> QED
      BY <2>1, <2>2, <2>3, <2>4 DEF Apart, Has, Switching
  <1>7. CASE ClearSending
    <2>1. /\ sending' = <<>> /\ UNCHANGED <<waiting, tmp, kernel, received>> /\ pc[Poller] \notin Flushing
          /\ pc'[Poller] \in {"detachLast", "closeLast"} /\ \A b \in Actors \ {Poller} : pc'[b] = pc[b]
      BY <1>0, <1>7 DEF ClearSending, Goto, dataVars, Flushing
    <2>2. AtWork'
      BY <1>1, <2>1
    <2>3. Stream' = Stream
      BY <2>1, StreamStays
    <2>4. Distinct(waiting, <<>>, tmp, Stream)
          /\ (\A e : Held(e, waiting, <<>>, tmp, Stream) => Held(e, waiting, sending, tmp, Stream))
      BY <1>0, DropMoves DEF Apart
    <2> QED
      BY <2>1, <2>2, <2>3, <2>4 DEF Apart, Has, Switching
  <1>8. CASE CloseLast
    <2>1. /\ kernel' = <<>> /\ received' = <<>> /\ UNCHANGED <<waiting, sending, tmp>>
          /\ pc[Poller] \notin Flushing /\ conn' = "none"
          /\ \A b \in Actors \ {Poller} : pc'[b] = pc[b]
      BY <1>0, <1>8 DEF CloseLast, Goto, bufVars, Flushing
    <2>2. AtWork'
      BY <1>1, <2>1
    <2>3. Stream' = <<>>
      BY <2>1 DEF Stream
    <2>4. Distinct(waiting, sending, tmp, <<>>)
          /\ (\A e : Held(e, waiting, sending, tmp, <<>>) => Held(e, waiting, sending, tmp, Stream))
      BY <1>0, DropMoves DEF Apart
    <2> QED
      BY <2>1, <2>2, <2>3, <2>4 DEF Apart, Has
  <1> QED
    BY <1>3, <1>4, <1>5, <1>6, <1>7, <1>8 DEF LoopStep

LEMMA PlacesStep ==
  ASSUME SendTyped, PlacesInv, SendNext, UNCHANGED alone
  PROVE  PlacesInv'
  <1>0. /\ waiting \in Seq(Nat) /\ sending \in Seq(Nat) /\ tmp \in [Actors -> Seq(Nat)]
        /\ Stream \in Seq(Nat) /\ kernel \in Seq(Nat) /\ received \in Seq(Nat)
        /\ pc \in [Actors -> Where] /\ count \in Nat
    BY StreamIs DEF SendTyped
  <1>1. Apart /\ AtWork /\ \A u : Has(u) => u \in 1 .. count
    BY DEF PlacesInv, Apart, AtWork, Has
  <1>2. ASSUME NEW a \in Actors, Submit(a)
        PROVE  Apart' /\ AtWork' /\ (\A u : Has(u)' => u \in 1 .. count')
    <2>1. /\ count' = count + 1 /\ waiting' = Append(waiting, count + 1)
          /\ UNCHANGED <<sending, tmp, kernel, received>>
          /\ pc[a] \in {"idle", "flush"} /\ \A b \in Actors \ {a} : pc'[b] = pc[b]
      BY <1>0, <1>2 DEF Submit, Goto
    <2>2. AtWork'
      BY <1>1, <2>1 DEF AtWork, Flushing
    <2>3. Stream' = Stream
      BY <2>1, StreamStays
    <2>4. count + 1 \in Nat /\ ~Held(count + 1, waiting, sending, tmp, Stream)
      BY <1>0, <1>1 DEF Has
    <2>5. Distinct(Append(waiting, count + 1), sending, tmp, Stream)
          /\ \A e : Held(e, Append(waiting, count + 1), sending, tmp, Stream)
                    <=> Held(e, waiting, sending, tmp, Stream) \/ e = count + 1
      BY <1>0, <1>1, <2>4, SubmitMoves DEF Apart
    <2>6. Apart' /\ \A u : Has(u)' => Has(u) \/ u = count + 1
      BY <2>1, <2>3, <2>5 DEF Apart, Has
    <2>7. \A u : u \in 1 .. count \/ u = count + 1 => u \in 1 .. count'
      BY <1>0, <2>1
    <2> QED
      BY <1>1, <2>2, <2>6, <2>7
  <1>3. ASSUME NEW a \in Actors, FlushStep(a)
        PROVE  Apart' /\ AtWork' /\ (\A u : Has(u)' => u \in 1 .. count')
    <2>1. count' = count
      BY <1>3 DEF FlushStep, FlushAll, TakeSending, TakeWaiting, Write, WriteFails, Sent, Arm, Rollback,
                  SendTimeOut, dataVars
    <2> QED
      BY <1>1, <1>3, <2>1, FlushMoves
  <1>4. ASSUME LoopStep \/ Reconnect \/ Connect
        PROVE  Apart' /\ AtWork' /\ (\A u : Has(u)' => u \in 1 .. count')
    <2>1. count' = count
      BY <1>4 DEF LoopStep, OnWriteAble, LookAtSending, RunWatch, OnError, RunClose, ClearSending, Detach,
                  CloseLast, Reconnect, Connect, dataVars
    <2> QED
      BY <1>1, <1>4, <2>1, LoopMoves
  <1>5. ASSUME Drain \/ Break
        PROVE  Apart' /\ AtWork' /\ (\A u : Has(u)' => u \in 1 .. count')
    <2>1. UNCHANGED <<waiting, sending, tmp, pc, count>>
      BY <1>5 DEF Drain, Break, bufVars, dataVars
    <2>2. Stream' = Stream
      <3>1. CASE Drain
        BY <1>0, <3>1, HeadMoves DEF Drain, Stream
      <3>2. CASE Break
        BY <3>2, StreamStays DEF Break, dataVars
      <3> QED
        BY <1>5, <3>1, <3>2
    <2> QED
      BY <1>1, <2>1, <2>2 DEF Apart, AtWork, Has
  <1>6. Apart' /\ AtWork' /\ (\A u : Has(u)' => u \in 1 .. count')
    BY <1>2, <1>3, <1>4, <1>5 DEF SendNext
  <1> QED
    BY <1>6 DEF PlacesInv, Apart, AtWork, Has


LEMMA FlushAt ==
  ASSUME NEW a \in Actors, FlushStep(a)
  PROVE  pc[a] \in {"flush", "take", "takeWaiting", "write", "sent", "arm", "rollback"}
  <1>1. CASE FlushAll(a) \/ TakeSending(a) \/ TakeWaiting(a) \/ SendTimeOut(a)
    BY <1>1 DEF FlushAll, TakeSending, TakeWaiting, SendTimeOut
  <1>2. CASE Write(a) \/ WriteFails(a) \/ Sent(a) \/ Arm(a) \/ Rollback(a)
    BY <1>2 DEF Write, WriteFails, Sent, Arm, Rollback
  <1> QED
    BY <1>1, <1>2 DEF FlushStep

LEMMA FlushKeeps ==
  ASSUME NEW a \in Actors, FlushStep(a)
  PROVE  UNCHANGED <<count, conns, conn, base, broken, received>> /\ (errEmit' = errEmit \/ errEmit' = TRUE)
  <1>1. CASE FlushAll(a) \/ TakeSending(a) \/ TakeWaiting(a) \/ Sent(a) \/ Arm(a) \/ Rollback(a)
    BY <1>1 DEF FlushAll, TakeSending, TakeWaiting, Sent, Arm, Rollback, dataVars, connVars
  <1>2. CASE Write(a)
    BY <1>2 DEF Write, connVars
  <1>3. CASE WriteFails(a) \/ SendTimeOut(a)
    BY <1>3 DEF WriteFails, SendTimeOut, EmitErr, dataVars
  <1> QED
    BY <1>1, <1>2, <1>3 DEF FlushStep

LEMMA FirstStep ==
  ASSUME SendTyped, SendTyped', PlacesInv, FirstInv, SendNext, UNCHANGED alone
  PROVE  FirstInv'
  <1> DEFINE Closing == \E i \in 1 .. Len(tasks) : tasks[i].op = "close"
             Leaving == pc[Poller] \in {"detach", "detachLast"}
  <1>0. /\ pc \in [Actors -> Where] /\ Poller \in Actors /\ tasks \in Seq(Requests)
        /\ conns \in Nat \ {0} /\ count \in Nat
    BY DEF SendTyped, Actors
  <1>1. /\ First /\ Closing => FALSE
        /\ First /\ Leaving => FALSE
        /\ First /\ ~Switching => \A u \in 1 .. count : Has(u)
    BY DEF FirstInv, Has
  <1>2. Apart /\ AtWork /\ (\A u : Has(u) => u \in 1 .. count)
    BY DEF PlacesInv, Apart, AtWork, Has
  <1>3. (First' => /\ ~Closing' /\ ~Leaving'
                   /\ ~Switching' => \A u \in 1 .. count' : Has(u)') => FirstInv'
    BY DEF FirstInv, Has
  <1> SUFFICES ASSUME First'
               PROVE  /\ ~Closing' /\ ~Leaving'
                      /\ ~Switching' => \A u \in 1 .. count' : Has(u)'
    BY <1>3
  <1>4. conns' = 1 /\ conn' # "none" /\ ~errEmit'
    BY DEF First
  <1>5. ASSUME NEW a \in Actors, Submit(a)
        PROVE  ~Closing' /\ ~Leaving' /\ (~Switching' => \A u \in 1 .. count' : Has(u)')
    <2>1. /\ count' = count + 1 /\ waiting' = Append(waiting, count + 1)
          /\ UNCHANGED <<sending, tmp, kernel, received, tasks, conns, conn, errEmit>>
          /\ pc[a] \in {"idle", "flush"} /\ pc'[a] = "flush" /\ \A b \in Actors \ {a} : pc'[b] = pc[b]
      BY <1>0, <1>5 DEF Submit, Goto, connVars, epollVars
    <2>2. First /\ ~Closing' /\ ~Leaving' /\ (~Switching' => ~Switching)
      BY <1>0, <1>1, <1>4, <2>1 DEF First, Switching
    <2>3. Stream' = Stream
      BY <2>1, StreamStays
    <2>4. Els(waiting') = Els(waiting) \cup {count + 1}
      BY <1>0, <2>1, AppendUnit DEF SendTyped
    <2>5. \A u : Has(u) \/ u = count + 1 => Has(u)'
      BY <2>1, <2>3, <2>4 DEF Has, Held
    <2>6. \A u \in 1 .. count' : u \in 1 .. count \/ u = count + 1
      BY <1>0, <2>1
    <2> QED
      BY <1>1, <2>2, <2>5, <2>6
  <1>6. ASSUME NEW a \in Actors, FlushStep(a)
        PROVE  ~Closing' /\ ~Leaving' /\ (~Switching' => \A u \in 1 .. count' : Has(u)')
    <2>1. UNCHANGED <<count, conns, conn>> /\ (errEmit => errEmit')
      BY <1>6, FlushKeeps
    <2>2. First
      BY <1>4, <2>1 DEF First
    <2>3. pc'[a] \notin {"detach", "detachLast", "close", "closeLast"} /\ \A b \in Actors \ {a} : pc'[b] = pc[b]
      BY <1>0, <1>4, <1>6
      DEF FlushStep, FlushAll, TakeSending, TakeWaiting, Write, WriteFails, Sent, Arm, Rollback,
          SendTimeOut, EmitErr, Goto
    <2>4. pc[a] \notin {"close", "closeLast"}
      BY <1>6, FlushAt
    <2>5. tasks' = tasks \/ tasks' = Append(tasks, Task("watch"))
      BY <1>4, <1>6 DEF FlushStep, FlushAll, TakeSending, TakeWaiting, Write, WriteFails, Sent, Arm,
                        Rollback, SendTimeOut, EmitErr, epollVars
    <2>6. ~Closing'
      <3>1. CASE tasks' = tasks
        BY <1>1, <2>2, <3>1
      <3>2. CASE tasks' = Append(tasks, Task("watch"))
        <4>1. /\ Len(tasks') = Len(tasks) + 1 /\ tasks'[Len(tasks) + 1].op = "watch"
              /\ \A i \in 1 .. Len(tasks) : tasks'[i] = tasks[i]
          BY <3>2, Asking
        <4>2. PICK m \in Nat : m = Len(tasks)
          BY <1>0
        <4>3. \A i \in 1 .. m + 1 : i \in 1 .. m \/ i = m + 1
          OBVIOUS
        <4> QED
          BY <1>1, <2>2, <4>1, <4>2, <4>3
      <3> QED
        BY <2>5, <3>1, <3>2
    <2>7. ~Leaving' /\ (Switching' <=> Switching)
      BY <1>0, <1>1, <2>2, <2>3, <2>4 DEF Switching
    <2>8. \A u : Has(u) => Has(u)'
      BY <1>2, <1>4, <1>6, FlushMoves
    <2> QED
      BY <1>1, <2>1, <2>2, <2>6, <2>7, <2>8
  <1>7. ASSUME LoopStep \/ Reconnect \/ Connect
        PROVE  ~Closing' /\ ~Leaving' /\ (~Switching' => \A u \in 1 .. count' : Has(u)')
    <2>1. ~Connect /\ ~CloseLast /\ ~OnError
      BY <1>0, <1>4 DEF Connect, CloseLast, OnError, EmitErr
    <2>2. UNCHANGED <<count, conns, errEmit>> /\ (conn = "none" => conn' = "none")
      BY <1>7, <2>1 DEF LoopStep, OnWriteAble, LookAtSending, RunWatch, RunClose, ClearSending, Detach,
                        Reconnect, dataVars, connVars
    <2>3. First
      BY <1>4, <2>2 DEF First
    <2>4. ~RunClose
      <3> SUFFICES ASSUME RunClose PROVE FALSE
        OBVIOUS
      <3>1. tasks # <<>> /\ Head(tasks).op = "close"
        BY DEF RunClose
      <3>2. 1 \in 1 .. Len(tasks) /\ tasks[1].op = "close"
        BY <1>0, <3>1
      <3> QED
        BY <1>1, <2>3, <3>2
    <2>5. ~Leaving'
      BY <1>0, <1>1, <1>7, <2>1, <2>3, <2>4
      DEF LoopStep, OnWriteAble, LookAtSending, RunWatch, ClearSending, Detach, Reconnect, StartClose, Goto
    <2>6. Switching => Switching'
      BY <1>0, <1>7, <2>1, <2>4
      DEF LoopStep, OnWriteAble, LookAtSending, RunWatch, ClearSending, Detach, Reconnect, Goto, Switching
    <2>7. ~Closing'
      <3>1. tasks' = tasks \/ (tasks # <<>> /\ tasks' = Tail(tasks))
        BY <1>7, <2>1, <2>4 DEF LoopStep, OnWriteAble, LookAtSending, RunWatch, ClearSending, Detach,
                                Reconnect, epollVars
      <3>2. CASE tasks' = tasks
        BY <1>1, <2>3, <3>2
      <3>3. CASE tasks # <<>> /\ tasks' = Tail(tasks)
        <4>1. Len(tasks') = Len(tasks) - 1 /\ \A i \in 1 .. Len(tasks') : tasks'[i] = tasks[i + 1]
          BY <1>0, <3>3, HeadTailProperties
        <4>2. PICK m \in Nat : m = Len(tasks)
          BY <1>0
        <4>3. \A i \in 1 .. m - 1 : i + 1 \in 1 .. m
          OBVIOUS
        <4> QED
          BY <1>1, <2>3, <4>1, <4>2, <4>3
      <3> QED
        BY <3>1, <3>2, <3>3
    <2>8. ~Switching' => \A u : Has(u) => Has(u)'
      BY <1>2, <1>4, <1>7, <2>5, LoopMoves
    <2> QED
      BY <1>1, <2>2, <2>3, <2>5, <2>6, <2>7, <2>8
  <1>8. ASSUME Drain \/ Break
        PROVE  ~Closing' /\ ~Leaving' /\ (~Switching' => \A u \in 1 .. count' : Has(u)')
    <2>1. UNCHANGED <<waiting, sending, tmp, pc, count, tasks, conns, conn, errEmit>>
      BY <1>8 DEF Drain, Break, bufVars, dataVars, connVars, epollVars
    <2>2. Stream' = Stream
      BY <1>8, HeadMoves DEF Drain, Break, Stream, dataVars, SendTyped
    <2>3. First /\ (Switching' <=> Switching) /\ \A u : Has(u)' <=> Has(u)
      BY <1>4, <2>1, <2>2 DEF First, Switching, Has
    <2> QED
      BY <1>1, <2>1, <2>3
  <1> QED
    BY <1>5, <1>6, <1>7, <1>8 DEF SendNext


-----------------------------------------------------------------------------
(* The poller alone: who takes a step.                                      *)
LEMMA AloneActor ==
  ASSUME SendTyped, AloneInv, alone, SendNext
  PROVE  \/ Submit(Poller) \/ FlushStep(Poller) \/ LoopStep \/ Reconnect \/ Connect \/ Drain \/ Break
  <1>1. ASSUME NEW a \in Actors, Submit(a) PROVE a = Poller
    BY <1>1 DEF Submit
  <1>2. ASSUME NEW a \in Actors, FlushStep(a) PROVE a = Poller
    BY <1>2, FlushAt DEF AloneInv, Actors
  <1> QED
    BY <1>1, <1>2 DEF SendNext

LEMMA SendersIdle ==
  ASSUME SendTyped, AloneInv, alone, SendNext, UNCHANGED alone
  PROVE  tasks' = <<>> /\ \A a \in Senders : pc'[a] = "idle"
  <1>0. /\ pc \in [Actors -> Where] /\ Poller \in Actors /\ Senders \subseteq Actors \ {Poller}
        /\ tasks = <<>> /\ \A a \in Senders : pc[a] = "idle"
    BY ActorAssumption DEF SendTyped, AloneInv, Actors
  <1>1. ASSUME \A b \in Actors \ {Poller} : pc'[b] = pc[b], UNCHANGED tasks
        PROVE  tasks' = <<>> /\ \A a \in Senders : pc'[a] = "idle"
    BY <1>0, <1>1
  <1>2. CASE Submit(Poller)
    BY <1>0, <1>1, <1>2 DEF Submit, Goto, epollVars
  <1>3. CASE FlushAll(Poller) \/ TakeSending(Poller) \/ TakeWaiting(Poller) \/ Sent(Poller) \/ Arm(Poller)
             \/ Rollback(Poller)
    BY <1>0, <1>1, <1>3 DEF FlushAll, TakeSending, TakeWaiting, Sent, Arm, Rollback, Goto, epollVars
  <1>4. CASE Write(Poller)
    BY <1>0, <1>1, <1>4 DEF Write, Goto, epollVars
  <1>5. CASE WriteFails(Poller) \/ SendTimeOut(Poller) \/ OnError
    <2>1. EmitErr(Poller)
      BY <1>5 DEF WriteFails, SendTimeOut, OnError
    <2> QED
      BY <1>0, <1>1, <2>1, ErrDoes
  <1>6. CASE LoopStep \/ Reconnect \/ Connect
    <2>1. CASE OnError
      BY <1>5, <2>1
    <2>2. CASE RunWatch \/ RunClose
      BY <1>0, <2>2 DEF RunWatch, RunClose
    <2>3. CASE OnWriteAble \/ LookAtSending \/ ClearSending \/ Detach \/ CloseLast \/ Reconnect \/ Connect
      BY <1>0, <1>1, <2>3 DEF OnWriteAble, LookAtSending, ClearSending, Detach, CloseLast, Reconnect, Connect,
                              StartClose, Goto, epollVars
    <2> QED
      BY <1>6, <2>1, <2>2, <2>3 DEF LoopStep
  <1>7. CASE Drain \/ Break
    BY <1>0, <1>1, <1>7 DEF Drain, Break, epollVars
  <1> QED
    BY <1>2, <1>3, <1>4, <1>5, <1>6, <1>7, AloneActor DEF FlushStep

Middle == {"takeWaiting", "write", "sent", "arm", "rollback"}
Ends == {"looking", "detach", "detachLast", "close", "closeLast"}

LEMMA AloneStep ==
  ASSUME SendTyped, PlacesInv, AloneInv, SendNext, UNCHANGED alone
  PROVE  AloneInv'
  <1> SUFFICES ASSUME alone PROVE AloneInv'
    BY DEF AloneInv
  <1> DEFINE P == pc[Poller]
             A == /\ P \in Middle => sending = <<>>
                  /\ P \in Ends => waiting = <<>>
                  /\ P \in {"detachLast", "closeLast"} => sending = <<>>
                  /\ P \in {"detach", "detachLast"} => errEmit
                  /\ conn = "detached" => errEmit
  <1>0. /\ pc \in [Actors -> Where] /\ Poller \in Actors
        /\ tasks = <<>> /\ A
    BY DEF SendTyped, AloneInv, Actors, Middle, Ends
  <1>1. A' => AloneInv'
    BY SendersIdle DEF AloneInv, Middle, Ends
  <1>2. CASE Submit(Poller)
    BY <1>0, <1>1, <1>2 DEF Submit, Goto, connVars, Middle, Ends
  <1>3. CASE FlushAll(Poller) \/ TakeSending(Poller) \/ TakeWaiting(Poller)
    BY <1>0, <1>1, <1>3 DEF FlushAll, TakeSending, TakeWaiting, Goto, connVars, bufVars, Middle, Ends
  <1>4. CASE Write(Poller)
    BY <1>0, <1>1, <1>4 DEF Write, Goto, connVars, Middle, Ends
  <1>5. CASE Sent(Poller) \/ Arm(Poller) \/ Rollback(Poller)
    BY <1>0, <1>1, <1>5 DEF Sent, Arm, Rollback, Goto, connVars, bufVars, Middle, Ends
  <1>6. CASE WriteFails(Poller) \/ SendTimeOut(Poller) \/ OnError
    <2>1. EmitErr(Poller) /\ UNCHANGED <<sending, conn>>
      BY <1>6 DEF WriteFails, SendTimeOut, OnError
    <2>2. errEmit' /\ P' \in {"idle", "detach"} /\ (P' = "detach" => waiting' = <<>>)
      BY <1>0, <2>1, ErrDoes
    <2> QED
      BY <1>0, <1>1, <2>1, <2>2 DEF Middle, Ends
  <1>7. CASE OnWriteAble \/ LookAtSending
    BY <1>0, <1>1, <1>7 DEF OnWriteAble, LookAtSending, Goto, connVars, bufVars, Middle, Ends
  <1>8. CASE RunWatch \/ RunClose
    BY <1>0, <1>8 DEF RunWatch, RunClose
  <1>9. CASE ClearSending \/ Reconnect
    BY <1>0, <1>1, <1>9 DEF ClearSending, Reconnect, StartClose, Goto, connVars, bufVars, Middle, Ends
  <1>10. CASE Detach \/ CloseLast \/ Connect
    BY <1>0, <1>1, <1>10 DEF Detach, CloseLast, Connect, Goto, bufVars, Middle, Ends
  <1>11. CASE Drain \/ Break
    BY <1>0, <1>1, <1>11 DEF Drain, Break, bufVars, connVars
  <1> QED
    BY <1>2, <1>3, <1>4, <1>5, <1>6, <1>7, <1>8, <1>9, <1>10, <1>11, AloneActor DEF FlushStep, LoopStep


-----------------------------------------------------------------------------
(* The order of the units while they move.                                  *)
LEMMA OrdAppend ==
  ASSUME NEW w \in Seq(Nat), NEW s \in Seq(Nat), NEW t \in Seq(Nat), NEW k \in Seq(Nat), NEW x \in Nat,
         Ordered(w, s, t, k), Below(All(w, s, t, k), {x})
  PROVE  Ordered(Append(w, x), s, t, k) /\ All(Append(w, x), s, t, k) = All(w, s, t, k) \cup {x}
  <1>1. Els(Append(w, x)) = Els(w) \cup {x}
    BY AppendUnit
  <1>2. Below(Els(w), {x})
    BY DEF Below, All
  <1>3. Rising(Append(w, x))
    BY <1>2, AppendUnit DEF Ordered
  <1>4. Ordered(Append(w, x), s, t, k)
    BY <1>1, <1>3 DEF Ordered, Below, All
  <1> QED
    BY <1>1, <1>4 DEF All

LEMMA OrdTake ==
  ASSUME NEW w, NEW s, NEW k, Ordered(w, s, <<>>, k)
  PROVE  /\ Ordered(w, <<>>, s, k) /\ All(w, <<>>, s, k) = All(w, s, <<>>, k)
         /\ s = <<>> => Ordered(<<>>, <<>>, w, k) /\ All(<<>>, <<>>, w, k) = All(w, <<>>, <<>>, k)
  BY NoUnits DEF Ordered, Below, All

Same(A, B) == A = B
Parts(t, p, q) == \E n \in 0 .. Len(t) : Cut(t, n, p, q)

LEMMA OrdWrite ==
  ASSUME NEW w, NEW s, NEW t \in Seq(Nat), NEW k \in Seq(Nat), NEW p, NEW q, NEW l,
         Parts(t, p, q), Ordered(w, s, t, k), Joined(k, p, l)
  PROVE  Ordered(w, s, q, l) /\ Same(All(w, s, q, l), All(w, s, t, k))
  <1>1. /\ p \in Seq(Nat) /\ q \in Seq(Nat) /\ Els(t) = Els(p) \cup Els(q)
        /\ Rising(t) => Rising(p) /\ Rising(q) /\ Below(Els(p), Els(q))
    BY CutUnits DEF Parts
  <1>2. Rising(p) /\ Rising(q) /\ Below(Els(p), Els(q))
    BY <1>1 DEF Ordered
  <1>3. Below(Els(k), Els(p)) /\ Rising(k)
    BY <1>1 DEF Ordered, Below
  <1>4. Els(l) = Els(k) \cup Els(p) /\ Rising(l)
    BY <1>1, <1>2, <1>3, ConcatUnits DEF Joined
  <1>5. Ordered(w, s, q, l)
    BY <1>1, <1>2, <1>4 DEF Ordered, Below
  <1> QED
    BY <1>1, <1>4, <1>5 DEF All, Same

LEMMA OrdBack ==
  ASSUME NEW w, NEW s \in Seq(Nat), NEW t \in Seq(Nat), NEW k, Ordered(w, s, t, k)
  PROVE  Ordered(w, t \o s, <<>>, k) /\ All(w, t \o s, <<>>, k) = All(w, s, t, k)
  <1>1. Rising(t) /\ Rising(s) /\ Below(Els(t), Els(s))
    BY DEF Ordered, Below
  <1>2. Els(t \o s) = Els(t) \cup Els(s) /\ Rising(t \o s)
    BY <1>1, ConcatUnits
  <1>3. Ordered(w, t \o s, <<>>, k)
    BY <1>2, NoUnits DEF Ordered, Below
  <1> QED
    BY <1>2, <1>3, NoUnits DEF All

LEMMA OrdDrop ==
  ASSUME NEW w, NEW s, NEW t, NEW k, Ordered(w, s, t, k)
  PROVE  /\ Ordered(<<>>, s, t, k) /\ All(<<>>, s, t, k) \subseteq All(w, s, t, k)
         /\ Ordered(w, <<>>, t, k) /\ All(w, <<>>, t, k) \subseteq All(w, s, t, k)
         /\ Ordered(w, s, <<>>, k) /\ All(w, s, <<>>, k) \subseteq All(w, s, t, k)
         /\ Ordered(<<>>, s, <<>>, k) /\ All(<<>>, s, <<>>, k) \subseteq All(w, s, t, k)
  BY NoUnits DEF Ordered, Below, All

InOrder == Ordered(waiting, sending, tmp[Poller], Stream)
OnTheWay == All(waiting, sending, tmp[Poller], Stream)

LEMMA OrderKept ==
  ASSUME SendTyped, OrderInv, alone, ~Switching, ~Switching', UNCHANGED <<base, count>>,
         InOrder', errEmit => errEmit', OnTheWay' \subseteq OnTheWay,
         ~errEmit' => OnTheWay' = OnTheWay
  PROVE  OrderInv'
  <1>1. /\ ~errEmit => \A u \in OnTheWay : u .. count \subseteq OnTheWay
        /\ \A u \in OnTheWay : base <= u
        /\ base <= count + 1
    BY DEF OrderInv, Whole, OnTheWay
  <1>2. /\ ~errEmit' => \A u \in OnTheWay' : u .. count' \subseteq OnTheWay'
        /\ \A u \in OnTheWay' : base' <= u
        /\ base' <= count' + 1
    BY <1>1
  <1> QED
    BY <1>2 DEF OrderInv, Whole, OnTheWay, InOrder

LEMMA FlushOrder ==
  ASSUME SendTyped, PlacesInv, AloneInv, OrderInv, alone, FlushStep(Poller), UNCHANGED alone
  PROVE  OrderInv'
  <1>0. /\ waiting \in Seq(Nat) /\ sending \in Seq(Nat) /\ tmp \in [Actors -> Seq(Nat)]
        /\ Stream \in Seq(Nat) /\ kernel \in Seq(Nat) /\ received \in Seq(Nat)
        /\ pc \in [Actors -> Where] /\ Poller \in Actors
    BY StreamIs DEF SendTyped, Actors
  <1>1. UNCHANGED <<base, count>> /\ (errEmit => errEmit')
    BY <1>0, FlushKeeps
  <1>2. ~Switching
    BY <1>0, FlushAt DEF Switching
  <1>3. ~Switching'
    <2>1. pc'[Poller] \notin {"close", "closeLast"}
      BY <1>0 DEF FlushStep, FlushAll, TakeSending, TakeWaiting, Write, WriteFails, Sent, Arm, Rollback,
                  SendTimeOut, EmitErr, StartClose, Goto
    <2> QED
      BY <2>1 DEF Switching
  <1>4. InOrder
    BY DEF OrderInv, InOrder
  <1>5. pc[Poller] \notin Flushing => tmp[Poller] = <<>>
    BY <1>0 DEF PlacesInv
  <1>6. ASSUME InOrder', OnTheWay' = OnTheWay PROVE OrderInv'
    BY <1>1, <1>2, <1>3, <1>6, OrderKept
  <1>7. ASSUME InOrder', OnTheWay' \subseteq OnTheWay, errEmit' PROVE OrderInv'
    BY <1>1, <1>2, <1>3, <1>7, OrderKept
  <1>8. ASSUME UNCHANGED <<bufVars, kernel, received>> PROVE OrderInv'
    <2>1. InOrder' /\ OnTheWay' = OnTheWay
      BY <1>4, <1>8, StreamStays DEF InOrder, OnTheWay, bufVars
    <2> QED
      BY <1>6, <2>1
  <1>9. CASE FlushAll(Poller) \/ Sent(Poller) \/ Arm(Poller)
    BY <1>8, <1>9 DEF FlushAll, Sent, Arm, dataVars
  <1>10. CASE TakeSending(Poller)
    <2>1. /\ pc[Poller] = "take" /\ waiting' = waiting /\ sending' = <<>> /\ tmp'[Poller] = sending
          /\ UNCHANGED <<kernel, received>>
      BY <1>0, <1>10 DEF TakeSending, dataVars
    <2>2. tmp[Poller] = <<>> /\ Stream' = Stream
      BY <1>5, <2>1, StreamStays DEF Flushing
    <2>3. InOrder' /\ OnTheWay' = OnTheWay
      BY <1>4, <2>1, <2>2, OrdTake DEF InOrder, OnTheWay
    <2> QED
      BY <1>6, <2>3
  <1>11. CASE TakeWaiting(Poller)
    <2>1. pc[Poller] = "takeWaiting" /\ UNCHANGED <<sending, kernel, received>>
      BY <1>11 DEF TakeWaiting, dataVars
    <2>2. tmp[Poller] = <<>> /\ sending = <<>> /\ Stream' = Stream
      BY <1>5, <2>1, StreamStays DEF Flushing, AloneInv
    <2>3. CASE waiting # <<>>
      <3>1. waiting' = <<>> /\ tmp'[Poller] = waiting
        BY <1>0, <1>11, <2>3 DEF TakeWaiting
      <3>2. InOrder' /\ OnTheWay' = OnTheWay
        BY <1>4, <2>1, <2>2, <3>1, OrdTake DEF InOrder, OnTheWay
      <3> QED
        BY <1>6, <3>2
    <2>4. CASE waiting = <<>>
      BY <1>8, <1>11, <2>1, <2>4 DEF TakeWaiting, bufVars
    <2> QED
      BY <2>3, <2>4
  <1>12. CASE Write(Poller)
    <2>1. PICK n \in 0 .. Len(tmp[Poller]) :
            /\ kernel' = kernel \o SubSeq(tmp[Poller], 1, n)
            /\ tmp' = [tmp EXCEPT ![Poller] = SubSeq(@, n + 1, Len(@))]
      BY <1>12 DEF Write
    <2>2. UNCHANGED <<waiting, sending, received>>
      BY <1>12 DEF Write
    <2>3. PICK t \in Seq(Nat) : t = tmp[Poller]
      BY <1>0
    <2>4. SubSeq(t, 1, n) \in Seq(Nat)
      BY <2>3, PartsTyped
    <2>5. PICK p, q : p \in Seq(Nat) /\ Cut(t, n, p, q)
      BY <2>4 DEF Cut
    <2>6. kernel' = kernel \o p /\ tmp'[Poller] = q
      BY <1>0, <2>1, <2>3, <2>5 DEF Cut
    <2>7. Joined(received \o kernel, p, received \o kernel')
      <3>1. p \in Seq(Nat) /\ Joined(kernel, p, kernel')
        BY <2>5, <2>6 DEF Joined
      <3> QED
        BY <1>0, <3>1, Grows
    <2>8. Stream' = Stream \o p
      BY <2>2, <2>7 DEF Stream, Joined
    <2>9. n \in 0 .. Len(t) /\ Ordered(waiting, sending, t, Stream)
      BY <1>4, <2>3 DEF InOrder
    <2>10. Ordered(waiting, sending, q, Stream \o p)
           /\ All(waiting, sending, q, Stream \o p) = All(waiting, sending, t, Stream)
      <3>1. PICK w, s, k \in Seq(Nat) : w = waiting /\ s = sending /\ k = Stream
        BY <1>0
      <3>2. Ordered(w, s, t, k) /\ n \in 0 .. Len(t)
        BY <2>9, <3>1
      <3>3. PICK l : Joined(k, p, l)
        BY DEF Joined
      <3>4. Ordered(w, s, q, l) /\ Same(All(w, s, q, l), All(w, s, t, k))
        <4>1. Parts(t, p, q)
          BY <2>5, <3>2 DEF Parts
        <4> QED
          BY <3>2, <3>3, <4>1, OrdWrite
      <3> QED
        BY <3>1, <3>3, <3>4 DEF Joined, Same
    <2>11. InOrder' /\ OnTheWay' = OnTheWay
      BY <2>2, <2>3, <2>6, <2>8, <2>10 DEF InOrder, OnTheWay
    <2> QED
      BY <1>6, <2>11
  <1>13. CASE WriteFails(Poller) \/ SendTimeOut(Poller)
    <2>1. EmitErr(Poller) /\ UNCHANGED <<sending, kernel, received>> /\ tmp'[Poller] \in {tmp[Poller], <<>>}
      BY <1>0, <1>13 DEF WriteFails, SendTimeOut, dataVars
    <2>2. errEmit' /\ waiting' \in {waiting, <<>>}
      BY <1>0, <2>1, ErrDoes
    <2>3. Stream' = Stream
      BY <2>1, StreamStays
    <2>4. InOrder' /\ OnTheWay' \subseteq OnTheWay
      BY <1>4, <2>1, <2>2, <2>3, OrdDrop DEF InOrder, OnTheWay
    <2> QED
      BY <1>7, <2>2, <2>4
  <1>14. CASE Rollback(Poller)
    <2>1. /\ sending' = tmp[Poller] \o sending /\ tmp'[Poller] = <<>> /\ UNCHANGED <<waiting, kernel, received>>
      BY <1>0, <1>14 DEF Rollback, dataVars
    <2>2. Stream' = Stream
      BY <2>1, StreamStays
    <2>3. PICK t \in Seq(Nat) : t = tmp[Poller]
      BY <1>0
    <2>4. Ordered(waiting, t \o sending, <<>>, Stream)
          /\ All(waiting, t \o sending, <<>>, Stream) = All(waiting, sending, t, Stream)
      BY <1>0, <1>4, <2>3, OrdBack DEF InOrder
    <2>5. InOrder' /\ OnTheWay' = OnTheWay
      BY <2>1, <2>2, <2>3, <2>4 DEF InOrder, OnTheWay
    <2> QED
      BY <1>6, <2>5
  <1> QED
    BY <1>9, <1>10, <1>11, <1>12, <1>13, <1>14 DEF FlushStep


LEMMA OrderStep ==
  ASSUME SendTyped, PlacesInv, AloneInv, OrderInv, SendNext, UNCHANGED alone
  PROVE  OrderInv'
  <1> SUFFICES ASSUME alone PROVE OrderInv'
    BY DEF OrderInv
  <1> DEFINE P == pc[Poller]
  <1>0. /\ waiting \in Seq(Nat) /\ sending \in Seq(Nat) /\ tmp \in [Actors -> Seq(Nat)]
        /\ Stream \in Seq(Nat) /\ kernel \in Seq(Nat) /\ received \in Seq(Nat)
        /\ pc \in [Actors -> Where] /\ Poller \in Actors /\ count \in Nat /\ base \in Nat
        /\ tmp[Poller] \in Seq(Nat)
    BY StreamIs DEF SendTyped, Actors
  <1>1. InOrder
    BY DEF OrderInv, InOrder
  <1>2. \A u \in OnTheWay : u \in 1 .. count
    BY <1>0 DEF PlacesInv, Held, OnTheWay, All
  <1>3. ASSUME ~Switching, ~Switching', UNCHANGED <<base, count>>, errEmit => errEmit',
               InOrder', OnTheWay' = OnTheWay
        PROVE  OrderInv'
    BY <1>3, OrderKept
  <1>4. ASSUME UNCHANGED <<bufVars, Stream>> PROVE InOrder' /\ OnTheWay' = OnTheWay
    BY <1>1, <1>4 DEF InOrder, OnTheWay, bufVars
  <1>5. CASE Submit(Poller)
    <2>1. /\ count' = count + 1 /\ waiting' = Append(waiting, count + 1)
          /\ UNCHANGED <<sending, tmp, kernel, received, errEmit, base>>
          /\ P \in {"idle", "flush"} /\ P' = "flush"
      BY <1>0, <1>5 DEF Submit, Goto, connVars
    <2>2. Stream' = Stream /\ ~Switching /\ ~Switching'
      BY <2>1, StreamStays DEF Switching
    <2>3. count + 1 \in Nat /\ Below(OnTheWay, {count + 1})
      BY <1>0, <1>2 DEF Below
    <2>4. InOrder' /\ OnTheWay' = OnTheWay \cup {count + 1}
      <3>1. /\ Ordered(Append(waiting, count + 1), sending, tmp[Poller], Stream)
            /\ All(Append(waiting, count + 1), sending, tmp[Poller], Stream) = OnTheWay \cup {count + 1}
        BY <1>0, <1>1, <2>3, OrdAppend DEF InOrder, OnTheWay
      <3> QED
        BY <2>1, <2>2, <3>1 DEF InOrder, OnTheWay
    <2>5. /\ ~errEmit => \A u \in OnTheWay : u .. count \subseteq OnTheWay
          /\ \A u \in OnTheWay : base <= u
          /\ base <= count + 1
      BY <2>2 DEF OrderInv, Whole, OnTheWay
    <2>6. /\ ~errEmit' => \A u \in OnTheWay' : u .. count' \subseteq OnTheWay'
          /\ \A u \in OnTheWay' : base' <= u
          /\ base' <= count' + 1
      <3>1. ASSUME NEW u \in OnTheWay', ~errEmit PROVE u .. count' \subseteq OnTheWay'
        <4> SUFFICES ASSUME NEW x \in u .. count + 1 PROVE x \in OnTheWay \cup {count + 1}
          BY <2>1, <2>4
        <4>1. CASE u = count + 1
          BY <1>0, <4>1
        <4>2. CASE u \in OnTheWay
          <5>1. x \in u .. count \/ x = count + 1
            BY <1>0, <1>2, <4>2
          <5> QED
            BY <2>5, <3>1, <4>2, <5>1
        <4> QED
          BY <2>4, <3>1, <4>1, <4>2
      <3>2. ASSUME NEW u \in OnTheWay' PROVE base' <= u
        BY <2>1, <2>4, <2>5, <3>2
      <3>3. base' <= count' + 1
        BY <1>0, <2>1, <2>5
      <3> QED
        BY <2>1, <3>1, <3>2, <3>3
    <2> QED
      BY <2>2, <2>4, <2>6 DEF OrderInv, Whole, OnTheWay, InOrder
  <1>6. CASE FlushStep(Poller)
    BY <1>6, FlushOrder
  <1>7. CASE OnWriteAble \/ LookAtSending \/ Detach \/ Connect
    <2>1. /\ P \in {"idle", "looking", "detachLast"} /\ P' \in {"idle", "looking", "take"}
          /\ UNCHANGED <<bufVars, kernel, received, count, base, errEmit>>
      BY <1>0, <1>7 DEF OnWriteAble, LookAtSending, Detach, Connect, Goto, connVars, dataVars
    <2>2. ~Switching /\ ~Switching' /\ Stream' = Stream
      BY <2>1, StreamStays DEF Switching
    <2> QED
      BY <1>3, <1>4, <2>1, <2>2
  <1>8. CASE RunWatch \/ RunClose
    BY <1>8 DEF RunWatch, RunClose, AloneInv
  <1>9. CASE OnError
    <2>1. EmitErr(Poller) /\ UNCHANGED <<sending, tmp, kernel, received, count, base>> /\ P = "idle"
      BY <1>9 DEF OnError, dataVars
    <2>2. errEmit' /\ waiting' \in {waiting, <<>>} /\ P' \in {"idle", "detach"}
      BY <1>0, <2>1, ErrDoes
    <2>3. Stream' = Stream /\ ~Switching /\ ~Switching'
      BY <2>1, <2>2, StreamStays DEF Switching
    <2>4. InOrder' /\ OnTheWay' \subseteq OnTheWay
      BY <1>1, <2>1, <2>2, <2>3, OrdDrop DEF InOrder, OnTheWay
    <2> QED
      BY <2>1, <2>2, <2>3, <2>4, OrderKept
  <1>10. CASE ClearSending
    <2>1. /\ sending' = <<>> /\ UNCHANGED <<waiting, tmp, kernel, received, count, base, errEmit>>
          /\ P \in {"detach", "close"} /\ P' = IF P = "detach" THEN "detachLast" ELSE "closeLast"
      BY <1>0, <1>10 DEF ClearSending, Goto, connVars, dataVars
    <2>2. Stream' = Stream /\ (Switching' <=> Switching)
      BY <2>1, StreamStays DEF Switching
    <2>3. InOrder' /\ OnTheWay' \subseteq OnTheWay
      BY <1>1, <2>1, <2>2, OrdDrop DEF InOrder, OnTheWay
    <2>4. CASE P = "detach"
      <3>1. errEmit /\ ~Switching
        BY <2>4 DEF AloneInv, Switching
      <3> QED
        BY <2>1, <2>2, <2>3, <3>1, OrderKept
    <2>5. CASE P = "close"
      <3>1. Switching
        BY <2>5 DEF Switching
      <3>2. /\ ~errEmit => \A u, v \in Els(Stream) : u .. v \subseteq Els(Stream)
            /\ base <= count + 1
        BY <3>1 DEF OrderInv, Whole
      <3> QED
        BY <2>1, <2>2, <2>3, <3>1, <3>2 DEF OrderInv, Whole, InOrder
    <2> QED
      BY <2>1, <2>4, <2>5
  <1>11. CASE CloseLast
    <2>1. /\ Stream' = <<>> /\ UNCHANGED <<waiting, sending, tmp, count, base>>
          /\ P = "closeLast" /\ P' = "idle"
      BY <1>0, <1>11 DEF CloseLast, Goto, bufVars, Stream
    <2>2. waiting = <<>> /\ sending = <<>> /\ tmp[Poller] = <<>>
      BY <1>0, <2>1 DEF AloneInv, PlacesInv, Flushing
    <2>3. OnTheWay' = {} /\ InOrder'
      BY <2>1, <2>2, NoUnits DEF OnTheWay, All, InOrder, Ordered, Below
    <2>4. ~Switching' /\ base <= count + 1
      BY <2>1 DEF Switching, OrderInv
    <2> QED
      BY <2>1, <2>3, <2>4 DEF OrderInv, Whole, InOrder, OnTheWay
  <1>12. CASE Reconnect
    <2>1. /\ waiting' = <<>> /\ UNCHANGED <<sending, tmp, kernel, received, count, errEmit>>
          /\ base' = count + 1 /\ P = "idle" /\ P' = "close"
      BY <1>0, <1>12 DEF Reconnect, StartClose, Goto, dataVars
    <2>2. Stream' = Stream /\ Switching' /\ ~Switching
      BY <2>1, StreamStays DEF Switching
    <2>3. InOrder'
      BY <1>1, <2>1, <2>2, OrdDrop DEF InOrder
    <2>4. ASSUME ~errEmit, NEW u \in Els(Stream), NEW v \in Els(Stream), NEW x \in u .. v
          PROVE  x \in Els(Stream)
      <3>1. u \in OnTheWay /\ v \in OnTheWay
        BY DEF OnTheWay, All
      <3>2. u .. count \subseteq OnTheWay
        BY <2>2, <2>4, <3>1 DEF OrderInv, Whole, OnTheWay
      <3>3. u \in Nat /\ v \in Nat /\ v <= count /\ x <= v
        BY <1>0, <1>2, <3>1
      <3>4. x \in OnTheWay
        BY <1>0, <3>2, <3>3
      <3>5. ASSUME x \in Els(tmp[Poller]) \cup Els(sending) \cup Els(waiting) PROVE v < x
        BY <1>1, <3>5 DEF InOrder, Ordered, Below
      <3> QED
        BY <3>3, <3>4, <3>5 DEF OnTheWay, All
    <2> QED
      BY <1>0, <2>1, <2>2, <2>3, <2>4 DEF OrderInv, Whole, InOrder
  <1>13. CASE Drain \/ Break
    <2>1. UNCHANGED <<bufVars, pc, count, base, errEmit>>
      BY <1>13 DEF Drain, Break, dataVars, connVars
    <2>2. Stream' = Stream
      BY <1>0, <1>13, HeadMoves DEF Drain, Break, Stream, dataVars
    <2>3. Switching' <=> Switching
      BY <2>1 DEF Switching
    <2> QED
      BY <2>1, <2>2, <2>3 DEF OrderInv, Whole, bufVars
  <1> QED
    BY <1>5, <1>6, <1>7, <1>8, <1>9, <1>10, <1>11, <1>12, <1>13, AloneActor DEF LoopStep


-----------------------------------------------------------------------------
(* What waits has its event.                                                *)
LEMMA NotEmpty ==
  ASSUME NEW k \in Seq(Nat), NEW p \in Seq(Nat), p # <<>>
  PROVE  k \o p # <<>>
  <1>1. Els(k \o p) = Els(k) \cup Els(p)
    BY ConcatUnits
  <1>2. Els(p) # {}
    BY ElsNat
  <1> QED
    BY <1>1, <1>2, NoUnits

LEMMA WatchStep ==
  ASSUME SendTyped, PlacesInv, AloneInv, WatchInv, SendNext, UNCHANGED alone
  PROVE  WatchInv'
  <1> SUFFICES ASSUME alone PROVE WatchInv'
    BY DEF WatchInv
  <1> DEFINE P == pc[Poller]
             M == P = "write" => tmp[Poller] # <<>>
             E == onEvent => P \in {"take", "takeWaiting", "write", "sent", "rollback"}
             Up == conn = "up" /\ ~errEmit
             W == /\ ~sendable => armed
                  /\ onEvent => armed
                  /\ P \in {"looking", "rollback"} => armed
                  /\ sending # <<>> => armed
                  /\ P \in {"idle", "write", "sent", "arm", "rollback"} /\ waiting # <<>> => armed
                  /\ armed => \/ edge \/ kernel # <<>>
                              \/ P = "looking"
                              \/ onEvent /\ P \in {"take", "takeWaiting", "write"}
  <1>0. /\ pc \in [Actors -> Where] /\ tmp \in [Actors -> Seq(Nat)] /\ kernel \in Seq(Nat)
        /\ Poller \in Actors /\ onEvent \in BOOLEAN /\ errEmit \in BOOLEAN
    BY DEF SendTyped, Actors
  <1>1. M /\ E /\ (Up => W)
    BY DEF WatchInv
  <1>2. M' /\ E' /\ (Up' => W') => WatchInv'
    BY DEF WatchInv
  <1>3. (P \in {"takeWaiting", "write", "sent", "arm", "rollback"} => sending = <<>>)
        /\ (P = "looking" => waiting = <<>>) /\ (P = "detach" => errEmit)
    BY DEF AloneInv
  <1>4. Len(kernel) \in Nat /\ KernelCap \in Nat \ {0} /\ (kernel = <<>> => Room)
    BY <1>0, BoundAssumption DEF Room
  <1>5. CASE Submit(Poller)
    BY <1>0, <1>1, <1>2, <1>5 DEF Submit, Goto, epollVars, connVars
  <1>6. CASE FlushAll(Poller)
    BY <1>0, <1>1, <1>2, <1>6 DEF FlushAll, Goto, bufVars, epollVars, connVars, dataVars
  <1>7. CASE TakeSending(Poller)
    BY <1>0, <1>1, <1>2, <1>7 DEF TakeSending, Goto, epollVars, connVars, dataVars
  <1>8. CASE TakeWaiting(Poller)
    <2>1. P = "takeWaiting" /\ UNCHANGED <<sending, tasks, conn, errEmit, kernel>>
      BY <1>8 DEF TakeWaiting, connVars, dataVars
    <2>2. CASE waiting # <<>>
      BY <1>0, <1>1, <1>2, <1>8, <2>1, <2>2 DEF TakeWaiting, Goto
    <2>3. CASE waiting = <<>>
      <3>1. waiting' = waiting /\ tmp' = tmp /\ P' = "idle" /\ onEvent' = FALSE
            /\ IF onEvent THEN StopWriteAble ELSE UNCHANGED <<sendable, armed, edge>>
        BY <1>0, <1>8, <2>3 DEF TakeWaiting, Goto
      <3> QED
        BY <1>1, <1>2, <1>3, <2>1, <2>3, <3>1 DEF StopWriteAble, Watch
    <2> QED
      BY <2>2, <2>3
  <1>9. CASE Write(Poller)
    <2>1. PICK n \in 0 .. Len(tmp[Poller]) :
            /\ n = 0 => ~Room
            /\ kernel' = kernel \o SubSeq(tmp[Poller], 1, n)
            /\ Goto(Poller, IF n = Len(tmp[Poller]) THEN "sent"
                            ELSE IF onEvent THEN "rollback" ELSE "arm")
      BY <1>9 DEF Write
    <2>2. /\ UNCHANGED <<waiting, sending, sendable, onEvent, armed, edge, conn, errEmit>>
          /\ P = "write"
      BY <1>9 DEF Write, epollVars, connVars
    <2>3. PICK t \in Seq(Nat) : t = tmp[Poller] /\ t # <<>>
      BY <1>0, <1>1, <2>2
    <2>4. kernel' # <<>>
      <3>1. CASE n = 0
        <4>1. SubSeq(t, 1, n) = <<>> /\ kernel # <<>>
          BY <1>4, <2>1, <3>1
        <4> QED
          BY <1>0, <2>1, <2>3, <4>1
      <3>2. CASE n # 0
        <4>1. n \in 1 .. Len(t) /\ Len(SubSeq(t, 1, n)) = n /\ SubSeq(t, 1, n) \in Seq(Nat)
          BY <2>3, <3>2, PartsTyped
        <4>2. PICK p \in Seq(Nat) : p = SubSeq(t, 1, n) /\ Len(p) = n
          BY <4>1
        <4>3. kernel \o p # <<>>
          <5>1. Len(p) # 0
            BY <3>2, <4>2
          <5>2. p # <<>>
            BY <5>1
          <5> QED
            BY <1>0, <5>2, NotEmpty
        <4> QED
          BY <2>1, <2>3, <4>2, <4>3
      <3> QED
        BY <3>1, <3>2
    <2>5. P' \in {"sent", "rollback", "arm"} /\ (onEvent => P' # "arm") /\ (~onEvent => P' # "rollback")
      BY <1>0, <2>1 DEF Goto
    <2> QED
      BY <1>1, <1>2, <2>2, <2>4, <2>5
  <1>10. CASE WriteFails(Poller) \/ SendTimeOut(Poller) \/ OnError
    <2>1. EmitErr(Poller) /\ ((P \in {"flush", "idle"} /\ onEvent' = onEvent) \/ onEvent' = FALSE)
      BY <1>10 DEF WriteFails, SendTimeOut, OnError
    <2>2. errEmit' /\ P' \in {"idle", "detach"}
      BY <1>0, <2>1, ErrDoes
    <2> QED
      BY <1>1, <1>2, <2>1, <2>2
  <1>11. CASE Sent(Poller)
    BY <1>0, <1>1, <1>2, <1>11 DEF Sent, Goto, bufVars, epollVars, connVars, dataVars
  <1>12. CASE Arm(Poller)
    <2>1. /\ P = "arm" /\ P' = "rollback" /\ sendable' = FALSE /\ Watch(TRUE)
          /\ UNCHANGED <<waiting, sending, tmp, onEvent, conn, errEmit, kernel>>
      BY <1>0, <1>12 DEF Arm, Goto, bufVars, connVars, dataVars
    <2>2. Up' => armed' /\ (edge' \/ kernel' # <<>>)
      BY <1>4, <2>1 DEF Watch
    <2> QED
      BY <1>1, <1>2, <2>1, <2>2
  <1>13. CASE Rollback(Poller)
    <2>1. /\ P = "rollback" /\ P' = "idle" /\ onEvent' = FALSE
          /\ UNCHANGED <<waiting, sendable, armed, edge, conn, errEmit, kernel>>
      BY <1>0, <1>13 DEF Rollback, Goto, epollVars, connVars, dataVars
    <2> QED
      BY <1>1, <1>2, <2>1
  <1>14. CASE OnWriteAble
    BY <1>0, <1>1, <1>2, <1>14 DEF OnWriteAble, Goto, bufVars, connVars, dataVars
  <1>15. CASE LookAtSending
    BY <1>0, <1>1, <1>2, <1>3, <1>15 DEF LookAtSending, StopWriteAble, Watch, Goto, bufVars, connVars, dataVars
  <1>16. CASE RunWatch \/ RunClose
    BY <1>16 DEF RunWatch, RunClose, AloneInv
  <1>17. CASE ClearSending
    BY <1>0, <1>1, <1>2, <1>3, <1>17 DEF ClearSending, Goto, epollVars, connVars, dataVars
  <1>18. CASE Detach
    BY <1>0, <1>1, <1>2, <1>18 DEF Detach, Goto, bufVars
  <1>19. CASE CloseLast
    BY <1>0, <1>1, <1>2, <1>19 DEF CloseLast, Goto, bufVars
  <1>20. CASE Reconnect
    BY <1>0, <1>1, <1>2, <1>20 DEF Reconnect, StartClose, Goto, epollVars, dataVars
  <1>21. CASE Connect
    BY <1>0, <1>1, <1>2, <1>21 DEF Connect, bufVars, dataVars
  <1>22. CASE Drain
    BY <1>0, <1>1, <1>2, <1>22 DEF Drain, bufVars, connVars
  <1>23. CASE Break
    BY <1>0, <1>1, <1>2, <1>23 DEF Break, bufVars, epollVars, dataVars
  <1> QED
    BY <1>5, <1>6, <1>7, <1>8, <1>9, <1>10, <1>11, <1>12, <1>13, <1>14, <1>15, <1>16, <1>17, <1>18, <1>19,
       <1>20, <1>21, <1>22, <1>23, AloneActor DEF FlushStep, LoopStep


-----------------------------------------------------------------------------
(* The invariant.                                                           *)
LEMMA InvInit == SendInit => SendInv
  <1> SUFFICES ASSUME SendInit PROVE SendInv
    OBVIOUS
  <1>1. /\ waiting = <<>> /\ sending = <<>> /\ kernel = <<>> /\ received = <<>> /\ tasks = <<>>
        /\ count = 0 /\ conns = 1 /\ base = 1 /\ conn = "up" /\ errEmit = FALSE
        /\ sendable = TRUE /\ onEvent = FALSE /\ armed = TRUE /\ edge = TRUE
        /\ \A a \in Actors : tmp[a] = <<>> /\ pc[a] = "idle"
    BY DEF SendInit
  <1>2. Stream = <<>> /\ Poller \in Actors /\ Senders \subseteq Actors
    BY <1>1 DEF Stream, Actors
  <1>3. PlacesInv
    BY <1>1, <1>2, NoUnits DEF PlacesInv, Distinct, Held
  <1>4. FirstInv
    BY <1>1, <1>2 DEF FirstInv
  <1>5. AloneInv
    BY <1>1, <1>2 DEF AloneInv
  <1>6. OrderInv
    BY <1>1, <1>2, NoUnits DEF OrderInv, Ordered, Below, Whole, All, Switching
  <1>7. WatchInv
    BY <1>1, <1>2 DEF WatchInv
  <1> QED
    BY <1>3, <1>4, <1>5, <1>6, <1>7, TypedInit DEF SendInv

LEMMA InvNext == SendInv /\ [SendNext /\ UNCHANGED alone]_<<sendVars, alone>> => SendInv'
  <1> SUFFICES ASSUME SendInv, [SendNext /\ UNCHANGED alone]_<<sendVars, alone>> PROVE SendInv'
    OBVIOUS
  <1>0. SendTyped /\ PlacesInv /\ FirstInv /\ AloneInv /\ OrderInv /\ WatchInv
    BY DEF SendInv
  <1>1. CASE SendNext /\ UNCHANGED alone
    <2>1. SendTyped'
      BY <1>0, <1>1, StepTyped
    <2> QED
      BY <1>0, <1>1, <2>1, PlacesStep, FirstStep, AloneStep, OrderStep, WatchStep DEF SendInv
  <1>2. CASE UNCHANGED <<sendVars, alone>>
    <2>1. /\ UNCHANGED <<waiting, sending, tmp, sendable, lock, pc, onEvent, armed, edge, tasks>>
          /\ UNCHANGED <<conn, broken, errEmit, conns, base, count, kernel, received, alone>>
          /\ Stream' = Stream
      BY <1>2, StreamStays DEF sendVars
    <2>2. SendTyped'
      BY <1>0, <2>1 DEF SendTyped
    <2>3. PlacesInv' /\ FirstInv'
      BY <1>0, <2>1 DEF PlacesInv, FirstInv, First, Switching
    <2>4. AloneInv' /\ OrderInv'
      BY <1>0, <2>1 DEF AloneInv, OrderInv, Whole, Switching
    <2>5. WatchInv'
      BY <1>0, <2>1 DEF WatchInv
    <2> QED
      BY <2>2, <2>3, <2>4, <2>5 DEF SendInv
  <1> QED
    BY <1>1, <1>2

LEMMA Invariance == SendSpec => []SendInv
  <1> QED
    BY InvInit, InvNext, PTL DEF SendSpec

-----------------------------------------------------------------------------
(* What it means for the places, the stream and the event.                  *)
LEMMA PlacesAre ==
  ASSUME SendTyped, PlacesInv, NEW p \in Places
  PROVE  /\ Once(At(p))
         /\ \A q \in Places : p # q => Els(At(p)) \cap Els(At(q)) = {}
  <1>0. Distinct(waiting, sending, tmp, Stream)
    BY DEF PlacesInv
  <1>1. ASSUME NEW q \in Places
        PROVE  \/ q = <<"waiting", Nobody>> /\ At(q) = waiting
               \/ q = <<"sending", Nobody>> /\ At(q) = sending
               \/ q = <<"stream", Nobody>> /\ At(q) = Stream
               \/ \E a \in Actors : q = <<"tmp", a>> /\ At(q) = tmp[a]
    BY <1>1 DEF Places, At
  <1>2. Once(At(p))
    BY <1>0, <1>1 DEF Distinct
  <1>3. ASSUME NEW q \in Places, p # q PROVE Els(At(p)) \cap Els(At(q)) = {}
    <2>1. CASE p[1] # "tmp" /\ q[1] # "tmp"
      BY <1>0, <1>1, <1>3, <2>1 DEF Distinct
    <2>2. CASE p[1] = "tmp" /\ q[1] # "tmp"
      <3>1. PICK a \in Actors : At(p) = tmp[a]
        BY <1>1, <2>2
      <3>2. At(q) \in {waiting, sending, Stream}
        BY <1>1, <2>2
      <3> QED
        BY <1>0, <3>1, <3>2 DEF Distinct
    <2>3. CASE p[1] # "tmp" /\ q[1] = "tmp"
      <3>1. PICK a \in Actors : At(q) = tmp[a]
        BY <1>1, <2>3
      <3>2. At(p) \in {waiting, sending, Stream}
        BY <1>1, <2>3
      <3> QED
        BY <1>0, <3>1, <3>2 DEF Distinct
    <2>4. CASE p[1] = "tmp" /\ q[1] = "tmp"
      <3>1. PICK a \in Actors : p = <<"tmp", a>> /\ At(p) = tmp[a]
        BY <1>1, <2>4
      <3>2. PICK b \in Actors : q = <<"tmp", b>> /\ At(q) = tmp[b]
        BY <1>1, <2>4
      <3>3. a # b
        BY <1>3, <3>1, <3>2
      <3> QED
        BY <1>0, <3>1, <3>2, <3>3 DEF Distinct
    <2> QED
      BY <2>1, <2>2, <2>3, <2>4
  <1> QED
    BY <1>2, <1>3

(* Whoever sends, a unit is in one place, once; on the first connection     *)
(* none is lost before an error: FirstInv.                                  *)
LEMMA InvPlaces == SendInv => NothingLostOrTwice
  <1> SUFFICES ASSUME SendInv PROVE NothingLostOrTwice
    OBVIOUS
  <1>0. SendTyped /\ PlacesInv /\ FirstInv
    BY DEF SendInv
  <1>1. ASSUME NEW p \in Places, NEW q \in Places, NEW i \in 1 .. Len(At(p)), NEW j \in 1 .. Len(At(q)),
               At(p)[i] = At(q)[j]
        PROVE  p = q /\ i = j
    <2>1. At(p)[i] \in Els(At(p)) /\ At(q)[j] \in Els(At(q))
      BY DEF Els
    <2>2. p = q
      BY <1>0, <1>1, <2>1, PlacesAre
    <2>3. Once(At(p))
      BY <1>0, PlacesAre
    <2> QED
      BY <1>1, <2>2, <2>3 DEF Once
  <1>2. ASSUME conns = 1 /\ ~Switching /\ conn = "up" /\ ~errEmit, NEW u \in 1 .. count
        PROVE  \E p \in Places : InSeq(u, At(p))
    <2>1. Held(u, waiting, sending, tmp, Stream)
      BY <1>0, <1>2 DEF FirstInv, First
    <2>2. \A s : u \in Els(s) => InSeq(u, s)
      BY DEF Els, InSeq
    <2>3. /\ <<"waiting", Nobody>> \in Places /\ At(<<"waiting", Nobody>>) = waiting
          /\ <<"sending", Nobody>> \in Places /\ At(<<"sending", Nobody>>) = sending
          /\ <<"stream", Nobody>> \in Places /\ At(<<"stream", Nobody>>) = Stream
          /\ \A a \in Actors : <<"tmp", a>> \in Places /\ At(<<"tmp", a>>) = tmp[a]
      BY DEF Places, At
    <2> QED
      BY <2>1, <2>2, <2>3 DEF Held
  <1> QED
    BY <1>1, <1>2 DEF NothingLostOrTwice

(* While the poller alone sends: the stream rises, and what lies between    *)
(* two of its units is not still on its way, where everything is above it.  *)
LEMMA InvStream == SendInv /\ alone => StreamInOrder /\ OnlyOwnData
  <1> SUFFICES ASSUME SendInv, alone PROVE StreamInOrder /\ OnlyOwnData
    OBVIOUS
  <1> DEFINE K == Els(Stream)
  <1>0. SendTyped /\ PlacesInv /\ AloneInv /\ OrderInv /\ Stream \in Seq(Nat) /\ count \in Nat
    BY StreamIs DEF SendInv, SendTyped
  <1>9. PICK n \in Nat : n = Len(Stream)
    BY <1>0
  <1>1. PICK s : s = Stream /\ n = Len(s)
    BY <1>9
  <1>2. Rising(s) /\ (\A i \in 1 .. n : s[i] \in K /\ s[i] \in Nat)
    BY <1>0, <1>1 DEF OrderInv, Ordered, Els
  <1>3. Increasing(Stream)
    <2> SUFFICES ASSUME NEW i \in 1 .. n - 1 PROVE s[i] < s[i + 1]
      BY <1>1 DEF Increasing
    <2>1. i \in 1 .. n /\ i + 1 \in 1 .. n /\ i < i + 1
      OBVIOUS
    <2> QED
      BY <1>1, <1>2, <2>1 DEF Rising
  <1>4. ASSUME ~errEmit, NEW u \in K, NEW v \in K, NEW x \in u .. v PROVE x \in K
    <2>1. CASE Switching
      BY <1>0, <1>4, <2>1 DEF OrderInv, Whole
    <2>2. CASE ~Switching
      <3>1. u \in OnTheWay /\ u .. count \subseteq OnTheWay
        BY <1>0, <1>4, <2>2 DEF OrderInv, Whole, OnTheWay, All
      <3>2. u \in Nat /\ v \in 1 .. count
        BY <1>0, ElsNat DEF PlacesInv, Held
      <3>3. x \in OnTheWay /\ x \in Nat /\ x <= v
        BY <1>0, <3>1, <3>2
      <3>4. ASSUME x \in Els(tmp[Poller]) \cup Els(sending) \cup Els(waiting) PROVE v < x
        BY <1>0, <3>4 DEF OrderInv, Ordered, Below
      <3> QED
        BY <3>2, <3>3, <3>4 DEF OnTheWay, All
    <2> QED
      BY <2>1, <2>2
  <1>5. ASSUME ~errEmit, Stream # <<>>, NEW x \in Stream[1] .. Stream[Len(Stream)] PROVE InSeq(x, Stream)
    <2>1. n # 0
      BY <1>0, <1>1, <1>5
    <2>2. 1 \in 1 .. n /\ n \in 1 .. n
      BY <2>1
    <2>3. s[1] \in K /\ s[n] \in K
      BY <1>2, <2>2
    <2>4. x \in K
      BY <1>1, <1>4, <1>5, <2>3
    <2> QED
      BY <2>4 DEF Els, InSeq
  <1>6. StreamInOrder
    BY <1>3, <1>5 DEF StreamInOrder
  <1>7. ASSUME ~Switching, NEW i \in 1 .. Len(Stream) PROVE Stream[i] >= base
    <2>1. Stream[i] \in OnTheWay /\ Stream[i] \in Nat
      BY <1>0 DEF OnTheWay, All, Els
    <2>2. base <= Stream[i] /\ base \in Nat
      BY <1>0, <1>7, <2>1 DEF OrderInv, OnTheWay, SendTyped
    <2> QED
      BY <2>1, <2>2
  <1>8. OnlyOwnData
    BY <1>0, <1>7 DEF OnlyOwnData, AloneInv
  <1> QED
    BY <1>6, <1>8

(* send, flushAll, flushData, onWriteAble, emitErr and closeSock keep each  *)
(* unit in one place and never twice, whatever the threads do, and lose     *)
(* none of the first connection's before an error; while the poller's       *)
(* thread alone sends, the peer gets every connection's own data in order   *)
(* and without holes.                                                       *)
THEOREM StreamIsKept == SendSpec => []StreamKept
  <1>1. SendInv => StreamKept
    BY InvPlaces, InvStream DEF StreamKept
  <1> QED
    BY Invariance, <1>1, PTL

(* While the poller's thread alone sends, what it could not write when it   *)
(* is done waits for a writable event epoll has to report, or will once the *)
(* peer reads: flushData, onWriteAble and start- and stopWriteAbleEvent     *)
(* never leave data behind without it.                                      *)
THEOREM PendingHasItsEvent == SendSpec => []WatchedAlone
  <1>1. SendInv => WatchedAlone
    <2> SUFFICES ASSUME SendInv, alone, \A a \in Actors : pc[a] = "idle", conn = "up" /\ ~errEmit,
                        waiting \o sending # <<>>
                 PROVE  armed /\ (edge \/ kernel # <<>>)
      BY DEF WatchedAlone, PendingIsWatched
    <2>1. WatchInv /\ SendTyped /\ pc[Poller] = "idle"
      BY DEF SendInv, Actors
    <2>2. waiting # <<>> \/ sending # <<>>
      BY <2>1 DEF SendTyped
    <2> QED
      BY <2>1, <2>2 DEF WatchInv
  <1> QED
    BY Invariance, <1>1, PTL

=============================================================================
