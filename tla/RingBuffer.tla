----------------------------- MODULE RingBuffer -----------------------------
(***************************************************************************)
(* RingBuffer (src/src/Util/RingBuffer.h): one writer, a cache of the most *)
(* recent groups of pictures (gops), and readers on several pollers.       *)
(*                                                                         *)
(* A write happens under _mtx_map: it queues a task for the dispatcher of  *)
(* every poller with readers and enters the item in the ring's own cache.  *)
(* A dispatcher lives on one poller, owns a copy of the cache as of its    *)
(* creation and the map of that poller's readers; its tasks hold it.       *)
(* A reader is attached on its poller, gets the cache when its callback is *)
(* set, and may be released by any thread.                                 *)
(*                                                                         *)
(* An item is the number it was written as and its is_key flag.  A list of *)
(* gops is one sequence of items: the code starts a gop at each key frame, *)
(* so a gop begins at a key frame or at the oldest item.                   *)
(***************************************************************************)
EXTENDS Integers, Sequences, FiniteSets

CONSTANTS
  Pollers,
  Readers,     \* each attached at most once
  None,        \* no poller, no dispatcher, no task, no value
  MaxSize,     \* _max_size of the storage, after RING_MIN_SIZE was applied
  MaxGops,     \* _max_gop_size of the storage
  GopLimits,   \* the readers' max_gop_size; 0 stands for use_cache = false too
  MaxWrites    \* bound: items written

ASSUME NoneAssumption == None \notin Pollers \cup Readers \cup Nat
ASSUME BoundAssumption == /\ MaxSize \in Nat \ {0} /\ MaxGops \in Nat \ {0}
                          /\ GopLimits \subseteq Nat /\ MaxWrites \in Nat \ {0}

VARIABLES
  open,      \* the RingBuffer exists
  written,   \* how many items were written
  firstKey,  \* history: the number of the first key frame, 0 before it
  ring,      \* _storage: [started, idr, cache]
  disp,      \* _dispatcher_map: of each poller, the reader it was created for
  dstore,    \* of each dispatcher, its _storage
  dmap,      \* of each dispatcher, its _reader_map
  tasks,     \* of each poller, the queued tasks
  cur,       \* of each poller, the write task it is running
  todo,      \* of each poller, the readers that task has still to visit
  home,      \* of each reader, its poller
  owner,     \* of each reader, its dispatcher
  ref,       \* of each reader: "new", "attached", "listening", "released", "gone"
  mark,      \* history: the number of the last item before the reader listened
  seen,      \* history: the items a listening reader's callback was given
  detached,  \* how often the reader's detach callback was called
  count,     \* _total_count
  reporting  \* pollers that are in onSizeChanged

streamVars == <<written, firstKey, ring>>
mapVars == <<disp, dstore, dmap>>
pollerVars == <<tasks, cur, todo>>
readerVars == <<home, owner, ref, mark, seen, detached>>
countVars == <<count, reporting>>
vars == <<open, streamVars, mapVars, pollerVars, readerVars, countVars>>

Items == [n : 1 .. MaxWrites, key : BOOLEAN]
Storages == [started : BOOLEAN, idr : BOOLEAN, cache : Seq(Items)]
Tasks == [op : {"write"}, disp : Readers, item : Items]
           \cup [op : {"clear", "delete"}, disp : Readers]
           \cup [op : {"dealloc"}, reader : Readers]

ASSUME NoTaskAssumption == None \notin Tasks

-----------------------------------------------------------------------------
(* _RingStorage                                                             *)

Numbers(c) == [i \in 1 .. Len(c) |-> c[i].n]

EmptyStorage == [started |-> FALSE, idr |-> FALSE, cache |-> <<>>]

(* Where the gops of a cache begin.                                         *)
Heads(c) == {i \in 1 .. Len(c) : i = 1 \/ c[i].key}

From(c, i) == SubSeq(c, i, Len(c))

(* The cache without its oldest gop.                                        *)
PopFrontGop(c) ==
  LET later == Heads(c) \ {1}
  IN  IF later = {} THEN <<>>
      ELSE From(c, CHOOSE i \in later : \A j \in later : i <= j)

ClearCache(s) == [s EXCEPT !.idr = FALSE, !.cache = <<>>]

(* Mutant: one item too many is taken to fit.                               *)
FitsOneMore(c) == {i \in Heads(c) : Len(c) - i <= MaxSize}

(* What overflow leaves of a cache: whole gops from the front go until the  *)
(* rest fits, and the last one as well if it does not fit alone.            *)
Fits(c) == {i \in Heads(c) : Len(c) - i < MaxSize}

Trim(s) ==
  IF Len(s.cache) <= MaxSize THEN s
  ELSE IF Fits(s.cache) = {} THEN ClearCache(s)
  ELSE [s EXCEPT !.cache = From(s.cache, CHOOSE i \in Fits(s.cache) :
                                           \A j \in Fits(s.cache) : i <= j)]

(* A key frame that follows other items starts a gop, and the oldest goes   *)
(* when there are too many.                                                 *)
StartGop(c) ==
  IF c # <<>> /\ Cardinality(Heads(c)) >= MaxGops THEN PopFrontGop(c) ELSE c

(* Mutant: items are cached though the key frame they depend on is gone.    *)
WriteStorageAlways(s, item) ==
  LET t == IF item.key
           THEN [started |-> TRUE, idr |-> TRUE, cache |-> StartGop(s.cache)]
           ELSE s
  IN  Trim([t EXCEPT !.cache = Append(t.cache, item)])

(* _RingStorage::write.                                                     *)
WriteStorage(s, item) ==
  LET t == IF item.key
           THEN [started |-> TRUE, idr |-> TRUE, cache |-> StartGop(s.cache)]
           ELSE s
  IN  IF ~t.idr /\ t.started THEN t
      ELSE Trim([t EXCEPT !.cache = Append(t.cache, item)])

(* Mutant: the reader's first gops of the cache.                            *)
FlushGopFirst(c, gops) ==
  LET after == {i \in Heads(c) : Cardinality({j \in Heads(c) : j <= i}) > gops}
  IN  IF after = {} THEN c
      ELSE SubSeq(c, 1, (CHOOSE i \in after : \A j \in after : i <= j) - 1)

(* _RingReader::flushGop: the reader's last gops of the cache.              *)
FlushGop(c, gops) ==
  LET kept == {i \in Heads(c) : Cardinality({j \in Heads(c) : j >= i}) <= gops}
  IN  IF kept = {} THEN <<>>
      ELSE From(c, CHOOSE i \in kept : \A j \in kept : i <= j)

-----------------------------------------------------------------------------
Init ==
  /\ open = TRUE
  /\ written = 0 /\ firstKey = 0 /\ ring = EmptyStorage
  /\ disp = [p \in Pollers |-> None]
  /\ dstore = [d \in Readers |-> EmptyStorage]
  /\ dmap = [d \in Readers |-> {}]
  /\ tasks = [p \in Pollers |-> <<>>]
  /\ cur = [p \in Pollers |-> None] /\ todo = [p \in Pollers |-> {}]
  /\ home = [r \in Readers |-> None] /\ owner = [r \in Readers |-> None]
  /\ ref = [r \in Readers |-> "new"]
  /\ mark = [r \in Readers |-> 0] /\ seen = [r \in Readers |-> <<>>]
  /\ detached = [r \in Readers |-> 0]
  /\ count = 0 /\ reporting = {}

Alive(r) == ref[r] \in {"attached", "listening"}
Registered(r) == owner[r] # None /\ r \in dmap[owner[r]]

(* The poller's thread is in the caller's code, perhaps in a callback of    *)
(* the task it runs; or between two tasks.                                  *)
InCode(p) == p \notin reporting
PollerIdle(p) == InCode(p) /\ cur[p] = None

(* A task for the dispatcher of every poller that has readers.              *)
WithTask(TaskFor) ==
  [p \in Pollers |-> IF disp[p] = None THEN tasks[p]
                     ELSE Append(tasks[p], TaskFor[disp[p]])]

IsWriteFor(task, d) == task.op = "write" /\ task.disp = d

(* How many writes have been queued for a reader that it has not been given.*)
Behind(r) ==
  LET p == home[r]
  IN  Cardinality({i \in 1 .. Len(tasks[p]) : IsWriteFor(tasks[p][i], owner[r])})
        + (IF r \in todo[p] THEN 1 ELSE 0)

(* onSizeChanged, after _reader_size went up or down by one.                *)
SizeChanged(p, change) ==
  /\ count' = count + change
  /\ reporting' = reporting \cup {p}

(* Mutant: the count goes down for a reader that was erased before.         *)
ForgetTwice(p, r) ==
  LET d == owner[r]
  IN  /\ dmap' = [dmap EXCEPT ![d] = @ \ {r}]
      /\ disp' = IF dmap'[d] = {} THEN [disp EXCEPT ![p] = None] ELSE disp
      /\ IF open THEN SizeChanged(p, -1) ELSE UNCHANGED countVars

(* A reader leaves its dispatcher's map, if it is still there; with the     *)
(* last one the dispatcher leaves the ring's map.                           *)
Forget(p, r) ==
  LET d == owner[r]
  IN  IF Registered(r)
      THEN /\ dmap' = [dmap EXCEPT ![d] = @ \ {r}]
           /\ disp' = IF dmap'[d] = {} THEN [disp EXCEPT ![p] = None] ELSE disp
           /\ IF open THEN SizeChanged(p, -1) ELSE UNCHANGED countVars
      ELSE UNCHANGED <<disp, dmap, countVars>>

(* ~_RingReaderDispatcher tells the readers that are left.                  *)
Detach(d) ==
  /\ detached' = [r \in Readers |-> IF r \in dmap[d] /\ Alive(r) THEN detached[r] + 1
                                    ELSE detached[r]]
  /\ dmap' = [dmap EXCEPT ![d] = {}]

-----------------------------------------------------------------------------
(* Calls of the RingBuffer's owner.                                         *)

Write(key) ==
  /\ open /\ written < MaxWrites
  /\ LET item == [n |-> written + 1, key |-> key]
     IN  /\ tasks' = WithTask([d \in Readers |->
                                [op |-> "write", disp |-> d, item |-> item]])
         /\ ring' = WriteStorage(ring, item)
         /\ written' = item.n
         /\ firstKey' = IF key /\ firstKey = 0 THEN item.n ELSE firstKey
  /\ UNCHANGED <<open, mapVars, cur, todo, readerVars, countVars>>

(* Bound: an empty cache is not cleared again.                              *)
Clear ==
  /\ open /\ ring.cache # <<>>
  /\ ring' = ClearCache(ring)
  /\ tasks' = WithTask([d \in Readers |-> [op |-> "clear", disp |-> d]])
  /\ UNCHANGED <<open, written, firstKey, mapVars, cur, todo, readerVars, countVars>>

Holds(p, d) ==
  \/ cur[p] # None /\ cur[p].disp = d
  \/ \E i \in 1 .. Len(tasks[p]) :
       tasks[p][i].op \in {"write", "clear"} /\ tasks[p][i].disp = d

(* Mutant: the dispatchers are deleted ahead of the tasks that hold them.   *)
CloseNow ==
  /\ open /\ \A p \in Pollers : InCode(p)
  /\ open' = FALSE
  /\ disp' = [p \in Pollers |-> None]
  /\ tasks' = [p \in Pollers |->
                 IF disp[p] = None THEN tasks[p]
                 ELSE <<[op |-> "delete", disp |-> disp[p]]>> \o tasks[p]]
  /\ UNCHANGED <<streamVars, dstore, dmap, cur, todo, readerVars, countVars>>

(* ~RingBuffer drops the dispatchers.  One that no task holds is deleted by *)
(* a task of its poller.  (onSizeChanged holds the ring while it reports.)  *)
Close ==
  /\ open /\ \A p \in Pollers : InCode(p)
  /\ open' = FALSE
  /\ disp' = [p \in Pollers |-> None]
  /\ tasks' = [p \in Pollers |->
                 IF disp[p] = None \/ Holds(p, disp[p]) THEN tasks[p]
                 ELSE Append(tasks[p], [op |-> "delete", disp |-> disp[p]])]
  /\ UNCHANGED <<streamVars, dstore, dmap, cur, todo, readerVars, countVars>>

-----------------------------------------------------------------------------
(* Readers.                                                                 *)

(* attach on the reader's poller.  A dispatcher is known by the reader it   *)
(* was created for; it starts with a copy of the ring's cache.              *)
Attach(p, r) ==
  /\ open /\ PollerIdle(p) /\ ref[r] = "new"
  /\ LET d == IF disp[p] = None THEN r ELSE disp[p]
     IN  /\ disp' = [disp EXCEPT ![p] = d]
         /\ dstore' = IF d = r THEN [dstore EXCEPT ![d] = ring] ELSE dstore
         /\ dmap' = [dmap EXCEPT ![d] = @ \cup {r}]
         /\ owner' = [owner EXCEPT ![r] = d]
  /\ home' = [home EXCEPT ![r] = p]
  /\ ref' = [ref EXCEPT ![r] = "attached"]
  /\ SizeChanged(p, 1)
  /\ UNCHANGED <<open, streamVars, pollerVars, mark, seen, detached>>

(* setReadCB gives the callback the last gops the dispatcher has cached.    *)
(* (Their number is a parameter of attach; nothing else depends on it.)     *)
SetReadCB(r, gops) ==
  /\ ref[r] = "attached" /\ PollerIdle(home[r])
  /\ ref' = [ref EXCEPT ![r] = "listening"]
  /\ LET cached == FlushGop(dstore[owner[r]].cache, gops)
     IN  /\ seen' = [seen EXCEPT ![r] = Numbers(cached)]
         /\ mark' = [mark EXCEPT ![r] = IF cached = <<>> THEN written - Behind(r) ELSE 0]
  /\ UNCHANGED <<open, streamVars, mapVars, pollerVars, home, owner, detached, countVars>>

Leaves(r, to) ==
  /\ ref' = [ref EXCEPT ![r] = to]
  /\ seen' = [seen EXCEPT ![r] = <<>>]
  /\ mark' = [mark EXCEPT ![r] = 0]

(* The last reference goes on the poller's thread, in a callback perhaps:   *)
(* on_dealloc forgets the reader at once.                                   *)
Release(r) ==
  /\ Alive(r) /\ InCode(home[r])
  /\ Leaves(r, "gone")
  /\ Forget(home[r], r)
  /\ todo' = [todo EXCEPT ![home[r]] = @ \ {r}]
  /\ UNCHANGED <<open, streamVars, dstore, tasks, cur, home, owner, detached>>

(* ... or on another thread: by a task.                                     *)
ReleaseElsewhere(r) ==
  /\ Alive(r)
  /\ Leaves(r, "released")
  /\ tasks' = [tasks EXCEPT ![home[r]] = Append(@, [op |-> "dealloc", reader |-> r])]
  /\ UNCHANGED <<open, streamVars, mapVars, cur, todo, home, owner, detached,
                 countVars>>

-----------------------------------------------------------------------------
(* The pollers.                                                             *)

StartTask(p, op) ==
  /\ PollerIdle(p)
  /\ tasks[p] # <<>> /\ Head(tasks[p]).op = op
  /\ tasks' = [tasks EXCEPT ![p] = Tail(@)]

(* _RingReaderDispatcher::write visits the readers in any order             *)
StartWrite(p) ==
  /\ StartTask(p, "write")
  /\ cur' = [cur EXCEPT ![p] = Head(tasks[p])]
  /\ todo' = [todo EXCEPT ![p] = dmap[Head(tasks[p]).disp]]
  /\ UNCHANGED <<open, streamVars, mapVars, readerVars, countVars>>

(* ... gives the item to one that is alive                                  *)
OnRead(p, r) ==
  /\ InCode(p) /\ r \in todo[p] /\ Alive(r)
  /\ todo' = [todo EXCEPT ![p] = @ \ {r}]
  /\ seen' = IF ref[r] = "listening" THEN [seen EXCEPT ![r] = Append(@, cur[p].item.n)] ELSE seen
  /\ UNCHANGED <<open, streamVars, mapVars, tasks, cur, home, owner, ref, mark,
                 detached, countVars>>

(* ... forgets one that is not                                              *)
DropExpired(p, r) ==
  /\ InCode(p) /\ r \in todo[p] /\ ~Alive(r)
  /\ todo' = [todo EXCEPT ![p] = @ \ {r}]
  /\ Forget(p, r)
  /\ UNCHANGED <<open, streamVars, dstore, tasks, cur, readerVars>>

(* ... and caches the item.  The task was perhaps the last to hold its      *)
(* dispatcher.                                                              *)
EndWrite(p) ==
  /\ InCode(p) /\ cur[p] # None /\ todo[p] = {}
  /\ LET d == cur[p].disp
     IN  /\ dstore' = [dstore EXCEPT ![d] = WriteStorage(@, cur[p].item)]
         /\ cur' = [cur EXCEPT ![p] = None]
         /\ IF open \/ (\E i \in 1 .. Len(tasks[p]) : tasks[p][i].op # "dealloc"
                                                  /\ tasks[p][i].disp = d)
            THEN UNCHANGED <<dmap, detached>>
            ELSE Detach(d)
  /\ UNCHANGED <<open, streamVars, disp, tasks, todo, home, owner, ref, mark, seen, countVars>>

(* _RingReaderDispatcher::clearCache spares a cache with readers.           *)
RunClear(p) ==
  /\ StartTask(p, "clear")
  /\ LET d == Head(tasks[p]).disp
     IN  /\ dstore' = IF dmap[d] = {} THEN [dstore EXCEPT ![d] = ClearCache(@)] ELSE dstore
         /\ IF open \/ (\E i \in 2 .. Len(tasks[p]) : tasks[p][i].op # "dealloc"
                                                  /\ tasks[p][i].disp = d)
            THEN UNCHANGED <<dmap, detached>>
            ELSE Detach(d)
  /\ UNCHANGED <<open, streamVars, disp, cur, todo, home, owner, ref, mark, seen, countVars>>

RunDealloc(p) ==
  /\ StartTask(p, "dealloc")
  /\ LET r == Head(tasks[p]).reader
     IN  /\ ref' = [ref EXCEPT ![r] = "gone"]
         /\ Forget(p, r)
  /\ UNCHANGED <<open, streamVars, dstore, cur, todo, home, owner, mark, seen, detached>>

RunDelete(p) ==
  /\ StartTask(p, "delete")
  /\ Detach(Head(tasks[p]).disp)
  /\ UNCHANGED <<open, streamVars, disp, dstore, cur, todo, home, owner, ref, mark, seen,
                 countVars>>

(* onSizeChanged reports the count of all pollers.                          *)
OnReaderChanged(p) ==
  /\ p \in reporting
  /\ reporting' = reporting \ {p}
  /\ UNCHANGED <<open, streamVars, mapVars, pollerVars, readerVars, count>>

-----------------------------------------------------------------------------
PollerStep(p) ==
  \/ StartWrite(p) \/ EndWrite(p) \/ RunClear(p) \/ RunDealloc(p) \/ RunDelete(p)
  \/ OnReaderChanged(p)
  \/ \E r \in Readers : OnRead(p, r) \/ DropExpired(p, r)

Next ==
  \/ \E key \in BOOLEAN : Write(key)
  \/ Clear \/ Close
  \/ \E r \in Readers :
       \/ Release(r) \/ ReleaseElsewhere(r)
       \/ \E p \in Pollers : Attach(p, r)
       \/ \E gops \in GopLimits : SetReadCB(r, gops)
  \/ \E p \in Pollers : PollerStep(p)

Spec == Init /\ [][Next]_vars

-----------------------------------------------------------------------------
(* Properties.                                                              *)

TypeOK ==
  /\ open \in BOOLEAN
  /\ written \in 0 .. MaxWrites /\ firstKey \in 0 .. written
  /\ \A s \in {ring} \cup {dstore[d] : d \in Readers} :
       s \in Storages /\ Len(s.cache) <= MaxSize /\ Cardinality(Heads(s.cache)) <= MaxGops
  /\ disp \in [Pollers -> Readers \cup {None}]
  /\ dmap \in [Readers -> SUBSET Readers]
  /\ \A p \in Pollers : \A i \in 1 .. Len(tasks[p]) : tasks[p][i] \in Tasks
  /\ \A p \in Pollers : cur[p] = None => todo[p] = {}
  /\ todo \in [Pollers -> SUBSET Readers]
  /\ home \in [Readers -> Pollers \cup {None}] /\ owner \in [Readers -> Readers \cup {None}]
  /\ ref \in [Readers -> {"new", "attached", "listening", "released", "gone"}]
  /\ mark \in [Readers -> 0 .. MaxWrites]
  /\ seen \in [Readers -> Seq(1 .. MaxWrites)]
  /\ detached \in [Readers -> Nat]
  /\ count \in Nat
  /\ reporting \subseteq Pollers

(* What a reader got is one stretch of the stream: what was cached when it  *)
(* set its callback, then every later item once, up to those still queued   *)
(* for it (RingBuffer::write queues and caches under the lock under which   *)
(* attach copies the cache).                                                *)
Position(r) == IF seen[r] = <<>> THEN mark[r] ELSE seen[r][Len(seen[r])]

SeesEveryItem ==
  \A r \in Readers : ref[r] = "listening" =>
    /\ \A i \in 1 .. Len(seen[r]) - 1 : seen[r][i + 1] = seen[r][i] + 1
    /\ Position(r) + Behind(r) = written

(* A cache never starts in the middle of a gop: its oldest item is a key    *)
(* frame, unless none was written before it (_have_idr, popFrontGop).       *)
StartsAtKey ==
  \A s \in {ring} \cup {dstore[d] : d \in Readers} :
    s.cache # <<>> => s.cache[1].key \/ firstKey = 0 \/ s.cache[1].n < firstKey

(* _total_count counts the readers in the pollers' maps, each once whether  *)
(* write() or on_dealloc found it gone, and a poller is in the ring's map   *)
(* as long as it has readers.                                               *)
CountsReaders ==
  open =>
    /\ count = Cardinality({r \in Readers : Registered(r)})
    /\ \A p \in Pollers : disp[p] # None <=> \E r \in Readers : home[r] = p /\ Registered(r)

(* A reader is told that the ring is gone: once, after it was given all     *)
(* that was written (queued writes hold the dispatcher), and before its     *)
(* poller has nothing left to do.                                           *)
DetachedLast ==
  \A r \in Readers :
    /\ detached[r] <= 1
    /\ detached[r] = 1 => ~open /\ Behind(r) = 0
    /\ ~open /\ Alive(r) /\ PollerIdle(home[r]) /\ tasks[home[r]] = <<>> => detached[r] = 1

(* RingBuffer: a reader gets one stretch of what is written, the caches it  *)
(* is served from start at key frames, and readers are counted once and     *)
(* told once and last that the ring is gone.                                *)
ReadersServed == SeesEveryItem /\ StartsAtKey /\ CountsReaders /\ DetachedLast

=============================================================================
