------------------------------ MODULE Executors ------------------------------
(***************************************************************************)
(* Choosing an executor of a pool (src/src/Thread/TaskExecutor.cpp): the   *)
(* load of a thread from its last sleeps, the executor of the least load,  *)
(* and the two calls that ask every executor: getExecutor with a callback, *)
(* and getExecutorDelay.  Executors are numbered by their place in         *)
(* _threads.                                                               *)
(***************************************************************************)
EXTENDS Naturals, Sequences

CONSTANTS
  PoolSize,     \* executors of the pool
  MaxRecords,  \* samples a load counter keeps (32 in the code)
  Window,   \* _max_usec
  MaxTime   \* bound of the clock

ASSUME ExecutorAssumption == {PoolSize, MaxRecords, Window, MaxTime} \subseteq Nat \ {0}

Executors == 0 .. PoolSize - 1

VARIABLES
  now,
  sleeping,  \* _sleeping of each executor
  since,     \* _last_sleep_time or _last_wake_time, whichever is later
  records,   \* _time_list: [time, sleep]
  busy,      \* the ticks it ran (history)
  pos,       \* _thread_pos
  picked,    \* the last choices of getExecutor and the loads then (history)
  asked,     \* executors that a pending getExecutorDelay has posted to
  answered,  \* those whose task has run
  caller,    \* "none", "posts" while it holds `finished', "left"
  reports,   \* the results given to the callback
  offers,    \* executors whose task of getExecutor(cb) has not run
  given      \* the executors given to cb

loadVars == <<now, sleeping, since, records, busy>>
pickVars == <<pos, picked>>
delayVars == <<asked, answered, caller, reports>>
offerVars == <<offers, given>>
exeVars == <<loadVars, pickVars, delayVars, offerVars>>

ExeInit ==
  /\ now = 0
  /\ sleeping = [e \in Executors |-> TRUE] /\ since = [e \in Executors |-> 0]
  /\ records = [e \in Executors |-> <<>>] /\ busy = [e \in Executors |-> {}]
  /\ pos = 0 /\ picked = <<>>
  /\ asked = {} /\ answered = {} /\ caller = "none" /\ reports = <<>>
  /\ offers = {} /\ given = <<>>

(* The loads are followed apart from the other calls, lest these multiply   *)
(* the states.                                                              *)
Apart == caller = "none" /\ offers = {} /\ given = <<>>

-----------------------------------------------------------------------------
(* ThreadLoadCounter                                                        *)

Tick ==
  /\ Apart /\ now < MaxTime
  /\ now' = now + 1
  /\ busy' = [e \in Executors |-> IF sleeping[e] THEN busy[e] ELSE busy[e] \cup {now'}]
  /\ UNCHANGED <<sleeping, since, records, pickVars, delayVars, offerVars>>

Kept(list) == IF Len(list) > MaxRecords THEN Tail(list) ELSE list

(* Mutant: the record says what begins, not what ended.                     *)
SwitchEarly(e) ==
  /\ Apart
  /\ sleeping' = [sleeping EXCEPT ![e] = ~@]
  /\ since' = [since EXCEPT ![e] = now]
  /\ records' = [records EXCEPT
                   ![e] = Kept(Append(@, [time |-> now - since[e], sleep |-> ~sleeping[e]]))]
  /\ UNCHANGED <<now, busy, pickVars, delayVars, offerVars>>

(* startSleep and sleepWakeUp.                                              *)
Switch(e) ==
  /\ Apart
  /\ sleeping' = [sleeping EXCEPT ![e] = ~@]
  /\ since' = [since EXCEPT ![e] = now]
  /\ records' = [records EXCEPT
                   ![e] = Kept(Append(@, [time |-> now - since[e], sleep |-> sleeping[e]]))]
  /\ UNCHANGED <<now, busy, pickVars, delayVars, offerVars>>

Total(list) ==
  LET upTo[n \in 0 .. Len(list)] == IF n = 0 THEN 0 ELSE upTo[n - 1] + list[n].time
  IN  upTo[Len(list)]

(* What load() leaves of the list: the latest records that fit the window.  *)
Trimmed(e) ==
  LET Rest(k) == SubSeq(records[e], k + 1, Len(records[e]))
      Fits(k) == Total(Rest(k)) + now - since[e] <= Window
      drop == CHOOSE k \in 0 .. Len(records[e]) :
                /\ Fits(k) \/ k = Len(records[e])
                /\ \A j \in 0 .. k - 1 : ~Fits(j)
  IN  Rest(drop)

Covered(e) == Total(Trimmed(e)) + now - since[e]

Load(e) ==
  LET ran == Total(SelectSeq(Trimmed(e), LAMBDA r : ~r.sleep))
               + IF sleeping[e] THEN 0 ELSE now - since[e]
  IN  IF Covered(e) = 0 THEN 0 ELSE (ran * 100) \div Covered(e)

-----------------------------------------------------------------------------
(* getExecutor: from _thread_pos on, until one has no load.                 *)
GetExecutor ==
  LET At(k) == (pos + k) % PoolSize
      last == CHOOSE k \in 1 .. PoolSize :
                /\ k = PoolSize \/ \E j \in 0 .. k : Load(At(j)) = 0
                /\ \A k2 \in 1 .. k - 1 : \A j \in 0 .. k2 : Load(At(j)) # 0
      best == CHOOSE k \in 0 .. last :
                /\ \A j \in 0 .. last : Load(At(k)) <= Load(At(j))
                /\ \A j \in 0 .. k - 1 : Load(At(k)) < Load(At(j))
  IN  /\ Apart /\ Len(picked) < 2
      /\ picked' = Append(picked, [exe |-> At(best), load |-> [e \in Executors |-> Load(e)]])
      /\ pos' = At(last)
      /\ records' = [e \in Executors |-> IF \E k \in 0 .. last : e = At(k)
                                         THEN Trimmed(e) ELSE records[e]]
      /\ UNCHANGED <<now, sleeping, since, busy, delayVars, offerVars>>

-----------------------------------------------------------------------------
(* getExecutorDelay: every task and the caller hold `finished', whose last  *)
(* owner calls the callback.                                                *)

AskDelay ==
  /\ Apart /\ now = 0 /\ records = [e \in Executors |-> <<>>]
  /\ caller' = "posts"
  /\ UNCHANGED <<loadVars, pickVars, offerVars, asked, answered, reports>>

PostDelay(e) ==
  /\ caller = "posts" /\ e \notin asked /\ \A d \in 0 .. e - 1 : d \in asked
  /\ asked' = asked \cup {e}
  /\ UNCHANGED <<loadVars, pickVars, offerVars, answered, caller, reports>>

(* Mutant: only the tasks count.                                            *)
DelayDoneByTasks(done, by) ==
  reports' = IF asked \subseteq done THEN Append(reports, done) ELSE reports

DelayDone(done, by) ==
  reports' = IF asked \subseteq done /\ by = "left" THEN Append(reports, done) ELSE reports

RunDelay(e) ==
  /\ e \in asked \ answered
  /\ answered' = answered \cup {e}
  /\ DelayDone(answered', caller)
  /\ UNCHANGED <<loadVars, pickVars, offerVars, asked, caller>>

CallerLeaves ==
  /\ caller = "posts" /\ asked = Executors
  /\ caller' = "left"
  /\ DelayDone(answered, caller')
  /\ UNCHANGED <<loadVars, pickVars, offerVars, asked, answered>>

-----------------------------------------------------------------------------
(* getExecutor(cb): every executor gets a task, and the first to run it     *)
(* offers itself; _done lets one of them call cb.                           *)

OfferAll ==
  /\ Apart /\ now = 0 /\ records = [e \in Executors |-> <<>>]
  /\ offers' = Executors
  /\ UNCHANGED <<loadVars, pickVars, delayVars, given>>

RunOffer(e) ==
  /\ e \in offers
  /\ offers' = offers \ {e}
  /\ given' = IF given = <<>> THEN <<e>> ELSE given
  /\ UNCHANGED <<loadVars, pickVars, delayVars>>

-----------------------------------------------------------------------------
ExeNext ==
  \/ Tick \/ GetExecutor \/ AskDelay \/ CallerLeaves \/ OfferAll
  \/ \E e \in Executors : Switch(e) \/ PostDelay(e) \/ RunDelay(e) \/ RunOffer(e)

ExeSpec == ExeInit /\ [][ExeNext]_exeVars

-----------------------------------------------------------------------------
(* Properties.                                                              *)

ExeTypeOK ==
  /\ now \in 0 .. MaxTime /\ sleeping \in [Executors -> BOOLEAN]
  /\ \A e \in Executors : since[e] \in 0 .. now /\ Len(records[e]) <= MaxRecords
  /\ pos \in Executors /\ asked \subseteq Executors /\ answered \subseteq asked

(* A load is the share of the ticks that the thread ran in the time its     *)
(* records cover, so it stays within 0 and 100 however samples are dropped  *)
(* (ThreadLoadCounter::load); the executor chosen has the least load, and   *)
(* two calls on an idle pool get two executors (getExecutor).               *)
LeastLoaded ==
  /\ \A e \in Executors :
       LET ran == {t \in busy[e] : t > now - Covered(e)}
       IN  Covered(e) > 0 => Load(e) = (100 * Total([i \in 1 .. now |-> [time |->
                                               IF i \in ran THEN 1 ELSE 0]])) \div Covered(e)
  /\ \A i \in 1 .. Len(picked) : \A e \in Executors : picked[i].load[picked[i].exe] <= picked[i].load[e]
  /\ PoolSize > 1 /\ Len(picked) = 2 /\ (\A i \in 1 .. 2 : \A e \in Executors : picked[i].load[e] = 0)
       => picked[1].exe # picked[2].exe

(* The callback of getExecutorDelay is called once, when the last executor  *)
(* has answered, though the first may answer before the others are asked;   *)
(* that of getExecutor is called by the first executor only.                *)
DelaysReported ==
  /\ \A i \in 1 .. Len(reports) : reports[i] = Executors
  /\ Len(reports) = IF caller = "left" /\ answered = Executors THEN 1 ELSE 0
  /\ Len(given) <= 1 /\ \A i \in DOMAIN given : given[i] \notin offers

=============================================================================
