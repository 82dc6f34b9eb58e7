----------------------------- MODULE ThreadPool -----------------------------
(***************************************************************************)
(* ThreadPool (src/src/Thread/ThreadPool.h) over TaskQueue.h: a list of    *)
(* tasks under a mutex and a semaphore that counts them, so that adding a  *)
(* task and posting the semaphore are two steps.  The semaphore is a       *)
(* counter and a condition variable (semaphore.h).  The destructor posts   *)
(* once for each thread; a thread that is woken and finds no task ends.    *)
(***************************************************************************)
EXTENDS Naturals, Sequences, FiniteSets

CONSTANTS
  Users,       \* threads outside the pool
  Workers,     \* threads of the pool
  MaxPoolTasks, \* bound: tasks made
  NoTask

ASSUME PoolAssumption ==
  /\ Users \cap Workers = {} /\ IsFiniteSet(Workers) /\ Workers # {}
  /\ MaxPoolTasks \in Nat /\ NoTask \notin Nat

PoolTasks == 1 .. MaxPoolTasks

VARIABLES
  queue,     \* _queue of the TaskQueue
  permits,   \* _count of its semaphore
  posting,   \* threads that have added a task and not yet posted
  worker,    \* of each thread of the pool: see WorkerStates
  running,   \* the task it runs
  made,      \* tasks made so far
  ran,       \* of each task, how often it ran
  cancelled, \* tasks whose _strongTask was reset
  pool       \* "up", "ending" (~ThreadPool joins) or "ended"

poolVars == <<queue, permits, posting, worker, running, made, ran, cancelled, pool>>

(* "asleep": in _condition.wait, without a notification.                    *)
WorkerStates == {"waits", "asleep", "takes", "runs", "over"}

PoolInit ==
  /\ queue = <<>> /\ permits = 0 /\ posting = {}
  /\ worker = [w \in Workers |-> "waits"] /\ running = [w \in Workers |-> NoTask]
  /\ made = 0 /\ ran = [t \in PoolTasks |-> 0] /\ cancelled = {}
  /\ pool = "up"

Becomes(w, state) == worker' = [worker EXCEPT ![w] = state]
Sleepers == {w \in Workers : worker[w] = "asleep"}

-----------------------------------------------------------------------------
(* A user, or a task that runs in the pool.                                 *)
May(a) ==
  /\ a \notin posting
  /\ IF a \in Users THEN pool = "up" ELSE worker[a] = "runs"

(* async and async_first with may_sync false, or outside the pool.          *)
Push(a, first) ==
  /\ May(a) /\ made < MaxPoolTasks
  /\ made' = made + 1
  /\ queue' = IF first THEN <<made'>> \o queue ELSE Append(queue, made')
  /\ posting' = posting \cup {a}
  /\ UNCHANGED <<permits, worker, running, ran, cancelled, pool>>

(* async in a thread of the pool.                                           *)
RunInline(w) ==
  /\ May(w) /\ made < MaxPoolTasks
  /\ made' = made + 1
  /\ ran' = [ran EXCEPT ![made'] = @ + 1]
  /\ UNCHANGED <<queue, permits, posting, worker, running, cancelled, pool>>

Cancel(t) ==
  /\ t <= made /\ t \notin cancelled
  /\ cancelled' = cancelled \cup {t}
  /\ UNCHANGED <<queue, permits, posting, worker, running, made, ran, pool>>

(* Mutant: one thread is notified, however many permits there are.          *)
PostOne(n) ==
  /\ permits' = permits + n
  /\ \/ Sleepers = {} /\ UNCHANGED worker
     \/ \E w \in Sleepers : Becomes(w, "waits")

(* notify_one for one permit, notify_all for more.                          *)
SemPost(n) ==
  /\ permits' = permits + n
  /\ \/ Sleepers = {} /\ UNCHANGED worker
     \/ n = 1 /\ \E w \in Sleepers : Becomes(w, "waits")
     \/ n # 1 /\ worker' = [w \in Workers |-> IF w \in Sleepers THEN "waits" ELSE worker[w]]

PostTask(a) ==
  /\ a \in posting
  /\ posting' = posting \ {a}
  /\ SemPost(1)
  /\ UNCHANGED <<queue, running, made, ran, cancelled, pool>>

-----------------------------------------------------------------------------
(* ThreadPool::run                                                          *)

SemWait(w) ==
  /\ worker[w] = "waits"
  /\ IF permits = 0
     THEN Becomes(w, "asleep") /\ UNCHANGED permits
     ELSE Becomes(w, "takes") /\ permits' = permits - 1
  /\ UNCHANGED <<queue, posting, running, made, ran, cancelled, pool>>

TakeTask(w) ==
  /\ worker[w] = "takes" /\ queue # <<>>
  /\ queue' = Tail(queue)
  /\ running' = [running EXCEPT ![w] = Head(queue)]
  /\ Becomes(w, "runs")
  /\ ran' = IF Head(queue) \in cancelled THEN ran ELSE [ran EXCEPT ![Head(queue)] = @ + 1]
  /\ UNCHANGED <<permits, posting, made, cancelled, pool>>

TaskReturns(w) ==
  /\ worker[w] = "runs" /\ w \notin posting
  /\ running' = [running EXCEPT ![w] = NoTask]
  /\ Becomes(w, "waits")
  /\ UNCHANGED <<queue, permits, posting, made, ran, cancelled, pool>>

ThreadEnds(w) ==
  /\ worker[w] = "takes" /\ queue = <<>>
  /\ Becomes(w, "over")
  /\ UNCHANGED <<queue, permits, posting, running, made, ran, cancelled, pool>>

-----------------------------------------------------------------------------
(* ~ThreadPool: nobody else uses the pool any more.                         *)

Shutdown ==
  /\ pool = "up" /\ posting \cap Users = {}
  /\ pool' = "ending"
  /\ SemPost(Cardinality(Workers))
  /\ UNCHANGED <<queue, posting, running, made, ran, cancelled>>

JoinAll ==
  /\ pool = "ending" /\ \A w \in Workers : worker[w] = "over"
  /\ pool' = "ended"
  /\ UNCHANGED <<queue, permits, posting, worker, running, made, ran, cancelled>>

-----------------------------------------------------------------------------
PoolNext ==
  \/ \E a \in Users \cup Workers : PostTask(a) \/ \E first \in BOOLEAN : Push(a, first)
  \/ \E t \in PoolTasks : Cancel(t)
  \/ \E w \in Workers :
       RunInline(w) \/ SemWait(w) \/ TakeTask(w) \/ TaskReturns(w) \/ ThreadEnds(w)
  \/ Shutdown \/ JoinAll

PoolSpec == PoolInit /\ [][PoolNext]_poolVars

-----------------------------------------------------------------------------
(* Properties.                                                              *)

PoolTypeOK ==
  /\ queue \in Seq(PoolTasks) /\ permits \in Nat
  /\ posting \subseteq Users \cup Workers
  /\ worker \in [Workers -> WorkerStates] /\ running \in [Workers -> PoolTasks \cup {NoTask}]
  /\ made \in 0 .. MaxPoolTasks /\ ran \in [PoolTasks -> Nat] /\ cancelled \subseteq PoolTasks
  /\ pool \in {"up", "ending", "ended"}

Quiet == posting = {} /\ \A w \in Workers : worker[w] \in {"asleep", "over"}

(* The permits cover the tasks: when everybody waits, nothing is left that  *)
(* a thread could take, so that no task is stranded and ~ThreadPool's join  *)
(* returns; and it returns only after every task ran that was not cancelled *)
(* though tasks add more tasks meanwhile (TaskQueue::push_task's order,     *)
(* semaphore::post, push_exit).                                             *)
NoTaskStranded ==
  /\ Quiet => queue = <<>> /\ permits = 0 /\ (pool # "up" => Sleepers = {})
  /\ \A t \in PoolTasks : ran[t] <= 1
  /\ pool = "ended" => \A t \in 1 .. made : ran[t] = 1 \/ t \in cancelled

=============================================================================
