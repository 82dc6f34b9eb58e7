---------------------------- MODULE PollerTasks ----------------------------
(***************************************************************************)
(* The task list of an EventPoller, the pipe that wakes its loop, and its  *)
(* life cycle (src/src/Poller/EventPoller.cpp, epoll build).               *)
(*                                                                         *)
(* Any thread that holds a reference may append a task, put one in front,  *)
(* or start a delay task.  The loop thread sleeps in epoll_wait and is     *)
(* woken by a byte in the pipe, which is written after the task list has   *)
(* been unlocked.  The thread that releases the last reference destroys    *)
(* the poller: another thread makes the loop exit and joins it, the loop   *)
(* thread itself only raises flags and is destroyed after runLoop returns. *)
(***************************************************************************)
EXTENDS Naturals, Sequences

CONSTANTS
  Threads,    \* threads other than the loop thread
  Tasks,      \* tasks, each submitted at most once
  Loop,       \* the loop thread
  Exit,       \* the task that throws ExitException
  Nobody,     \* no thread, no task
  PipeCap,    \* bound: bytes the pipe holds before a write fails with EAGAIN
  ReadMax,    \* bound: bytes one read of the pipe takes
  Kinds,      \* the kinds of submission explored
  Captures    \* whether a closure may hold a reference to the poller

ASSUME LoopAssumption == Loop \notin Threads /\ Nobody \notin Threads \cup {Loop}
ASSUME TaskAssumption == Exit \notin Tasks /\ Nobody \notin Tasks \cup {Exit}
ASSUME HolderAssumption == (Threads \cup {Loop}) \cap (Tasks \cup {Exit}) = {}
ASSUME PipeAssumption == PipeCap \in Nat \ {0} /\ ReadMax \in Nat \ {0}
ASSUME KindAssumption == /\ Kinds \subseteq {"back", "first", "delay"}
                         /\ Captures \subseteq BOOLEAN

VARIABLES
  list,       \* _list_task, under _mtx_task
  swap,       \* _list_swap: the batch onPipeEvent is running
  pipe,       \* bytes in the pipe
  edge,       \* epoll has an edge of the pipe's read end to report
  exitFlag,   \* _exit_flag
  pending,    \* _pending_delete
  loopPc,     \* where the loop thread is
  writing,    \* threads that have linked a task and not yet written the pipe
  sync,       \* the task a thread waits for in sync(), or Nobody
  refs,       \* holders of a strong reference: threads and task closures
  destroyer,  \* the thread running ~EventPoller, or Nobody
  dtorPc,     \* where it is
  timers,     \* _delay_task_map
  kind,       \* how a task was submitted
  cancelled,  \* tasks whose handle was cancelled
  ran         \* tasks in the order they started (history)

vars == <<list, swap, pipe, edge, exitFlag, pending, loopPc, writing, sync, refs,
          destroyer, dtorPc, timers, kind, cancelled, ran>>

lifeVars == <<pending, refs, destroyer, dtorPc>>
wakeVars == <<pipe, edge, writing>>

LoopPcs == {"check", "delay", "wait", "read", "swap", "run", "ended"}
DtorPcs == {"none", "join", "flush", "run", "gone"}

RanSet == {ran[i] : i \in 1..Len(ran)}

-----------------------------------------------------------------------------
(* PipeWrap::write of one byte on the non-blocking end.  A full pipe makes  *)
(* it fail unnoticed.  An edge is only promised when the pipe was empty.    *)
PipeWrite ==
  /\ pipe' = IF pipe < PipeCap THEN pipe + 1 ELSE pipe
  /\ edge' = IF pipe = 0 THEN TRUE ELSE edge

Busy(th) ==
  \/ th \in writing
  \/ sync[th] # Nobody
  \/ destroyer = th

-----------------------------------------------------------------------------
(* Releasing references.  The holders D lose theirs on thread th; when they *)
(* were the last, EventPoller::destroy runs on th.                          *)

LastRef(D) == refs # {} /\ refs \subseteq D

(* Mutant: destroy() that raises the flags and leaves the loop asleep.      *)
DeferDestroyAsleep ==
  /\ pending' = TRUE
  /\ exitFlag' = TRUE
  /\ UNCHANGED <<pipe, edge>>

(* destroy() on the loop's own thread: flags, and a byte to wake the loop.  *)
DeferDestroy ==
  /\ pending' = TRUE
  /\ exitFlag' = TRUE
  /\ PipeWrite

ReleaseOnLoop(D) ==
  /\ refs' = refs \ D
  /\ IF LastRef(D) THEN DeferDestroy
                   ELSE UNCHANGED <<pending, exitFlag, pipe, edge>>
  /\ UNCHANGED <<writing, destroyer, dtorPc>>

(* destroy() on another thread: delete, whose shutdown() puts the exit task *)
(* in front, writes the pipe and joins the loop.                            *)
ReleaseOn(th, D) ==
  /\ refs' = refs \ D
  /\ IF LastRef(D)
     THEN /\ list' = <<Exit>> \o list
          /\ writing' = writing \cup {th}
          /\ destroyer' = th
          /\ dtorPc' = "join"
     ELSE UNCHANGED <<list, writing, destroyer, dtorPc>>
  /\ UNCHANGED <<pending, exitFlag, pipe, edge>>

-----------------------------------------------------------------------------
Init ==
  /\ list = <<>> /\ swap = <<>>
  /\ pipe = 0 /\ edge = FALSE
  /\ exitFlag = FALSE /\ pending = FALSE
  /\ loopPc = "check"
  /\ writing = {}
  /\ sync = [th \in Threads |-> Nobody]
  /\ refs = Threads
  /\ destroyer = Nobody /\ dtorPc = "none"
  /\ timers = {}
  /\ kind = [t \in Tasks |-> "none"]
  /\ cancelled = {}
  /\ ran = <<>>

(* Mutant: every task is put in front.                                      *)
LinkInFront(th, t, k, capture) ==
  /\ kind[t] = "none"
  /\ kind' = [kind EXCEPT ![t] = k]
  /\ list' = <<t>> \o list
  /\ writing' = writing \cup {th}
  /\ refs' = IF capture THEN refs \cup {t} ELSE refs

(* async_l: link the task under the lock.  The pipe is written afterwards.  *)
Link(th, t, k, capture) ==
  /\ kind[t] = "none"
  /\ kind' = [kind EXCEPT ![t] = k]
  /\ list' = IF k = "back" THEN Append(list, t) ELSE <<t>> \o list
  /\ writing' = writing \cup {th}
  /\ refs' = IF capture THEN refs \cup {t} ELSE refs

(* async, async_first or doDelayTask called by another thread.              *)
Async(th, t, k, capture) ==
  /\ th \in refs /\ ~Busy(th)
  /\ Link(th, t, k, capture)
  /\ UNCHANGED <<swap, pipe, edge, exitFlag, pending, loopPc, sync, destroyer,
                 dtorPc, timers, cancelled, ran>>

(* sync and sync_first: async, then wait for the semaphore the task posts.  *)
Sync(th, t, k) ==
  /\ k # "delay"
  /\ th \in refs /\ ~Busy(th)
  /\ Link(th, t, k, FALSE)
  /\ sync' = [sync EXCEPT ![th] = t]
  /\ UNCHANGED <<swap, pipe, edge, exitFlag, pending, loopPc, destroyer, dtorPc,
                 timers, cancelled, ran>>

SyncDone(th) ==
  /\ sync[th] \in RanSet
  /\ th \notin writing
  /\ sync' = [sync EXCEPT ![th] = Nobody]
  /\ UNCHANGED <<list, swap, pipe, edge, exitFlag, loopPc, writing, timers, kind,
                 cancelled, ran, lifeVars>>

WritePipe(th) ==
  /\ th \in writing
  /\ writing' = writing \ {th}
  /\ PipeWrite
  /\ UNCHANGED <<list, swap, exitFlag, loopPc, sync, timers, kind, cancelled, ran,
                 lifeVars>>

(* Task::cancel on another thread destroys the closure there.               *)
Cancel(th, t) ==
  /\ ~Busy(th)
  /\ kind[t] # "none" /\ t \notin RanSet \cup cancelled
  /\ \A other \in Threads : sync[other] # t
  /\ cancelled' = cancelled \cup {t}
  /\ ReleaseOn(th, {t})
  /\ UNCHANGED <<swap, loopPc, sync, timers, kind, ran>>

DropRef(th) ==
  /\ th \in refs /\ ~Busy(th)
  /\ ReleaseOn(th, {th})
  /\ UNCHANGED <<swap, loopPc, sync, timers, kind, cancelled, ran>>

-----------------------------------------------------------------------------
(* The loop thread.                                                         *)

LoopAt(pc) == loopPc = pc /\ Loop \notin writing

(* while (!_exit_flag): on exit runLoop returns.                            *)
CheckExit ==
  /\ LoopAt("check")
  /\ loopPc' = IF exitFlag THEN "ended" ELSE "delay"
  /\ UNCHANGED <<list, swap, exitFlag, sync, timers, kind, cancelled, ran, lifeVars,
                 wakeVars>>

(* flushDelayTask: an expired task runs and its closure is destroyed.       *)
FireTimer(t) ==
  /\ LoopAt("delay")
  /\ t \in timers
  /\ timers' = timers \ {t}
  /\ ran' = IF t \in cancelled THEN ran ELSE Append(ran, t)
  /\ ReleaseOnLoop({t})
  /\ UNCHANGED <<list, swap, loopPc, sync, kind, cancelled>>

EnterWait ==
  /\ LoopAt("delay")
  /\ loopPc' = "wait"
  /\ UNCHANGED <<list, swap, exitFlag, sync, timers, kind, cancelled, ran, lifeVars,
                 wakeVars>>

(* epoll_wait returns the edge of the pipe.                                 *)
Wake ==
  /\ LoopAt("wait")
  /\ edge /\ pipe > 0
  /\ edge' = FALSE
  /\ loopPc' = "read"
  /\ UNCHANGED <<list, swap, pipe, exitFlag, writing, sync, timers, kind, cancelled,
                 ran, lifeVars>>

(* epoll_wait times out: nothing to report, and a timer pending (minDelay   *)
(* is -1 otherwise).                                                        *)
TimeOut ==
  /\ LoopAt("wait")
  /\ ~(edge /\ pipe > 0)
  /\ timers # {}
  /\ loopPc' = "check"
  /\ UNCHANGED <<list, swap, exitFlag, sync, timers, kind, cancelled, ran, lifeVars,
                 wakeVars>>

(* Mutant: one read of the pipe, not until it is empty.                     *)
ReadPipeOnce ==
  /\ LoopAt("read")
  /\ pipe' = IF pipe > ReadMax THEN pipe - ReadMax ELSE 0
  /\ loopPc' = "swap"
  /\ UNCHANGED <<list, swap, edge, exitFlag, writing, sync, timers, kind, cancelled,
                 ran, lifeVars>>

(* onPipeEvent: read until EAGAIN, then take the whole list.                *)
ReadPipe ==
  /\ LoopAt("read")
  /\ IF pipe > 0
     THEN /\ pipe' = IF pipe > ReadMax THEN pipe - ReadMax ELSE 0
          /\ UNCHANGED loopPc
     ELSE /\ loopPc' = "swap"
          /\ UNCHANGED pipe
  /\ UNCHANGED <<list, swap, edge, exitFlag, writing, sync, timers, kind, cancelled,
                 ran, lifeVars>>

(* Mutant: one task is taken per wake-up, as if each had a byte of its own.  *)
TakeOne ==
  /\ LoopAt("swap")
  /\ swap' = IF list = <<>> THEN <<>> ELSE <<Head(list)>>
  /\ list' = IF list = <<>> THEN <<>> ELSE Tail(list)
  /\ loopPc' = "run"
  /\ UNCHANGED <<exitFlag, sync, timers, kind, cancelled, ran, lifeVars, wakeVars>>

(* _list_swap.swap(_list_task).                                             *)
TakeList ==
  /\ LoopAt("swap")
  /\ swap' = list
  /\ list' = <<>>
  /\ loopPc' = "run"
  /\ UNCHANGED <<exitFlag, sync, timers, kind, cancelled, ran, lifeVars, wakeVars>>

(* What calling a task of the batch does to timers and to the history.      *)
Execute(t) ==
  /\ timers' = IF t # Exit /\ kind[t] = "delay" THEN timers \cup {t} ELSE timers
  /\ ran' = IF t = Exit \/ t \in cancelled \/ kind[t] = "delay"
            THEN ran ELSE Append(ran, t)

(* One task of the batch; it may itself release the reference it holds.     *)
RunTask(early) ==
  /\ LoopAt("run")
  /\ swap # <<>>
  /\ swap' = Tail(swap)
  /\ Execute(Head(swap))
  /\ IF Head(swap) = Exit
     THEN /\ exitFlag' = TRUE
          /\ UNCHANGED <<pipe, edge, writing, lifeVars>>
     ELSE ReleaseOnLoop(IF early /\ kind[Head(swap)] # "delay"
                        THEN {Head(swap)} ELSE {})
  /\ UNCHANGED <<list, loopPc, sync, kind, cancelled>>

(* The batch is destroyed, and with it the closures of the tasks it ran.    *)
EndBatch ==
  /\ LoopAt("run")
  /\ swap = <<>>
  /\ loopPc' = "check"
  /\ ReleaseOnLoop({t \in Tasks : kind[t] # "delay" /\ t \in RanSet})
  /\ UNCHANGED <<list, swap, sync, timers, kind, cancelled, ran>>

(* Code on the loop thread submits a task: inline when may_sync, else as    *)
(* any other thread does.                                                   *)
LoopInline(t) ==
  /\ LoopAt("run") /\ refs # {}
  /\ kind[t] = "none"
  /\ kind' = [kind EXCEPT ![t] = "inline"]
  /\ ran' = Append(ran, t)
  /\ UNCHANGED <<list, swap, exitFlag, loopPc, sync, timers, cancelled, lifeVars,
                 wakeVars>>

LoopDelay(t, capture) ==
  /\ LoopAt("run") /\ refs # {}
  /\ kind[t] = "none"
  /\ kind' = [kind EXCEPT ![t] = "delay"]
  /\ timers' = timers \cup {t}
  /\ refs' = IF capture THEN refs \cup {t} ELSE refs
  /\ UNCHANGED <<list, swap, exitFlag, pending, loopPc, sync, destroyer, dtorPc,
                 cancelled, ran, wakeVars>>

LoopAsync(t, k, capture) ==
  /\ LoopAt("run") /\ refs # {} /\ k # "delay"
  /\ Link(Loop, t, k, capture)
  /\ UNCHANGED <<swap, pipe, edge, exitFlag, pending, loopPc, sync, destroyer,
                 dtorPc, timers, cancelled, ran>>

-----------------------------------------------------------------------------
(* ~EventPoller.                                                            *)

(* The thread function after runLoop, with _pending_delete: delete this,    *)
(* whose shutdown() links the exit task again and has nobody to join.       *)
DeleteSelf ==
  /\ LoopAt("ended") /\ pending
  /\ dtorPc = "none"
  /\ destroyer' = Loop
  /\ dtorPc' = "flush"
  /\ list' = <<Exit>> \o list
  /\ writing' = writing \cup {Loop}
  /\ UNCHANGED <<swap, pipe, edge, exitFlag, pending, loopPc, sync, refs, timers, kind,
                 cancelled, ran>>

(* Mutant: shutdown() detaches the loop thread instead of joining it.       *)
JoinDetached ==
  /\ dtorPc = "join"
  /\ destroyer \notin writing
  /\ dtorPc' = "flush"
  /\ UNCHANGED <<list, swap, exitFlag, pending, loopPc, sync, refs, destroyer, timers,
                 kind, cancelled, ran, wakeVars>>

Join ==
  /\ dtorPc = "join"
  /\ destroyer \notin writing
  /\ loopPc = "ended"
  /\ dtorPc' = "flush"
  /\ UNCHANGED <<list, swap, exitFlag, pending, loopPc, sync, refs, destroyer, timers,
                 kind, cancelled, ran, wakeVars>>

(* Mutant: the destructor does not flush the task list.                     *)
FlushNothing ==
  /\ dtorPc = "flush"
  /\ destroyer \notin writing
  /\ dtorPc' = "run"
  /\ UNCHANGED <<list, swap, exitFlag, pending, loopPc, sync, refs, destroyer, timers,
                 kind, cancelled, ran, wakeVars>>

(* onPipeEvent(true): run what is left without reading the pipe.            *)
FlushTake ==
  /\ dtorPc = "flush"
  /\ destroyer \notin writing
  /\ dtorPc' = "run"
  /\ swap' = list
  /\ list' = <<>>
  /\ UNCHANGED <<exitFlag, pending, loopPc, sync, refs, destroyer, timers, kind,
                 cancelled, ran, wakeVars>>

FlushRun ==
  /\ dtorPc = "run"
  /\ swap # <<>>
  /\ swap' = Tail(swap)
  /\ Execute(Head(swap))
  /\ exitFlag' = (exitFlag \/ Head(swap) = Exit)
  /\ UNCHANGED <<list, loopPc, sync, kind, cancelled, lifeVars, wakeVars>>

FlushEnd ==
  /\ dtorPc = "run"
  /\ swap = <<>>
  /\ dtorPc' = "gone"
  /\ UNCHANGED <<list, swap, exitFlag, pending, loopPc, sync, refs, destroyer, timers,
                 kind, cancelled, ran, wakeVars>>

-----------------------------------------------------------------------------
LoopStep ==
  \/ CheckExit \/ EnterWait \/ Wake \/ TimeOut \/ ReadPipe \/ TakeList
  \/ \E t \in Tasks : FireTimer(t)
  \/ \E early \in BOOLEAN : RunTask(early)
  \/ EndBatch \/ DeleteSelf
  \/ WritePipe(Loop)

LoopSubmit ==
  \E t \in Tasks :
    \/ LoopInline(t)
    \/ \E k \in Kinds, capture \in Captures :
         \/ LoopAsync(t, k, capture)
         \/ k = "delay" /\ LoopDelay(t, capture)

ThreadStep(th) == SyncDone(th) \/ WritePipe(th)

DtorStep == Join \/ FlushTake \/ FlushRun \/ FlushEnd

UserStep(th) ==
  \/ DropRef(th)
  \/ \E t \in Tasks :
       \/ Cancel(th, t)
       \/ \E k \in Kinds :
            \/ Sync(th, t, k)
            \/ \E capture \in Captures : Async(th, t, k, capture)

Next ==
  \/ LoopStep \/ LoopSubmit \/ DtorStep
  \/ \E th \in Threads : ThreadStep(th) \/ UserStep(th)

(* The loop, a call in progress and the destructor keep running; nobody has *)
(* to submit, cancel or release anything.                                   *)
Fairness ==
  /\ WF_vars(LoopStep)
  /\ WF_vars(DtorStep)
  /\ \A th \in Threads : WF_vars(ThreadStep(th))

Spec == Init /\ [][Next]_vars
FairSpec == Spec /\ Fairness

-----------------------------------------------------------------------------
(* Properties.                                                              *)

TypeOK ==
  /\ list \in Seq(Tasks \cup {Exit})
  /\ swap \in Seq(Tasks \cup {Exit})
  /\ pipe \in 0..PipeCap
  /\ edge \in BOOLEAN
  /\ exitFlag \in BOOLEAN
  /\ pending \in BOOLEAN
  /\ loopPc \in LoopPcs
  /\ writing \subseteq Threads \cup {Loop}
  /\ sync \in [Threads -> Tasks \cup {Nobody}]
  /\ refs \subseteq Threads \cup Tasks
  /\ destroyer \in Threads \cup {Loop, Nobody}
  /\ dtorPc \in DtorPcs
  /\ timers \subseteq Tasks
  /\ kind \in [Tasks -> {"none", "back", "first", "delay", "inline"}]
  /\ cancelled \subseteq Tasks
  /\ ran \in Seq(Tasks)

(* While the loop sleeps in epoll_wait, a linked task is never without a    *)
(* wake-up: the pipe has an edge to report, or a thread that linked a task  *)
(* has yet to write it.  The exit flag raised by destroy() always has one.  *)
NoLostWakeup ==
  loopPc = "wait" =>
    /\ list # <<>> => (edge /\ pipe > 0) \/ writing # {}
    /\ exitFlag => edge /\ pipe > 0

(* ~EventPoller runs tasks and frees the object only when the loop has      *)
(* returned, no thread is inside async() or sync(), and nobody refers to    *)
(* the poller any more (EventPoller::destroy and shutdown).                 *)
DestroyedWhenUnused ==
  dtorPc \in {"flush", "run", "gone"} =>
    /\ loopPc = "ended"
    /\ writing \subseteq {destroyer}
    /\ \A th \in Threads : sync[th] = Nobody
    /\ refs = {}

(* No accepted task is dropped: once the poller is gone every task given to *)
(* async or async_first has run or was cancelled (onPipeEvent(true) in the  *)
(* destructor).                                                             *)
NothingLost ==
  dtorPc = "gone" =>
    \A t \in Tasks : kind[t] \in {"back", "first"} => t \in RanSet \cup cancelled

(* What the executor promises, see TaskOrder.                               *)
Order == INSTANCE TaskOrder WITH queue <- swap \o list, Own <- {Exit}
ImplementsTaskOrder == Order!Spec

(* An accepted task eventually runs, unless it is cancelled, and a thread   *)
(* that waits in sync() for its task eventually returns.                    *)
TasksRun ==
  /\ \A t \in Tasks : kind[t] \in {"back", "first"} ~> t \in RanSet \cup cancelled
  /\ \A th \in Threads : sync[th] # Nobody ~> sync[th] = Nobody

(* Once the last reference is released the poller is destroyed, even when   *)
(* that happens on its own loop thread just before it sleeps.               *)
EventuallyDestroyed == refs = {} ~> dtorPc = "gone"

(* Together: nobody waits for the poller for ever.                          *)
PollerServes == TasksRun /\ EventuallyDestroyed

=============================================================================
