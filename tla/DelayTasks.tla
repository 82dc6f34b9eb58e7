----------------------------- MODULE DelayTasks -----------------------------
(***************************************************************************)
(* The delay tasks of an EventPoller: doDelayTask, getMinDelay and         *)
(* flushDelayTask (src/src/Poller/EventPoller.cpp), with the loop that     *)
(* sleeps between them.                                                    *)
(*                                                                         *)
(* Time passes while any of this runs.  The multimap is a set of tasks     *)
(* with their deadlines; tasks of one deadline come in any order.          *)
(***************************************************************************)
EXTENDS Integers

CONSTANTS
  Delayed,     \* delay tasks, each given to doDelayTask at most once
  NoTask,      \* no task
  Never,     \* epoll_wait without a timeout, a task not yet started
  Delays,    \* delays given to doDelayTask and returned by tasks
  Horizon,   \* bound: the last instant, and the last deadline
  IntSpan    \* 2^31: the timeout of epoll_wait is an int

ASSUME DelayedAssumption == NoTask \notin Delayed
ASSUME TimeAssumption ==
  Delays \subseteq Nat /\ Horizon \in Nat /\ IntSpan \in Nat \ {0} /\ Never \notin Nat

VARIABLES
  clock,      \* getCurrentMillisecond()
  due,        \* the deadline of a task, Never before doDelayTask
  posted,     \* tasks another thread gave to doDelayTask, in the task list
  map,        \* _delay_task_map
  copy,       \* task_copy of flushDelayTask
  active,    \* the task being run
  now,        \* the instant the loop last read the clock
  delay,      \* minDelay
  wakeAt,     \* when epoll_wait times out
  timerPc,         \* where the loop is
  voided,  \* cancelled tasks
  done        \* tasks that will not run again

delayVars == <<clock, due, posted, map, copy, active, now, delay, wakeAt, timerPc, voided, done>>

Known == posted \cup map \cup copy \cup {active} \cup done
Armed == posted \cup map \cup copy

DelayInit ==
  /\ clock = 0 /\ now = 0
  /\ due = [t \in Delayed |-> Never]
  /\ posted = {} /\ map = {} /\ copy = {} /\ voided = {} /\ done = {}
  /\ active = NoTask
  /\ delay = -1 /\ wakeAt = Never
  /\ timerPc = "check"

-----------------------------------------------------------------------------
Tick ==
  /\ clock < Horizon
  /\ clock' = clock + 1
  /\ UNCHANGED <<due, posted, map, copy, active, now, delay, wakeAt, timerPc, voided, done>>

(* doDelayTask reads the clock when it is called.                           *)
DoDelayTask(t, d) ==
  /\ due[t] = Never
  /\ clock + d <= Horizon
  /\ due' = [due EXCEPT ![t] = clock + d]

(* Mutant: the calling thread puts the task into the map itself.            *)
PostDirectly(t, d) ==
  /\ DoDelayTask(t, d)
  /\ map' = map \cup {t}
  /\ UNCHANGED <<clock, posted, copy, active, now, delay, wakeAt, timerPc, voided, done>>

(* ... by another thread: through the task list, which wakes the loop.      *)
Post(t, d) ==
  /\ DoDelayTask(t, d)
  /\ posted' = posted \cup {t}
  /\ UNCHANGED <<clock, map, copy, active, now, delay, wakeAt, timerPc, voided, done>>

(* ... by a task or an event callback on the loop thread: at once.          *)
PostOnLoop(t, d) ==
  /\ timerPc \in {"task", "callback"}
  /\ DoDelayTask(t, d)
  /\ map' = map \cup {t}
  /\ UNCHANGED <<clock, posted, copy, active, now, delay, wakeAt, timerPc, voided, done>>

CancelDelayed(t) ==
  /\ t \in Known \ done
  /\ voided' = voided \cup {t}
  /\ UNCHANGED <<clock, due, posted, map, copy, active, now, delay, wakeAt, timerPc, done>>

-----------------------------------------------------------------------------
Earliest(t, S) == t \in S /\ \A other \in S : due[t] <= due[other]

(* getMinDelay: nothing to wait for, the time to the first deadline, or     *)
(* flushDelayTask, which starts by emptying the map.                        *)
GetMinDelay ==
  /\ timerPc = "check"
  /\ now' = clock
  /\ IF \E t \in map : due[t] <= clock
     THEN /\ copy' = map
          /\ map' = {}
          /\ timerPc' = "flush"
          /\ UNCHANGED delay
     ELSE /\ IF map = {} THEN delay' = -1
                         ELSE \E t \in map : Earliest(t, map) /\ delay' = due[t] - clock
          /\ timerPc' = "sleep"
          /\ UNCHANGED <<map, copy>>
  /\ UNCHANGED <<clock, due, posted, active, wakeAt, voided, done>>

(* Mutant: any task of the map that has expired is run next.                *)
RunDelayedUnsorted(t) ==
  /\ timerPc = "flush"
  /\ t \in copy /\ due[t] <= now
  /\ copy' = copy \ {t}
  /\ IF t \in voided
     THEN /\ done' = done \cup {t}
          /\ UNCHANGED <<active, timerPc>>
     ELSE /\ active' = t
          /\ timerPc' = "task"
          /\ UNCHANGED done
  /\ UNCHANGED <<clock, due, posted, map, now, delay, wakeAt, voided>>

(* The first expired task of the copy.  A cancelled one returns 0 unrun.    *)
RunDelayed(t) ==
  /\ timerPc = "flush"
  /\ Earliest(t, copy) /\ due[t] <= now
  /\ copy' = copy \ {t}
  /\ IF t \in voided
     THEN /\ done' = done \cup {t}
          /\ UNCHANGED <<active, timerPc>>
     ELSE /\ active' = t
          /\ timerPc' = "task"
          /\ UNCHANGED done
  /\ UNCHANGED <<clock, due, posted, map, now, delay, wakeAt, voided>>

(* The task returns the delay to its next run, 0 or an exception for none.  *)
TaskReturns(next) ==
  /\ timerPc = "task"
  /\ IF next = 0
     THEN /\ done' = done \cup {active}
          /\ UNCHANGED <<due, map>>
     ELSE /\ now + next <= Horizon
          /\ due' = [due EXCEPT ![active] = now + next]
          /\ map' = map \cup {active}
          /\ UNCHANGED done
  /\ active' = NoTask
  /\ timerPc' = "flush"
  /\ UNCHANGED <<clock, posted, copy, now, delay, wakeAt, voided>>

(* Mutant: what was started or repeated meanwhile is overwritten.           *)
FlushDelayedEndOverwrites ==
  /\ timerPc = "flush"
  /\ \A t \in copy : due[t] > now
  /\ map' = copy
  /\ copy' = {}
  /\ IF map' = {} THEN delay' = -1
                  ELSE \E t \in map' : Earliest(t, map') /\ delay' = due[t] - now
  /\ timerPc' = "sleep"
  /\ UNCHANGED <<clock, due, posted, active, now, wakeAt, voided, done>>

(* Mutant: the new tasks do not count for the time to sleep.                *)
FlushDelayedEndOldDelay ==
  /\ timerPc = "flush"
  /\ \A t \in copy : due[t] > now
  /\ map' = copy \cup map
  /\ copy' = {}
  /\ IF copy = {} THEN delay' = -1
                  ELSE \E t \in copy : Earliest(t, copy) /\ delay' = due[t] - now
  /\ timerPc' = "sleep"
  /\ UNCHANGED <<clock, due, posted, active, now, wakeAt, voided, done>>

(* What has not expired goes back to what was started or repeated           *)
(* meanwhile.  The time to sleep counts from the start of the flush.        *)
FlushDelayedEnd ==
  /\ timerPc = "flush"
  /\ \A t \in copy : due[t] > now
  /\ map' = copy \cup map
  /\ copy' = {}
  /\ IF map' = {} THEN delay' = -1
                  ELSE \E t \in map' : Earliest(t, map') /\ delay' = due[t] - now
  /\ timerPc' = "sleep"
  /\ UNCHANGED <<clock, due, posted, active, now, wakeAt, voided, done>>

(* int64_t to int.                                                          *)
ToInt(d) ==
  LET low == d % (2 * IntSpan) IN IF low < IntSpan THEN low ELSE low - 2 * IntSpan

(* epoll_wait: a negative timeout waits without one.                        *)
SleepInEpoll ==
  /\ timerPc = "sleep"
  /\ timerPc' = "wait"
  /\ wakeAt' = IF ToInt(delay) < 0 THEN Never ELSE clock + ToInt(delay)
  /\ UNCHANGED <<clock, due, posted, map, copy, active, now, delay, voided, done>>

(* A wake-up after the horizon counts as one at the horizon, when every     *)
(* deadline has passed.                                                     *)
SleepTimeOut ==
  /\ timerPc = "wait"
  /\ wakeAt # Never /\ (wakeAt <= clock \/ clock = Horizon)
  /\ timerPc' = "check"
  /\ UNCHANGED <<clock, due, posted, map, copy, active, now, delay, wakeAt, voided, done>>

(* The wake pipe is readable: the task list runs.                           *)
RunPosted ==
  /\ timerPc = "wait"
  /\ posted # {}
  /\ map' = map \cup posted
  /\ posted' = {}
  /\ timerPc' = "callback"
  /\ UNCHANGED <<clock, due, copy, active, now, delay, wakeAt, voided, done>>

FileEvent ==
  /\ timerPc = "wait"
  /\ timerPc' = "callback"
  /\ UNCHANGED <<clock, due, posted, map, copy, active, now, delay, wakeAt, voided, done>>

CallbackEnds ==
  /\ timerPc = "callback"
  /\ timerPc' = "check"
  /\ UNCHANGED <<clock, due, posted, map, copy, active, now, delay, wakeAt, voided, done>>

-----------------------------------------------------------------------------
TimerStep ==
  \/ GetMinDelay \/ FlushDelayedEnd \/ SleepInEpoll \/ SleepTimeOut \/ RunPosted \/ CallbackEnds
  \/ \E t \in Delayed : RunDelayed(t)
  \/ \E next \in Delays \cup {0} : TaskReturns(next)

DelayUserStep(t) == CancelDelayed(t) \/ \E d \in Delays : Post(t, d) \/ PostOnLoop(t, d)

DelayNext == Tick \/ TimerStep \/ FileEvent \/ \E t \in Delayed : DelayUserStep(t)

DelaySpec == DelayInit /\ [][DelayNext]_delayVars

(* The clock's thread and the loop keep running, and epoll_wait reports the *)
(* wake pipe sooner or later however many file events there are.            *)
DelayFairSpec == DelaySpec /\ WF_delayVars(Tick) /\ WF_delayVars(TimerStep) /\ SF_delayVars(RunPosted)

-----------------------------------------------------------------------------
(* Properties.                                                              *)

DelayTypeOK ==
  /\ clock \in 0..Horizon /\ now \in 0..clock
  /\ due \in [Delayed -> 0..Horizon \cup {Never}]
  /\ posted \subseteq Delayed /\ map \subseteq Delayed /\ copy \subseteq Delayed
  /\ voided \subseteq Delayed /\ done \subseteq Delayed
  /\ active \in Delayed \cup {NoTask}
  /\ delay \in {-1} \cup 0..Horizon
  /\ wakeAt \in {Never} \cup Nat
  /\ timerPc \in {"check", "flush", "task", "sleep", "wait", "callback"}
  /\ timerPc = "task" <=> active # NoTask

(* A task does not start before its deadline, and none whose deadline was   *)
(* earlier is still waiting in the map or in the copy, even when tasks      *)
(* start and repeat others while the map is swapped (flushDelayTask).       *)
InDeadlineOrder ==
  active # NoTask =>
    /\ due[active] <= clock
    /\ \A t \in map \cup copy : due[active] <= due[t]

(* Each accepted task is in exactly one place until it is done: swapping    *)
(* and merging the maps neither drops nor duplicates one.                   *)
NoTimerLost ==
  /\ \A t \in Delayed : due[t] # Never => t \in Known
  /\ posted \cap map = {} /\ posted \cap copy = {} /\ map \cap copy = {}
  /\ active \notin Armed
  /\ done \cap (Armed \cup {active}) = {}

(* The loop sleeps past the first deadline at most by the time that went by *)
(* between reading the clock and epoll_wait, which is the time the expired  *)
(* tasks took: "The purpose of asynchronous execution is to refresh the     *)
(* sleep time" (doDelayTask).                                               *)
SleepsInTime ==
  timerPc = "wait" =>
    \A t \in map : wakeAt # Never /\ wakeAt - due[t] <= clock - now

(* A task given to doDelayTask, or one that asked to be repeated, runs      *)
(* unless it is cancelled.                                                  *)
TimersRun == \A t \in Delayed : t \in Armed ~> active = t \/ t \in voided

=============================================================================
