----------------------------- MODULE TaskOrder -----------------------------
(***************************************************************************)
(* What TaskExecutorInterface promises of async and async_first            *)
(* (src/src/Thread/TaskExecutor.h): tasks given to async start in the      *)
(* order they were given, one given to async_first may overtake, nothing   *)
(* starts twice, and only a cancelled task is passed over.                 *)
(***************************************************************************)
EXTENDS Naturals, Sequences

CONSTANTS
  Tasks,
  Own    \* what the executor gives itself, as often as it likes: its exit task

VARIABLES
  queue,      \* accepted tasks, next to start first
  timers,     \* delay tasks whose time is running
  kind,       \* how a task was submitted
  cancelled,  \* cancelled tasks
  ran         \* tasks in the order they started

Started == {ran[i] : i \in 1..Len(ran)}

Init ==
  /\ queue = <<>>
  /\ timers = {}
  /\ kind = [t \in Tasks |-> "none"]
  /\ cancelled = {}
  /\ ran = <<>>

Accept(t, k) ==
  /\ kind[t] = "none"
  /\ kind' = [kind EXCEPT ![t] = k]

Async(t) ==
  /\ Accept(t, "back")
  /\ queue' = Append(queue, t)
  /\ UNCHANGED <<timers, cancelled, ran>>

(* Somewhere ahead: tasks already taken for running are not overtaken.      *)
Ahead(t) ==
  \E n \in 0..Len(queue) :
    queue' = SubSeq(queue, 1, n) \o <<t>> \o SubSeq(queue, n + 1, Len(queue))

AsyncFirst(t, k) ==
  /\ k \in {"first", "delay"}
  /\ Accept(t, k)
  /\ Ahead(t)
  /\ UNCHANGED <<timers, cancelled, ran>>

AsyncOwn(t) ==
  /\ Ahead(t)
  /\ UNCHANGED <<timers, kind, cancelled, ran>>

RunInline(t) ==
  /\ Accept(t, "inline")
  /\ ran' = Append(ran, t)
  /\ UNCHANGED <<queue, timers, cancelled>>

StartTimer(t) ==
  /\ Accept(t, "delay")
  /\ timers' = timers \cup {t}
  /\ UNCHANGED <<queue, cancelled, ran>>

(* The task's closure is destroyed, and what depended on it may end.        *)
Cancel(t) ==
  /\ kind[t] # "none" /\ t \notin Started
  /\ cancelled' = cancelled \cup {t}
  /\ UNCHANGED queue \/ \E own \in Own : Ahead(own)
  /\ UNCHANGED <<timers, kind, ran>>

Begin(t) ==
  ran' = IF t \in cancelled THEN ran ELSE Append(ran, t)

StartNext ==
  /\ queue # <<>>
  /\ queue' = Tail(queue)
  /\ \/ /\ Head(queue) \in Own
        /\ UNCHANGED <<timers, ran>>
     \/ /\ Head(queue) \in Tasks /\ kind[Head(queue)] = "delay"
        /\ timers' = timers \cup {Head(queue)}
        /\ UNCHANGED ran
     \/ /\ Head(queue) \in Tasks /\ kind[Head(queue)] # "delay"
        /\ Begin(Head(queue))
        /\ UNCHANGED timers
  /\ UNCHANGED <<kind, cancelled>>

Expire(t) ==
  /\ t \in timers
  /\ timers' = timers \ {t}
  /\ Begin(t)
  /\ UNCHANGED <<queue, kind, cancelled>>

Next ==
  \/ StartNext
  \/ \E own \in Own : AsyncOwn(own)
  \/ \E t \in Tasks :
       \/ Async(t) \/ RunInline(t) \/ StartTimer(t) \/ Cancel(t) \/ Expire(t)
       \/ \E k \in {"first", "delay"} : AsyncFirst(t, k)

Spec == Init /\ [][Next]_<<queue, timers, kind, cancelled, ran>>

=============================================================================
