------------------------------ MODULE MCPoller ------------------------------
(* Three sides of an EventPoller, each on its own: its task list and life   *)
(* cycle, its delay tasks, and its file events.                             *)
EXTENDS PollerTasks, DelayTasks, EventDispatch

CONSTANTS t1, t2, a, b, s1, s2, s3, f1, f2

VARIABLE part  \* "tasks", "delay" or "events"

pollerVars == <<vars, delayVars, eventVars, part>>

TwoThreads == {t1, t2}
TwoTasks == {a, b}
ThreeSocks == {s1, s2, s3}
TwoFds == {f1, f2}

PollerInit == part \in {"tasks", "delay", "events"} /\ Init /\ DelayInit /\ EventInit

PollerNext ==
  /\ UNCHANGED part
  /\ IF part = "tasks" THEN Next ELSE UNCHANGED vars
  /\ IF part = "delay" THEN DelayNext ELSE UNCHANGED delayVars
  /\ IF part = "events" THEN EventNext ELSE UNCHANGED eventVars

(* The fairness of FairSpec, DelayFairSpec and EventFairSpec.               *)
PollerSpec ==
  /\ PollerInit /\ [][PollerNext]_pollerVars
  /\ WF_vars(part = "tasks" /\ LoopStep) /\ WF_vars(part = "tasks" /\ DtorStep)
  /\ \A th \in Threads : WF_vars(part = "tasks" /\ ThreadStep(th))
  /\ WF_delayVars(part = "delay" /\ Tick) /\ WF_delayVars(part = "delay" /\ TimerStep)
  /\ SF_delayVars(part = "delay" /\ RunPosted)
  /\ WF_eventVars(part = "events" /\ DispatchStep)
=============================================================================
