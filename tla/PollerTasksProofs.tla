------------------------- MODULE PollerTasksProofs -------------------------
(* Theorems about PollerTasks: its types, that no wake-up and no task is    *)
(* lost, and when the poller is destroyed; and about PollBackends, the loop *)
(* that has no epoll, for any number of files and descriptors.              *)
EXTENDS PollerTasks, PollBackends, SequenceTheorems, TLAPS

(* A wake-up cannot be lost.  Bytes in the pipe always have an edge to      *)
(* report, except while the loop is reading them; a linked task is always   *)
(* followed by a byte, by the write its thread still owes, or by the loop   *)
(* taking the list; a loop about to sleep with the exit flag raised has a   *)
(* byte waiting, for destroy() wrote one.                                   *)
WakeInv ==
  /\ pipe > 0 => edge \/ loopPc = "read"
  /\ list # <<>> => \/ pipe > 0 \/ writing # {}
                    \/ loopPc \in {"read", "swap"}
  /\ exitFlag /\ loopPc \in {"delay", "wait"} => pipe > 0

LEMMA InitTyped == Init => TypeOK
<1> SUFFICES ASSUME Init PROVE TypeOK
  OBVIOUS
<1>1. list \in Seq(Tasks \cup {Exit}) /\ swap \in Seq(Tasks \cup {Exit}) /\ ran \in Seq(Tasks)
  BY DEF Init
<1>2. pipe \in 0..PipeCap
  BY PipeAssumption DEF Init
<1>3. kind \in [Tasks -> {"none", "back", "first", "delay", "inline"}]
  BY DEF Init
<1>4. sync \in [Threads -> Tasks \cup {Nobody}]
  BY DEF Init
<1> QED
  BY <1>1, <1>2, <1>3, <1>4 DEF Init, TypeOK, LoopPcs, DtorPcs

LEMMA PipeWriteTyped ==
  ASSUME TypeOK, PipeWrite
  PROVE  /\ pipe' \in 0..PipeCap
         /\ pipe' > 0
         /\ edge' \in BOOLEAN
         /\ pipe = 0 \/ edge => edge'
<1>1. pipe' \in 0..PipeCap /\ pipe' > 0
  BY PipeAssumption DEF TypeOK, PipeWrite
<1>2. edge' \in BOOLEAN
  BY DEF TypeOK, PipeWrite
<1>3. pipe = 0 => edge'
  BY DEF PipeWrite
<1>4. edge => edge'
  BY DEF PipeWrite
<1> QED
  BY <1>1, <1>2, <1>3, <1>4

LEMMA ReleaseOnLoopTyped ==
  ASSUME TypeOK, NEW D, ReleaseOnLoop(D)
  PROVE  /\ pipe' \in 0..PipeCap /\ edge' \in BOOLEAN
         /\ exitFlag' \in BOOLEAN /\ pending' \in BOOLEAN
         /\ writing' = writing /\ destroyer' = destroyer /\ dtorPc' = dtorPc
         /\ refs' \subseteq refs
         /\ pipe > 0 => pipe' > 0
         /\ edge => edge'
         /\ pipe' > 0 => edge' \/ pipe > 0
         /\ exitFlag' => exitFlag \/ (pipe' > 0 /\ pending')
<1>1. CASE LastRef(D)
  <2>1. DeferDestroy
    BY <1>1 DEF ReleaseOnLoop
  <2>2. PipeWrite /\ exitFlag' = TRUE /\ pending' = TRUE
    BY <2>1 DEF DeferDestroy
  <2>3. pipe = 0 \/ pipe > 0
    BY PipeAssumption DEF TypeOK
  <2> QED
    BY <2>2, <2>3, PipeWriteTyped DEF ReleaseOnLoop
<1>2. CASE ~LastRef(D)
  BY <1>2 DEF ReleaseOnLoop, TypeOK
<1> QED
  BY <1>1, <1>2

LEMMA ReleaseOnTyped ==
  ASSUME TypeOK, NEW th \in Threads, NEW D, ReleaseOn(th, D)
  PROVE  /\ list' \in Seq(Tasks \cup {Exit})
         /\ writing' \subseteq Threads \cup {Loop}
         /\ destroyer' \in Threads \cup {Loop, Nobody}
         /\ dtorPc' \in DtorPcs
         /\ refs' \subseteq refs
         /\ UNCHANGED <<pipe, edge, exitFlag, pending>>
         /\ UNCHANGED list \/ writing' # {}
         /\ writing \subseteq writing'
<1>1. CASE LastRef(D)
  <2>1. list' = <<Exit>> \o list
    BY <1>1 DEF ReleaseOn
  <2>2. list' \in Seq(Tasks \cup {Exit})
    BY <2>1 DEF TypeOK
  <2> QED
    BY <1>1, <2>2 DEF ReleaseOn, TypeOK, DtorPcs
<1>2. CASE ~LastRef(D)
  BY <1>2 DEF ReleaseOn, TypeOK
<1> QED
  BY <1>1, <1>2

LEMMA LinkTyped ==
  ASSUME TypeOK, NEW th \in Threads \cup {Loop}, NEW t \in Tasks,
         NEW k \in {"back", "first", "delay"}, NEW capture \in BOOLEAN,
         Link(th, t, k, capture)
  PROVE  /\ list' \in Seq(Tasks \cup {Exit})
         /\ kind' \in [Tasks -> {"none", "back", "first", "delay", "inline"}]
         /\ writing' \subseteq Threads \cup {Loop}
         /\ writing' # {}
         /\ refs' \subseteq Threads \cup Tasks
<1>1. Append(list, t) \in Seq(Tasks \cup {Exit})
  BY DEF TypeOK
<1>2. <<t>> \o list \in Seq(Tasks \cup {Exit})
  BY DEF TypeOK
<1>3. kind' \in [Tasks -> {"none", "back", "first", "delay", "inline"}]
  BY DEF TypeOK, Link
<1> QED
  BY <1>1, <1>2, <1>3 DEF TypeOK, Link

LEMMA ExecuteTyped ==
  ASSUME TypeOK, NEW t \in Tasks \cup {Exit}, Execute(t)
  PROVE  timers' \subseteq Tasks /\ ran' \in Seq(Tasks)
<1>1. t # Exit => Append(ran, t) \in Seq(Tasks)
  BY DEF TypeOK
<1> QED
  BY <1>1 DEF TypeOK, Execute

-----------------------------------------------------------------------------
(* Every step keeps the types.                                              *)

LEMMA LoopStepTyped == TypeOK /\ LoopStep => TypeOK'
<1> SUFFICES ASSUME TypeOK, LoopStep PROVE TypeOK'
  OBVIOUS
<1>1. CASE CheckExit
  BY <1>1 DEF TypeOK, CheckExit, LoopPcs, lifeVars, wakeVars
<1>2. CASE EnterWait
  BY <1>2 DEF TypeOK, EnterWait, LoopPcs, lifeVars, wakeVars
<1>3. CASE Wake
  BY <1>3 DEF TypeOK, Wake, LoopPcs, lifeVars
<1>4. CASE TimeOut
  BY <1>4 DEF TypeOK, TimeOut, LoopPcs, lifeVars, wakeVars
<1>5. CASE ReadPipe
  <2>1. pipe' \in 0..PipeCap
    BY <1>5, PipeAssumption DEF TypeOK, ReadPipe
  <2> QED
    BY <1>5, <2>1 DEF TypeOK, ReadPipe, LoopPcs, lifeVars
<1>6. CASE TakeList
  <2>1. list' \in Seq(Tasks \cup {Exit}) /\ swap' \in Seq(Tasks \cup {Exit})
    BY <1>6 DEF TypeOK, TakeList
  <2> QED
    BY <1>6, <2>1 DEF TypeOK, TakeList, LoopPcs, lifeVars, wakeVars
<1>7. ASSUME NEW t \in Tasks, FireTimer(t) PROVE TypeOK'
  <2>1. ReleaseOnLoop({t})
    BY <1>7 DEF FireTimer
  <2>2. ran' \in Seq(Tasks)
    BY <1>7 DEF TypeOK, FireTimer
  <2> QED
    BY <1>7, <2>1, <2>2, ReleaseOnLoopTyped DEF TypeOK, FireTimer
<1>8. ASSUME NEW early \in BOOLEAN, RunTask(early) PROVE TypeOK'
  <2>1. swap' \in Seq(Tasks \cup {Exit}) /\ Head(swap) \in Tasks \cup {Exit}
    BY <1>8 DEF TypeOK, RunTask
  <2>2. timers' \subseteq Tasks /\ ran' \in Seq(Tasks)
    BY <1>8, <2>1, ExecuteTyped DEF RunTask
  <2>3. CASE Head(swap) = Exit
    BY <1>8, <2>1, <2>2, <2>3 DEF TypeOK, RunTask, lifeVars
  <2>4. CASE Head(swap) # Exit
    <3>1. PICK D : ReleaseOnLoop(D)
      BY <1>8, <2>4 DEF RunTask
    <3> QED
      BY <1>8, <2>1, <2>2, <3>1, ReleaseOnLoopTyped DEF TypeOK, RunTask
  <2> QED
    BY <2>3, <2>4
<1>9. CASE EndBatch
  <2>1. PICK D : ReleaseOnLoop(D)
    BY <1>9 DEF EndBatch
  <2> QED
    BY <1>9, <2>1, ReleaseOnLoopTyped DEF TypeOK, EndBatch, LoopPcs
<1>10. CASE DeleteSelf
  <2>1. list' \in Seq(Tasks \cup {Exit})
    BY <1>10 DEF TypeOK, DeleteSelf
  <2> QED
    BY <1>10, <2>1 DEF TypeOK, DeleteSelf, DtorPcs
<1>11. CASE WritePipe(Loop)
  <2>1. PipeWrite
    BY <1>11 DEF WritePipe
  <2> QED
    BY <1>11, <2>1, PipeWriteTyped DEF TypeOK, WritePipe, lifeVars
<1> QED
  BY <1>1, <1>2, <1>3, <1>4, <1>5, <1>6, <1>7, <1>8, <1>9, <1>10, <1>11 DEF LoopStep

LEMMA UserStepTyped ==
  ASSUME TypeOK, NEW th \in Threads, UserStep(th)
  PROVE  TypeOK'
<1>1. CASE DropRef(th)
  <2>1. ReleaseOn(th, {th})
    BY <1>1 DEF DropRef
  <2> QED
    BY <1>1, <2>1, ReleaseOnTyped DEF TypeOK, DropRef
<1>2. ASSUME NEW t \in Tasks, Cancel(th, t) PROVE TypeOK'
  <2>1. ReleaseOn(th, {t})
    BY <1>2 DEF Cancel
  <2> QED
    BY <1>2, <2>1, ReleaseOnTyped DEF TypeOK, Cancel
<1>3. ASSUME NEW t \in Tasks, NEW k \in Kinds, Sync(th, t, k) PROVE TypeOK'
  <2>1. Link(th, t, k, FALSE) /\ k \in {"back", "first", "delay"}
    BY <1>3, KindAssumption DEF Sync
  <2>2. sync' \in [Threads -> Tasks \cup {Nobody}]
    BY <1>3 DEF TypeOK, Sync
  <2>3. /\ list' \in Seq(Tasks \cup {Exit})
        /\ kind' \in [Tasks -> {"none", "back", "first", "delay", "inline"}]
        /\ writing' \subseteq Threads \cup {Loop}
        /\ refs' \subseteq Threads \cup Tasks
    BY <2>1, LinkTyped
  <2> QED
    BY <1>3, <2>2, <2>3 DEF TypeOK, Sync
<1>4. ASSUME NEW t \in Tasks, NEW k \in Kinds, NEW capture \in Captures,
             Async(th, t, k, capture)
      PROVE  TypeOK'
  <2>1. Link(th, t, k, capture) /\ k \in {"back", "first", "delay"} /\ capture \in BOOLEAN
    BY <1>4, KindAssumption DEF Async
  <2> QED
    BY <1>4, <2>1, LinkTyped DEF TypeOK, Async
<1> QED
  BY <1>1, <1>2, <1>3, <1>4 DEF UserStep

LEMMA LoopSubmitTyped == TypeOK /\ LoopSubmit => TypeOK'
<1> SUFFICES ASSUME TypeOK, LoopSubmit PROVE TypeOK'
  OBVIOUS
<1>1. ASSUME NEW t \in Tasks, LoopInline(t) PROVE TypeOK'
  <2>1. ran' \in Seq(Tasks)
    BY <1>1 DEF TypeOK, LoopInline
  <2>2. kind' \in [Tasks -> {"none", "back", "first", "delay", "inline"}]
    BY <1>1 DEF TypeOK, LoopInline
  <2> QED
    BY <1>1, <2>1, <2>2 DEF TypeOK, LoopInline, lifeVars, wakeVars
<1>2. ASSUME NEW t \in Tasks, NEW capture \in Captures, LoopDelay(t, capture) PROVE TypeOK'
  <2>1. kind' \in [Tasks -> {"none", "back", "first", "delay", "inline"}]
    BY <1>2 DEF TypeOK, LoopDelay
  <2>2. refs' \subseteq Threads \cup Tasks
    BY <1>2 DEF TypeOK, LoopDelay
  <2> QED
    BY <1>2, <2>1, <2>2 DEF TypeOK, LoopDelay, wakeVars
<1>3. ASSUME NEW t \in Tasks, NEW k \in Kinds, NEW capture \in Captures,
             LoopAsync(t, k, capture)
      PROVE  TypeOK'
  <2>1. Link(Loop, t, k, capture) /\ k \in {"back", "first", "delay"} /\ capture \in BOOLEAN
    BY <1>3, KindAssumption DEF LoopAsync
  <2>2. /\ list' \in Seq(Tasks \cup {Exit})
        /\ kind' \in [Tasks -> {"none", "back", "first", "delay", "inline"}]
        /\ writing' \subseteq Threads \cup {Loop}
        /\ refs' \subseteq Threads \cup Tasks
    BY <2>1, LinkTyped
  <2> QED
    BY <1>3, <2>2 DEF TypeOK, LoopAsync
<1> QED
  BY <1>1, <1>2, <1>3 DEF LoopSubmit

LEMMA DtorStepTyped == TypeOK /\ DtorStep => TypeOK'
<1> SUFFICES ASSUME TypeOK, DtorStep PROVE TypeOK'
  OBVIOUS
<1>1. CASE Join
  BY <1>1 DEF TypeOK, Join, DtorPcs, wakeVars
<1>2. CASE FlushTake
  <2>1. list' \in Seq(Tasks \cup {Exit}) /\ swap' \in Seq(Tasks \cup {Exit})
    BY <1>2 DEF TypeOK, FlushTake
  <2> QED
    BY <1>2, <2>1 DEF TypeOK, FlushTake, DtorPcs, wakeVars
<1>3. CASE FlushRun
  <2>1. swap' \in Seq(Tasks \cup {Exit}) /\ Head(swap) \in Tasks \cup {Exit}
    BY <1>3 DEF TypeOK, FlushRun
  <2>2. timers' \subseteq Tasks /\ ran' \in Seq(Tasks)
    BY <1>3, <2>1, ExecuteTyped DEF FlushRun
  <2>3. exitFlag' \in BOOLEAN
    BY <1>3 DEF FlushRun
  <2> QED
    BY <1>3, <2>1, <2>2, <2>3 DEF TypeOK, FlushRun, lifeVars, wakeVars
<1>4. CASE FlushEnd
  BY <1>4 DEF TypeOK, FlushEnd, DtorPcs, wakeVars
<1> QED
  BY <1>1, <1>2, <1>3, <1>4 DEF DtorStep

LEMMA ThreadStepTyped ==
  ASSUME TypeOK, NEW th \in Threads, ThreadStep(th)
  PROVE  TypeOK'
<1>1. CASE SyncDone(th)
  <2>1. sync' \in [Threads -> Tasks \cup {Nobody}]
    BY <1>1 DEF TypeOK, SyncDone
  <2> QED
    BY <1>1, <2>1 DEF TypeOK, SyncDone, lifeVars
<1>2. CASE WritePipe(th)
  <2>1. PipeWrite
    BY <1>2 DEF WritePipe
  <2> QED
    BY <1>2, <2>1, PipeWriteTyped DEF TypeOK, WritePipe, lifeVars
<1> QED
  BY <1>1, <1>2 DEF ThreadStep

LEMMA StepTyped == TypeOK /\ [Next]_vars => TypeOK'
<1> SUFFICES ASSUME TypeOK, [Next]_vars PROVE TypeOK'
  OBVIOUS
<1>1. CASE UNCHANGED vars
  BY <1>1 DEF TypeOK, vars
<1> QED
  BY <1>1, LoopStepTyped, LoopSubmitTyped, DtorStepTyped, ThreadStepTyped, UserStepTyped
     DEF Next

(* In every behaviour, for any threads, tasks and pipe size, the variables  *)
(* keep their types: in particular the pipe never holds more than its       *)
(* capacity and the exit task never counts as a task that ran.              *)
THEOREM TypeCorrect == Spec => []TypeOK
<1>1. Init => TypeOK
  BY InitTyped
<1>2. TypeOK /\ [Next]_vars => TypeOK'
  BY StepTyped
<1> QED
  BY <1>1, <1>2, PTL DEF Spec

-----------------------------------------------------------------------------
(* Who may still use the poller.  A thread inside async() or sync() holds a *)
(* reference, the destroying thread aside; whoever destroys does so after   *)
(* the last reference went, and there is one of them; the loop thread owes  *)
(* a write only to a task it is running or to its own destructor.           *)
UseInv ==
  /\ destroyer = Nobody <=> dtorPc = "none"
  /\ dtorPc = "join" => destroyer \in Threads
  /\ dtorPc # "none" \/ pending => refs = {}
  /\ pending => dtorPc = "none" \/ destroyer = Loop
  /\ destroyer = Loop => loopPc = "ended"
  /\ dtorPc \in {"flush", "run", "gone"} => loopPc = "ended"
  /\ \A th \in Threads : th \in writing => th \in refs \/ th = destroyer
  /\ \A th \in Threads : sync[th] # Nobody => th \in refs
  /\ Loop \in writing => loopPc = "run" \/ destroyer = Loop

LEMMA UseInit == Init => UseInv
  BY LoopAssumption DEF Init, UseInv

LEMMA UseReleaseOnLoop ==
  ASSUME TypeOK, UseInv, NEW D \in SUBSET Tasks, ReleaseOnLoop(D), loopPc # "ended",
         loopPc' # "ended", UNCHANGED sync, Loop \notin writing
  PROVE  UseInv'
<1>1. \A th \in Threads : th \in refs => th \in refs'
  BY HolderAssumption DEF ReleaseOnLoop
<1>2. refs = {} => refs' = {} /\ pending' = pending
  BY DEF ReleaseOnLoop, LastRef
<1>3. refs # {} => dtorPc = "none" /\ ~pending
  BY DEF UseInv
<1>4. pending' => refs' = {}
  <2>1. CASE LastRef(D)
    BY <2>1 DEF ReleaseOnLoop, LastRef
  <2>2. CASE ~LastRef(D)
    BY <2>2, <1>2, <1>3 DEF ReleaseOnLoop, UseInv
  <2> QED
    BY <2>1, <2>2
<1>5. UNCHANGED <<writing, destroyer, dtorPc>>
  BY DEF ReleaseOnLoop
<1>6. pending' => dtorPc' = "none" \/ destroyer' = Loop
  <2>1. CASE refs = {}
    BY <1>2, <1>5, <2>1 DEF UseInv
  <2>2. CASE refs # {}
    BY <1>3, <1>5, <2>2
  <2> QED
    BY <2>1, <2>2
<1>7. dtorPc' # "none" => refs' = {}
  BY <1>2, <1>5 DEF UseInv
<1> QED
  BY <1>1, <1>4, <1>5, <1>6, <1>7 DEF UseInv

LEMMA UseReleaseOn ==
  ASSUME TypeOK, UseInv, NEW th \in Threads, ~Busy(th),
         NEW D \in SUBSET (Tasks \cup {th}),
         ReleaseOn(th, D), UNCHANGED <<loopPc, sync>>
  PROVE  UseInv'
<1>1. \A other \in Threads : other \in refs /\ other # th => other \in refs'
  BY HolderAssumption DEF ReleaseOn
<1>2. th \notin writing /\ sync[th] = Nobody /\ destroyer # th
  BY DEF Busy
<1>3. UNCHANGED pending
  BY DEF ReleaseOn
<1>4. CASE LastRef(D)
  <2>1. refs # {} /\ refs' = {}
    BY <1>4 DEF ReleaseOn, LastRef
  <2>2. dtorPc = "none" /\ ~pending /\ destroyer = Nobody
    BY <2>1 DEF UseInv
  <2>3. writing' = writing \cup {th} /\ destroyer' = th /\ dtorPc' = "join"
    BY <1>4 DEF ReleaseOn
  <2>4. th # Loop /\ th # Nobody
    BY LoopAssumption
  <2>5. \A other \in Threads : other # th => other \notin refs
    BY <1>1, <2>1
  <2>6. \A other \in Threads : other \in writing => FALSE
    BY <1>2, <2>2, <2>5, LoopAssumption DEF UseInv
  <2>7. \A other \in Threads : sync[other] = Nobody
    BY <1>2, <2>5 DEF UseInv
  <2>8. \A other \in Threads : other \in writing' => other = destroyer'
    BY <2>3, <2>6
  <2>9. Loop \in writing' => loopPc' = "run"
    BY <2>2, <2>3, <2>4, LoopAssumption DEF UseInv
  <2> QED
    BY <1>3, <2>1, <2>2, <2>3, <2>4, <2>7, <2>8, <2>9 DEF UseInv
<1>5. CASE ~LastRef(D)
  <2>1. UNCHANGED <<writing, destroyer, dtorPc>>
    BY <1>5 DEF ReleaseOn
  <2>2. refs = {} => refs' = {}
    BY DEF ReleaseOn
  <2> QED
    BY <1>1, <1>2, <1>3, <2>1, <2>2 DEF UseInv
<1> QED
  BY <1>4, <1>5

LEMMA UseLoopStep == TypeOK /\ UseInv /\ LoopStep => UseInv'
<1> SUFFICES ASSUME TypeOK, UseInv, LoopStep PROVE UseInv'
  OBVIOUS
<1>1. CASE CheckExit
  BY <1>1 DEF UseInv, CheckExit, LoopAt, lifeVars, wakeVars
<1>2. CASE EnterWait
  BY <1>2 DEF UseInv, EnterWait, LoopAt, lifeVars, wakeVars
<1>3. CASE Wake
  BY <1>3 DEF UseInv, Wake, LoopAt, lifeVars
<1>4. CASE TimeOut
  BY <1>4 DEF UseInv, TimeOut, LoopAt, lifeVars, wakeVars
<1>5. CASE ReadPipe
  BY <1>5 DEF UseInv, ReadPipe, LoopAt, lifeVars
<1>6. CASE TakeList
  BY <1>6 DEF UseInv, TakeList, LoopAt, lifeVars, wakeVars
<1>7. ASSUME NEW t \in Tasks, FireTimer(t) PROVE UseInv'
  BY <1>7, UseReleaseOnLoop DEF FireTimer, LoopAt
<1>8. ASSUME NEW early \in BOOLEAN, RunTask(early) PROVE UseInv'
  <2>1. Head(swap) \in Tasks \cup {Exit}
    BY <1>8 DEF TypeOK, RunTask
  <2>2. CASE Head(swap) = Exit
    BY <1>8, <2>2 DEF UseInv, RunTask, lifeVars
  <2>3. CASE Head(swap) # Exit
    <3>1. PICK D \in SUBSET Tasks : ReleaseOnLoop(D)
      BY <1>8, <2>1, <2>3 DEF RunTask
    <3> QED
      BY <1>8, <3>1, UseReleaseOnLoop DEF RunTask, LoopAt
  <2> QED
    BY <2>2, <2>3
<1>9. CASE EndBatch
  <2>1. PICK D \in SUBSET Tasks : ReleaseOnLoop(D)
    BY <1>9 DEF EndBatch
  <2> QED
    BY <1>9, <2>1, UseReleaseOnLoop DEF EndBatch, LoopAt
<1>10. CASE DeleteSelf
  <2>1. dtorPc = "none" /\ destroyer = Nobody /\ refs = {} /\ loopPc = "ended" /\ pending
    BY <1>10 DEF UseInv, DeleteSelf, LoopAt
  <2>2. destroyer' = Loop /\ dtorPc' = "flush" /\ writing' = writing \cup {Loop}
    BY <1>10 DEF DeleteSelf
  <2>3. \A th \in Threads : th \notin writing /\ th # Loop
    BY <2>1, LoopAssumption DEF UseInv
  <2>4. UNCHANGED <<pending, loopPc, sync, refs>>
    BY <1>10 DEF DeleteSelf
  <2> QED
    BY <2>1, <2>2, <2>3, <2>4, LoopAssumption DEF UseInv
<1>11. CASE WritePipe(Loop)
  BY <1>11 DEF UseInv, WritePipe, lifeVars
<1> QED
  BY <1>1, <1>2, <1>3, <1>4, <1>5, <1>6, <1>7, <1>8, <1>9, <1>10, <1>11 DEF LoopStep

LEMMA UseOtherStep ==
  ASSUME TypeOK, UseInv,
         \/ LoopSubmit \/ DtorStep
         \/ \E th \in Threads : ThreadStep(th) \/ UserStep(th)
  PROVE  UseInv'
<1>1. ASSUME NEW t \in Tasks, LoopInline(t) PROVE UseInv'
  BY <1>1 DEF UseInv, LoopInline, lifeVars, wakeVars
<1>2. ASSUME NEW t \in Tasks, NEW capture \in Captures, LoopDelay(t, capture) PROVE UseInv'
  BY <1>2 DEF UseInv, LoopDelay, wakeVars
<1>3. ASSUME NEW t \in Tasks, NEW k \in Kinds, NEW capture \in Captures,
             LoopAsync(t, k, capture)
      PROVE  UseInv'
  BY <1>3, LoopAssumption DEF UseInv, LoopAsync, Link, LoopAt
<1>4. CASE Join
  BY <1>4 DEF UseInv, Join, wakeVars
<1>5. CASE FlushTake
  BY <1>5 DEF UseInv, FlushTake, wakeVars
<1>6. CASE FlushRun
  BY <1>6 DEF UseInv, FlushRun, wakeVars, lifeVars
<1>7. CASE FlushEnd
  BY <1>7 DEF UseInv, FlushEnd, wakeVars
<1>8. ASSUME NEW th \in Threads, SyncDone(th) PROVE UseInv'
  <2>1. \A other \in Threads : sync'[other] # Nobody => sync[other] # Nobody
    BY <1>8 DEF SyncDone, TypeOK
  <2> QED
    BY <1>8, <2>1 DEF UseInv, SyncDone, lifeVars
<1>9. ASSUME NEW th \in Threads, WritePipe(th) PROVE UseInv'
  BY <1>9 DEF UseInv, WritePipe, lifeVars
<1>10. ASSUME NEW th \in Threads, DropRef(th) PROVE UseInv'
  BY <1>10, UseReleaseOn DEF DropRef
<1>11. ASSUME NEW th \in Threads, NEW t \in Tasks, Cancel(th, t) PROVE UseInv'
  BY <1>11, UseReleaseOn DEF Cancel
<1>12. ASSUME NEW th \in Threads, NEW t \in Tasks, NEW k \in Kinds, Sync(th, t, k)
       PROVE  UseInv'
  <2>1. \A other \in Threads : sync'[other] # Nobody => sync[other] # Nobody \/ other = th
    BY <1>12 DEF Sync, TypeOK
  <2>2. th \in refs /\ th # Loop /\ refs' = refs /\ writing' = writing \cup {th}
    BY <1>12, LoopAssumption DEF Sync, Link
  <2> QED
    BY <1>12, <2>1, <2>2 DEF UseInv, Sync
<1>13. ASSUME NEW th \in Threads, NEW t \in Tasks, NEW k \in Kinds, NEW capture \in Captures,
              Async(th, t, k, capture)
       PROVE  UseInv'
  <2>1. th \in refs /\ th # Loop /\ refs \subseteq refs' /\ writing' = writing \cup {th}
    BY <1>13, LoopAssumption DEF Async, Link
  <2> QED
    BY <1>13, <2>1 DEF UseInv, Async
<1> QED
  BY <1>1, <1>2, <1>3, <1>4, <1>5, <1>6, <1>7, <1>8, <1>9, <1>10, <1>11, <1>12, <1>13
     DEF LoopSubmit, DtorStep, ThreadStep, UserStep

-----------------------------------------------------------------------------
LEMMA WakeInit == Init => WakeInv
  BY DEF Init, WakeInv

LEMMA WakeLoopStep == TypeOK /\ WakeInv /\ LoopStep => WakeInv'
<1> SUFFICES ASSUME TypeOK, WakeInv, LoopStep PROVE WakeInv'
  OBVIOUS
<1>0. pipe \in Nat
  BY PipeAssumption DEF TypeOK
<1>1. CASE CheckExit
  BY <1>1 DEF WakeInv, CheckExit, LoopAt, lifeVars, wakeVars
<1>2. CASE EnterWait
  BY <1>2 DEF WakeInv, EnterWait, LoopAt, lifeVars, wakeVars
<1>3. CASE Wake
  BY <1>3 DEF WakeInv, Wake, LoopAt, lifeVars
<1>4. CASE TimeOut
  BY <1>4 DEF WakeInv, TimeOut, LoopAt, lifeVars, wakeVars
<1>5. CASE ReadPipe
  BY <1>0, <1>5, PipeAssumption DEF WakeInv, ReadPipe, LoopAt, lifeVars
<1>6. CASE TakeList
  BY <1>6 DEF WakeInv, TakeList, LoopAt, lifeVars, wakeVars
<1>7. ASSUME NEW t \in Tasks, FireTimer(t) PROVE WakeInv'
  <2>1. ReleaseOnLoop({t}) /\ loopPc' = loopPc /\ list' = list
    BY <1>7 DEF FireTimer
  <2> QED
    BY <2>1, ReleaseOnLoopTyped DEF WakeInv
<1>8. ASSUME NEW early \in BOOLEAN, RunTask(early) PROVE WakeInv'
  <2>1. loopPc = "run" /\ loopPc' = loopPc /\ list' = list
    BY <1>8 DEF RunTask, LoopAt
  <2>2. CASE Head(swap) = Exit
    BY <1>8, <2>1, <2>2 DEF WakeInv, RunTask, lifeVars
  <2>3. CASE Head(swap) # Exit
    <3>1. PICK D : ReleaseOnLoop(D)
      BY <1>8, <2>3 DEF RunTask
    <3> QED
      BY <2>1, <3>1, ReleaseOnLoopTyped DEF WakeInv
  <2> QED
    BY <2>2, <2>3
<1>9. CASE EndBatch
  <2>1. PICK D : ReleaseOnLoop(D)
    BY <1>9 DEF EndBatch
  <2> QED
    BY <1>9, <2>1, ReleaseOnLoopTyped DEF WakeInv, EndBatch, LoopAt
<1>10. CASE DeleteSelf
  BY <1>10 DEF WakeInv, DeleteSelf, LoopAt
<1>11. CASE WritePipe(Loop)
  <2>1. PipeWrite
    BY <1>11 DEF WritePipe
  <2> QED
    BY <1>0, <1>11, <2>1, PipeWriteTyped DEF WakeInv, WritePipe, lifeVars
<1> QED
  BY <1>1, <1>2, <1>3, <1>4, <1>5, <1>6, <1>7, <1>8, <1>9, <1>10, <1>11 DEF LoopStep

LEMMA WakeOtherStep ==
  ASSUME TypeOK, UseInv, WakeInv,
         \/ LoopSubmit \/ DtorStep
         \/ \E th \in Threads : ThreadStep(th) \/ UserStep(th)
  PROVE  WakeInv'
<1>0. pipe \in Nat
  BY PipeAssumption DEF TypeOK
<1>1. ASSUME NEW t \in Tasks, LoopInline(t) PROVE WakeInv'
  BY <1>1 DEF WakeInv, LoopInline, lifeVars, wakeVars
<1>2. ASSUME NEW t \in Tasks, NEW capture \in Captures, LoopDelay(t, capture) PROVE WakeInv'
  BY <1>2 DEF WakeInv, LoopDelay, wakeVars
<1>3. ASSUME NEW t \in Tasks, NEW k \in Kinds, NEW capture \in Captures,
             LoopAsync(t, k, capture)
      PROVE  WakeInv'
  BY <1>3 DEF WakeInv, LoopAsync, Link
<1>4. CASE DtorStep
  <2>1. CASE Join
    BY <2>1 DEF WakeInv, Join, wakeVars
  <2>2. CASE FlushTake
    BY <2>2 DEF WakeInv, FlushTake, wakeVars
  <2>3. CASE FlushRun
    <3>1. loopPc = "ended"
      BY <2>3 DEF UseInv, FlushRun
    <3> QED
      BY <2>3, <3>1 DEF WakeInv, FlushRun, wakeVars
  <2>4. CASE FlushEnd
    BY <2>4 DEF WakeInv, FlushEnd, wakeVars
  <2> QED
    BY <1>4, <2>1, <2>2, <2>3, <2>4 DEF DtorStep
<1>5. ASSUME NEW th \in Threads, SyncDone(th) PROVE WakeInv'
  BY <1>5 DEF WakeInv, SyncDone, lifeVars
<1>6. ASSUME NEW th \in Threads, WritePipe(th) PROVE WakeInv'
  <2>1. PipeWrite
    BY <1>6 DEF WritePipe
  <2> QED
    BY <1>0, <1>6, <2>1, PipeWriteTyped DEF WakeInv, WritePipe, lifeVars
<1>7. ASSUME NEW th \in Threads, DropRef(th) PROVE WakeInv'
  <2>1. ReleaseOn(th, {th}) /\ loopPc' = loopPc
    BY <1>7 DEF DropRef
  <2> QED
    BY <2>1, ReleaseOnTyped DEF WakeInv
<1>8. ASSUME NEW th \in Threads, NEW t \in Tasks, Cancel(th, t) PROVE WakeInv'
  <2>1. ReleaseOn(th, {t}) /\ loopPc' = loopPc
    BY <1>8 DEF Cancel
  <2> QED
    BY <2>1, ReleaseOnTyped DEF WakeInv
<1>9. ASSUME NEW th \in Threads, NEW t \in Tasks, NEW k \in Kinds, Sync(th, t, k)
      PROVE  WakeInv'
  BY <1>9 DEF WakeInv, Sync, Link
<1>10. ASSUME NEW th \in Threads, NEW t \in Tasks, NEW k \in Kinds, NEW capture \in Captures,
              Async(th, t, k, capture)
       PROVE  WakeInv'
  BY <1>10 DEF WakeInv, Async, Link
<1> QED
  BY <1>1, <1>2, <1>3, <1>4, <1>5, <1>6, <1>7, <1>8, <1>9, <1>10
     DEF LoopSubmit, ThreadStep, UserStep

IInv == TypeOK /\ UseInv /\ WakeInv

LEMMA Inductive == Spec => []IInv
<1>1. Init => IInv
  BY InitTyped, UseInit, WakeInit DEF IInv
<1>2. IInv /\ [Next]_vars => IInv'
  <2> SUFFICES ASSUME IInv, [Next]_vars PROVE IInv'
    OBVIOUS
  <2>1. CASE UNCHANGED vars
    BY <2>1 DEF IInv, TypeOK, UseInv, WakeInv, vars
  <2>2. CASE Next
    BY <2>2, StepTyped, UseLoopStep, UseOtherStep, WakeLoopStep, WakeOtherStep
       DEF IInv, Next
  <2> QED
    BY <2>1, <2>2
<1> QED
  BY <1>1, <1>2, PTL DEF Spec

(* The loop never sleeps in epoll_wait on a linked task or on the exit flag *)
(* without a wake-up that has come or is owed: async_l links first and      *)
(* writes the pipe after, onPipeEvent empties the pipe before it takes the  *)
(* list.                                                                    *)
THEOREM WakeupSafe == Spec => []NoLostWakeup
<1>1. IInv => NoLostWakeup
  BY PipeAssumption DEF IInv, TypeOK, WakeInv, NoLostWakeup
<1> QED
  BY <1>1, Inductive, PTL

(* The destructor touches the task list and frees the poller only after the *)
(* loop has returned, when no other thread is inside a call and no          *)
(* reference is left, whichever thread released the last one.               *)
THEOREM DestructionSafe == Spec => []DestroyedWhenUnused
<1>1. IInv => DestroyedWhenUnused
  <2> SUFFICES ASSUME IInv, dtorPc \in {"flush", "run", "gone"}
               PROVE  /\ loopPc = "ended" /\ writing \subseteq {destroyer}
                      /\ \A th \in Threads : sync[th] = Nobody
                      /\ refs = {}
    BY DEF DestroyedWhenUnused
  <2>1. loopPc = "ended" /\ refs = {}
    BY DEF IInv, UseInv
  <2>2. writing \subseteq {destroyer}
    BY <2>1 DEF IInv, UseInv, TypeOK
  <2>3. \A th \in Threads : sync[th] = Nobody
    BY <2>1 DEF IInv, UseInv
  <2> QED
    BY <2>1, <2>2, <2>3
<1> QED
  BY <1>1, Inductive, PTL

-----------------------------------------------------------------------------
(* Where an accepted task is until it runs: in the list, or in the batch,   *)
(* which is empty whenever somebody takes the list; and the destructor that *)
(* took the list finds it empty from then on.                               *)
In(x, s) == \E i \in 1 .. Len(s) : s[i] = x

KeptInv ==
  /\ \A t \in Tasks : kind[t] \in {"back", "first"} =>
       In(t, list) \/ In(t, swap) \/ In(t, ran) \/ t \in cancelled
  /\ loopPc # "run" /\ dtorPc # "run" => swap = <<>>
  /\ dtorPc \in {"run", "gone"} => list = <<>>

LEMMA InAppend ==
  ASSUME NEW S, NEW s \in Seq(S), NEW x \in S
  PROVE  /\ In(x, Append(s, x))
         /\ \A y : In(y, s) => In(y, Append(s, x))
<1>1. Len(Append(s, x)) = Len(s) + 1 /\ Append(s, x)[Len(s) + 1] = x /\ Len(s) \in Nat
  OBVIOUS
<1>2. \A i \in 1 .. Len(s) : Append(s, x)[i] = s[i]
  OBVIOUS
<1> QED
  BY <1>1, <1>2 DEF In

LEMMA InFront ==
  ASSUME NEW S, NEW s \in Seq(S), NEW x \in S
  PROVE  /\ In(x, <<x>> \o s)
         /\ \A y : In(y, s) => In(y, <<x>> \o s)
<1>0. <<x>> \in Seq(S) /\ Len(<<x>>) = 1 /\ <<x>>[1] = x /\ Len(s) \in Nat
  OBVIOUS
<1>1. /\ Len(<<x>> \o s) = Len(s) + 1
      /\ \A i \in 1 .. Len(s) + 1 : (<<x>> \o s)[i] = IF i <= 1 THEN x ELSE s[i - 1]
  BY <1>0, ConcatProperties
<1>2. (<<x>> \o s)[1] = x /\ 1 \in 1 .. Len(<<x>> \o s)
  BY <1>0, <1>1
<1>3. ASSUME NEW i \in 1 .. Len(s)
      PROVE  (<<x>> \o s)[i + 1] = s[i] /\ i + 1 \in 1 .. Len(<<x>> \o s)
  BY <1>0, <1>1
<1> QED
  BY <1>2, <1>3 DEF In

LEMMA InTail ==
  ASSUME NEW S, NEW s \in Seq(S), s # <<>>, NEW y, In(y, s)
  PROVE  y = Head(s) \/ In(y, Tail(s))
<1>1. PICK i \in 1 .. Len(s) : s[i] = y
  BY DEF In
<1>2. CASE i = 1
  BY <1>1, <1>2
<1>3. CASE i # 1
  <2>1. i - 1 \in 1 .. Len(Tail(s)) /\ Tail(s)[i - 1] = s[i]
    BY <1>3
  <2> QED
    BY <1>1, <2>1 DEF In
<1> QED
  BY <1>2, <1>3

LEMMA KeptInit == Init => KeptInv
  BY DEF Init, KeptInv

(* A task of the batch that is called runs, unless it was cancelled or is a *)
(* delay task, of which nothing is promised here.                           *)
LEMMA KeptExecute ==
  ASSUME TypeOK, KeptInv, swap # <<>>, swap' = Tail(swap), Execute(Head(swap)),
         UNCHANGED <<list, kind, cancelled>>
  PROVE  \A t \in Tasks : kind'[t] \in {"back", "first"} =>
           In(t, list') \/ In(t, swap') \/ In(t, ran') \/ t \in cancelled'
<1> SUFFICES ASSUME NEW t \in Tasks, kind[t] \in {"back", "first"}
             PROVE  In(t, list) \/ In(t, Tail(swap)) \/ In(t, ran') \/ t \in cancelled
  OBVIOUS
<1>1. ran \in Seq(Tasks) /\ swap \in Seq(Tasks \cup {Exit}) /\ t # Exit
  BY TaskAssumption DEF TypeOK
<1>2. CASE In(t, ran)
  <2>1. Head(swap) \in Tasks \cup {Exit}
    BY <1>1
  <2>2. CASE ran' = ran
    BY <1>2, <2>2
  <2>3. CASE ran' # ran
    <3>1. ran' = Append(ran, Head(swap)) /\ Head(swap) # Exit
      BY <2>3 DEF Execute
    <3> QED
      BY <1>1, <1>2, <2>1, <3>1, InAppend
  <2> QED
    BY <2>2, <2>3
<1>3. CASE In(t, swap) /\ Head(swap) = t
  <2>1. CASE t \in cancelled
    BY <2>1
  <2>2. CASE t \notin cancelled
    <3>1. ran' = Append(ran, t)
      BY <1>1, <1>3, <2>2 DEF Execute
    <3> QED
      BY <1>1, <3>1, InAppend
  <2> QED
    BY <2>1, <2>2
<1>4. CASE In(t, swap) /\ Head(swap) # t
  BY <1>1, <1>4, InTail
<1> QED
  BY <1>2, <1>3, <1>4 DEF KeptInv

(* A thread that releases the last reference only puts the exit task in     *)
(* front.                                                                   *)
LEMMA KeptRelease ==
  ASSUME TypeOK, UseInv, KeptInv, NEW th \in Threads, NEW D, ReleaseOn(th, D),
         UNCHANGED <<swap, loopPc, kind, ran>>, cancelled \subseteq cancelled'
  PROVE  KeptInv'
<1>1. CASE LastRef(D)
  <2>1. list' = <<Exit>> \o list /\ dtorPc' = "join" /\ dtorPc = "none"
    BY <1>1 DEF ReleaseOn, LastRef, UseInv
  <2>2. \A y : In(y, list) => In(y, list')
    BY <2>1, InFront DEF TypeOK
  <2> QED
    BY <2>1, <2>2 DEF KeptInv
<1>2. CASE ~LastRef(D)
  BY <1>2 DEF ReleaseOn, KeptInv
<1> QED
  BY <1>1, <1>2

LEMMA KeptLink ==
  ASSUME TypeOK, UseInv, KeptInv, NEW th, NEW t \in Tasks, NEW k \in {"back", "first", "delay"},
         NEW capture \in BOOLEAN, Link(th, t, k, capture), refs # {},
         UNCHANGED <<swap, loopPc, dtorPc, ran, cancelled>>
  PROVE  KeptInv'
<1>1. \A y : In(y, list) => In(y, list')
  BY InAppend, InFront DEF TypeOK, Link
<1>2. In(t, list')
  BY InAppend, InFront DEF TypeOK, Link
<1>3. \A u \in Tasks : u # t => kind'[u] = kind[u]
  BY DEF TypeOK, Link
<1>4. dtorPc = "none"
  BY DEF UseInv
<1> QED
  BY <1>1, <1>2, <1>3, <1>4 DEF KeptInv

LEMMA KeptLoopStep == TypeOK /\ UseInv /\ KeptInv /\ LoopStep => KeptInv'
<1> SUFFICES ASSUME TypeOK, UseInv, KeptInv, LoopStep PROVE KeptInv'
  OBVIOUS
<1>1. CASE CheckExit
  BY <1>1 DEF KeptInv, CheckExit, LoopAt, lifeVars, wakeVars
<1>2. CASE EnterWait
  BY <1>2 DEF KeptInv, EnterWait, LoopAt, lifeVars, wakeVars
<1>3. CASE Wake
  BY <1>3 DEF KeptInv, Wake, LoopAt, lifeVars
<1>4. CASE TimeOut
  BY <1>4 DEF KeptInv, TimeOut, LoopAt, lifeVars, wakeVars
<1>5. CASE ReadPipe
  BY <1>5 DEF KeptInv, ReadPipe, LoopAt, lifeVars
<1>6. CASE TakeList
  <2>1. dtorPc \notin {"run", "gone"} /\ swap = <<>>
    BY <1>6 DEF UseInv, KeptInv, TakeList, LoopAt
  <2>2. \A t : ~In(t, swap)
    BY <2>1 DEF In
  <2> QED
    BY <1>6, <2>1, <2>2 DEF KeptInv, TakeList, lifeVars
<1>7. ASSUME NEW t \in Tasks, FireTimer(t) PROVE KeptInv'
  <2>1. \A y : In(y, ran) => In(y, ran')
    BY <1>7, InAppend DEF TypeOK, FireTimer
  <2>2. UNCHANGED <<list, swap, loopPc, kind, cancelled, dtorPc>>
    BY <1>7 DEF FireTimer, ReleaseOnLoop
  <2> QED
    BY <2>1, <2>2 DEF KeptInv
<1>8. ASSUME NEW early \in BOOLEAN, RunTask(early) PROVE KeptInv'
  <2>1. /\ loopPc = "run" /\ swap # <<>> /\ swap' = Tail(swap) /\ Execute(Head(swap))
        /\ UNCHANGED <<list, loopPc, kind, cancelled>>
    BY <1>8 DEF RunTask, LoopAt
  <2>2. dtorPc' = dtorPc
    BY <1>8 DEF RunTask, ReleaseOnLoop, lifeVars
  <2> QED
    BY <2>1, <2>2, KeptExecute DEF KeptInv
<1>9. CASE EndBatch
  BY <1>9 DEF KeptInv, EndBatch, ReleaseOnLoop
<1>10. CASE DeleteSelf
  <2>1. \A y : In(y, list) => In(y, list')
    BY <1>10, InFront DEF TypeOK, DeleteSelf
  <2> QED
    BY <1>10, <2>1 DEF KeptInv, DeleteSelf, LoopAt
<1>11. CASE WritePipe(Loop)
  BY <1>11 DEF KeptInv, WritePipe, lifeVars
<1> QED
  BY <1>1, <1>2, <1>3, <1>4, <1>5, <1>6, <1>7, <1>8, <1>9, <1>10, <1>11 DEF LoopStep

LEMMA KeptOtherStep ==
  ASSUME TypeOK, UseInv, KeptInv,
         \/ LoopSubmit \/ DtorStep
         \/ \E th \in Threads : ThreadStep(th) \/ UserStep(th)
  PROVE  KeptInv'
<1>1. ASSUME NEW t \in Tasks, LoopInline(t) PROVE KeptInv'
  <2>1. \A y : In(y, ran) => In(y, ran')
    BY <1>1, InAppend DEF TypeOK, LoopInline
  <2>2. \A u \in Tasks : kind'[u] \in {"back", "first"} => kind[u] \in {"back", "first"}
    BY <1>1 DEF TypeOK, LoopInline
  <2> QED
    BY <1>1, <2>1, <2>2 DEF KeptInv, LoopInline, lifeVars
<1>2. ASSUME NEW t \in Tasks, NEW capture \in Captures, LoopDelay(t, capture) PROVE KeptInv'
  <2>1. \A u \in Tasks : kind'[u] \in {"back", "first"} => kind[u] \in {"back", "first"}
    BY <1>2 DEF TypeOK, LoopDelay
  <2> QED
    BY <1>2, <2>1 DEF KeptInv, LoopDelay
<1>3. ASSUME NEW t \in Tasks, NEW k \in Kinds, NEW capture \in Captures,
             LoopAsync(t, k, capture)
      PROVE  KeptInv'
  BY <1>3, KeptLink, KindAssumption DEF LoopAsync
<1>4. CASE DtorStep
  <2>1. CASE Join
    BY <2>1 DEF KeptInv, Join
  <2>2. CASE FlushTake
    <3>1. swap = <<>>
      BY <2>2 DEF UseInv, KeptInv, FlushTake
    <3>2. \A t : ~In(t, swap)
      BY <3>1 DEF In
    <3> QED
      BY <2>2, <3>2 DEF KeptInv, FlushTake
  <2>3. CASE FlushRun
    BY <2>3, KeptExecute DEF KeptInv, FlushRun, lifeVars
  <2>4. CASE FlushEnd
    BY <2>4 DEF UseInv, KeptInv, FlushEnd
  <2> QED
    BY <1>4, <2>1, <2>2, <2>3, <2>4 DEF DtorStep
<1>5. ASSUME NEW th \in Threads, SyncDone(th) PROVE KeptInv'
  BY <1>5 DEF KeptInv, SyncDone, lifeVars
<1>6. ASSUME NEW th \in Threads, WritePipe(th) PROVE KeptInv'
  BY <1>6 DEF KeptInv, WritePipe, lifeVars
<1>7. ASSUME NEW th \in Threads, DropRef(th) PROVE KeptInv'
  BY <1>7, KeptRelease DEF DropRef
<1>8. ASSUME NEW th \in Threads, NEW t \in Tasks, Cancel(th, t) PROVE KeptInv'
  BY <1>8, KeptRelease DEF Cancel
<1>9. ASSUME NEW th \in Threads, NEW t \in Tasks, NEW k \in Kinds, Sync(th, t, k)
      PROVE  KeptInv'
  BY <1>9, KeptLink, KindAssumption DEF Sync
<1>10. ASSUME NEW th \in Threads, NEW t \in Tasks, NEW k \in Kinds, NEW capture \in Captures,
              Async(th, t, k, capture)
       PROVE  KeptInv'
  BY <1>10, KeptLink, KindAssumption DEF Async
<1> QED
  BY <1>1, <1>2, <1>3, <1>4, <1>5, <1>6, <1>7, <1>8, <1>9, <1>10
     DEF LoopSubmit, ThreadStep, UserStep

LEMMA KeptInvariance == Spec => []KeptInv
<1>1. Init => KeptInv
  BY KeptInit
<1>2. IInv /\ KeptInv /\ [Next]_vars => KeptInv'
  <2> SUFFICES ASSUME IInv, KeptInv, [Next]_vars PROVE KeptInv'
    OBVIOUS
  <2>1. CASE UNCHANGED vars
    BY <2>1 DEF KeptInv, vars
  <2>2. CASE Next
    BY <2>2, KeptLoopStep, KeptOtherStep DEF IInv, Next
  <2> QED
    BY <2>1, <2>2
<1> QED
  BY <1>1, <1>2, Inductive, PTL DEF Spec

(* Whatever is given to async or async_first before the last reference goes *)
(* has run or was cancelled when the poller is gone: the loop takes the     *)
(* whole list, and the destructor flushes what the loop left.               *)
THEOREM TasksKept == Spec => []NothingLost
<1>1. IInv /\ KeptInv => NothingLost
  <2> SUFFICES ASSUME IInv, KeptInv, dtorPc = "gone", NEW t \in Tasks, kind[t] \in {"back", "first"}
               PROVE  t \in RanSet \cup cancelled
    BY DEF NothingLost
  <2>1. list = <<>> /\ swap = <<>>
    BY DEF IInv, UseInv, KeptInv
  <2>2. In(t, ran) \/ t \in cancelled
    BY <2>1 DEF KeptInv, In
  <2> QED
    BY <2>2 DEF In, RanSet
<1> QED
  BY <1>1, KeptInvariance, Inductive, PTL

-----------------------------------------------------------------------------
(* PollerTasks implements TaskOrder: the queue of the executor is the batch *)
(* that is being run, followed by the list.                                 *)
LEMMA FrontPart ==
  ASSUME NEW S, NEW s \in Seq(S), NEW u \in Seq(S)
  PROVE  /\ SubSeq(s \o u, 1, Len(s)) = s
         /\ SubSeq(s \o u, Len(s) + 1, Len(s \o u)) = u
<1>1. /\ s \o u \in Seq(S) /\ Len(s \o u) = Len(s) + Len(u)
      /\ Len(s) \in Nat /\ Len(u) \in Nat
  BY ConcatProperties, LenProperties
<1>2. CASE Len(s) = 0
  <2>1. s = <<>> /\ s \o u = u
    BY <1>2, EmptySeq, ConcatEmptySeq
  <2>2. SubSeq(u, 1, 0) = <<>>
    BY SubSeqEmpty
  <2>3. SubSeq(u, 1, Len(u)) = u
    BY SubSeqFull
  <2> QED
    BY <1>2, <2>1, <2>2, <2>3
<1>3. CASE Len(s) # 0
  <2>1. 1 \in 1 .. Len(s) /\ Len(s) \in 1 .. Len(s)
    BY <1>1, <1>3
  <2>2. SubSeq(s \o u, 1, Len(s)) = s
    BY <2>1, SubSeqOfConcat1, SubSeqFull
  <2>3. SubSeq(s \o u, Len(s) + 1, Len(s \o u)) = u
    <3>1. CASE Len(u) = 0
      <4>1. u = <<>>
        BY <3>1, EmptySeq
      <4>2. SubSeq(s \o u, Len(s) + 1, Len(s \o u)) = <<>>
        BY <1>1, <3>1, SubSeqEmpty
      <4> QED
        BY <4>1, <4>2
    <3>2. CASE Len(u) # 0
      <4>1. /\ Len(s) + 1 \in Len(s) + 1 .. Len(s) + Len(u)
            /\ Len(s) + Len(u) \in Len(s) + 1 .. Len(s) + Len(u)
        BY <1>1, <3>2
      <4>2. SubSeq(s \o u, Len(s) + 1, Len(s) + Len(u))
              = SubSeq(u, Len(s) + 1 - Len(s), Len(s) + Len(u) - Len(s))
        BY <4>1, SubSeqOfConcat2
      <4>3. Len(s) + 1 - Len(s) = 1 /\ Len(s) + Len(u) - Len(s) = Len(u)
        BY <1>1
      <4> QED
        BY <1>1, <4>2, <4>3, SubSeqFull
    <3> QED
      BY <3>1, <3>2
  <2> QED
    BY <2>2, <2>3
<1> QED
  BY <1>2, <1>3

Queue == swap \o list

LEMMA QueueTyped ==
  ASSUME TypeOK
  PROVE  /\ Queue \in Seq(Tasks \cup {Exit})
         /\ list \in Seq(Tasks \cup {Exit}) /\ swap \in Seq(Tasks \cup {Exit})
         /\ Len(swap) \in 0 .. Len(Queue)
<1>1. list \in Seq(Tasks \cup {Exit}) /\ swap \in Seq(Tasks \cup {Exit})
  BY DEF TypeOK
<1>2. Queue \in Seq(Tasks \cup {Exit}) /\ Len(Queue) = Len(swap) + Len(list)
  BY <1>1, ConcatProperties DEF Queue
<1>3. Len(swap) \in Nat /\ Len(list) \in Nat
  BY <1>1, LenProperties
<1> QED
  BY <1>1, <1>2, <1>3

(* What async_l does to the list is what the executor does to its queue.    *)
LEMMA LinkedAhead ==
  ASSUME TypeOK, NEW t \in Tasks \cup {Exit}, list' = <<t>> \o list, swap' = swap
  PROVE  Order!Ahead(t)
<1>1. /\ swap \in Seq(Tasks \cup {Exit}) /\ list \in Seq(Tasks \cup {Exit})
      /\ <<t>> \in Seq(Tasks \cup {Exit}) /\ Len(swap) \in 0 .. Len(Queue)
  BY QueueTyped
<1>2. /\ SubSeq(Queue, 1, Len(swap)) = swap
      /\ SubSeq(Queue, Len(swap) + 1, Len(Queue)) = list
  BY <1>1, FrontPart DEF Queue
<1>3. (swap \o <<t>>) \o list = swap \o (<<t>> \o list)
  BY <1>1, ConcatAssociative
<1>4. swap' \o list' = SubSeq(Queue, 1, Len(swap)) \o <<t>>
                         \o SubSeq(Queue, Len(swap) + 1, Len(Queue))
  BY <1>2, <1>3
<1> QED
  BY <1>1, <1>4 DEF Order!Ahead, Queue

LEMMA LinkedBehind ==
  ASSUME TypeOK, NEW t \in Tasks, list' = Append(list, t), swap' = swap
  PROVE  swap' \o list' = Append(Queue, t)
<1>1. /\ swap \in Seq(Tasks \cup {Exit}) /\ list \in Seq(Tasks \cup {Exit})
      /\ <<t>> \in Seq(Tasks \cup {Exit}) /\ Queue \in Seq(Tasks \cup {Exit})
  BY QueueTyped
<1>2. Append(list, t) = list \o <<t>> /\ Append(Queue, t) = Queue \o <<t>>
  BY <1>1, AppendIsConcat
<1>3. (swap \o list) \o <<t>> = swap \o (list \o <<t>>)
  BY <1>1, ConcatAssociative
<1> QED
  BY <1>2, <1>3 DEF Queue

LEMMA LinkImplements ==
  ASSUME TypeOK, NEW th \in Threads \cup {Loop}, NEW t \in Tasks, NEW k \in {"back", "first", "delay"},
         NEW capture \in BOOLEAN, Link(th, t, k, capture),
         UNCHANGED <<swap, timers, cancelled, ran>>
  PROVE  Order!Next
<1>1. Order!Accept(t, k)
  BY DEF Link, Order!Accept
<1>2. CASE k = "back"
  <2>1. swap' \o list' = Append(Queue, t)
    BY <1>2, LinkedBehind DEF Link
  <2>2. Order!Async(t)
    BY <1>1, <1>2, <2>1 DEF Order!Async, Queue
  <2> QED
    BY <2>2 DEF Order!Next
<1>3. CASE k # "back"
  <2>1. Order!Ahead(t)
    BY <1>3, LinkedAhead DEF Link
  <2>2. k \in {"first", "delay"} /\ Order!AsyncFirst(t, k)
    BY <1>1, <1>3, <2>1 DEF Order!AsyncFirst
  <2> QED
    BY <2>2 DEF Order!Next
<1> QED
  BY <1>2, <1>3

(* One task of the batch is one task of the queue.                          *)
LEMMA ExecuteImplements ==
  ASSUME TypeOK, swap # <<>>, swap' = Tail(swap), Execute(Head(swap)),
         UNCHANGED <<list, kind, cancelled>>
  PROVE  Order!Next
<1>1. swap \in Seq(Tasks \cup {Exit}) /\ list \in Seq(Tasks \cup {Exit})
  BY QueueTyped
<1>2. /\ Queue # <<>> /\ Head(Queue) = Head(swap) /\ Tail(Queue) = Tail(swap) \o list
      /\ Head(swap) \in Tasks \cup {Exit}
  <2>1. Head(swap) \in Tasks \cup {Exit} /\ Tail(swap) \in Seq(Tasks \cup {Exit})
    BY <1>1, HeadTailProperties
  <2>2. Queue # <<>>
    BY <1>1, ConcatEqualIffEmpty DEF Queue
  <2>3. Head(Queue) = Head(swap) /\ Tail(Queue) = Tail(swap) \o list
    <3>1. PICK x \in Tasks \cup {Exit}, s \in Seq(Tasks \cup {Exit}) : x = Head(swap) /\ s = Tail(swap)
      BY <2>1
    <3>2. swap = <<x>> \o s
      BY <1>1, <3>1
    <3>3. <<x>> \o s \o list = <<x>> \o (s \o list)
      BY <1>1, <3>1, ConcatAssociative
    <3>4. s \o list \in Seq(Tasks \cup {Exit})
      BY <1>1, ConcatProperties
    <3>5. Head(<<x>> \o (s \o list)) = x /\ Tail(<<x>> \o (s \o list)) = s \o list
      BY <3>4
    <3> QED
      BY <3>1, <3>2, <3>3, <3>5 DEF Queue
  <2> QED
    BY <2>1, <2>2, <2>3
<1>3. Order!StartNext
  <2>1. CASE Head(swap) = Exit
    BY <1>2, <2>1 DEF Order!StartNext, Execute, Queue
  <2>2. CASE Head(swap) # Exit /\ kind[Head(swap)] = "delay"
    BY <1>2, <2>2 DEF Order!StartNext, Execute, Queue
  <2>3. CASE Head(swap) # Exit /\ kind[Head(swap)] # "delay"
    BY <1>2, <2>3 DEF Order!StartNext, Order!Begin, Execute, Queue
  <2> QED
    BY <2>1, <2>2, <2>3
<1> QED
  BY <1>3 DEF Order!Next

orderVars == <<swap \o list, timers, kind, cancelled, ran>>

LEMMA LoopStepImplements ==
  ASSUME TypeOK, KeptInv, UseInv, LoopStep
  PROVE  Order!Next \/ UNCHANGED orderVars
<1>1. CASE CheckExit \/ EnterWait \/ Wake \/ TimeOut \/ ReadPipe \/ EndBatch \/ WritePipe(Loop)
  BY <1>1 DEF CheckExit, EnterWait, Wake, TimeOut, ReadPipe, EndBatch, WritePipe, orderVars
<1>2. CASE TakeList
  <2>1. swap = <<>> /\ swap' = list /\ list' = <<>>
    BY <1>2 DEF TakeList, LoopAt, KeptInv, UseInv
  <2>2. swap \o list = list /\ swap' \o list' = list
    BY <2>1, QueueTyped, ConcatEmptySeq
  <2> QED
    BY <1>2, <2>2 DEF TakeList, orderVars
<1>3. ASSUME NEW t \in Tasks, FireTimer(t) PROVE Order!Next
  <2>1. Order!Expire(t)
    BY <1>3 DEF FireTimer, Order!Expire, Order!Begin
  <2> QED
    BY <2>1 DEF Order!Next
<1>4. ASSUME NEW early \in BOOLEAN, RunTask(early) PROVE Order!Next
  BY <1>4, ExecuteImplements DEF RunTask
<1>5. CASE DeleteSelf
  <2>1. Order!Ahead(Exit)
    BY <1>5, LinkedAhead DEF DeleteSelf
  <2>2. Order!AsyncOwn(Exit)
    BY <1>5, <2>1 DEF DeleteSelf, Order!AsyncOwn
  <2> QED
    BY <2>2 DEF Order!Next
<1> QED
  BY <1>1, <1>2, <1>3, <1>4, <1>5 DEF LoopStep

LEMMA LoopSubmitImplements ==
  ASSUME TypeOK, LoopSubmit
  PROVE  Order!Next
<1>1. ASSUME NEW t \in Tasks, LoopInline(t) PROVE Order!Next
  <2>1. Order!RunInline(t)
    BY <1>1 DEF LoopInline, Order!RunInline, Order!Accept
  <2> QED
    BY <2>1 DEF Order!Next
<1>2. ASSUME NEW t \in Tasks, NEW capture \in Captures, LoopDelay(t, capture) PROVE Order!Next
  <2>1. Order!StartTimer(t)
    BY <1>2 DEF LoopDelay, Order!StartTimer, Order!Accept
  <2> QED
    BY <2>1 DEF Order!Next
<1>3. ASSUME NEW t \in Tasks, NEW k \in Kinds, NEW capture \in Captures, LoopAsync(t, k, capture)
      PROVE  Order!Next
  BY <1>3, LinkImplements, KindAssumption DEF LoopAsync
<1> QED
  BY <1>1, <1>2, <1>3 DEF LoopSubmit

LEMMA DtorStepImplements ==
  ASSUME TypeOK, KeptInv, UseInv, DtorStep
  PROVE  Order!Next \/ UNCHANGED orderVars
<1>1. CASE Join \/ FlushEnd
  BY <1>1 DEF Join, FlushEnd, orderVars
<1>2. CASE FlushTake
  <2>1. swap = <<>> /\ swap' = list /\ list' = <<>>
    BY <1>2 DEF FlushTake, KeptInv, UseInv
  <2>2. swap \o list = list /\ swap' \o list' = list
    BY <2>1, QueueTyped, ConcatEmptySeq
  <2> QED
    BY <1>2, <2>2 DEF FlushTake, orderVars
<1>3. CASE FlushRun
  BY <1>3, ExecuteImplements DEF FlushRun, lifeVars
<1> QED
  BY <1>1, <1>2, <1>3 DEF DtorStep

LEMMA UserStepImplements ==
  ASSUME TypeOK, NEW th \in Threads, UserStep(th)
  PROVE  Order!Next \/ UNCHANGED orderVars
<1>1. CASE DropRef(th)
  <2>1. list' = list \/ list' = <<Exit>> \o list
    BY <1>1 DEF DropRef, ReleaseOn
  <2>2. CASE list' = list
    BY <1>1, <2>2 DEF DropRef, orderVars
  <2>3. CASE list' = <<Exit>> \o list
    <3>1. Order!Ahead(Exit)
      BY <1>1, <2>3, LinkedAhead DEF DropRef
    <3>2. Order!AsyncOwn(Exit)
      BY <1>1, <3>1 DEF DropRef, Order!AsyncOwn
    <3> QED
      BY <3>2 DEF Order!Next
  <2> QED
    BY <2>1, <2>2, <2>3
<1>2. ASSUME NEW t \in Tasks, Cancel(th, t) PROVE Order!Next
  <2>1. UNCHANGED (swap \o list) \/ Order!Ahead(Exit)
    BY <1>2, LinkedAhead DEF Cancel, ReleaseOn
  <2>2. Order!Cancel(t)
    BY <1>2, <2>1 DEF Cancel, Order!Cancel, Order!Started, RanSet
  <2> QED
    BY <2>2 DEF Order!Next
<1>3. ASSUME NEW t \in Tasks, NEW k \in Kinds, Sync(th, t, k) PROVE Order!Next
  BY <1>3, LinkImplements, KindAssumption DEF Sync
<1>4. ASSUME NEW t \in Tasks, NEW k \in Kinds, NEW capture \in Captures, Async(th, t, k, capture)
      PROVE  Order!Next
  BY <1>4, LinkImplements, KindAssumption DEF Async
<1> QED
  BY <1>1, <1>2, <1>3, <1>4 DEF UserStep

(* The poller with its threads, its pipe, its batches and its destructor is *)
(* an executor as TaskExecutorInterface describes it: tasks given to async  *)
(* start in the order they were given, one given to async_first may         *)
(* overtake, nothing starts twice and nothing is passed over unless it was  *)
(* cancelled (async_l, onPipeEvent, flushDelayTask, shutdown).              *)
THEOREM OrderCorrect == Spec => ImplementsTaskOrder
<1>1. Init => Order!Init
  <2> SUFFICES ASSUME Init PROVE Order!Init
    OBVIOUS
  <2>1. swap \o list = <<>>
    BY DEF Init
  <2> QED
    BY <2>1 DEF Init, Order!Init
<1>2. IInv /\ KeptInv /\ [Next]_vars => [Order!Next]_orderVars
  <2> SUFFICES ASSUME IInv, KeptInv, [Next]_vars PROVE Order!Next \/ UNCHANGED orderVars
    BY DEF orderVars
  <2>1. TypeOK /\ UseInv
    BY DEF IInv
  <2>2. CASE UNCHANGED vars
    BY <2>2 DEF vars, orderVars
  <2>3. CASE LoopStep \/ LoopSubmit \/ DtorStep
    BY <2>1, <2>3, LoopStepImplements, LoopSubmitImplements, DtorStepImplements
  <2>4. ASSUME NEW th \in Threads, ThreadStep(th) PROVE UNCHANGED orderVars
    BY <2>4 DEF ThreadStep, SyncDone, WritePipe, orderVars
  <2>5. ASSUME NEW th \in Threads, UserStep(th) PROVE Order!Next \/ UNCHANGED orderVars
    BY <2>1, <2>5, UserStepImplements
  <2> QED
    BY <2>2, <2>3, <2>4, <2>5 DEF Next
<1>3. Spec => []KeptInv
  BY KeptInvariance
<1> QED
  BY <1>1, <1>2, <1>3, Inductive, PTL DEF Spec, ImplementsTaskOrder, Order!Spec, orderVars

-----------------------------------------------------------------------------
(* The loop over kqueue and over select.                                    *)
PollRecord == [file : PollFiles \cup {NoPolled}, event : SUBSET Filters]

BackendTyped ==
  /\ backend \in {"select", "kqueue"} /\ loopAt \in {"wait", "batch", "callback"}
  /\ fileAt \in [PollFds -> PollFiles \cup {NoPolled}] /\ used \subseteq PollFiles
  /\ pollRecords \in [PollFds -> PollRecord]
  /\ filters \in [PollFiles -> SUBSET Filters] /\ edges \in [PollFiles -> SUBSET Filters]
  /\ levels \in [PollFiles -> SUBSET Filters] /\ unheard \in [PollFiles -> SUBSET Filters]

(* A file has one number, and a number is registered for the file it has.   *)
NumbersInv ==
  /\ \A n \in PollFds : fileAt[n] # NoPolled => fileAt[n] \in used
  /\ \A n, k \in PollFds : fileAt[n] = fileAt[k] /\ fileAt[n] # NoPolled => n = k
  /\ \A n \in PollFds : pollRecords[n].file # NoPolled => pollRecords[n].file = fileAt[n]

(* An event of a registered file that was not marked since is still of the  *)
(* file that its number is registered for.                                  *)
BatchInv ==
  /\ \A e \in batch : e.fd \in PollFds /\ e.file \in PollFiles /\ e.attach \subseteq Filters
  /\ \A e \in batch : backend = "select" => e.known
  /\ \A e \in batch : e.known /\ e.fd \notin stale => pollRecords[e.fd].file = e.file
  /\ loopAt = "wait" => batch = {}

(* What a registered file was asked for is a filter of the kernel, unless   *)
(* the change was cut short; what it is ready for and was not told is due:  *)
(* the kernel reports it, or it waits in the batch.                         *)
Waiting(n, e) ==
  \E r \in batch : r.known /\ r.fd = n /\ n \notin stale /\ e \in r.attach
Due(n, f, e) == e \in edges[f] \/ Waiting(n, e)
HeardInv ==
  /\ \A f \in PollFiles : unheard[f] \subseteq levels[f]
  /\ backend = "kqueue" =>
       \A n \in PollFds : pollRecords[n].file # NoPolled =>
         \A e \in pollRecords[n].event :
           \/ e = "WRITE" /\ pollRecords[n].file \in cut
           \/ /\ e \in filters[pollRecords[n].file]
              /\ e \in unheard[pollRecords[n].file] => Due(n, pollRecords[n].file, e)

BackendInv == BackendTyped /\ NumbersInv /\ BatchInv /\ HeardInv /\ ~misled

LEMMA BackendStarts ==
  ASSUME BackendsAssumption, BackendInit
  PROVE  BackendInv
<1>1. NoneYet \in PollRecord /\ NoneYet.file = NoPolled
  BY DEF NoneYet, PollRecord, Filters
<1>2. \A n \in PollFds : pollRecords[n] = NoneYet /\ fileAt[n] = NoPolled
  BY DEF BackendInit
<1>3. BackendTyped
  BY <1>1 DEF BackendInit, BackendTyped
<1>4. NumbersInv
  BY <1>1, <1>2 DEF NumbersInv
<1>5. BatchInv
  BY DEF BackendInit, BatchInv
<1>6. HeardInv
  BY <1>1, <1>2 DEF BackendInit, HeardInv
<1> QED
  BY <1>3, <1>4, <1>5, <1>6 DEF BackendInv, BackendInit

LEMMA BackendSame ==
  ASSUME BackendInv, UNCHANGED backendVars
  PROVE  BackendInv'
<1>1. BackendTyped' /\ NumbersInv' /\ ~misled'
  BY DEF BackendInv, backendVars, BackendTyped, NumbersInv
<1>2. BatchInv'
  BY DEF BackendInv, backendVars, BatchInv
<1>3. HeardInv'
  BY DEF BackendInv, backendVars, HeardInv, Due, Waiting
<1> QED
  BY <1>1, <1>2, <1>3 DEF BackendInv

(* The number of an open file.                                              *)
LEMMA NumberOf ==
  ASSUME BackendsAssumption, BackendInv, NEW f \in PollFiles, f \in OpenFiles
  PROVE  /\ FdOf(f) \in PollFds /\ fileAt[FdOf(f)] = f
         /\ \A k \in PollFds : fileAt[k] = f => k = FdOf(f)
         /\ IsRegistered(f) <=> pollRecords[FdOf(f)].file = f
         /\ f # NoPolled /\ pollRecords[FdOf(f)] \in PollRecord
<1>1. f # NoPolled
  BY DEF BackendsAssumption
<1>2. \E k \in PollFds : fileAt[k] = f
  BY DEF OpenFiles
<1>3. FdOf(f) \in PollFds /\ fileAt[FdOf(f)] = f
  BY <1>2 DEF FdOf
<1>4. \A k \in PollFds : fileAt[k] = f => k = FdOf(f)
  BY <1>1, <1>3 DEF BackendInv, NumbersInv
<1>5. IsRegistered(f) <=> pollRecords[FdOf(f)].file = f
  BY <1>1, <1>3, <1>4 DEF BackendInv, NumbersInv, IsRegistered
<1> QED
  BY <1>1, <1>3, <1>4, <1>5 DEF BackendInv, BackendTyped

LEMMA OpenKeeps ==
  ASSUME BackendsAssumption, BackendInv, NEW f \in PollFiles, NEW n \in PollFds, Open(f, n)
  PROVE  BackendInv'
<1>1. /\ f \notin used /\ fileAt[n] = NoPolled /\ f # NoPolled
      /\ fileAt' = [fileAt EXCEPT ![n] = f] /\ used' = used \cup {f}
      /\ UNCHANGED <<backend, batch, loopAt, misled, pollRecords, filters, edges, levels, unheard, cut, stale>>
  BY DEF Open, Called, BackendsAssumption
<1>2. \A k \in PollFds : fileAt'[k] = IF k = n THEN f ELSE fileAt[k]
  BY <1>1 DEF BackendInv, BackendTyped
<1>3. BackendTyped' /\ ~misled'
  BY <1>1 DEF BackendInv, BackendTyped
<1>4. NumbersInv'
  BY <1>1, <1>2 DEF BackendInv, NumbersInv
<1>5. BatchInv'
  BY <1>1 DEF BackendInv, BatchInv
<1>6. HeardInv'
  BY <1>1 DEF BackendInv, HeardInv, Due, Waiting
<1> QED
  BY <1>3, <1>4, <1>5, <1>6 DEF BackendInv

LEMMA CloseFileKeeps ==
  ASSUME BackendsAssumption, BackendInv, NEW f \in PollFiles, CloseFile(f)
  PROVE  BackendInv'
<1>1. PICK n \in PollFds : n = FdOf(f) /\ fileAt[n] = f /\ pollRecords[n].file # f
                           /\ f # NoPolled /\ ~IsRegistered(f)
  BY NumberOf DEF CloseFile
<1>2. /\ fileAt' = [fileAt EXCEPT ![n] = NoPolled]
      /\ filters' = [filters EXCEPT ![f] = {}] /\ edges' = [edges EXCEPT ![f] = {}]
      /\ levels' = [levels EXCEPT ![f] = {}] /\ unheard' = [unheard EXCEPT ![f] = {}]
      /\ cut' = cut \ {f}
      /\ UNCHANGED <<backend, batch, loopAt, misled, used, pollRecords, stale>>
  BY <1>1 DEF CloseFile, Called
<1>3. \A k \in PollFds : fileAt'[k] = IF k = n THEN NoPolled ELSE fileAt[k]
  BY <1>2 DEF BackendInv, BackendTyped
<1>4. \A g \in PollFiles : g # f =>
        /\ filters'[g] = filters[g] /\ edges'[g] = edges[g] /\ levels'[g] = levels[g]
        /\ unheard'[g] = unheard[g]
  BY <1>2
<1>5. unheard'[f] = {}
  BY <1>2 DEF BackendInv, BackendTyped
<1>6. \A k \in PollFds : pollRecords[k].file # f
  BY <1>1 DEF IsRegistered
<1>7. BackendTyped' /\ ~misled'
  BY <1>2 DEF BackendInv, BackendTyped
<1>8. NumbersInv'
  BY <1>2, <1>3, <1>6, <1>1 DEF BackendInv, NumbersInv
<1>9. BatchInv'
  BY <1>2 DEF BackendInv, BatchInv
<1>10. HeardInv'
  <2>1. \A g \in PollFiles : unheard'[g] \subseteq levels'[g]
    BY <1>4, <1>5 DEF BackendInv, HeardInv
  <2>2. ASSUME NEW k \in PollFds, backend = "kqueue", pollRecords[k].file # NoPolled,
               NEW e \in pollRecords[k].event
        PROVE  \/ e = "WRITE" /\ pollRecords[k].file \in cut'
               \/ /\ e \in filters'[pollRecords[k].file]
                  /\ e \in unheard'[pollRecords[k].file] => Due(k, pollRecords[k].file, e)'
    <3>1. pollRecords[k].file \in PollFiles /\ pollRecords[k].file # f
      BY <1>6, <2>2 DEF BackendInv, BackendTyped, PollRecord
    <3>2. \/ e = "WRITE" /\ pollRecords[k].file \in cut
          \/ /\ e \in filters[pollRecords[k].file]
             /\ e \in unheard[pollRecords[k].file] => Due(k, pollRecords[k].file, e)
      BY <2>2 DEF BackendInv, HeardInv
    <3> QED
      BY <3>1, <3>2, <1>2, <1>4 DEF Due, Waiting
  <2> QED
    BY <1>2, <2>1, <2>2 DEF HeardInv
<1> QED
  BY <1>7, <1>8, <1>9, <1>10 DEF BackendInv

(* What a list of two changes makes of the filters.                         *)
LEMMA BothAreMade ==
  ASSUME NEW fs \in SUBSET Filters, NEW r \in BOOLEAN, NEW w \in BOOLEAN, NEW made,
         made = BothMade(fs, <<Change("READ", r), Change("WRITE", w)>>)
  PROVE  /\ made.now \subseteq Filters /\ made.added \subseteq Filters
         /\ r => "READ" \in made.now /\ "READ" \in made.added
         /\ w /\ (r \/ "READ" \in fs) => "WRITE" \in made.now /\ "WRITE" \in made.added
         /\ Made(Untouched(fs), Change("READ", r)).ok <=> r \/ "READ" \in fs
<1> DEFINE first == Made(Untouched(fs), Change("READ", r))
<1>1. /\ first.now \subseteq Filters /\ first.added \subseteq Filters
      /\ r => "READ" \in first.now /\ "READ" \in first.added
      /\ first.ok <=> r \/ "READ" \in fs
  BY DEF Made, Untouched, Change, Filters
<1>2. made = Made(first, Change("WRITE", w))
  BY DEF BothMade
<1>6. w => made = Made(first, Change("WRITE", TRUE))
  BY <1>2
<1> HIDE DEF first
<1>7. ASSUME w, first.ok
      PROVE  made.now = first.now \cup {"WRITE"} /\ made.added = first.added \cup {"WRITE"}
  <2>1. made = Made(first, Change("WRITE", TRUE))
    BY <1>6, <1>7
  <2>2. Change("WRITE", TRUE).on = TRUE /\ Change("WRITE", TRUE).filter = "WRITE"
    BY DEF Change
  <2>3. made = [now |-> first.now \cup {"WRITE"}, added |-> first.added \cup {"WRITE"}, ok |-> TRUE]
    BY <1>7, <2>1, <2>2 DEF Made
  <2> QED
    BY ONLY <2>3
<1>3. made.now \subseteq Filters /\ made.added \subseteq Filters
  BY <1>1, <1>2 DEF Made, Change, Filters
<1>4. r => "READ" \in made.now /\ "READ" \in made.added
  <2>1. first.now \subseteq made.now \cup {"WRITE"} /\ first.added \subseteq made.added
    <3>1. CASE ~first.ok
      BY <3>1, <1>2 DEF Made
    <3>2. CASE first.ok /\ w
      <4>1. made.now = first.now \cup {"WRITE"} /\ made.added = first.added \cup {"WRITE"}
        BY <3>2, <1>7, Zenon
      <4> QED
        BY ONLY <4>1
    <3>3. CASE first.ok /\ ~w
      BY <3>3, <1>2 DEF Made, Change
    <3> QED
      BY <3>1, <3>2, <3>3
  <2> QED
    BY <1>1, <2>1
<1>5. ASSUME w, first.ok PROVE "WRITE" \in made.now /\ "WRITE" \in made.added
  BY <1>5, <1>7
<1> QED
  BY <1>1, <1>3, <1>4, <1>5 DEF first

(* A file is registered, or registered for something else.                  *)
LEMMA AskedKeeps ==
  ASSUME BackendsAssumption, BackendInv, NEW f \in PollFiles, f \in OpenFiles, NEW mask \in SUBSET Filters,
         NEW before,
         pollRecords' = [pollRecords EXCEPT ![FdOf(f)] = [file |-> f, event |-> mask]],
         unheard' = [unheard EXCEPT ![f] = @ \cup (levels[f] \cap (mask \ before))],
         filters' \in [PollFiles -> SUBSET Filters], edges' \in [PollFiles -> SUBSET Filters],
         \A g \in PollFiles : g # f => filters'[g] = filters[g] /\ edges'[g] = edges[g],
         \A g \in PollFiles : g # f => (g \in cut' <=> g \in cut),
         backend = "kqueue" =>
           \A e \in mask : \/ e = "WRITE" /\ f \in cut'
                           \/ e \in filters'[f] /\ (e \in levels[f] => e \in edges'[f]),
         UNCHANGED <<backend, batch, loopAt, misled, fileAt, used, levels, stale>>
  PROVE  BackendInv'
<1>1. PICK n \in PollFds : n = FdOf(f) /\ fileAt[n] = f /\ f # NoPolled
  BY NumberOf
<1>2. \A k \in PollFds : k # n => pollRecords[k].file # f
  BY <1>1 DEF BackendInv, NumbersInv
<1>3. [file |-> f, event |-> mask] \in PollRecord
  BY DEF PollRecord
<1>4. \A k \in PollFds : pollRecords'[k] = IF k = n THEN [file |-> f, event |-> mask] ELSE pollRecords[k]
  BY <1>1 DEF BackendInv, BackendTyped
<1>5. unheard' \in [PollFiles -> SUBSET Filters] /\ \A g \in PollFiles : g # f => unheard'[g] = unheard[g]
  BY DEF BackendInv, BackendTyped
<1>6. unheard'[f] \subseteq levels[f]
  BY DEF BackendInv, BackendTyped, HeardInv
<1>7. BackendTyped' /\ ~misled'
  BY <1>3, <1>5, <1>1 DEF BackendInv, BackendTyped
<1>8. NumbersInv'
  BY <1>1, <1>4 DEF BackendInv, NumbersInv
<1>9. BatchInv'
  <2>1. \A e \in batch : e.fd \in PollFds /\ e.file \in PollFiles /\ e.file # NoPolled
    BY DEF BackendInv, BatchInv, BackendsAssumption
  <2>2. ASSUME NEW e \in batch, e.known, e.fd \notin stale
        PROVE  pollRecords'[e.fd].file = e.file
    <3>1. pollRecords[e.fd].file = e.file
      BY <2>2 DEF BackendInv, BatchInv
    <3>2. e.fd = n => e.file = f
      BY <3>1, <2>1, <1>1 DEF BackendInv, NumbersInv
    <3> QED
      BY <3>1, <3>2, <2>1, <1>4
  <2> QED
    BY <2>2 DEF BackendInv, BatchInv
<1>10. HeardInv'
  <2>1. \A g \in PollFiles : unheard'[g] \subseteq levels'[g]
    BY <1>5, <1>6 DEF BackendInv, HeardInv
  <2>2. ASSUME NEW k \in PollFds, backend = "kqueue", pollRecords'[k].file # NoPolled,
               NEW e \in pollRecords'[k].event
        PROVE  \/ e = "WRITE" /\ pollRecords'[k].file \in cut'
               \/ /\ e \in filters'[pollRecords'[k].file]
                  /\ e \in unheard'[pollRecords'[k].file] => Due(k, pollRecords[k].file, e)'
    <3>1. CASE k = n
      <4>1. pollRecords'[k].file = f /\ e \in mask
        BY <3>1, <1>4
      <4>2. \/ e = "WRITE" /\ f \in cut'
            \/ e \in filters'[f] /\ (e \in levels[f] => e \in edges'[f])
        BY <4>1, <2>2
      <4> QED
        BY <4>1, <4>2, <1>6 DEF Due
    <3>2. CASE k # n
      <4>1. pollRecords'[k] = pollRecords[k] /\ pollRecords[k].file \in PollFiles /\ pollRecords[k].file # f
        BY <3>2, <1>2, <1>4, <2>2 DEF BackendInv, BackendTyped, PollRecord
      <4>2. \/ e = "WRITE" /\ pollRecords[k].file \in cut
            \/ /\ e \in filters[pollRecords[k].file]
               /\ e \in unheard[pollRecords[k].file] => Due(k, pollRecords[k].file, e)
        BY <2>2, <4>1 DEF BackendInv, HeardInv
      <4> QED
        BY <4>1, <4>2, <1>5 DEF Due, Waiting
    <3> QED
      BY <3>1, <3>2
  <2> QED
    BY <2>1, <2>2 DEF HeardInv
<1> QED
  BY <1>7, <1>8, <1>9, <1>10 DEF BackendInv

(* A file that is not registered, or not any more.                          *)
LEMMA ForgottenKeeps ==
  ASSUME BackendsAssumption, BackendInv, NEW f \in PollFiles, f \in OpenFiles,
         pollRecords' \in [PollFds -> PollRecord], pollRecords'[FdOf(f)].file = NoPolled,
         \A k \in PollFds : k # FdOf(f) => pollRecords'[k] = pollRecords[k],
         \/ stale' = stale /\ pollRecords' = pollRecords
         \/ stale' = stale \cup {FdOf(f)},
         unheard' \in [PollFiles -> SUBSET Filters], unheard'[f] \subseteq levels[f],
         filters' \in [PollFiles -> SUBSET Filters], edges' \in [PollFiles -> SUBSET Filters],
         \A g \in PollFiles : g # f =>
           filters'[g] = filters[g] /\ edges'[g] = edges[g] /\ unheard'[g] = unheard[g],
         \A g \in PollFiles : g # f => (g \in cut' <=> g \in cut),
         UNCHANGED <<backend, batch, loopAt, misled, fileAt, used, levels>>
  PROVE  BackendInv'
<1>1. PICK n \in PollFds : n = FdOf(f) /\ fileAt[n] = f /\ f # NoPolled
  BY NumberOf
<1>2. \A k \in PollFds : k # n => pollRecords[k].file # f /\ pollRecords'[k] = pollRecords[k]
  BY <1>1 DEF BackendInv, NumbersInv
<1>3. pollRecords'[n].file = NoPolled
  BY <1>1
<1>4. BackendTyped' /\ ~misled'
  BY DEF BackendInv, BackendTyped
<1>5. NumbersInv'
  BY <1>2, <1>3 DEF BackendInv, NumbersInv
<1>6. BatchInv'
  <2>1. \A e \in batch : e.fd \in PollFds /\ e.file \in PollFiles /\ e.file # NoPolled
    BY DEF BackendInv, BatchInv, BackendsAssumption
  <2>2. ASSUME NEW e \in batch, e.known, e.fd \notin stale'
        PROVE  pollRecords'[e.fd].file = e.file
    <3>1. pollRecords[e.fd].file = e.file /\ e.fd \notin stale
      BY <2>2 DEF BackendInv, BatchInv
    <3>2. e.fd = n => pollRecords' = pollRecords
      BY <2>2, <1>1
    <3> QED
      BY <3>1, <3>2, <2>1, <1>2
  <2> QED
    BY <2>2 DEF BackendInv, BatchInv
<1>7. HeardInv'
  <2>1. \A g \in PollFiles : unheard'[g] \subseteq levels'[g]
    BY DEF BackendInv, HeardInv
  <2>2. ASSUME NEW k \in PollFds, backend = "kqueue", pollRecords'[k].file # NoPolled,
               NEW e \in pollRecords'[k].event
        PROVE  \/ e = "WRITE" /\ pollRecords'[k].file \in cut'
               \/ /\ e \in filters'[pollRecords'[k].file]
                  /\ e \in unheard'[pollRecords'[k].file] => Due(k, pollRecords[k].file, e)'
    <3>1. k # n /\ pollRecords'[k] = pollRecords[k]
      BY <1>2, <1>3, <2>2
    <3>2. pollRecords[k].file \in PollFiles /\ pollRecords[k].file # f
      BY <3>1, <1>2, <2>2 DEF BackendInv, BackendTyped, PollRecord
    <3>3. \/ e = "WRITE" /\ pollRecords[k].file \in cut
          \/ /\ e \in filters[pollRecords[k].file]
             /\ e \in unheard[pollRecords[k].file] => Due(k, pollRecords[k].file, e)
      BY <2>2, <3>1 DEF BackendInv, HeardInv
    <3>4. k \notin stale => k \notin stale'
      BY <3>1, <1>1
    <3>5. Due(k, pollRecords[k].file, e) => e \in edges'[pollRecords[k].file] \/ Waiting(k, e)'
      BY <3>2, <3>4 DEF Due, Waiting
    <3> QED
      BY <3>1, <3>2, <3>3, <3>5 DEF Due
  <2> QED
    BY <2>1, <2>2 DEF HeardInv
<1> QED
  BY <1>4, <1>5, <1>6, <1>7 DEF BackendInv

LEMMA KeventMakes ==
  ASSUME BackendInv, NEW f \in PollFiles, NEW made, made.now \subseteq Filters,
         made.added \subseteq Filters, Kevent(f, made)
  PROVE  /\ filters' \in [PollFiles -> SUBSET Filters] /\ edges' \in [PollFiles -> SUBSET Filters]
         /\ \A g \in PollFiles : g # f => filters'[g] = filters[g] /\ edges'[g] = edges[g]
         /\ filters'[f] = made.now /\ (made.added \cap levels[f]) \subseteq edges'[f]
  BY DEF BackendInv, BackendTyped, Kevent

LEMMA AddEventKeeps ==
  ASSUME BackendsAssumption, BackendInv, NEW f \in PollFiles, NEW mask \in SUBSET Filters, AddEvent(f, mask)
  PROVE  BackendInv'
<1>1. /\ f \in OpenFiles /\ cut' = cut \ {f}
      /\ pollRecords' = [pollRecords EXCEPT ![FdOf(f)] = [file |-> f, event |-> mask]]
      /\ unheard' = [unheard EXCEPT ![f] = @ \cup (levels[f] \cap (mask \ {}))]
      /\ UNCHANGED <<backend, batch, loopAt, misled, fileAt, used, levels, stale>>
  BY DEF AddEvent, Called, Anew, numberVars
<1>2. /\ filters' \in [PollFiles -> SUBSET Filters] /\ edges' \in [PollFiles -> SUBSET Filters]
      /\ \A g \in PollFiles : g # f => filters'[g] = filters[g] /\ edges'[g] = edges[g]
      /\ backend = "kqueue" => \A e \in mask : e \in filters'[f] /\ (e \in levels[f] => e \in edges'[f])
  <2>1. CASE backend = "select"
    BY <2>1 DEF AddEvent, NoKernel, BackendInv, BackendTyped
  <2>2. CASE backend # "select"
    <3> DEFINE made == [now |-> filters[f] \cup mask, added |-> mask, ok |-> TRUE]
    <3>1. Kevent(f, made)
      BY <2>2 DEF AddEvent
    <3>2. made.now = filters[f] \cup mask /\ made.added = mask /\ filters[f] \subseteq Filters
      BY DEF BackendInv, BackendTyped
    <3> HIDE DEF made
    <3> QED
      BY <3>1, <3>2, KeventMakes
  <2> QED
    BY <2>1, <2>2
<1>3. \A g \in PollFiles : g # f => (g \in cut' <=> g \in cut)
  BY <1>1
<1> QED
  BY <1>1, <1>2, <1>3, AskedKeeps

LEMMA ModifyEventKeeps ==
  ASSUME BackendsAssumption, BackendInv, NEW f \in PollFiles, NEW mask \in SUBSET Filters, ModifyEvent(f, mask)
  PROVE  BackendInv'
<1>1. /\ f \in OpenFiles
      /\ UNCHANGED <<backend, batch, loopAt, misled, fileAt, used, levels, stale>>
  BY DEF ModifyEvent, Called, numberVars
<1>2. PICK n \in PollFds : n = FdOf(f) /\ fileAt[n] = f /\ f # NoPolled /\ pollRecords[n] \in PollRecord
  BY <1>1, NumberOf
<1>3. /\ filters' \in [PollFiles -> SUBSET Filters] /\ edges' \in [PollFiles -> SUBSET Filters]
      /\ \A g \in PollFiles : g # f => filters'[g] = filters[g] /\ edges'[g] = edges[g]
      /\ \A g \in PollFiles : g # f => (g \in cut' <=> g \in cut)
      /\ backend = "kqueue" =>
           \A e \in mask : \/ e = "WRITE" /\ f \in cut'
                           \/ e \in filters'[f] /\ (e \in levels[f] => e \in edges'[f])
  <2>1. CASE backend = "select"
    BY <2>1 DEF ModifyEvent, NoKernel, BackendInv, BackendTyped
  <2>2. CASE backend # "select"
    <3>1. PICK r \in BOOLEAN, w \in BOOLEAN : (r <=> "READ" \in mask) /\ (w <=> "WRITE" \in mask)
      OBVIOUS
    <3>2. r = ("READ" \in mask) /\ w = ("WRITE" \in mask)
      BY <3>1
    <3>3. BothChanges(mask) = <<Change("READ", r), Change("WRITE", w)>>
      BY <3>2 DEF BothChanges
    <3>4. PICK made : made = BothMade(filters[f], <<Change("READ", r), Change("WRITE", w)>>)
      OBVIOUS
    <3>5. /\ Kevent(f, made)
          /\ cut' = IF Made(Untouched(filters[f]), Change("READ", r)).ok THEN cut \ {f} ELSE cut \cup {f}
      BY <2>2, <3>3, <3>4 DEF ModifyEvent
    <3>6. /\ made.now \subseteq Filters /\ made.added \subseteq Filters
          /\ r => "READ" \in made.now /\ "READ" \in made.added
          /\ w /\ (r \/ "READ" \in filters[f]) => "WRITE" \in made.now /\ "WRITE" \in made.added
          /\ Made(Untouched(filters[f]), Change("READ", r)).ok <=> r \/ "READ" \in filters[f]
      <4>1. filters[f] \in SUBSET Filters
        BY DEF BackendInv, BackendTyped
      <4> QED
        BY <4>1, <3>4, BothAreMade
    <3>7. \A g \in PollFiles : g # f => (g \in cut' <=> g \in cut)
      BY <3>5
    <3>8. /\ filters' \in [PollFiles -> SUBSET Filters] /\ edges' \in [PollFiles -> SUBSET Filters]
          /\ \A g \in PollFiles : g # f => filters'[g] = filters[g] /\ edges'[g] = edges[g]
          /\ filters'[f] = made.now /\ (made.added \cap levels[f]) \subseteq edges'[f]
      BY <3>5, <3>6, KeventMakes
    <3>9. ASSUME NEW e \in mask
          PROVE  \/ e = "WRITE" /\ f \in cut'
                 \/ e \in filters'[f] /\ (e \in levels[f] => e \in edges'[f])
      <4>1. e = "READ" \/ e = "WRITE"
        BY DEF Filters
      <4>2. CASE e = "READ"
        BY <4>2, <3>1, <3>6, <3>8
      <4>3. CASE e = "WRITE" /\ (r \/ "READ" \in filters[f])
        BY <4>3, <3>1, <3>6, <3>8
      <4>4. CASE e = "WRITE" /\ ~(r \/ "READ" \in filters[f])
        BY <4>4, <3>5, <3>6
      <4> QED
        BY <4>1, <4>2, <4>3, <4>4
    <3> QED
      BY <3>7, <3>8, <3>9
  <2> QED
    BY <2>1, <2>2
<1>4. CASE IsRegistered(f)
  <2>1. pollRecords[n].file = f
    BY <1>1, <1>2, <1>4, NumberOf
  <2>2. [pollRecords[n] EXCEPT !.event = mask] = [file |-> f, event |-> mask]
    BY <1>2, <2>1 DEF PollRecord
  <2>3. pollRecords' = [pollRecords EXCEPT ![FdOf(f)] = [file |-> f, event |-> mask]]
    BY <1>2, <1>4, <2>2 DEF ModifyEvent
  <2>4. unheard' = [unheard EXCEPT ![f] = @ \cup (levels[f] \cap (mask \ pollRecords[FdOf(f)].event))]
    BY <1>4 DEF ModifyEvent, Anew
  <2> QED
    BY <1>1, <1>3, <2>3, <2>4, AskedKeeps
<1>5. CASE ~IsRegistered(f)
  <2>1. pollRecords[n].file # f /\ pollRecords' = pollRecords /\ unheard' = unheard
    BY <1>1, <1>2, <1>5, NumberOf DEF ModifyEvent
  <2>2. pollRecords[n].file = NoPolled
    BY <1>2, <2>1 DEF BackendInv, NumbersInv
  <2>3. /\ pollRecords' \in [PollFds -> PollRecord] /\ pollRecords'[FdOf(f)].file = NoPolled
        /\ unheard' \in [PollFiles -> SUBSET Filters] /\ unheard'[f] \subseteq levels[f]
    BY <1>2, <2>1, <2>2 DEF BackendInv, BackendTyped, HeardInv
  <2> QED
    BY <1>1, <1>3, <2>1, <2>3, ForgottenKeeps
<1> QED
  BY <1>4, <1>5

LEMMA DelEventKeeps ==
  ASSUME BackendsAssumption, BackendInv, NEW f \in PollFiles, DelEvent(f)
  PROVE  BackendInv'
<1>1. /\ f \in OpenFiles /\ unheard' = [unheard EXCEPT ![f] = {}]
      /\ pollRecords' = [pollRecords EXCEPT ![FdOf(f)] = NoneYet] /\ stale' = stale \cup {FdOf(f)}
      /\ UNCHANGED <<backend, batch, loopAt, misled, fileAt, used, levels, cut>>
  BY DEF DelEvent, Called, Marked, numberVars
<1>2. PICK n \in PollFds : n = FdOf(f)
  BY <1>1, NumberOf
<1>3. /\ filters' \in [PollFiles -> SUBSET Filters] /\ edges' \in [PollFiles -> SUBSET Filters]
      /\ \A g \in PollFiles : g # f => filters'[g] = filters[g] /\ edges'[g] = edges[g]
  <2>1. CASE backend = "select"
    BY <2>1 DEF DelEvent, NoKernel, BackendInv, BackendTyped
  <2>2. CASE backend # "select"
    <3>1. PICK made : made = BothMade(filters[f], <<Change("READ", FALSE), Change("WRITE", FALSE)>>)
      OBVIOUS
    <3>2. Kevent(f, made)
      BY <2>2, <3>1 DEF DelEvent
    <3>3. filters[f] \in SUBSET Filters
      BY DEF BackendInv, BackendTyped
    <3>4. made.now \subseteq Filters /\ made.added \subseteq Filters
      BY <3>1, <3>3, BothAreMade
    <3> QED
      BY <3>2, <3>4, KeventMakes
  <2> QED
    BY <2>1, <2>2
<1>4. NoneYet \in PollRecord /\ NoneYet.file = NoPolled
  BY DEF NoneYet, PollRecord
<1>5. /\ pollRecords' \in [PollFds -> PollRecord] /\ pollRecords'[FdOf(f)].file = NoPolled
      /\ \A k \in PollFds : k # FdOf(f) => pollRecords'[k] = pollRecords[k]
  BY <1>1, <1>2, <1>4 DEF BackendInv, BackendTyped
<1>6. /\ unheard' \in [PollFiles -> SUBSET Filters] /\ unheard'[f] = {}
      /\ \A g \in PollFiles : g # f => unheard'[g] = unheard[g]
  BY <1>1 DEF BackendInv, BackendTyped
<1> QED
  BY <1>1, <1>3, <1>5, <1>6, ForgottenKeeps

LEMMA BecomesReadyForKeeps ==
  ASSUME BackendsAssumption, BackendInv, NEW f \in PollFiles, NEW e \in Filters, BecomesReadyFor(f, e)
  PROVE  BackendInv'
<1>1. /\ levels' = [levels EXCEPT ![f] = @ \cup {e}]
      /\ edges' = [edges EXCEPT ![f] = @ \cup ({e} \cap filters[f])]
      /\ unheard' = [unheard EXCEPT ![f] = @ \cup {e}]
      /\ UNCHANGED <<backend, fileAt, used, pollRecords, filters, cut, batch, stale, loopAt, misled>>
  BY DEF BecomesReadyFor, numberVars
<1>2. \A g \in PollFiles :
        /\ levels'[g] = IF g = f THEN levels[g] \cup {e} ELSE levels[g]
        /\ edges'[g] = IF g = f THEN edges[g] \cup ({e} \cap filters[g]) ELSE edges[g]
        /\ unheard'[g] = IF g = f THEN unheard[g] \cup {e} ELSE unheard[g]
  BY <1>1 DEF BackendInv, BackendTyped
<1>3. BackendTyped' /\ NumbersInv' /\ ~misled'
  BY <1>1 DEF BackendInv, BackendTyped, NumbersInv
<1>4. BatchInv'
  BY <1>1 DEF BackendInv, BatchInv
<1>5. HeardInv'
  <2>1. \A g \in PollFiles : unheard'[g] \subseteq levels'[g]
    BY <1>2 DEF BackendInv, HeardInv
  <2>2. ASSUME NEW k \in PollFds, backend = "kqueue", pollRecords[k].file # NoPolled,
               NEW d \in pollRecords[k].event
        PROVE  \/ d = "WRITE" /\ pollRecords[k].file \in cut
               \/ /\ d \in filters[pollRecords[k].file]
                  /\ d \in unheard'[pollRecords[k].file] => Due(k, pollRecords[k].file, d)'
    <3>1. pollRecords[k].file \in PollFiles
      BY <2>2 DEF BackendInv, BackendTyped, PollRecord
    <3>2. \/ d = "WRITE" /\ pollRecords[k].file \in cut
          \/ /\ d \in filters[pollRecords[k].file]
             /\ d \in unheard[pollRecords[k].file] => Due(k, pollRecords[k].file, d)
      BY <2>2 DEF BackendInv, HeardInv
    <3>3. Waiting(k, d)' <=> Waiting(k, d)
      BY <1>1 DEF Waiting
    <3>4. Due(k, pollRecords[k].file, d)' <=> d \in edges'[pollRecords[k].file] \/ Waiting(k, d)
      BY <1>1, <3>3 DEF Due
    <3> QED
      BY <3>1, <3>2, <3>4, <1>2 DEF Due
  <2> QED
    BY <1>1, <2>1, <2>2 DEF HeardInv
<1> QED
  BY <1>3, <1>4, <1>5 DEF BackendInv

LEMMA DrainKeeps ==
  ASSUME BackendsAssumption, BackendInv, NEW f \in PollFiles, NEW e \in Filters, Drain(f, e)
  PROVE  BackendInv'
<1>1. /\ levels' = [levels EXCEPT ![f] = @ \ {e}] /\ unheard' = [unheard EXCEPT ![f] = @ \ {e}]
      /\ UNCHANGED <<backend, fileAt, used, pollRecords, filters, edges, cut, batch, stale, loopAt, misled>>
  BY DEF Drain, numberVars
<1>2. \A g \in PollFiles :
        /\ levels'[g] = IF g = f THEN levels[g] \ {e} ELSE levels[g]
        /\ unheard'[g] = IF g = f THEN unheard[g] \ {e} ELSE unheard[g]
  BY <1>1 DEF BackendInv, BackendTyped
<1>3. BackendTyped' /\ NumbersInv' /\ ~misled'
  BY <1>1 DEF BackendInv, BackendTyped, NumbersInv
<1>4. BatchInv'
  BY <1>1 DEF BackendInv, BatchInv
<1>5. HeardInv'
  <2>1. \A g \in PollFiles : unheard'[g] \subseteq levels'[g]
    BY <1>2 DEF BackendInv, HeardInv
  <2>2. ASSUME NEW k \in PollFds, backend = "kqueue", pollRecords[k].file # NoPolled,
               NEW d \in pollRecords[k].event
        PROVE  \/ d = "WRITE" /\ pollRecords[k].file \in cut
               \/ /\ d \in filters[pollRecords[k].file]
                  /\ d \in unheard'[pollRecords[k].file] => Due(k, pollRecords[k].file, d)'
    <3>1. pollRecords[k].file \in PollFiles
      BY <2>2 DEF BackendInv, BackendTyped, PollRecord
    <3>2. \/ d = "WRITE" /\ pollRecords[k].file \in cut
          \/ /\ d \in filters[pollRecords[k].file]
             /\ d \in unheard[pollRecords[k].file] => Due(k, pollRecords[k].file, d)
      BY <2>2 DEF BackendInv, HeardInv
    <3>3. Due(k, pollRecords[k].file, d)' <=> Due(k, pollRecords[k].file, d)
      BY <1>1 DEF Due, Waiting
    <3> QED
      BY <3>1, <3>2, <3>3, <1>2
  <2> QED
    BY <1>1, <2>1, <2>2 DEF HeardInv
<1> QED
  BY <1>3, <1>4, <1>5 DEF BackendInv

(* What the wait returns are events of open files, of one number each.      *)
LEMMA WaitReportsWhat ==
  ASSUME BackendsAssumption, BackendInv, NEW r \in WaitReports
  PROVE  /\ r.fd \in PollFds /\ r.file \in PollFiles /\ r.attach \subseteq Filters
         /\ r.known <=> pollRecords[r.fd].file # NoPolled
         /\ backend = "select" => r.known
         /\ r.known => pollRecords[r.fd].file = r.file
<1>1. CASE backend = "select"
  <2>1. r \in Collected
    BY <1>1 DEF WaitReports
  <2>2. PICK n \in PollFds :
          /\ pollRecords[n].file # NoPolled
          /\ r = Event(n, pollRecords[n].file, levels[pollRecords[n].file] \cap pollRecords[n].event)
    BY <2>1 DEF Collected
  <2>3. pollRecords[n].file \in PollFiles
    BY <2>2 DEF BackendInv, BackendTyped, PollRecord
  <2>4. levels[pollRecords[n].file] \subseteq Filters
    BY <2>3 DEF BackendInv, BackendTyped
  <2>5. /\ r.fd = n /\ r.file = pollRecords[n].file
        /\ r.attach = levels[pollRecords[n].file] \cap pollRecords[n].event
    BY <2>2 DEF Event
  <2>6. r.known = (pollRecords[n].file # NoPolled)
    BY <2>2 DEF Event
  <2> QED
    BY <2>2, <2>3, <2>4, <2>5, <2>6
<1>2. CASE backend # "select"
  <2>1. r \in Kevents
    BY <1>2 DEF WaitReports
  <2>2. PICK n \in PollFds : /\ fileAt[n] # NoPolled
                             /\ \E e \in edges[fileAt[n]] : r = Event(n, fileAt[n], {e})
    BY <2>1 DEF Kevents
  <2>3. PICK e \in edges[fileAt[n]] : r = Event(n, fileAt[n], {e})
    BY <2>2
  <2>4. fileAt[n] \in PollFiles
    BY <2>2 DEF BackendInv, BackendTyped
  <2>5. {e} \subseteq Filters
    BY <2>3, <2>4 DEF BackendInv, BackendTyped
  <2>6. r.fd = n /\ r.file = fileAt[n] /\ r.attach = {e}
    BY <2>3 DEF Event
  <2>7. r.known = (pollRecords[n].file # NoPolled)
    BY <2>3 DEF Event
  <2>8. pollRecords[n].file # NoPolled => pollRecords[n].file = fileAt[n]
    BY DEF BackendInv, NumbersInv
  <2> QED
    BY <1>2, <2>4, <2>5, <2>6, <2>7, <2>8
<1> QED
  BY <1>1, <1>2

LEMMA WaitReturnsKeeps ==
  ASSUME BackendsAssumption, BackendInv, WaitReturns
  PROVE  BackendInv'
<1>1. /\ batch' = WaitReports /\ edges' = [f \in PollFiles |-> {}] /\ stale' = {} /\ loopAt' = "batch"
      /\ loopAt = "wait"
      /\ UNCHANGED <<backend, fileAt, used, pollRecords, filters, levels, unheard, cut, misled>>
  BY DEF WaitReturns, numberVars
<1>2. BackendTyped' /\ NumbersInv' /\ ~misled'
  BY <1>1 DEF BackendInv, BackendTyped, NumbersInv
<1>3. BatchInv'
  <2>1. \A e \in batch' : /\ e.fd \in PollFds /\ e.file \in PollFiles /\ e.attach \subseteq Filters
                          /\ backend = "select" => e.known
                          /\ e.known => pollRecords[e.fd].file = e.file
    BY <1>1, WaitReportsWhat
  <2> QED
    BY <1>1, <2>1 DEF BatchInv
<1>4. HeardInv'
  <2>1. ASSUME NEW k \in PollFds, backend = "kqueue", pollRecords[k].file # NoPolled,
               NEW d \in pollRecords[k].event
        PROVE  \/ d = "WRITE" /\ pollRecords[k].file \in cut
               \/ /\ d \in filters[pollRecords[k].file]
                  /\ d \in unheard[pollRecords[k].file] => Waiting(k, d)'
    <3>1. pollRecords[k].file = fileAt[k]
      BY <2>1 DEF BackendInv, NumbersInv
    <3>2. ~Waiting(k, d)
      BY <1>1 DEF Waiting, BackendInv, BatchInv
    <3>3. \/ d = "WRITE" /\ pollRecords[k].file \in cut
          \/ /\ d \in filters[pollRecords[k].file]
             /\ d \in unheard[pollRecords[k].file] => d \in edges[pollRecords[k].file]
      BY <2>1, <3>2 DEF BackendInv, HeardInv, Due
    <3>4. ASSUME d \in edges[pollRecords[k].file]
          PROVE  Waiting(k, d)'
      <4> DEFINE r == Event(k, fileAt[k], {d})
      <4>1. r \in Kevents
        <5>1. k \in {n \in PollFds : fileAt[n] # NoPolled} /\ d \in edges[fileAt[k]]
          BY <2>1, <3>1, <3>4
        <5> HIDE DEF r
        <5>2. r \in {Event(k, fileAt[k], {e}) : e \in edges[fileAt[k]]}
          BY <5>1 DEF r
        <5> QED
          BY <5>1, <5>2 DEF Kevents
      <4>2. r \in batch'
        BY <4>1, <1>1, <2>1 DEF WaitReports
      <4>3. r.fd = k /\ r.attach = {d}
        BY DEF Event
      <4>4. r.known = (pollRecords[k].file # NoPolled)
        BY DEF Event
      <4> HIDE DEF r
      <4>5. \E q \in batch' : q.known /\ q.fd = k /\ k \notin stale' /\ d \in q.attach
        BY <4>2, <4>3, <4>4, <2>1, <1>1
      <4> QED
        BY <4>5 DEF Waiting
    <3> QED
      BY <3>3, <3>4
  <2> QED
    BY <1>1, <2>1 DEF BackendInv, HeardInv, Due
<1> QED
  BY <1>2, <1>3, <1>4 DEF BackendInv

LEMMA TakeNextKeeps ==
  ASSUME BackendsAssumption, BackendInv, NEW r \in batch, TakeNext(r)
  PROVE  BackendInv'
<1>1. /\ loopAt = "batch" /\ batch' = batch \ {r}
      /\ UNCHANGED <<backend, fileAt, used, pollRecords, levels, cut, stale>>
  BY DEF TakeNext, numberVars
<1>2. PICK n \in PollFds : n = r.fd
  BY DEF BackendInv, BatchInv
<1>3. /\ r.file \in PollFiles /\ r.file # NoPolled /\ r.attach \subseteq Filters
      /\ backend = "select" => r.known
      /\ r.known /\ n \notin stale => pollRecords[n].file = r.file
  BY <1>2 DEF BackendInv, BatchInv, BackendsAssumption
<1>4. \A k \in PollFds : \A d : Waiting(k, d) => Waiting(k, d)' \/ (r.known /\ k = n /\ n \notin stale /\ d \in r.attach)
  BY <1>1, <1>2 DEF Waiting
<1>5. BatchInv'
  <2>1. loopAt' # "wait"
    BY <1>1 DEF TakeNext
  <2> QED
    BY <1>1, <2>1 DEF BackendInv, BatchInv
<1>6. NumbersInv'
  BY <1>1 DEF BackendInv, NumbersInv
<1>7. CASE n \in stale
  <2>1. UNCHANGED <<filters, edges, unheard, loopAt, misled>>
    BY <1>2, <1>7 DEF TakeNext
  <2>2. BackendTyped' /\ ~misled'
    BY <1>1, <2>1 DEF BackendInv, BackendTyped
  <2>3. \A k \in PollFds : \A d : Waiting(k, d) => Waiting(k, d)'
    BY <1>4, <1>7
  <2>4. HeardInv'
    BY <1>1, <2>1, <2>3 DEF BackendInv, HeardInv, Due
  <2> QED
    BY <1>5, <1>6, <2>2, <2>4 DEF BackendInv
<1>8. CASE n \notin stale /\ OwnerOf(r) = NoPolled
  <2>1. backend # "select" /\ pollRecords[n].file = NoPolled /\ ~r.known
    BY <1>2, <1>3, <1>8 DEF OwnerOf
  <2>2. /\ filters' = [f \in PollFiles |-> IF f = fileAt[n] THEN filters[f] \ r.attach ELSE filters[f]]
        /\ edges' = [f \in PollFiles |-> edges[f] \cap filters'[f]]
        /\ UNCHANGED <<unheard, loopAt, misled>>
    BY <1>2, <1>8 DEF TakeNext
  <2>3. \A f \in PollFiles : filters'[f] = IF f = fileAt[n] THEN filters[f] \ r.attach ELSE filters[f]
    BY <2>2
  <2>4. \A f \in PollFiles : edges'[f] = edges[f] \cap filters'[f]
    BY <2>2
  <2>5. filters' \in [PollFiles -> SUBSET Filters] /\ edges' \in [PollFiles -> SUBSET Filters]
    BY <2>2 DEF BackendInv, BackendTyped
  <2>6. BackendTyped' /\ ~misled'
    BY <1>1, <2>2, <2>5 DEF BackendInv, BackendTyped
  <2>7. \A k \in PollFds : \A d : Waiting(k, d) => Waiting(k, d)'
    BY <1>4, <2>1
  <2>8. HeardInv'
    <3>1. ASSUME NEW k \in PollFds, backend = "kqueue", pollRecords[k].file # NoPolled,
                 NEW d \in pollRecords[k].event
          PROVE  \/ d = "WRITE" /\ pollRecords[k].file \in cut
                 \/ /\ d \in filters'[pollRecords[k].file]
                    /\ d \in unheard[pollRecords[k].file] => Due(k, pollRecords[k].file, d)'
      <4>1. pollRecords[k].file \in PollFiles /\ pollRecords[k].file = fileAt[k] /\ fileAt[k] # NoPolled
        BY <3>1 DEF BackendInv, BackendTyped, NumbersInv, PollRecord
      <4>2. fileAt[k] # fileAt[n]
        BY <4>1, <2>1, <3>1 DEF BackendInv, NumbersInv
      <4>3. \/ d = "WRITE" /\ pollRecords[k].file \in cut
            \/ /\ d \in filters[pollRecords[k].file]
               /\ d \in unheard[pollRecords[k].file] => Due(k, pollRecords[k].file, d)
        BY <3>1 DEF BackendInv, HeardInv
      <4>4. filters'[pollRecords[k].file] = filters[pollRecords[k].file]
        BY <4>1, <4>2, <2>3
      <4>5. d \in filters[pollRecords[k].file] /\ d \in edges[pollRecords[k].file] => d \in edges'[pollRecords[k].file]
        BY <4>1, <4>4, <2>4
      <4>6. d \in filters[pollRecords[k].file] /\ Due(k, pollRecords[k].file, d) =>
              d \in edges'[pollRecords[k].file] \/ Waiting(k, d)'
        BY <4>5, <2>7 DEF Due
      <4>7. Due(k, pollRecords[k].file, d)' <=> d \in edges'[pollRecords[k].file] \/ Waiting(k, d)'
        BY <1>1 DEF Due
      <4> QED
        BY <4>3, <4>4, <4>6, <4>7
    <3> QED
      BY <1>1, <2>2, <3>1 DEF BackendInv, HeardInv
  <2> QED
    BY <1>5, <1>6, <2>6, <2>8 DEF BackendInv
<1>9. CASE n \notin stale /\ OwnerOf(r) # NoPolled
  <2>1. PICK f : f = OwnerOf(r) /\ f # NoPolled
    BY <1>9
  <2>2. f \in PollFiles
    BY <1>2, <1>3, <2>1 DEF OwnerOf, BackendInv, BackendTyped, PollRecord
  <2>3. /\ misled' = (misled \/ (r.known /\ (f # r.file \/ ~IsRegistered(r.file))))
        /\ unheard' = [unheard EXCEPT ![f] = @ \ r.attach]
        /\ loopAt' = "callback" /\ UNCHANGED <<filters, edges>>
    BY <1>2, <1>9, <2>1 DEF TakeNext
  <2>4. r.known => f = r.file /\ IsRegistered(r.file)
    BY <1>2, <1>3, <1>9, <2>1 DEF OwnerOf, IsRegistered
  <2>5. ~misled'
    BY <2>3, <2>4 DEF BackendInv
  <2>6. \A g \in PollFiles : unheard'[g] = IF g = f THEN unheard[g] \ r.attach ELSE unheard[g]
    BY <2>3 DEF BackendInv, BackendTyped
  <2>7. BackendTyped'
    BY <1>1, <2>3 DEF BackendInv, BackendTyped
  <2>8. HeardInv'
    <3>1. \A g \in PollFiles : unheard'[g] \subseteq levels[g]
      BY <2>6 DEF BackendInv, HeardInv
    <3>2. ASSUME NEW k \in PollFds, backend = "kqueue", pollRecords[k].file # NoPolled,
                 NEW d \in pollRecords[k].event
          PROVE  \/ d = "WRITE" /\ pollRecords[k].file \in cut
                 \/ /\ d \in filters[pollRecords[k].file]
                    /\ d \in unheard'[pollRecords[k].file] => Due(k, pollRecords[k].file, d)'
      <4>1. pollRecords[k].file \in PollFiles
        BY <3>2 DEF BackendInv, BackendTyped, PollRecord
      <4>2. \/ d = "WRITE" /\ pollRecords[k].file \in cut
            \/ /\ d \in filters[pollRecords[k].file]
               /\ d \in unheard[pollRecords[k].file] => Due(k, pollRecords[k].file, d)
        BY <3>2 DEF BackendInv, HeardInv
      <4>3. r.known /\ k = n /\ d \in r.attach => d \notin unheard'[pollRecords[k].file]
        BY <4>1, <2>4, <2>6, <1>3, <1>9
      <4>4. d \in unheard'[pollRecords[k].file] => d \in unheard[pollRecords[k].file]
        BY <4>1, <2>6
      <4>5. Due(k, pollRecords[k].file, d) /\ d \in unheard'[pollRecords[k].file] =>
              d \in edges[pollRecords[k].file] \/ Waiting(k, d)'
        BY <1>4, <4>3 DEF Due
      <4>6. Due(k, pollRecords[k].file, d)' <=> d \in edges[pollRecords[k].file] \/ Waiting(k, d)'
        BY <1>1, <2>3 DEF Due
      <4> QED
        BY <4>2, <4>4, <4>5, <4>6
    <3> QED
      BY <1>1, <2>3, <3>1, <3>2 DEF HeardInv
  <2> QED
    BY <1>5, <1>6, <2>5, <2>7, <2>8 DEF BackendInv
<1> QED
  BY <1>7, <1>8, <1>9

LEMMA LoopKeeps ==
  ASSUME BackendInv, CallbackEnds \/ BatchEnds
  PROVE  BackendInv'
<1>1. /\ loopAt' \in {"wait", "batch"} /\ (loopAt' = "wait" => batch = {})
      /\ UNCHANGED <<backend, fileAt, used, pollRecords, filters, edges, levels, unheard, cut, batch, stale, misled>>
  BY DEF CallbackEnds, BatchEnds, numberVars
<1>2. BackendTyped' /\ NumbersInv' /\ ~misled'
  BY <1>1 DEF BackendInv, BackendTyped, NumbersInv
<1>3. BatchInv'
  BY <1>1 DEF BackendInv, BatchInv
<1>4. HeardInv'
  BY <1>1 DEF BackendInv, HeardInv, Due, Waiting
<1> QED
  BY <1>2, <1>3, <1>4 DEF BackendInv

LEMMA BackendInductive ==
  ASSUME BackendsAssumption, BackendInv, [BackendNext]_backendVars
  PROVE  BackendInv'
<1>1. CASE UNCHANGED backendVars
  BY <1>1, BackendSame
<1>2. CASE BackendNext
  <2>1. ASSUME NEW f \in PollFiles, NEW n \in PollFds, Open(f, n) PROVE BackendInv'
    BY <2>1, OpenKeeps
  <2>2. ASSUME NEW f \in PollFiles, NEW mask \in SUBSET Filters, AddEvent(f, mask) \/ ModifyEvent(f, mask)
        PROVE  BackendInv'
    BY <2>2, AddEventKeeps, ModifyEventKeeps
  <2>3. ASSUME NEW f \in PollFiles, DelEvent(f) \/ CloseFile(f) PROVE BackendInv'
    BY <2>3, DelEventKeeps, CloseFileKeeps
  <2>4. ASSUME NEW f \in PollFiles, NEW e \in Filters, BecomesReadyFor(f, e) \/ Drain(f, e)
        PROVE  BackendInv'
    BY <2>4, BecomesReadyForKeeps, DrainKeeps
  <2>5. ASSUME NEW r \in batch, TakeNext(r) PROVE BackendInv'
    BY <2>5, TakeNextKeeps
  <2> QED
    BY <1>2, <2>1, <2>2, <2>3, <2>4, <2>5, WaitReturnsKeeps, LoopKeeps DEF BackendNext
<1> QED
  BY <1>1, <1>2

(* What the invariant says of a loop that waits.                            *)
LEMMA BackendInvServes ==
  ASSUME BackendsAssumption, BackendInv
  PROVE  EventsReachOwner /\ NothingUnheard
<1>1. EventsReachOwner
  BY DEF BackendInv, EventsReachOwner
<1>2. ASSUME loopAt = "wait", NEW n \in PollFds, pollRecords[n].file # NoPolled,
             NEW e \in pollRecords[n].event, e \in unheard[pollRecords[n].file],
             ~(e = "WRITE" /\ pollRecords[n].file \in cut)
      PROVE  \E r \in WaitReports : r.file = pollRecords[n].file /\ e \in r.attach
  <2>1. PICK f \in PollFiles : f = pollRecords[n].file /\ f = fileAt[n] /\ f # NoPolled
    BY <1>2 DEF BackendInv, BackendTyped, NumbersInv, PollRecord
  <2>2. e \in levels[f]
    BY <1>2, <2>1 DEF BackendInv, HeardInv
  <2>3. CASE backend = "select"
    <3>1. Event(n, f, levels[f] \cap pollRecords[n].event) \in Collected
      BY <1>2, <2>1, <2>2 DEF Collected
    <3>2. /\ Event(n, f, levels[f] \cap pollRecords[n].event).file = f
          /\ Event(n, f, levels[f] \cap pollRecords[n].event).attach = levels[f] \cap pollRecords[n].event
      BY DEF Event
    <3> QED
      BY <1>2, <2>1, <2>2, <2>3, <3>1, <3>2 DEF WaitReports
  <2>4. CASE backend # "select"
    <3>1. backend = "kqueue" /\ batch = {}
      BY <1>2, <2>4 DEF BackendInv, BackendTyped, BatchInv
    <3>2. ~Waiting(n, e)
      BY <3>1 DEF Waiting
    <3>3. Due(n, f, e)
      BY <1>2, <2>1, <3>1 DEF BackendInv, HeardInv
    <3>4. e \in edges[f]
      BY <3>2, <3>3 DEF Due
    <3>5. Event(n, f, {e}) \in {Event(n, fileAt[n], {d}) : d \in edges[fileAt[n]]}
      BY <2>1, <3>4
    <3>6. n \in {k \in PollFds : fileAt[k] # NoPolled}
      BY <2>1
    <3>7. Event(n, f, {e}) \in Kevents
      BY <3>5, <3>6 DEF Kevents
    <3>8. Event(n, f, {e}).file = f /\ Event(n, f, {e}).attach = {e}
      BY DEF Event
    <3> QED
      BY <2>1, <2>4, <3>7, <3>8 DEF WaitReports
  <2> QED
    BY <2>3, <2>4
<1>3. NothingUnheard
  BY <1>2 DEF NothingUnheard
<1> QED
  BY <1>1, <1>3

(* On kqueue and on select, for any number of files and of descriptors: an  *)
(* event of a registered file reaches its own callback, while it is         *)
(* registered, and nothing that a file was asked to tell is lost.           *)
THEOREM BackendsAreServed == BackendSpec => []BackendsServe
<1>1. BackendsAssumption
  BY BackendsAssumption
<1>2. BackendInit => BackendInv
  BY <1>1, BackendStarts
<1>3. BackendInv /\ [BackendNext]_backendVars => BackendInv'
  BY <1>1, BackendInductive
<1>4. BackendInv => BackendsServe
  BY <1>1, BackendInvServes DEF BackendsServe
<1> QED
  BY <1>2, <1>3, <1>4, PTL DEF BackendSpec

=============================================================================
