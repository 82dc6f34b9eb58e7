---------------------------- MODULE NoticeCenter ----------------------------
(***************************************************************************)
(* NoticeCenter (src/src/Util/NoticeCenter.h): a map from an event to its  *)
(* dispatcher under one mutex, and a map of listeners under a mutex of     *)
(* each dispatcher.  Every operation takes a reference to the dispatcher   *)
(* under the first and works with it after.  One event is enough: no       *)
(* operation relates two of them.                                          *)
(***************************************************************************)
EXTENDS Naturals, FiniteSets

CONSTANTS
  Callers,  \* threads
  Tags,
  MaxAdds,  \* bound: calls of addListener
  MaxEmits, \* bound: calls of emitEvent
  NoTag

ASSUME NoticeAssumption == {MaxAdds, MaxEmits} \subseteq Nat /\ NoTag \notin Tags

Listeners == 1 .. MaxAdds
NoDispatcher == 0

VARIABLES
  dispatcher, \* _mapListener[event] of the center
  next,       \* dispatchers made
  holds,      \* _mapListener of each dispatcher: a set of listeners
  tagOf,      \* the tag of each listener
  call,       \* of each thread: [op, on, tag, left, called, must, never]
  adds, emits,
  sure,       \* listeners added, with no removal since or meanwhile (history)
  removed     \* listeners removed after they had been added (history)

notVars == <<dispatcher, next, holds, tagOf, call, adds, emits, sure, removed>>

Idle == [op |-> "none", on |-> NoDispatcher, tag |-> NoTag, left |-> {}, called |-> {},
         must |-> {}, never |-> {}]

NotInit ==
  /\ dispatcher = NoDispatcher /\ next = 0 /\ holds = [d \in Listeners |-> {}]
  /\ tagOf = [l \in Listeners |-> NoTag] /\ call = [t \in Callers |-> Idle]
  /\ adds = 0 /\ emits = 0 /\ sure = {} /\ removed = {}

Sets(t, c) == call' = [call EXCEPT ![t] = c]

(* Threads between the first and the last step of a removal from d.         *)
Removals(d) == {t \in Callers : call[t].op \in {"del", "drop"} /\ call[t].on = d}

-----------------------------------------------------------------------------
(* Mutant: a new dispatcher even when there is one.                         *)
GetDispatcherNew == next < MaxAdds /\ next' = next + 1 /\ dispatcher' = next'

(* getDispatcher with create.                                               *)
GetDispatcher ==
  IF dispatcher = NoDispatcher
  THEN next < MaxAdds /\ next' = next + 1 /\ dispatcher' = next'
  ELSE UNCHANGED <<dispatcher, next>>

AddListener(t, tag) ==
  /\ call[t].op = "none" /\ adds < MaxAdds
  /\ adds' = adds + 1
  /\ GetDispatcher
  /\ Sets(t, [Idle EXCEPT !.op = "add", !.on = dispatcher', !.tag = tag, !.left = {adds'},
                          !.must = IF Removals(dispatcher') = {} THEN {adds'} ELSE {}])
  /\ UNCHANGED <<holds, tagOf, emits, sure, removed>>

AddTo(t) ==
  /\ call[t].op = "add"
  /\ holds' = [holds EXCEPT ![call[t].on] = @ \cup call[t].left]
  /\ tagOf' = [l \in Listeners |-> IF l \in call[t].left THEN call[t].tag ELSE tagOf[l]]
  /\ sure' = sure \cup call[t].must
  /\ Sets(t, Idle)
  /\ UNCHANGED <<dispatcher, next, adds, emits, removed>>

(* A removal begins: nothing is promised of a listener that is being added  *)
(* to the same dispatcher, nor, in an emission under way, of those it takes.*)
Doubt(gone, t, c) ==
  call' = [u \in Callers |->
            IF u = t THEN c
            ELSE IF call[u].op = "add" /\ call[u].on = dispatcher THEN [call[u] EXCEPT !.must = {}]
            ELSE [call[u] EXCEPT !.must = @ \ gone]]

With(tag) == {l \in Listeners : tagOf[l] = tag}

(* delListener(tag, event) up to getDispatcher; `left' is what it removes   *)
(* for sure.                                                                *)
DelListener(t, tag) ==
  /\ call[t].op = "none" /\ dispatcher # NoDispatcher
  /\ Doubt(With(tag), t, [Idle EXCEPT !.op = "del", !.on = dispatcher, !.tag = tag,
                                      !.left = With(tag)])
  /\ sure' = sure \ With(tag)
  /\ UNCHANGED <<dispatcher, next, holds, tagOf, adds, emits, removed>>

DelFrom(t) ==
  LET on == call[t].on
  IN  /\ call[t].op = "del"
      /\ holds' = [holds EXCEPT ![on] = @ \ With(call[t].tag)]
      /\ removed' = removed \cup call[t].left
      /\ Sets(t, IF holds'[on] = {} THEN [call[t] EXCEPT !.op = "drop"] ELSE Idle)
      /\ UNCHANGED <<dispatcher, next, tagOf, adds, emits, sure>>

(* Mutant: whatever dispatcher the event has now is removed.                *)
DelDispatcherAny(t) ==
  /\ call[t].op = "drop"
  /\ dispatcher' = NoDispatcher
  /\ Sets(t, Idle)
  /\ UNCHANGED <<next, holds, tagOf, adds, emits, sure, removed>>

DelDispatcher(t) ==
  /\ call[t].op = "drop"
  /\ dispatcher' = IF dispatcher = call[t].on THEN NoDispatcher ELSE dispatcher
  /\ Sets(t, Idle)
  /\ UNCHANGED <<next, holds, tagOf, adds, emits, sure, removed>>

(* delListener(tag): under the mutex of the center throughout.              *)
DelEverywhere(t, tag) ==
  /\ call[t].op = "none" /\ dispatcher # NoDispatcher
  /\ holds' = [holds EXCEPT ![dispatcher] = @ \ With(tag)]
  /\ dispatcher' = IF holds'[dispatcher] = {} THEN NoDispatcher ELSE dispatcher
  /\ sure' = sure \ With(tag) /\ removed' = removed \cup With(tag)
  /\ Doubt(With(tag), t, Idle)
  /\ UNCHANGED <<next, tagOf, adds, emits>>

ClearAll(t) ==
  /\ call[t].op = "none" /\ dispatcher # NoDispatcher
  /\ dispatcher' = NoDispatcher
  /\ sure' = {} /\ removed' = removed \cup {l \in Listeners : tagOf[l] # NoTag}
  /\ Doubt(Listeners, t, Idle)
  /\ UNCHANGED <<next, holds, tagOf, adds, emits>>

-----------------------------------------------------------------------------
(* emitEvent_l: getDispatcher, the copy under its mutex, the calls.         *)

EmitEvent(t) ==
  /\ call[t].op = "none" /\ emits < MaxEmits
  /\ emits' = emits + 1
  /\ Sets(t, [Idle EXCEPT !.op = IF dispatcher = NoDispatcher THEN "emitted" ELSE "copy",
                          !.on = dispatcher, !.must = sure, !.never = removed])
  /\ UNCHANGED <<dispatcher, next, holds, tagOf, adds, sure, removed>>

CopyListeners(t) ==
  /\ call[t].op = "copy"
  /\ Sets(t, [call[t] EXCEPT !.op = "emit", !.left = holds[call[t].on]])
  /\ UNCHANGED <<dispatcher, next, holds, tagOf, adds, emits, sure, removed>>

(* A listener that throws InterruptException ends the emission.             *)
CallListener(t) ==
  /\ call[t].op = "emit"
  /\ \E l \in call[t].left, interrupt \in BOOLEAN :
       Sets(t, [call[t] EXCEPT !.called = @ \cup {l},
                               !.left = IF interrupt THEN {} ELSE @ \ {l},
                               !.must = IF interrupt THEN {} ELSE @])
  /\ UNCHANGED <<dispatcher, next, holds, tagOf, adds, emits, sure, removed>>

EmitDone(t) ==
  /\ call[t].op = "emit" /\ call[t].left = {}
  /\ Sets(t, [call[t] EXCEPT !.op = "emitted"])
  /\ UNCHANGED <<dispatcher, next, holds, tagOf, adds, emits, sure, removed>>

EmitReturns(t) ==
  /\ call[t].op = "emitted"
  /\ Sets(t, Idle)
  /\ UNCHANGED <<dispatcher, next, holds, tagOf, adds, emits, sure, removed>>

NotNext ==
  \E t \in Callers :
    \/ \E tag \in Tags : AddListener(t, tag) \/ DelListener(t, tag) \/ DelEverywhere(t, tag)
    \/ AddTo(t) \/ DelFrom(t) \/ DelDispatcher(t) \/ ClearAll(t)
    \/ EmitEvent(t) \/ CopyListeners(t) \/ CallListener(t) \/ EmitDone(t) \/ EmitReturns(t)

NotSpec == NotInit /\ [][NotNext]_notVars

-----------------------------------------------------------------------------
(* Properties.                                                              *)

NotTypeOK ==
  /\ dispatcher \in 0 .. next /\ next <= adds /\ adds <= MaxAdds /\ emits <= MaxEmits
  /\ \A d \in Listeners : holds[d] \subseteq 1 .. adds
  /\ sure \subseteq 1 .. adds /\ removed \subseteq 1 .. adds

(* An emission that no listener interrupts calls every listener that was    *)
(* added before it, unless a removal from the same dispatcher ran while that*)
(* one was added (see the README) or its own removal has begun; and it calls*)
(* none whose removal had ended before it began (addListener, delListener,  *)
(* delDispatcher, emitEvent).                                               *)
ListenersAreCalled ==
  \A t \in Callers :
    /\ call[t].op = "emitted" => call[t].must \subseteq call[t].called
    /\ call[t].op \in {"emit", "emitted"} => call[t].called \cap call[t].never = {}

=============================================================================
